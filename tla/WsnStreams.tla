----------------------------- MODULE WsnStreams -----------------------------
(***************************************************************************)
(* Which random numbers the simulations use: two processes, each running   *)
(* main of an entry point (scratch/*-sim.cc) or of the diagnostic          *)
(* (scratch/wsn-diag.cc) for the same layout, side by side.  The engine    *)
(* creates one variable for the field, and in every round one for the      *)
(* event and one for the election; what it draws from them is the business *)
(* of WsnEngine.                                                           *)
(*                                                                         *)
(* Bound: MaxRounds stands for --rounds.                                   *)
(***************************************************************************)
EXTENDS NsRng

CONSTANTS
  Seeds,       \* arguments of --seed
  DiagSeed,    \* the seed of the diagnostic (42)
  AnimStreams, \* how many variables the animation creates
  MaxRounds

ASSUME WsnStreamsAssumption ==
  Seeds \subseteq Nat /\ DiagSeed \in Seeds /\ AnimStreams \subseteq Nat \ {0} /\ MaxRounds \in Nat

Entry == {"leach", "esmac", "lecmac", "lecmac_plus"}
Program == Entry \cup {"diag"}
Run == {1, 2}

(* Only lecmac-sim has --enableAnim, and the diagnostic takes no seed. *)
CommandLine ==
  {c \in [program : Program, seed : Seeds, anim : BOOLEAN] :
     /\ c.anim => c.program = "lecmac"
     /\ c.program = "diag" => c.seed = DiagSeed}

VARIABLES
  main,   \* the command lines
  at,     \* where main is
  proc,   \* the processes, as far as NsRng goes
  round,  \* the round being simulated
  draws   \* the variables created for the simulation: their use and generator

vars == <<main, at, proc, round, draws>>

Init ==
  /\ main \in [Run -> CommandLine]
  /\ at = [i \in Run |-> "seed"]
  /\ proc = [i \in Run |-> Process]
  /\ round = [i \in Run |-> 0]
  /\ draws = [i \in Run |-> <<>>]

Goto(i, place) == at' = [at EXCEPT ![i] = IF proc'[i].failed THEN "failed" ELSE place]

Seeded(p, seed) == [p EXCEPT !.seed = seed, !.run = 1]

(* The command line is parsed, SetSeed and SetRun are called. *)
SetSeed(i) ==
  /\ at[i] = "seed"
  /\ proc' = [proc EXCEPT ![i] = Seeded(@, main[i].seed)]
  /\ Goto(i, CASE main[i].anim -> "anim"
               [] main[i].program = "diag" -> "diagLeach"
               [] OTHER -> "field")
  /\ UNCHANGED <<main, round, draws>>

(* The animation creates the variables of the position allocator and the   *)
(* one it places its own nodes with.                                       *)
Animate(i) ==
  /\ at[i] = "anim"
  /\ \E n \in AnimStreams :
       proc' = [proc EXCEPT ![i].failed = ~ValidSeed(proc[i]), ![i].next = @ + n]
  /\ Goto(i, "field")
  /\ UNCHANGED <<main, round, draws>>

Created(i, use) ==
  IF Refused(proc[i]) THEN <<>>
  ELSE <<[use |-> use, rng |-> Generator(proc[i], proc[i].next)]>>

(* Mutation of Draw: only LECMAC and LECMAC+ create the event's variable. *)
DrawIfUsed(i, use) ==
  IF use[1] = "event" /\ main[i].program \notin {"lecmac", "lecmac_plus"}
  THEN UNCHANGED <<proc, draws>>
  ELSE /\ proc' = [proc EXCEPT ![i] = AfterSetStream(@)]
       /\ draws' = [draws EXCEPT ![i] = @ \o Created(i, use)]

(* CreateObject<UniformRandomVariable>() *)
Draw(i, use) ==
  /\ proc' = [proc EXCEPT ![i] = AfterSetStream(@)]
  /\ draws' = [draws EXCEPT ![i] = @ \o Created(i, use)]

PrepareNodes(i) ==
  /\ at[i] = "field"
  /\ Draw(i, <<"field", 0>>)
  /\ Goto(i, "loop")
  /\ UNCHANGED <<main, round>>

SimulateRound(i) ==
  /\ at[i] = "loop" /\ round[i] < MaxRounds
  /\ round' = [round EXCEPT ![i] = @ + 1]
  /\ Draw(i, <<"event", round'[i]>>)
  /\ Goto(i, "elect")
  /\ UNCHANGED main

SelectClusterHeads(i) ==
  /\ at[i] = "elect"
  /\ Draw(i, <<"election", round[i]>>)
  /\ Goto(i, "loop")
  /\ UNCHANGED <<main, round>>

(* The last round, or one that left nobody alive. *)
Finish(i) ==
  /\ at[i] = "loop" /\ (round[i] = MaxRounds \/ round[i] > 0)
  /\ at' = [at EXCEPT ![i] = "done"]
  /\ UNCHANGED <<main, proc, round, draws>>

(* The diagnostic simulates one round of LEACH and one of LECMAC, each     *)
(* seeded and each with one variable for the field and the election.       *)
Diagnose(i) ==
  /\ at[i] \in {"diagLeach", "diagLecmac"}
  /\ Draw(i, <<"field", 0>>)
  /\ Goto(i, IF at[i] = "diagLeach" THEN "diagSeed" ELSE "done")
  /\ UNCHANGED <<main, round>>

DiagnoseAgain(i) ==
  /\ at[i] = "diagSeed"
  /\ proc' = [proc EXCEPT ![i] = Seeded(@, main[i].seed)]
  /\ Goto(i, "diagLecmac")
  /\ UNCHANGED <<main, round, draws>>

Step(i) ==
  \/ SetSeed(i) \/ Animate(i) \/ PrepareNodes(i) \/ SimulateRound(i)
  \/ SelectClusterHeads(i) \/ Finish(i) \/ Diagnose(i) \/ DiagnoseAgain(i)

Next == \E i \in Run : Step(i)

Spec == Init /\ [][Next]_vars

-----------------------------------------------------------------------------
Drawn(i) == Range(draws[i])

(* Protocols are compared on the same field and the same events: two       *)
(* simulations under one seed, neither with an animation, use the same     *)
(* random numbers for the field and, in every round both simulate, for the *)
(* event and the election (PrepareNodes, SimulateRound and                 *)
(* SelectClusterHeads of wsn-protocol-model.h, the mains).                 *)
SameDraws ==
  main[1].seed = main[2].seed /\ (\A i \in Run : main[i].program \in Entry /\ ~main[i].anim)
    => \A d \in Drawn(1), e \in Drawn(2) : d.use = e.use => d.rng = e.rng

(* What is drawn for one use says nothing about another use: the variables *)
(* of a process have places of their own.                                  *)
OwnStreams ==
  \A i \in Run : \A j, k \in DOMAIN draws[i] :
    draws[i][j].rng.place = draws[i][k].rng.place => j = k

(* "reproducible results with fixed RNG seed" (FINAL_SUMMARY.md:155): the  *)
(* same entry point under the same seed uses the same numbers.             *)
Reproducible ==
  main[1].program = main[2].program /\ main[1].program \in Entry /\ main[1].seed = main[2].seed
    => \A d \in Drawn(1), e \in Drawn(2) : d.use = e.use => d.rng = e.rng

=============================================================================
