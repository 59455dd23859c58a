------------------------------ MODULE SeedScan ------------------------------
(***************************************************************************)
(* The seed scan (seed_scan.py): for one seed after the other it runs      *)
(* ES-MAC and LEACH in every layout through the ns3 wrapper, reads the     *)
(* round of the first death out of the result file each simulator leaves,  *)
(* and stops at the first seed for which ES-MAC loses a node first         *)
(* everywhere.  The wrapper builds, then starts the simulator as its       *)
(* child; the scan kills the wrapper when the time is up, not the          *)
(* simulator.  All seeds of a protocol and layout share one result file.   *)
(*                                                                         *)
(* Bounds: LastSeed stands for 25, Rounds for 6000; ConsoleRounds are the  *)
(* rounds in which the engine prints (1 to 3, every 500th).                *)
(***************************************************************************)
EXTENDS Integers, Sequences

CONSTANTS
  LastLayout,     \* layouts 1 .. LastLayout are scanned
  LastSeed,       \* seeds 1 .. LastSeed are tried
  Rounds,         \* --rounds
  ConsoleRounds,  \* rounds in which the simulator prints a line
  OldFiles        \* contents the result files may have before the scan

Proto == <<"esmac", "leach">>
Layouts == 1 .. LastLayout
Task == Layouts \X {1, 2}
Seed == 1 .. LastSeed
Proc == Seed \X Task
Never == 9999
Failed == -1

ASSUME ScanAssumption ==
  /\ LastLayout \in Nat \ {0} /\ LastSeed \in Nat \ {0}
  /\ Rounds \in Nat /\ Rounds < Never

VARIABLES
  fnd,      \* the round in which the run of a seed loses its first node
  file,     \* the result file of a task
  proc,     \* the simulator started for a seed and task
  wrapper,  \* "idle", "build", "run" or "exited"
  seed,     \* the seed being tried
  task,     \* the run being made
  result,   \* what run_sim returned for the tasks of this seed
  verdict   \* "scanning", "good" or "nothing"

vars == <<fnd, file, proc, wrapper, seed, task, result, verdict>>
scanVars == <<seed, task, result, verdict>>

Current == <<seed, task>>

(* A file is a record of whether it exists and its rows. *)
Missing == [exists |-> FALSE, rows |-> <<>>]
WithRows(rows) == [exists |-> TRUE, rows |-> rows]
Row(p, r) == [round |-> r, dead |-> r >= fnd[p]]

(* What the run of a seed would report, in the terms of run_sim. *)
TrueFnd(p) == IF fnd[p] > Rounds THEN Never ELSE fnd[p]

Idle == [at |-> "none", round |-> 0, heard |-> TRUE]
Alive(p) == proc[p].at \notin {"none", "ended", "crashed"}

Init ==
  /\ fnd \in [Proc -> 1 .. Rounds + 1]
  /\ file \in [Task -> OldFiles]
  /\ proc = [p \in Proc |-> Idle]
  /\ wrapper = "idle"
  /\ seed = 1 /\ task = <<1, 1>>
  /\ result = [t \in Task |-> Never]
  /\ verdict = "scanning"

-----------------------------------------------------------------------------
(***************************************************************************)
(* A simulator: Run() of the engine, as far as its output goes.  A line    *)
(* printed when nobody holds the other end of the pipe is its end.         *)
(***************************************************************************)
Stopped(p, at) == [proc EXCEPT ![p] = [at |-> at, round |-> 0, heard |-> proc[p].heard]]
Goto(p, at) ==
  proc' = IF proc[p].heard THEN [proc EXCEPT ![p].at = at] ELSE Stopped(p, "crashed")

(* "WSN sim start" goes to the console before the file is touched. *)
SimStart(p) ==
  /\ proc[p].at = "start"
  /\ Goto(p, "truncate")
  /\ UNCHANGED <<fnd, file, wrapper, scanVars>>

(* Mutation of Header: the file is opened without truncating it. *)
HeaderAppended(f) == WithRows(f.rows)

(* The file as it is after the header line has been written. *)
Header(f) == WithRows(<<>>)

SimTruncate(p) ==
  /\ proc[p].at = "truncate"
  /\ file' = [file EXCEPT ![p[2]] = Header(@)]
  /\ proc' = [proc EXCEPT ![p].at = IF Rounds > 0 THEN "simulate" ELSE "summary",
                          ![p].round = 1]
  /\ UNCHANGED <<fnd, wrapper, scanVars>>

(* The round is simulated; it may be the one that leaves nobody alive.  In *)
(* that round and in ConsoleRounds a line is printed.                      *)
SimRound(p) ==
  /\ proc[p].at = "simulate"
  /\ \E last \in BOOLEAN :
       LET next == IF last THEN "appendLast" ELSE "append" IN
       /\ last => proc[p].round >= fnd[p]
       /\ IF last \/ proc[p].round \in ConsoleRounds
          THEN Goto(p, next)
          ELSE proc' = [proc EXCEPT ![p].at = next]
  /\ UNCHANGED <<fnd, file, wrapper, scanVars>>

(* The row is appended to whatever the file holds by now. *)
SimAppend(p) ==
  LET r == proc[p].round IN
  /\ proc[p].at \in {"append", "appendLast"}
  /\ file' = [file EXCEPT ![p[2]] = WithRows(Append(@.rows, Row(p, r)))]
  /\ proc' = [proc EXCEPT ![p].at = IF @ = "append" /\ r < Rounds THEN "simulate" ELSE "summary",
                          ![p].round = r + 1]
  /\ UNCHANGED <<fnd, wrapper, scanVars>>

(* The "DONE" line, after which the process returns from main. *)
SimEnd(p) ==
  /\ proc[p].at = "summary"
  /\ proc' = Stopped(p, IF proc[p].heard THEN "ended" ELSE "crashed")
  /\ UNCHANGED <<fnd, file, wrapper, scanVars>>

SimCrash(p) ==
  /\ Alive(p)
  /\ proc' = Stopped(p, "crashed")
  /\ UNCHANGED <<fnd, file, wrapper, scanVars>>

-----------------------------------------------------------------------------
(***************************************************************************)
(* The wrapper "ns3 run".                                                  *)
(***************************************************************************)
BuildDone ==
  /\ wrapper = "build"
  /\ wrapper' = "run"
  /\ proc' = [proc EXCEPT ![Current].at = "start"]
  /\ UNCHANGED <<fnd, file, scanVars>>

(* cmake_build exits with the code of the build. *)
BuildFails ==
  /\ wrapper = "build"
  /\ wrapper' = "exited"
  /\ UNCHANGED <<fnd, file, proc, scanVars>>

(* subprocess.run of the wrapper returns when its child has ended. *)
SimulatorDone == ~Alive(Current)

(* run_step forwards the simulator's return code, which nobody reads. *)
WrapperExits ==
  /\ wrapper = "run" /\ SimulatorDone
  /\ wrapper' = "exited"
  /\ UNCHANGED <<fnd, file, proc, scanVars>>

-----------------------------------------------------------------------------
(***************************************************************************)
(* The scan.                                                               *)
(***************************************************************************)
Launch ==
  /\ verdict = "scanning" /\ wrapper = "idle"
  /\ wrapper' = "build"
  /\ UNCHANGED <<fnd, file, proc, scanVars>>

DeadRows(rows) == {i \in 1 .. Len(rows) : rows[i].dead}

(* Mutation of FirstDeath: 0 when nobody died. *)
FirstDeathOrZero(rows) ==
  IF DeadRows(rows) = {} THEN 0
  ELSE rows[CHOOSE i \in DeadRows(rows) : \A j \in DeadRows(rows) : i <= j].round

(* The round of the first row with a dead node. *)
FirstDeath(rows) ==
  IF DeadRows(rows) = {} THEN Never
  ELSE rows[CHOOSE i \in DeadRows(rows) : \A j \in DeadRows(rows) : i <= j].round

ReadFile(t) == IF file[t].exists THEN FirstDeath(file[t].rows) ELSE Never

(* Mutation of InOrder: a draw counts as the order wanted. *)
InOrderOrEqual(res) == \A l \in Layouts : res[<<l, 1>>] <= res[<<l, 2>>]

InOrder(res) == \A l \in Layouts : res[<<l, 1>>] < res[<<l, 2>>]

(* run_sim returns res: on to the next run, the next seed or the end. *)
Return(res) ==
  LET now == [result EXCEPT ![task] = res] IN
  /\ wrapper' = "idle"
  /\ result' = now
  /\ IF task[2] = 1
     THEN task' = <<task[1], 2>> /\ UNCHANGED <<seed, verdict>>
     ELSE IF task[1] + 1 \in Layouts
     THEN task' = <<task[1] + 1, 1>> /\ UNCHANGED <<seed, verdict>>
     ELSE IF InOrder(now)
     THEN verdict' = "good" /\ UNCHANGED <<seed, task>>
     ELSE IF seed < LastSeed
     THEN seed' = seed + 1 /\ task' = <<1, 1>> /\ UNCHANGED verdict
     ELSE verdict' = "nothing" /\ UNCHANGED <<seed, task>>

ReadResult ==
  /\ wrapper = "exited"
  /\ Return(ReadFile(task))
  /\ UNCHANGED <<fnd, file, proc>>

(* Mutation of InFlight: the clock starts when the simulator does. *)
InFlightSimulator == {"run"}

InFlight == {"build", "run"}

(* The time is up: the wrapper is killed and the pipes are closed, the     *)
(* simulator, if it was started, is on its own.                            *)
Timeout ==
  /\ wrapper \in InFlight
  /\ proc' = [proc EXCEPT ![Current].heard = FALSE]
  /\ Return(Failed)
  /\ UNCHANGED <<fnd, file>>

Simulator(p) ==
  SimStart(p) \/ SimTruncate(p) \/ SimRound(p) \/ SimAppend(p) \/ SimEnd(p)
Scan == Launch \/ ReadResult
Wrapper == BuildDone \/ WrapperExits

Next ==
  \/ Scan \/ Wrapper \/ BuildFails \/ Timeout
  \/ \E p \in Proc : Simulator(p) \/ SimCrash(p)

(* The scan takes its steps and its clock runs; of the wrapper and the     *)
(* simulators nothing is assumed.                                          *)
Spec == Init /\ [][Next]_vars /\ WF_vars(Scan) /\ WF_vars(Timeout)

-----------------------------------------------------------------------------
(***************************************************************************)
(* Properties.                                                             *)
(***************************************************************************)

(* The run came to its end before the time-out. *)
InTime(p) == proc[p].at = "ended" /\ proc[p].heard

(* Besides, no run that writes to the same file was given up before it:    *)
(* nobody else has touched the file since.                                 *)
Clean(p) ==
  /\ InTime(p)
  /\ \A s \in 1 .. p[1] - 1 : proc[<<s, p[2]>>].heard

(* "GOOD SEED (all 4 layouts: ES-MAC FND < LEACH FND)" (seed_scan.py:58):  *)
(* the seed announced has this order in every layout whose runs were clean *)
(* - whatever failed, timed out or was left behind elsewhere.              *)
GoodSeedIsGood ==
  verdict = "good" => \A l \in Layouts :
    Clean(<<seed, <<l, 1>>>>) /\ Clean(<<seed, <<l, 2>>>>) =>
      TrueFnd(<<seed, <<l, 1>>>>) < TrueFnd(<<seed, <<l, 2>>>>)

(* No good seed was passed over: a seed given up whose runs were all clean *)
(* breaks the order in some layout.                                        *)
NoGoodSeedMissed ==
  \A s \in Seed :
    (s < seed \/ verdict = "nothing") /\ (\A t \in Task : Clean(<<s, t>>)) =>
      \E l \in Layouts : TrueFnd(<<s, <<l, 1>>>>) >= TrueFnd(<<s, <<l, 2>>>>)

(* run_sim reads the rows of its own run if that run was clean. *)
FileIsOwn == wrapper = "exited" /\ Clean(Current) => ReadFile(task) = TrueFnd(Current)

(* At most one simulator of the runs not given up is alive. *)
OneAtATime ==
  \A p \in Proc : Alive(p) /\ proc[p].heard => p = Current

(* The scan ends whatever the wrappers and simulators do. *)
ScanTerminates == <>(verdict # "scanning")

-----------------------------------------------------------------------------
(***************************************************************************)
(* What the script says and does not do.                                   *)
(***************************************************************************)

(* "GOOD SEED = {seed} (all 4 layouts: ES-MAC FND < LEACH FND)"            *)
(* (seed_scan.py:58): the seed announced has this order wherever the run   *)
(* of LEACH came to its end in time, also when that of ES-MAC was cut off, *)
(* which counts as -1 (line 41), and when simulators given up with earlier *)
(* seeds write into the files of this one (line 24).                       *)
AnnouncedIsGood ==
  verdict = "good" => \A l \in Layouts : InTime(<<seed, <<l, 2>>>>) =>
    TrueFnd(<<seed, <<l, 1>>>>) < TrueFnd(<<seed, <<l, 2>>>>)

=============================================================================
