--------------------------- MODULE SeedScanProofs ---------------------------
(***************************************************************************)
(* What the seed scan reads: whatever fails or runs out of time, a run     *)
(* that was clean is read as what it was, so a seed announced as good is   *)
(* good, and one given up is not, as far as its runs were clean.           *)
(***************************************************************************)
EXTENDS SeedScan, TLAPS

At == {"none", "start", "truncate", "simulate", "append", "appendLast", "summary", "ended",
       "crashed"}

ScanTypeOK ==
  /\ fnd \in [Proc -> Nat \ {0}]
  /\ file = [t \in Task |-> file[t]]
  /\ proc \in [Proc -> [at : At, round : Nat, heard : BOOLEAN]]
  /\ wrapper \in {"idle", "build", "run", "exited"}
  /\ seed \in Seed /\ task \in Task
  /\ result = [t \in Task |-> result[t]]
  /\ verdict \in {"scanning", "good", "nothing"}

(* The order in which the scan makes its runs. *)
TaskBefore(t, u) == t[1] < u[1] \/ (t[1] = u[1] /\ t[2] < u[2])
Upcoming(p) == p[1] > seed \/ (p[1] = seed /\ ~TaskBefore(p[2], task))

(* Only the current simulator is alive and heard, and only while the       *)
(* wrapper waits for it; runs to come have neither started nor been given  *)
(* up.                                                                     *)
ScanInv ==
  /\ \A p \in Proc : Alive(p) /\ proc[p].heard => p = Current /\ wrapper = "run"
  /\ verdict = "scanning" => \A p \in Proc : Upcoming(p) =>
       /\ proc[p].heard
       /\ p # Current \/ wrapper \in {"idle", "build"} => proc[p].at = "none"
  /\ wrapper # "idle" => verdict = "scanning"

RowsTo(p, k) == [i \in 1 .. k |-> Row(p, i)]

(* None of the runs of earlier seeds that write to this file was given up. *)
Undisturbed == \A s \in 1 .. seed - 1 : proc[<<s, task>>].heard

(* The rows of the file are those the simulator has written so far, and in *)
(* the end all of them.                                                    *)
Complete(p) ==
  \E k \in 0 .. Rounds : file[p[2]] = WithRows(RowsTo(p, k)) /\ (k = Rounds \/ k >= fnd[p])
Writing(p) ==
  /\ proc[p].at \in {"simulate", "append", "appendLast"} =>
       /\ proc[p].round \in 1 .. Rounds
       /\ file[p[2]] = WithRows(RowsTo(p, proc[p].round - 1))
  /\ proc[p].at = "appendLast" => proc[p].round >= fnd[p]
  /\ proc[p].at \in {"summary", "ended"} => Complete(p)
FileInv == Undisturbed /\ wrapper \in {"run", "exited"} => Writing(Current)

-----------------------------------------------------------------------------
(* What a simulator's rows are made of. *)
LEMMA RowsFacts ==
  ASSUME NEW p
  PROVE  /\ RowsTo(p, 0) = <<>>
         /\ \A k \in Nat \ {0} : Append(RowsTo(p, k - 1), Row(p, k)) = RowsTo(p, k)
<1>1. RowsTo(p, 0) = <<>>
  BY DEF RowsTo
<1>2. ASSUME NEW k \in Nat \ {0}
      PROVE  Append(RowsTo(p, k - 1), Row(p, k)) = RowsTo(p, k)
  BY DEF RowsTo
<1> QED
  BY <1>1, <1>2

(* The first death in a complete file is the one the run reports. *)
LEMMA FirstDeathIsTrue ==
  ASSUME ScanTypeOK, NEW p \in Proc, Complete(p)
  PROVE  ReadFile(p[2]) = TrueFnd(p)
<1>1. PICK k \in 0 .. Rounds : file[p[2]] = WithRows(RowsTo(p, k)) /\ (k = Rounds \/ k >= fnd[p])
  BY DEF Complete
<1>2. k \in Nat /\ Rounds \in Nat /\ k <= Rounds /\ fnd[p] \in Nat /\ fnd[p] > 0
  BY ScanAssumption DEF ScanTypeOK
<1> DEFINE rows == RowsTo(p, k)
<1>3. /\ Len(rows) = k
      /\ \A i \in 1 .. k : rows[i].round = i /\ (rows[i].dead <=> i >= fnd[p])
  <2>1. Len(rows) = k /\ \A i \in 1 .. k : rows[i] = Row(p, i)
    BY <1>2 DEF RowsTo
  <2>2. \A i \in 1 .. k : Row(p, i).round = i /\ (Row(p, i).dead <=> i >= fnd[p])
    BY DEF Row
  <2> QED
    BY <2>1, <2>2
<1>4. ReadFile(p[2]) = FirstDeath(rows)
  BY <1>1 DEF ReadFile, WithRows
<1> HIDE DEF rows
<1>5. DeadRows(rows) = {i \in 1 .. k : i >= fnd[p]}
  BY <1>3 DEF DeadRows
<1>6. CASE k < fnd[p]
  <2>1. DeadRows(rows) = {} /\ fnd[p] > Rounds
    BY <1>1, <1>2, <1>5, <1>6
  <2> QED
    BY <1>4, <2>1 DEF FirstDeath, TrueFnd
<1>7. CASE k >= fnd[p]
  <2>1. fnd[p] \in DeadRows(rows) /\ fnd[p] <= Rounds
    BY <1>2, <1>5, <1>7
  <2>2. (CHOOSE i \in DeadRows(rows) : \A j \in DeadRows(rows) : i <= j) = fnd[p]
    <3>1. \A j \in DeadRows(rows) : fnd[p] <= j /\ j \in Nat
      BY <1>2, <1>5
    <3>2. \A i \in DeadRows(rows) : (\A j \in DeadRows(rows) : i <= j) => i = fnd[p]
      BY <1>2, <2>1, <3>1
    <3> QED
      BY <2>1, <3>1, <3>2
  <2>3. rows[fnd[p]].round = fnd[p]
    BY <1>2, <1>3, <1>7
  <2>4. FirstDeath(rows) = rows[CHOOSE i \in DeadRows(rows) : \A j \in DeadRows(rows) : i <= j].round
    BY <2>1 DEF FirstDeath
  <2>5. FirstDeath(rows) = fnd[p]
    BY <2>2, <2>3, <2>4
  <2>6. TrueFnd(p) = fnd[p]
    BY <1>2, <2>1 DEF TrueFnd
  <2> QED
    BY <1>4, <2>5, <2>6
<1> QED
  BY <1>2, <1>6, <1>7

-----------------------------------------------------------------------------
(* The current run and what follows it. *)
LEMMA CurrentFacts ==
  ASSUME ScanTypeOK
  PROVE  /\ Current \in Proc /\ Current[1] = seed /\ Current[2] = task
         /\ Upcoming(Current)
         /\ seed \in Nat /\ task[1] \in Nat /\ task[2] \in {1, 2} /\ task \in Task
         /\ \A p \in Proc : p = <<p[1], p[2]>> /\ p[1] \in Nat /\ p[2] \in Task
         /\ \A t \in Task : t = <<t[1], t[2]>> /\ t[1] \in Nat /\ t[2] \in {1, 2}
<1>1. Current \in Proc /\ seed \in Nat /\ task \in Task
  BY DEF ScanTypeOK, Current, Proc, Seed
<1>2. \A t \in Task : t = <<t[1], t[2]>> /\ t[1] \in Nat /\ t[2] \in {1, 2}
  BY DEF Task, Layouts
<1>3. \A p \in Proc : p = <<p[1], p[2]>> /\ p[1] \in Nat /\ p[2] \in Task
  BY DEF Proc, Seed
<1>4. Current[1] = seed /\ Current[2] = task
  BY DEF Current
<1>5. Upcoming(Current)
  BY <1>1, <1>2, <1>4 DEF Upcoming, TaskBefore
<1> QED
  BY <1>1, <1>2, <1>3, <1>4, <1>5

(* After Return the next run is an upcoming one, and no longer the old one *)
(* unless the scan is over.                                                *)
LEMMA ReturnFacts ==
  ASSUME ScanTypeOK, NEW res, Return(res)
  PROVE  /\ seed' \in Seed /\ task' \in Task
         /\ verdict' \in {"scanning", "good", "nothing"} \/ verdict' = verdict
         /\ wrapper' = "idle" /\ result' = [result EXCEPT ![task] = res]
         /\ verdict' = verdict /\ verdict = "scanning" =>
              \A p \in Proc : Upcoming(p)' => Upcoming(p) /\ p # Current
<1> USE ScanAssumption
<1>0. /\ seed \in Seed /\ seed \in Nat /\ task \in Task /\ task[1] \in Layouts /\ task[2] \in {1, 2}
      /\ LastSeed \in Nat /\ LastLayout \in Nat /\ LastLayout >= 1
  BY DEF ScanTypeOK, Seed, Task
<1>1. CASE task[2] = 1
  BY <1>0, <1>1, CurrentFacts DEF Return, Upcoming, TaskBefore, Task
<1>2. CASE task[2] = 2
  BY <1>0, <1>2, CurrentFacts DEF Return, Upcoming, TaskBefore, Task, Layouts, Seed
<1> QED
  BY <1>0, <1>1, <1>2

(* A simulator changes its own state, and of the files only its own.       *)
LEMMA SimulatorFacts ==
  ASSUME ScanTypeOK, NEW p \in Proc, Simulator(p) \/ SimCrash(p)
  PROVE  /\ Alive(p) /\ proc'[p].heard = proc[p].heard
         /\ proc'[p] \in [at : At, round : Nat, heard : BOOLEAN]
         /\ proc' = [proc EXCEPT ![p] = proc'[p]]
         /\ file' = [file EXCEPT ![p[2]] = file'[p[2]]]
         /\ UNCHANGED <<fnd, wrapper, scanVars>>
<1>0. /\ proc \in [Proc -> [at : At, round : Nat, heard : BOOLEAN]]
      /\ file = [t \in Task |-> file[t]] /\ p[2] \in Task
      /\ proc[p].round \in Nat /\ proc[p].heard \in BOOLEAN
  BY CurrentFacts DEF ScanTypeOK
<1>1. UNCHANGED <<fnd, wrapper, scanVars>>
  BY DEF Simulator, SimStart, SimTruncate, SimRound, SimAppend, SimEnd, SimCrash
<1>2. Alive(p)
  BY DEF Simulator, SimStart, SimTruncate, SimRound, SimAppend, SimEnd, SimCrash, Alive
<1>3. file' = [file EXCEPT ![p[2]] = file'[p[2]]]
  BY <1>0 DEF Simulator, SimStart, SimTruncate, SimRound, SimAppend, SimEnd, SimCrash
<1>4. ASSUME NEW at \in At, Goto(p, at)
      PROVE  /\ proc'[p].heard = proc[p].heard
             /\ proc'[p] \in [at : At, round : Nat, heard : BOOLEAN]
             /\ proc' = [proc EXCEPT ![p] = proc'[p]]
  BY <1>0, <1>4 DEF Goto, Stopped, At
<1>5. /\ proc'[p].heard = proc[p].heard
      /\ proc'[p] \in [at : At, round : Nat, heard : BOOLEAN]
      /\ proc' = [proc EXCEPT ![p] = proc'[p]]
  <2>1. CASE SimStart(p)
    BY <1>4, <2>1 DEF SimStart, At
  <2>2. CASE SimTruncate(p)
    BY <1>0, <2>2 DEF SimTruncate, At
  <2>3. CASE SimRound(p)
    <3>1. PICK last \in BOOLEAN :
            LET next == IF last THEN "appendLast" ELSE "append" IN
            Goto(p, next) \/ proc' = [proc EXCEPT ![p].at = next]
      BY <2>3 DEF SimRound
    <3>2. (IF last THEN "appendLast" ELSE "append") \in At
      BY DEF At
    <3> QED
      BY <1>0, <1>4, <3>1, <3>2
  <2>4. CASE SimAppend(p)
    BY <1>0, <2>4 DEF SimAppend, At
  <2>5. CASE SimEnd(p) \/ SimCrash(p)
    BY <1>0, <2>5 DEF SimEnd, SimCrash, Stopped, At
  <2> QED
    BY <2>1, <2>2, <2>3, <2>4, <2>5 DEF Simulator
<1> QED
  BY <1>1, <1>2, <1>3, <1>5

(* Types and ScanInv are preserved. *)
LEMMA ScanStep ==
  ASSUME ScanTypeOK, ScanInv, [Next]_vars
  PROVE  ScanTypeOK' /\ ScanInv'
<1> USE ScanAssumption
<1>0. /\ proc \in [Proc -> [at : At, round : Nat, heard : BOOLEAN]]
      /\ file = [t \in Task |-> file[t]] /\ result = [t \in Task |-> result[t]]
      /\ Current \in Proc /\ task \in Task /\ Upcoming(Current)
  BY CurrentFacts DEF ScanTypeOK
<1>1. ASSUME NEW p \in Proc, Simulator(p) \/ SimCrash(p)
      PROVE  ScanTypeOK' /\ ScanInv'
  <2>1. ScanTypeOK'
    BY <1>0, <1>1, SimulatorFacts, CurrentFacts DEF ScanTypeOK, scanVars
  <2>2. ASSUME NEW q \in Proc
        PROVE  /\ proc'[q].heard = proc[q].heard /\ (Alive(q)' => Alive(q))
               /\ proc[q].at = "none" => proc'[q].at = "none"
    BY <1>0, <1>1, SimulatorFacts DEF Alive
  <2>3. UNCHANGED <<wrapper, seed, task, verdict>>
    BY <1>1, SimulatorFacts DEF scanVars
  <2> QED
    BY <2>1, <2>2, <2>3 DEF ScanInv, Upcoming, TaskBefore, Current
<1>2. CASE Launch \/ BuildFails \/ WrapperExits
  <2>1. UNCHANGED <<fnd, file, proc, seed, task, result, verdict>>
    BY <1>2 DEF Launch, BuildFails, WrapperExits, scanVars
  <2>2. ScanTypeOK'
    BY <1>2, <2>1 DEF Launch, BuildFails, WrapperExits, ScanTypeOK
  <2>3. ScanInv'
    BY <1>2, <2>1 DEF Launch, BuildFails, WrapperExits, SimulatorDone, ScanInv, Upcoming,
                      TaskBefore, Current, Alive
  <2> QED
    BY <2>2, <2>3
<1>3. CASE BuildDone
  <2>1. /\ UNCHANGED <<fnd, file, seed, task, result, verdict>>
        /\ wrapper = "build" /\ wrapper' = "run"
        /\ proc' = [proc EXCEPT ![Current].at = "start"]
    BY <1>3 DEF BuildDone, scanVars
  <2>2. ScanTypeOK'
    BY <1>0, <2>1 DEF ScanTypeOK, At
  <2>3. \A q \in Proc : /\ proc'[q].heard = proc[q].heard
                        /\ q # Current => (Alive(q)' <=> Alive(q)) /\ proc'[q] = proc[q]
    BY <1>0, <2>1 DEF Alive
  <2>4. ScanInv'
    BY <2>1, <2>3 DEF ScanInv, Upcoming, TaskBefore, Current
  <2> QED
    BY <2>2, <2>4
<1>4. CASE ReadResult
  <2>1. UNCHANGED <<fnd, file, proc>> /\ Return(ReadFile(task)) /\ wrapper = "exited"
    BY <1>4 DEF ReadResult
  <2>2. ScanTypeOK'
    BY <1>0, <2>1, ReturnFacts DEF ScanTypeOK
  <2>3. ScanInv'
    <3>1. verdict = "scanning" /\ \A p \in Proc : ~(Alive(p) /\ proc[p].heard)
      BY <2>1 DEF ScanInv
    <3>2. wrapper' = "idle" /\ \A p \in Proc : (Alive(p)' <=> Alive(p)) /\ proc'[p] = proc[p]
      BY <2>1, ReturnFacts DEF Alive
    <3>3. verdict' = "scanning" => \A p \in Proc : Upcoming(p)' => Upcoming(p) /\ p # Current
      BY <2>1, <3>1, ReturnFacts
    <3> QED
      BY <3>1, <3>2, <3>3 DEF ScanInv
  <2> QED
    BY <2>2, <2>3
<1>5. CASE Timeout
  <2>1. /\ UNCHANGED <<fnd, file>> /\ Return(Failed) /\ wrapper # "idle"
        /\ proc' = [proc EXCEPT ![Current].heard = FALSE]
    BY <1>5 DEF Timeout, InFlight
  <2>2. ScanTypeOK'
    BY <1>0, <2>1, ReturnFacts DEF ScanTypeOK
  <2>3. ScanInv'
    <3>1. verdict = "scanning" /\ \A p \in Proc : Alive(p) /\ proc[p].heard => p = Current
      BY <2>1 DEF ScanInv
    <3>2. \A p \in Proc : /\ Alive(p)' <=> Alive(p)
                          /\ p # Current => proc'[p] = proc[p]
                          /\ p = Current => ~proc'[p].heard
      BY <1>0, <2>1 DEF Alive
    <3>3. verdict' = "scanning" => \A p \in Proc : Upcoming(p)' => Upcoming(p) /\ p # Current
      BY <2>1, <3>1, ReturnFacts
    <3>4. wrapper' = "idle"
      BY <2>1, ReturnFacts
    <3> QED
      BY <3>1, <3>2, <3>3, <3>4 DEF ScanInv
  <2> QED
    BY <2>2, <2>3
<1>6. CASE UNCHANGED vars
  BY <1>6 DEF vars, scanVars, ScanTypeOK, ScanInv, Upcoming, TaskBefore, Current, Alive
<1> QED
  BY <1>1, <1>2, <1>3, <1>4, <1>5, <1>6 DEF Next, Scan, Wrapper

(* A step of the current simulator keeps its file as Writing says.         *)
LEMMA WritingStep ==
  ASSUME ScanTypeOK, NEW p \in Proc, Simulator(p), Writing(p), proc[p].heard
  PROVE  Writing(p)'
<1> USE ScanAssumption
<1>0. /\ proc \in [Proc -> [at : At, round : Nat, heard : BOOLEAN]]
      /\ file = [t \in Task |-> file[t]] /\ p[2] \in Task
      /\ proc[p].round \in Nat /\ fnd[p] \in Nat /\ Rounds \in Nat
  BY CurrentFacts DEF ScanTypeOK
<1>1. UNCHANGED fnd
  BY SimulatorFacts
<1>2. \A k : RowsTo(p, k)' = RowsTo(p, k)
  BY <1>1 DEF RowsTo, Row
<1>3. CASE SimStart(p)
  <2>1. proc'[p].at = "truncate"
    BY <1>0, <1>3 DEF SimStart, Goto
  <2> QED
    BY <2>1 DEF Writing
<1>4. CASE SimTruncate(p)
  <2>1. /\ proc'[p].at = IF Rounds > 0 THEN "simulate" ELSE "summary"
        /\ proc'[p].round = 1 /\ file'[p[2]] = WithRows(<<>>)
    BY <1>0, <1>4 DEF SimTruncate, Header
  <2>2. CASE Rounds > 0
    <3>1. file'[p[2]] = WithRows(RowsTo(p, 1 - 1)) /\ 1 \in 1 .. Rounds
      BY <1>0, <2>1, <2>2, RowsFacts
    <3> QED
      BY <1>2, <2>1, <2>2, <3>1 DEF Writing
  <2>3. CASE Rounds = 0
    <3>1. file'[p[2]] = WithRows(RowsTo(p, 0)) /\ 0 \in 0 .. Rounds
      BY <1>0, <2>1, <2>3, RowsFacts
    <3>2. Complete(p)'
      BY <1>2, <2>3, <3>1 DEF Complete
    <3> QED
      BY <2>1, <2>3, <3>2 DEF Writing
  <2> QED
    BY <1>0, <2>2, <2>3
<1>5. CASE SimRound(p)
  <2>1. PICK last \in BOOLEAN :
          /\ last => proc[p].round >= fnd[p]
          /\ proc' = [proc EXCEPT ![p].at = IF last THEN "appendLast" ELSE "append"]
    BY <1>5 DEF SimRound, Goto
  <2>2. /\ proc'[p].at = (IF last THEN "appendLast" ELSE "append")
        /\ proc'[p].round = proc[p].round /\ file' = file /\ proc[p].at = "simulate"
    BY <1>0, <1>5, <2>1 DEF SimRound
  <2> QED
    BY <1>1, <1>2, <2>1, <2>2 DEF Writing
<1>6. CASE SimAppend(p)
  <2> DEFINE r == proc[p].round
  <2>1. /\ r \in 1 .. Rounds /\ file[p[2]] = WithRows(RowsTo(p, r - 1))
        /\ proc[p].at = "appendLast" => r >= fnd[p]
        /\ proc[p].at \in {"append", "appendLast"}
    BY <1>6 DEF SimAppend, Writing
  <2>2. /\ file'[p[2]] = WithRows(Append(RowsTo(p, r - 1), Row(p, r)))
        /\ proc'[p].at = IF proc[p].at = "append" /\ r < Rounds THEN "simulate" ELSE "summary"
        /\ proc'[p].round = r + 1
    <3>1. file'[p[2]] = WithRows(Append(file[p[2]].rows, Row(p, r)))
      BY <1>0, <1>6 DEF SimAppend
    <3>2. file[p[2]].rows = RowsTo(p, r - 1)
      BY <2>1 DEF WithRows
    <3>3. /\ proc'[p].at = IF proc[p].at = "append" /\ r < Rounds THEN "simulate" ELSE "summary"
          /\ proc'[p].round = r + 1
      BY <1>0, <1>6 DEF SimAppend
    <3> QED
      BY <3>1, <3>2, <3>3
  <2>3. r \in Nat \ {0} /\ Append(RowsTo(p, r - 1), Row(p, r)) = RowsTo(p, r)
    <3>1. r \in Nat \ {0}
      BY <1>0, <2>1
    <3> QED
      BY <3>1, RowsFacts
  <2>4. CASE proc[p].at = "append" /\ r < Rounds
    <3>1. r + 1 \in 1 .. Rounds /\ (r + 1) - 1 = r
      BY <1>0, <2>1, <2>4
    <3> QED
      BY <1>2, <2>2, <2>3, <2>4, <3>1 DEF Writing
  <2>5. CASE ~(proc[p].at = "append" /\ r < Rounds)
    <3>1. r = Rounds \/ r >= fnd[p]
      BY <1>0, <2>1, <2>5
    <3>2. Complete(p)'
      <4>1. PICK k \in 0 .. Rounds : k = r
        BY <1>0, <2>1
      <4>2. file'[p[2]] = WithRows(RowsTo(p, k)') /\ (k = Rounds \/ k >= fnd'[p])
        BY <1>1, <1>2, <2>2, <2>3, <3>1, <4>1
      <4> QED
        BY <4>2 DEF Complete
    <3> QED
      BY <2>2, <2>5, <3>2 DEF Writing
  <2> QED
    BY <2>4, <2>5
<1>7. CASE SimEnd(p)
  <2>1. proc'[p].at = "ended" /\ file' = file /\ Complete(p)
    BY <1>0, <1>7 DEF SimEnd, Stopped, Writing
  <2> QED
    BY <1>1, <1>2, <2>1 DEF Writing, Complete
<1> QED
  BY <1>3, <1>4, <1>5, <1>6, <1>7 DEF Simulator

(* Nobody else writes to the file of an undisturbed run.                   *)
LEMMA FileStep ==
  ASSUME ScanTypeOK, ScanInv, FileInv, [Next]_vars
  PROVE  FileInv'
<1> SUFFICES ASSUME Undisturbed', wrapper' \in {"run", "exited"}
             PROVE  Writing(Current)'
  BY DEF FileInv
<1>0. /\ proc \in [Proc -> [at : At, round : Nat, heard : BOOLEAN]]
      /\ file = [t \in Task |-> file[t]] /\ Current \in Proc /\ Current[2] = task /\ task \in Task
      /\ seed \in Nat /\ Upcoming(Current)
  BY CurrentFacts DEF ScanTypeOK
<1>1. ASSUME NEW p \in Proc, Simulator(p) \/ SimCrash(p)
      PROVE  Writing(Current)'
  <2>1. UNCHANGED <<fnd, wrapper, seed, task, verdict>> /\ Alive(p)
    BY <1>1, SimulatorFacts DEF scanVars
  <2>2. \A q \in Proc : proc'[q].heard = proc[q].heard /\ (q # p => proc'[q] = proc[q])
    BY <1>0, <1>1, SimulatorFacts
  <2>3. Undisturbed
    <3>1. \A s \in 1 .. seed - 1 : <<s, task>> \in Proc
      <4>1. \A s \in 1 .. seed - 1 : s \in Seed
        BY ScanAssumption DEF Seed, ScanTypeOK
      <4> QED
        BY <1>0, <4>1 DEF Proc
    <3> QED
      BY <2>1, <2>2, <3>1 DEF Undisturbed
  <2>4. Writing(Current) /\ verdict = "scanning"
    BY <2>1, <2>3 DEF FileInv, ScanInv
  <2>5. proc[Current].heard
    BY <1>0, <2>4 DEF ScanInv
  <2>6. CASE p = Current
    <3>1. CASE Simulator(p)
      BY <2>1, <2>4, <2>5, <2>6, <3>1, WritingStep DEF Current
    <3>2. CASE SimCrash(p)
      <4>1. proc'[p].at = "crashed"
        BY <1>0, <3>2 DEF SimCrash, Stopped
      <4> QED
        BY <2>1, <2>6, <4>1 DEF Writing, Current
    <3> QED
      BY <1>1, <3>1, <3>2
  <2>7. CASE p # Current
    <3>1. p[2] # task
      <4>1. SUFFICES ASSUME p[2] = task PROVE FALSE
        OBVIOUS
      <4>2. p = <<p[1], task>> /\ p[1] \in Nat /\ p[1] > 0
        BY <4>1, CurrentFacts DEF Proc, Seed
      <4>3. CASE p[1] < seed
        BY <1>0, <2>1, <2>3, <2>7, <4>2, <4>3 DEF Undisturbed, ScanInv
      <4>4. CASE p[1] >= seed
        <5>1. Upcoming(p)
          <6>1. ~TaskBefore(task, task)
            BY <1>0, CurrentFacts DEF TaskBefore
          <6> QED
            BY <1>0, <4>1, <4>2, <4>4, <6>1 DEF Upcoming
        <5> QED
          BY <2>1, <2>4, <2>7, <5>1 DEF ScanInv
      <4> QED
        BY <1>0, <4>2, <4>3, <4>4
    <3>2. file'[task] = file[task] /\ proc'[Current] = proc[Current]
      BY <1>0, <1>1, <2>2, <2>7, <3>1, SimulatorFacts
    <3> QED
      BY <1>0, <2>1, <2>4, <3>2 DEF Writing, Complete, RowsTo, Row, Current
  <2> QED
    BY <2>6, <2>7
<1>2. CASE BuildDone
  <2>1. /\ UNCHANGED <<seed, task>> /\ wrapper' = "run" /\ proc'[Current].at = "start"
    BY <1>0, <1>2 DEF BuildDone, scanVars
  <2> QED
    BY <2>1 DEF Writing, Current
<1>3. CASE WrapperExits
  <2>1. /\ UNCHANGED <<fnd, file, proc, seed, task>> /\ wrapper = "run" /\ ~Alive(Current)
    BY <1>3 DEF WrapperExits, SimulatorDone, scanVars
  <2>2. Writing(Current)
    BY <2>1 DEF FileInv, Undisturbed
  <2> QED
    BY <2>1, <2>2 DEF Writing, Complete, RowsTo, Row, Current
<1>4. CASE UNCHANGED vars
  BY <1>4 DEF vars, scanVars, FileInv, Undisturbed, Writing, Complete, RowsTo, Row, Current
<1>5. CASE BuildFails
  <2>1. UNCHANGED <<proc, seed, task>> /\ proc[Current].at = "none"
    BY <1>0, <1>5 DEF BuildFails, scanVars, ScanInv
  <2> QED
    BY <2>1 DEF Writing, Current
<1>6. ~Launch /\ ~ReadResult /\ ~Timeout
  BY ReturnFacts DEF Launch, ReadResult, Timeout
<1> QED
  BY <1>1, <1>2, <1>3, <1>4, <1>5, <1>6 DEF Next, Scan, Wrapper

(* The invariant of the scan holds whatever fails or runs out of time.     *)
THEOREM ScanInvariant == Spec => [](ScanTypeOK /\ ScanInv /\ FileInv)
<1>1. Init => ScanTypeOK /\ ScanInv /\ FileInv
  <2> SUFFICES ASSUME Init PROVE ScanTypeOK /\ ScanInv /\ FileInv
    OBVIOUS
  <2>1. <<1, 1>> \in Task /\ 1 \in Seed /\ Rounds \in Nat
    BY ScanAssumption DEF Task, Layouts, Seed
  <2>2. fnd \in [Proc -> Nat \ {0}] /\ proc \in [Proc -> [at : At, round : Nat, heard : BOOLEAN]]
    BY <2>1 DEF Init, Idle, At
  <2>3. ScanTypeOK
    BY <2>1, <2>2 DEF Init, ScanTypeOK
  <2>4. ScanInv /\ FileInv
    BY DEF Init, ScanInv, FileInv, Alive, Idle
  <2> QED
    BY <2>3, <2>4
<1> QED
  BY <1>1, ScanStep, FileStep, PTL DEF Spec

(* At most one simulator of the runs not given up is alive (subprocess.run *)
(* in the scan and in the wrapper).                                        *)
THEOREM OneSimulatorAtATime == Spec => []OneAtATime
<1>1. ScanInv => OneAtATime
  BY DEF ScanInv, OneAtATime
<1> QED
  BY <1>1, ScanInvariant, PTL

(* A clean run is read as what it was (run_sim reads its own rows).        *)
LEMMA CleanIsRead ==
  ASSUME ScanTypeOK, FileInv, wrapper = "exited", Clean(Current)
  PROVE  ReadFile(task) = TrueFnd(Current)
<1>1. Undisturbed /\ proc[Current].at = "ended"
  BY CurrentFacts DEF Clean, InTime, Undisturbed
<1>2. Complete(Current)
  BY <1>1 DEF FileInv, Writing
<1> QED
  BY <1>2, FirstDeathIsTrue, CurrentFacts

(* A run that came to its end, in a file no run given up writes to, left   *)
(* the rows of its own seed there (run_sim, which reads them).             *)
THEOREM UndisturbedFileIsOwn == Spec => []FileIsOwn
<1>1. ScanTypeOK /\ FileInv => FileIsOwn
  BY CleanIsRead DEF FileIsOwn
<1> QED
  BY <1>1, ScanInvariant, PTL

-----------------------------------------------------------------------------
(* Of the runs made so far for this seed the clean ones have their own     *)
(* result.                                                                 *)
ResultInv ==
  /\ \A t \in Task : (TaskBefore(t, task) \/ verdict = "good") /\ Clean(<<seed, t>>) =>
       result[t] = TrueFnd(<<seed, t>>)
  /\ verdict = "good" => InOrder(result)

(* A run becomes clean only while the wrapper waits for it. *)
LEMMA CleanStable ==
  ASSUME ScanTypeOK, ScanInv, [Next]_vars, NEW q \in Proc, Clean(q)',
         q # Current \/ wrapper # "run"
  PROVE  Clean(q)
<1>0. proc \in [Proc -> [at : At, round : Nat, heard : BOOLEAN]] /\ Current \in Proc
  BY CurrentFacts DEF ScanTypeOK
<1>1. \A p \in Proc : proc'[p].heard => proc[p].heard
  <2>1. ASSUME NEW p \in Proc, Simulator(p) \/ SimCrash(p), NEW r \in Proc
        PROVE  proc'[r].heard = proc[r].heard
    BY <1>0, <2>1, SimulatorFacts
  <2>2. CASE BuildDone
    BY <1>0, <2>2 DEF BuildDone
  <2>3. CASE Timeout
    BY <1>0, <2>3 DEF Timeout
  <2>4. CASE UNCHANGED proc
    BY <2>4
  <2>5. Launch \/ BuildFails \/ WrapperExits \/ ReadResult \/ UNCHANGED vars => UNCHANGED proc
    BY DEF Launch, BuildFails, WrapperExits, ReadResult, vars
  <2> QED
    BY <2>1, <2>2, <2>3, <2>4, <2>5 DEF Next, Scan, Wrapper
<1>2. \A s \in 1 .. q[1] - 1 : <<s, q[2]>> \in Proc
  <2>1. q[1] \in 1 .. LastSeed /\ q[2] \in Task /\ LastSeed \in Nat
    BY ScanAssumption DEF Proc, Seed
  <2>2. \A s \in 1 .. q[1] - 1 : s \in Seed
    BY <2>1 DEF Seed
  <2> QED
    BY <2>1, <2>2 DEF Proc
<1>3. proc'[q].at = "ended" /\ proc[q].heard
  BY <1>1 DEF Clean, InTime
<1>4. proc[q].at = "ended"
  <2>1. ASSUME NEW p \in Proc, Simulator(p) \/ SimCrash(p)
        PROVE  proc[q].at = "ended"
    <3>1. p # q
      BY <1>3, <2>1, SimulatorFacts DEF ScanInv
    <3> QED
      BY <1>0, <1>3, <2>1, <3>1, SimulatorFacts
  <2>2. CASE BuildDone
    BY <1>0, <1>3, <2>2 DEF BuildDone
  <2>3. CASE Timeout
    BY <1>0, <1>3, <2>3 DEF Timeout
  <2>4. CASE UNCHANGED proc
    BY <1>3, <2>4
  <2>5. Launch \/ BuildFails \/ WrapperExits \/ ReadResult \/ UNCHANGED vars => UNCHANGED proc
    BY DEF Launch, BuildFails, WrapperExits, ReadResult, vars
  <2> QED
    BY <2>1, <2>2, <2>3, <2>4, <2>5 DEF Next, Scan, Wrapper
<1> QED
  BY <1>1, <1>2, <1>3, <1>4 DEF Clean, InTime

(* How the scan goes on from one run to the next. *)
LEMMA ReturnOrder ==
  ASSUME ScanTypeOK, NEW res, Return(res), verdict = "scanning"
  PROVE  /\ \A t \in Task : TaskBefore(t, task)' \/ verdict' = "good" =>
              seed' = seed /\ (TaskBefore(t, task) \/ t = task)
         /\ verdict' = "good" => InOrder(result')
<1> USE ScanAssumption
<1>0. /\ task \in Task /\ task[1] \in Layouts /\ task[2] \in {1, 2} /\ LastLayout \in Nat
      /\ \A t \in Task : /\ t[1] \in Nat /\ t[1] >= 1 /\ t[1] <= LastLayout /\ t[2] \in {1, 2}
                         /\ t[1] = task[1] /\ t[2] = task[2] => t = task
  BY DEF ScanTypeOK, Task, Layouts
<1>1. verdict' = "good" => InOrder(result')
  BY DEF Return
<1>2. CASE task[2] = 1
  BY <1>0, <1>1, <1>2 DEF Return, TaskBefore
<1>3. CASE task[2] = 2 /\ task[1] + 1 \in Layouts
  BY <1>0, <1>1, <1>3 DEF Return, TaskBefore
<1>4. CASE task[2] = 2 /\ task[1] + 1 \notin Layouts
  <2>1. \A t \in Task : TaskBefore(t, task) \/ t = task
    BY <1>0, <1>4 DEF TaskBefore, Layouts
  <2>2. \A t \in Task : ~TaskBefore(t, <<1, 1>>)
    BY <1>0 DEF TaskBefore
  <2>3. \/ verdict' = "good" /\ UNCHANGED <<seed, task>>
        \/ task' = <<1, 1>> /\ UNCHANGED verdict
        \/ verdict' = "nothing" /\ UNCHANGED <<seed, task>>
    BY <1>4 DEF Return
  <2> QED
    BY <1>1, <2>1, <2>2, <2>3 DEF TaskBefore
<1> QED
  BY <1>0, <1>2, <1>3, <1>4

(* What run_sim returns for a run that is clean is its own result: it has  *)
(* read its own rows, and a run cut off by the time-out is not clean.      *)
LEMMA ReturnResult ==
  ASSUME ScanTypeOK, ScanInv, FileInv, ResultInv, ReadResult \/ Timeout
  PROVE  /\ UNCHANGED fnd /\ verdict = "scanning"
         /\ \E res : Return(res)
         /\ \A p \in Proc :
              p[1] = seed /\ (TaskBefore(p[2], task) \/ p[2] = task) /\ Clean(p)' =>
                result'[p[2]] = TrueFnd(p)
<1>0. /\ proc \in [Proc -> [at : At, round : Nat, heard : BOOLEAN]] /\ Current \in Proc
      /\ task \in Task /\ result = [t \in Task |-> result[t]]
      /\ ~TaskBefore(task, task)
  BY CurrentFacts DEF ScanTypeOK, TaskBefore
<1>1. UNCHANGED fnd /\ verdict = "scanning" /\ [Next]_vars
  BY DEF ReadResult, Timeout, InFlight, ScanInv, Next, Scan
<1>2. \E res : Return(res) /\ (Clean(Current) /\ ReadResult => res = TrueFnd(Current))
  BY CleanIsRead DEF ReadResult, Timeout
<1>3. ASSUME NEW p \in Proc, p[1] = seed, p[2] = task, Clean(p)'
      PROVE  ReadResult /\ p = Current /\ Clean(Current)
  <2>1. p = Current
    BY <1>3, CurrentFacts DEF Current
  <2>2. ~Timeout
    BY <1>0, <1>3, <2>1 DEF Timeout, Clean, InTime
  <2>3. ReadResult
    BY <2>2
  <2>4. Clean(p)
    BY <1>1, <1>3, <2>3, CleanStable DEF ReadResult
  <2> QED
    BY <2>1, <2>3, <2>4
<1>4. ASSUME NEW p \in Proc, p[1] = seed, TaskBefore(p[2], task), Clean(p)'
      PROVE  p[2] # task /\ p[2] \in Task /\ result[p[2]] = TrueFnd(p)
  <2>1. p[2] # task /\ p[2] \in Task /\ p = <<seed, p[2]>>
    BY <1>0, <1>4, CurrentFacts
  <2>2. Clean(p)
    BY <1>1, <1>4, <2>1, CleanStable, CurrentFacts
  <2> QED
    BY <1>4, <2>1, <2>2 DEF ResultInv
<1>5. PICK res : Return(res) /\ (Clean(Current) /\ ReadResult => res = TrueFnd(Current))
  BY <1>2
<1>6. result' = [result EXCEPT ![task] = res]
  BY <1>5, ReturnFacts
<1>7. ASSUME NEW p \in Proc, p[1] = seed, TaskBefore(p[2], task) \/ p[2] = task, Clean(p)'
      PROVE  result'[p[2]] = TrueFnd(p)
  <2>1. CASE p[2] = task
    BY <1>0, <1>3, <1>5, <1>6, <1>7, <2>1
  <2>2. CASE TaskBefore(p[2], task)
    BY <1>0, <1>4, <1>6, <1>7, <2>2
  <2> QED
    BY <1>7, <2>1, <2>2
<1> QED
  BY <1>1, <1>5, <1>7

(* The result of a clean run is its own. *)
LEMMA ResultStep ==
  ASSUME ScanTypeOK, ScanInv, FileInv, ResultInv, [Next]_vars
  PROVE  ResultInv'
<1>0. /\ proc \in [Proc -> [at : At, round : Nat, heard : BOOLEAN]] /\ Current \in Proc
      /\ ~TaskBefore(task, task) /\ task \in Task
      /\ \A t \in Task : <<seed, t>> \in Proc
  BY CurrentFacts DEF ScanTypeOK, Proc, TaskBefore
<1>1. CASE ReadResult \/ Timeout
  <2>1. UNCHANGED fnd /\ verdict = "scanning" /\ \E res : Return(res)
    BY <1>1, ReturnResult
  <2>2. PICK res : Return(res)
    BY <2>1
  <2>3. ASSUME NEW t \in Task, TaskBefore(t, task)' \/ verdict' = "good", Clean(<<seed, t>>)'
        PROVE  result'[t] = TrueFnd(<<seed, t>>)'
    <3>1. seed' = seed /\ (TaskBefore(t, task) \/ t = task)
      BY <2>1, <2>2, <2>3, ReturnOrder
    <3>2. PICK p \in Proc : p = <<seed, t>>
      BY <1>0
    <3>3. Clean(p)' /\ p[1] = seed /\ p[2] = t
      BY <2>3, <3>1, <3>2
    <3>4. result'[t] = TrueFnd(p)
      BY <1>1, <3>1, <3>2, <3>3, ReturnResult
    <3> QED
      BY <2>1, <3>1, <3>2, <3>4 DEF TrueFnd
  <2> QED
    BY <2>1, <2>2, <2>3, ReturnOrder DEF ResultInv
<1>2. CASE UNCHANGED <<fnd, scanVars>>
  <2>1. UNCHANGED <<fnd, seed, task, result, verdict>>
    BY <1>2 DEF scanVars
  <2>2. ASSUME NEW t \in Task, TaskBefore(t, task) \/ verdict = "good", Clean(<<seed, t>>)'
        PROVE  result[t] = TrueFnd(<<seed, t>>)
    <3>1. PICK p \in Proc : p = <<seed, t>>
      BY <1>0
    <3>2. p # Current \/ wrapper # "run"
      BY <1>0, <2>2, <3>1, CurrentFacts DEF ScanInv
    <3>3. Clean(p)
      BY <2>1, <2>2, <3>1, <3>2, CleanStable
    <3> QED
      BY <2>2, <3>1, <3>3 DEF ResultInv
  <2> QED
    BY <2>1, <2>2 DEF ResultInv, TaskBefore, TrueFnd, InOrder
<1>3. Launch \/ BuildDone \/ BuildFails \/ WrapperExits \/ UNCHANGED vars => UNCHANGED <<fnd, scanVars>>
  BY DEF Launch, BuildDone, BuildFails, WrapperExits, vars, scanVars
<1>4. ASSUME NEW p \in Proc, Simulator(p) \/ SimCrash(p)
      PROVE  UNCHANGED <<fnd, scanVars>>
  BY <1>4, SimulatorFacts
<1> QED
  BY <1>1, <1>2, <1>3, <1>4 DEF Next, Scan, Wrapper

(* The seed announced as good is good in every layout whose runs were      *)
(* clean (seed_scan.py, the verdict printed after a seed's runs).          *)
THEOREM GoodSeedsAreGood == Spec => []GoodSeedIsGood
<1>1. Init => ResultInv
  BY DEF Init, ResultInv, TaskBefore, Task, Layouts
<1>2. ResultInv => GoodSeedIsGood
  <2> SUFFICES ASSUME ResultInv, verdict = "good", NEW l \in Layouts,
                      Clean(<<seed, <<l, 1>>>>), Clean(<<seed, <<l, 2>>>>)
               PROVE  TrueFnd(<<seed, <<l, 1>>>>) < TrueFnd(<<seed, <<l, 2>>>>)
    BY DEF GoodSeedIsGood
  <2>1. <<l, 1>> \in Task /\ <<l, 2>> \in Task
    BY DEF Task
  <2> QED
    BY <2>1 DEF ResultInv, InOrder
<1> QED
  BY <1>1, <1>2, ResultStep, ScanInvariant, PTL DEF Spec

(* When a seed is given up its results are complete and out of order.      *)
LEMMA ReturnGivesUp ==
  ASSUME ScanTypeOK, NEW res, Return(res), verdict = "scanning"
  PROVE  \/ seed' = seed /\ verdict' # "nothing"
         \/ /\ \A t \in Task : TaskBefore(t, task) \/ t = task
            /\ ~InOrder(result')
            /\ \A s \in Seed : s < seed' \/ verdict' = "nothing" => s < seed \/ s = seed
<1> USE ScanAssumption
<1>0. /\ task[1] \in Layouts /\ task[2] \in {1, 2} /\ LastLayout \in Nat
      /\ seed \in Nat /\ seed <= LastSeed /\ LastSeed \in Nat
      /\ \A s \in Seed : s \in Nat /\ s <= LastSeed
      /\ \A t \in Task : /\ t[1] \in Nat /\ t[1] >= 1 /\ t[1] <= LastLayout /\ t[2] \in {1, 2}
                         /\ t[1] = task[1] /\ t[2] = task[2] => t = task
  BY DEF ScanTypeOK, Task, Layouts, Seed
<1>1. CASE task[2] = 2 /\ task[1] + 1 \notin Layouts
  <2>1. \A t \in Task : TaskBefore(t, task) \/ t = task
    BY <1>0, <1>1 DEF TaskBefore, Layouts
  <2>2. CASE InOrder(result')
    BY <1>1, <2>2 DEF Return
  <2>3. CASE ~InOrder(result')
    <3>1. \/ seed' = seed + 1 /\ verdict' # "nothing"
          \/ seed' = seed /\ seed = LastSeed
      <4>1. CASE seed < LastSeed
        BY <1>1, <2>3, <4>1 DEF Return
      <4>2. CASE ~(seed < LastSeed)
        <5>1. seed = LastSeed
          BY <1>0, <4>2
        <5>2. seed' = seed
          BY <1>1, <2>3, <4>2 DEF Return
        <5> QED
          BY <5>1, <5>2
      <4> QED
        BY <4>1, <4>2
    <3> QED
      BY <1>0, <2>1, <2>3, <3>1
  <2> QED
    BY <2>2, <2>3
<1>2. CASE ~(task[2] = 2 /\ task[1] + 1 \notin Layouts)
  BY <1>0, <1>2 DEF Return
<1> QED
  BY <1>1, <1>2

(* No seed whose runs were all clean is passed over unless it breaks the   *)
(* order (seed_scan.py, the loop over the seeds).                          *)
THEOREM GoodSeedsAreFound == Spec => []NoGoodSeedMissed
<1>1. Init => ResultInv /\ NoGoodSeedMissed
  <2>1. Init => ResultInv
    BY DEF Init, ResultInv, TaskBefore, Task, Layouts
  <2>2. Init => NoGoodSeedMissed
    BY DEF Init, NoGoodSeedMissed, Seed
  <2> QED
    BY <2>1, <2>2
<1>2. ASSUME ScanTypeOK, ScanInv, FileInv, ResultInv, NoGoodSeedMissed, [Next]_vars
      PROVE  NoGoodSeedMissed'
  <2>0. \A s \in Seed, t \in Task : <<s, t>> \in Proc
    BY DEF Proc
  <2>1. ASSUME NEW s \in Seed, s < seed \/ verdict = "nothing", \A t \in Task : Clean(<<s, t>>)',
               UNCHANGED fnd
        PROVE  \E l \in Layouts : TrueFnd(<<s, <<l, 1>>>>)' >= TrueFnd(<<s, <<l, 2>>>>)'
    <3>1. ASSUME NEW t \in Task
          PROVE  Clean(<<s, t>>)
      <4>1. <<s, t>> # Current \/ wrapper # "run"
        BY <1>2, <2>1 DEF ScanInv, ScanTypeOK, Current, Seed
      <4>2. PICK p \in Proc : p = <<s, t>>
        BY <2>0
      <4>3. Clean(p)'
        BY <2>1, <4>2
      <4> QED
        BY <1>2, <4>1, <4>2, <4>3, CleanStable
    <3>2. PICK l \in Layouts : TrueFnd(<<s, <<l, 1>>>>) >= TrueFnd(<<s, <<l, 2>>>>)
      BY <1>2, <2>1, <3>1 DEF NoGoodSeedMissed
    <3> QED
      BY <2>1, <3>2 DEF TrueFnd
  <2>2. CASE ReadResult \/ Timeout
    <3>1. UNCHANGED fnd /\ verdict = "scanning" /\ \E res : Return(res)
      BY <1>2, <2>2, ReturnResult
    <3>2. PICK res : Return(res)
      BY <3>1
    <3>3. CASE seed' = seed /\ verdict' # "nothing"
      BY <2>1, <3>1, <3>3 DEF NoGoodSeedMissed
    <3>4. CASE /\ \A t \in Task : TaskBefore(t, task) \/ t = task
               /\ ~InOrder(result')
               /\ \A s \in Seed : s < seed' \/ verdict' = "nothing" => s < seed \/ s = seed
      <4>1. ASSUME NEW s \in Seed, s = seed, \A t \in Task : Clean(<<s, t>>)'
            PROVE  \E l \in Layouts : TrueFnd(<<s, <<l, 1>>>>)' >= TrueFnd(<<s, <<l, 2>>>>)'
        <5>1. \A t \in Task : result'[t] = TrueFnd(<<s, t>>)
          <6>1. ASSUME NEW t \in Task PROVE result'[t] = TrueFnd(<<s, t>>)
            <7>1. PICK p \in Proc : p = <<s, t>>
              BY <2>0
            <7>2. Clean(p)' /\ p[1] = seed /\ p[2] = t
              BY <4>1, <7>1
            <7> QED
              BY <1>2, <2>2, <3>4, <7>1, <7>2, ReturnResult
          <6> QED
            BY <6>1
        <5>2. PICK l \in Layouts : ~(result'[<<l, 1>>] < result'[<<l, 2>>])
          BY <3>4 DEF InOrder
        <5>3. <<l, 1>> \in Task /\ <<l, 2>> \in Task
          BY DEF Task
        <5>4. TrueFnd(<<s, <<l, 1>>>>) \in Nat /\ TrueFnd(<<s, <<l, 2>>>>) \in Nat
          BY <1>2, <2>0, <5>3 DEF TrueFnd, Never, ScanTypeOK
        <5>5. TrueFnd(<<s, <<l, 1>>>>) >= TrueFnd(<<s, <<l, 2>>>>)
          BY <5>1, <5>2, <5>3, <5>4
        <5> QED
          BY <3>1, <5>5 DEF TrueFnd
      <4> QED
        BY <2>1, <3>1, <3>4, <4>1 DEF NoGoodSeedMissed
    <3> QED
      BY <1>2, <3>1, <3>2, <3>3, <3>4, ReturnGivesUp
  <2>3. CASE UNCHANGED <<fnd, seed, verdict>>
    BY <2>1, <2>3 DEF NoGoodSeedMissed
  <2>4. ASSUME NEW p \in Proc, Simulator(p) \/ SimCrash(p)
        PROVE  UNCHANGED <<fnd, seed, verdict>>
    BY <1>2, <2>4, SimulatorFacts DEF scanVars
  <2>5. Launch \/ BuildDone \/ BuildFails \/ WrapperExits \/ UNCHANGED vars =>
          UNCHANGED <<fnd, seed, verdict>>
    BY DEF Launch, BuildDone, BuildFails, WrapperExits, scanVars, vars
  <2> QED
    BY <1>2, <2>2, <2>3, <2>4, <2>5 DEF Next, Scan, Wrapper
<1> QED
  BY <1>1, <1>2, ResultStep, ScanInvariant, PTL DEF Spec

=============================================================================
