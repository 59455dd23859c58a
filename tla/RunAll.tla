------------------------------- MODULE RunAll -------------------------------
(***************************************************************************)
(* The batch (run_all_simulations.sh): build, start every protocol in      *)
(* every layout, wait, look for the result files, draw the plots and       *)
(* validate the order (plot_results.py).  In parallel the simulations run  *)
(* in the background and their exit codes are dropped; with --no-parallel  *)
(* they run one by one under "set -e".  Result files of an earlier batch   *)
(* may lie in results/, as they do in the repository.                      *)
(***************************************************************************)
EXTENDS WsnResults

CONSTANTS
  LastLayout,  \* LAYOUTS = 1 .. LastLayout
  Outcomes,    \* the rows the complete runs of the jobs may produce
  OldFiles     \* the rows the files may hold before; <<>> for no file

Layout == 1 .. LastLayout
Job == Layout \X Protocol

(* The lines of a file, and what a run that is not interrupted writes: at  *)
(* least one line, as somebody is alive before the first round.            *)
Line == [round : Nat \ {0}, dead : Nat]
Rows == Seq(Line)

ASSUME BatchAssumption ==
  /\ LastLayout \in Nat \ {0}
  /\ Outcomes \subseteq [Job -> Rows]
  /\ \A rows \in Outcomes : \A j \in Job : rows[j] # <<>>
  /\ OldFiles \subseteq [Job -> Rows]

(* The order of the two loops: protocols outside, layouts inside. *)
JobAt(n) == <<1 + ((n - 1) % LastLayout), Protocols[1 + ((n - 1) \div LastLayout)]>>
Jobs == 4 * LastLayout

VARIABLES
  parallel, \* PARALLEL
  outcome,  \* the rows the run of a job produces if nothing goes wrong
  file,     \* the rows of the result files
  job,      \* "none", "build", "start", "write", "ok" or "failed"
  phase,    \* where the script is
  k,        \* loop variable of the script's loops
  verdict   \* the line printed by validate_ordering: "", "PASS" or "WARNING"

vars == <<parallel, outcome, file, job, phase, k, verdict>>

Running(j) == job[j] \in {"build", "start", "write"}

Init ==
  /\ parallel \in BOOLEAN
  /\ outcome \in Outcomes
  /\ file \in OldFiles
  /\ job = [j \in Job |-> "none"]
  /\ phase = "build" /\ k = 1 /\ verdict = ""

-----------------------------------------------------------------------------
(* One "./ns3 run": it builds first, then runs the simulator. *)
JobStep(j, from, to) ==
  /\ job[j] = from
  /\ job' = [job EXCEPT ![j] = to]
  /\ UNCHANGED <<parallel, outcome, phase, k, verdict>>

JobBuilt(j) == JobStep(j, "build", "start") /\ UNCHANGED file

JobTruncates(j) == JobStep(j, "start", "write") /\ file' = [file EXCEPT ![j] = <<>>]

JobWrites(j) ==
  /\ Len(file[j]) < Len(outcome[j])
  /\ JobStep(j, "write", "write")
  /\ file' = [file EXCEPT ![j] = Append(@, outcome[j][Len(@) + 1])]

JobEnds(j) ==
  /\ Len(file[j]) = Len(outcome[j])
  /\ JobStep(j, "write", "ok")
  /\ UNCHANGED file

JobFails(j) ==
  /\ Running(j)
  /\ JobStep(j, job[j], "failed")
  /\ UNCHANGED file

-----------------------------------------------------------------------------
(* The script. *)
Build ==
  /\ phase = "build"
  /\ phase' = "launch"
  /\ UNCHANGED <<parallel, outcome, file, job, k, verdict>>

BuildFails ==
  /\ phase = "build"
  /\ phase' = "aborted"
  /\ UNCHANGED <<parallel, outcome, file, job, k, verdict>>

(* Mutation of PreviousDone: the exit code is not looked at. *)
PreviousOver == ~parallel /\ k > 1 => ~Running(JobAt(k - 1))

(* Without "&" the loop goes on when the job has returned 0. *)
PreviousDone == ~parallel /\ k > 1 => job[JobAt(k - 1)] = "ok"

Launch ==
  /\ phase = "launch" /\ k <= Jobs /\ PreviousDone
  /\ job' = [job EXCEPT ![JobAt(k)] = "build"]
  /\ k' = k + 1
  /\ UNCHANGED <<parallel, outcome, file, phase, verdict>>

(* "set -e" ends the script when a foreground job fails. *)
AbortOnFailure ==
  /\ phase = "launch" /\ ~parallel /\ k > 1 /\ job[JobAt(k - 1)] = "failed"
  /\ phase' = "aborted"
  /\ UNCHANGED <<parallel, outcome, file, job, k, verdict>>

AllLaunched ==
  /\ phase = "launch" /\ k > Jobs /\ PreviousDone
  /\ phase' = "wait" /\ k' = 1
  /\ UNCHANGED <<parallel, outcome, file, job, verdict>>

(* Mutations of WaitedFor: wait returns at once; it insists on success. *)
NotWaitedFor(j) == TRUE
WaitedForSuccess(j) == job[j] = "ok"

(* wait "$pid" || true *)
WaitedFor(j) == ~Running(j)

Wait ==
  /\ phase = "wait" /\ k <= Jobs /\ WaitedFor(JobAt(k))
  /\ k' = k + 1
  /\ UNCHANGED <<parallel, outcome, file, job, phase, verdict>>

(* Missing files are reported, and the plots are drawn all the same. *)
CheckFiles ==
  /\ phase = "wait" /\ k > Jobs
  /\ phase' = "plot" /\ k' = 1
  /\ UNCHANGED <<parallel, outcome, file, job, verdict>>

LayoutFiles(l) == [p \in Protocol |-> file[<<l, p>>]]
Infos == [l \in Layout |-> Info(LayoutFiles(l))]

(* validate_ordering stops with an exception (and set -e ends the script), *)
(* or prints its verdict and summary.csv is written.                       *)
Plot ==
  /\ phase = "plot"
  /\ IF \E l \in Layout : ValidationRaises(Infos[l])
     THEN phase' = "aborted" /\ UNCHANGED verdict
     ELSE /\ phase' = "done"
          /\ verdict' = IF ValidateOrdering(Infos) THEN "PASS" ELSE "WARNING"
  /\ UNCHANGED <<parallel, outcome, file, job, k>>

JobRuns(j) == JobBuilt(j) \/ JobTruncates(j) \/ JobWrites(j) \/ JobEnds(j)
Script == Build \/ Launch \/ AbortOnFailure \/ AllLaunched \/ Wait \/ CheckFiles \/ Plot

Next == Script \/ BuildFails \/ \E j \in Job : JobRuns(j) \/ JobFails(j)

(* The script and the simulators run on. *)
Spec == Init /\ [][Next]_vars /\ WF_vars(Script) /\ \A j \in Job : WF_vars(JobRuns(j))

-----------------------------------------------------------------------------
(***************************************************************************)
(* Properties.                                                             *)
(***************************************************************************)

(* The file of a job is one of an earlier batch, or what its run has       *)
(* written so far.                                                         *)
OfEarlierBatch(j) == \E old \in OldFiles : file[j] = old[j]
OfThisBatch(j) ==
  /\ Len(file[j]) <= Len(outcome[j])
  /\ \A n \in 1 .. Len(file[j]) : file[j][n] = outcome[j][n]

(* The plots are drawn from finished runs: from then on no simulator       *)
(* writes; the file of each job that succeeded is that run's, and that of  *)
(* a job that failed holds the first lines of that run or is the untouched *)
(* one of an earlier batch, never lines of both (lines 110-115 of          *)
(* run_all_simulations.sh).                                                *)
PlotsSeeFinishedRuns ==
  phase \in {"plot", "done"} =>
    \A j \in Job : /\ ~Running(j)
                   /\ job[j] = "ok" => file[j] = outcome[j]
                   /\ OfThisBatch(j) \/ OfEarlierBatch(j)

(* One after the other, the plots are drawn only when every run of this    *)
(* batch has succeeded: nothing of an earlier batch is left.               *)
SequentialIsComplete ==
  ~parallel /\ phase \in {"plot", "done"} => \A j \in Job : file[j] = outcome[j]

(* The runs of the three protocols went well, within the window.           *)
BaseRunsOk(l) ==
  \A p \in {"esmac", "leach", "lecmac"} :
    /\ job[<<l, p>>] = "ok"
    /\ \A n \in DOMAIN outcome[<<l, p>>] : outcome[<<l, p>>][n].round <= Window

(* The two scripts agree: where the runs of the three protocols went well  *)
(* and none lasted longer than the window, parse_traces.py passes what     *)
(* plot_results.py confirms, whatever became of the other runs.            *)
PassAgrees ==
  verdict = "PASS" =>
    \A l \in Layout : BaseRunsOk(l) => ParserOrdering(LayoutFiles(l))

FirstDeaths(l) == [p \in Protocol |-> FirstDead(outcome[<<l, p>>])]

(* PASS is announced only if in each layout whose runs went well and none  *)
(* of them lasted longer than the window the nodes of ES-MAC began to die  *)
(* before those of LEACH, and these before those of LECMAC, if ever.       *)
PassMeansOrder ==
  verdict = "PASS" =>
    \A l \in Layout : BaseRunsOk(l) =>
      LET first == FirstDeaths(l) IN
      /\ 0 < first["esmac"] /\ first["esmac"] < first["leach"]
      /\ first["lecmac"] = 0 \/ first["leach"] < first["lecmac"]

(* The batch comes to its end. *)
BatchEnds == <>(phase \in {"done", "aborted"})

=============================================================================
