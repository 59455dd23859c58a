---------------------------- MODULE RunAllProofs ----------------------------
(***************************************************************************)
(* The batch: plots are drawn from finished runs, and what its verdict     *)
(* says of them.                                                           *)
(***************************************************************************)
EXTENDS RunAll, InductionLemmas, SequenceTheorems

-----------------------------------------------------------------------------
(***************************************************************************)
(* The order of the jobs.                                                  *)
(***************************************************************************)
LEMMA JobsType == Jobs \in Nat
BY BatchAssumption DEF Jobs

(* The protocols are those of the four names. *)
LEMMA ProtocolNames ==
  /\ Protocol = {"lecmac", "leach", "esmac", "lecmac_plus"}
  /\ \A a, b \in 1 .. 4 : Protocols[a] = Protocols[b] => a = b
  /\ \A a \in 1 .. 4 : Protocols[a] \in Protocol
<1>1. /\ DOMAIN Protocols = {1, 2, 3, 4} /\ 1 .. 4 = {1, 2, 3, 4}
      /\ Protocols[1] = "lecmac" /\ Protocols[2] = "leach"
      /\ Protocols[3] = "esmac" /\ Protocols[4] = "lecmac_plus"
  BY DEF Protocols
<1> QED
  BY <1>1 DEF Protocol

(* Where the n-th job lies in the two loops. *)
LEMMA JobPlace ==
  ASSUME NEW n \in 1 .. Jobs
  PROVE  /\ (n - 1) % LastLayout \in 0 .. LastLayout - 1
         /\ (n - 1) \div LastLayout \in 0 .. 3
         /\ n - 1 = ((n - 1) \div LastLayout) * LastLayout + ((n - 1) % LastLayout)
<1> DEFINE q == (n - 1) \div LastLayout
           r == (n - 1) % LastLayout
<1>1. n - 1 \in Nat /\ LastLayout \in Nat \ {0} /\ n - 1 < 4 * LastLayout
  BY BatchAssumption DEF Jobs
<1>2. r \in 0 .. LastLayout - 1 /\ q \in Nat /\ n - 1 = q * LastLayout + r
  BY <1>1, Division
<1> HIDE DEF q, r
<1>3. q <= 3
  <2> SUFFICES ASSUME 4 <= q PROVE FALSE
    BY <1>2
  <2>1. q * LastLayout = 4 * LastLayout + (q - 4) * LastLayout /\ (q - 4) * LastLayout >= 0
    BY <1>1, <1>2
  <2> QED
    BY <1>1, <1>2, <2>1
<1> QED
  BY <1>2, <1>3 DEF q, r

(* The loop variable names a job. *)
LEMMA JobAtType ==
  ASSUME NEW n \in 1 .. Jobs
  PROVE  JobAt(n) \in Job
<1>1. 1 + ((n - 1) % LastLayout) \in 1 .. LastLayout
  BY JobPlace, BatchAssumption
<1>2. 1 + ((n - 1) \div LastLayout) \in 1 .. 4
  BY JobPlace
<1> QED
  BY <1>1, <1>2, ProtocolNames DEF JobAt, Job, Layout

(* No job is started twice. *)
LEMMA JobAtOnce ==
  ASSUME NEW m \in 1 .. Jobs, NEW n \in 1 .. Jobs, JobAt(m) = JobAt(n)
  PROVE  m = n
<1>1. /\ 1 + ((m - 1) % LastLayout) = 1 + ((n - 1) % LastLayout)
      /\ Protocols[1 + ((m - 1) \div LastLayout)] = Protocols[1 + ((n - 1) \div LastLayout)]
  BY DEF JobAt
<1>2. /\ (m - 1) \div LastLayout \in 0 .. 3 /\ (n - 1) \div LastLayout \in 0 .. 3
      /\ (m - 1) % LastLayout \in Int /\ (n - 1) % LastLayout \in Int
  BY JobPlace, BatchAssumption
<1>3. (m - 1) \div LastLayout = (n - 1) \div LastLayout
  <2> DEFINE a == (m - 1) \div LastLayout
             b == (n - 1) \div LastLayout
  <2>1. a \in 0 .. 3 /\ b \in 0 .. 3 /\ Protocols[1 + a] = Protocols[1 + b]
    BY <1>1, <1>2
  <2> HIDE DEF a, b
  <2>2. 1 + a = 1 + b
    BY <2>1, ProtocolNames
  <2>3. a = b
    BY <2>1, <2>2
  <2> QED
    BY <2>3 DEF a, b
<1>4. (m - 1) % LastLayout = (n - 1) % LastLayout
  BY <1>1, <1>2
<1>5. m - 1 = n - 1
  BY <1>3, <1>4, JobPlace
<1> QED
  BY <1>5, JobsType

(* Every job is started. *)
LEMMA JobAtAll ==
  ASSUME NEW j \in Job
  PROVE  \E n \in 1 .. Jobs : JobAt(n) = j
<1>1. PICK l \in 1 .. LastLayout, p \in Protocol : j = <<l, p>>
  BY DEF Job, Layout
<1>2. PICK a \in 1 .. 4 : p = Protocols[a]
  <2>1. DOMAIN Protocols = 1 .. 4
    BY DEF Protocols
  <2> QED
    BY <2>1 DEF Protocol
<1> DEFINE q == a - 1
           r == l - 1
           n == q * LastLayout + r + 1
<1>3. /\ LastLayout \in Nat \ {0} /\ q \in Nat /\ q <= 3 /\ r \in 0 .. LastLayout - 1
      /\ q * LastLayout \in Nat /\ q * LastLayout <= 3 * LastLayout
  <2>1. LastLayout \in Nat \ {0} /\ q \in 0 .. 3 /\ r \in 0 .. LastLayout - 1
    BY BatchAssumption
  <2>2. \A b \in 0 .. 3 : b * LastLayout \in Nat /\ b * LastLayout <= 3 * LastLayout
    BY <2>1
  <2> HIDE DEF q, r
  <2> QED
    BY <2>1, <2>2
<1>4. l = 1 + r /\ a = 1 + q
  OBVIOUS
<1> HIDE DEF q, r
<1>5. n \in 1 .. Jobs /\ n - 1 = q * LastLayout + r
  BY <1>3 DEF Jobs
<1>6. (q * LastLayout + r) % LastLayout = r /\ (q * LastLayout + r) \div LastLayout = q
  BY <1>3
<1> HIDE DEF n
<1>7. JobAt(n) = j
  BY <1>1, <1>2, <1>4, <1>5, <1>6 DEF JobAt
<1> QED
  BY <1>5, <1>7

-----------------------------------------------------------------------------
(***************************************************************************)
(* First and last node death.                                              *)
(***************************************************************************)
LEMMA LineType ==
  ASSUME NEW rows \in Rows, NEW n \in 1 .. Len(rows)
  PROVE  rows[n] \in Line
BY DEF Rows

InWindow(rows) == \A n \in DOMAIN rows : rows[n].round <= Window

(* They are rounds of the run, or 0 if nobody died. *)
LEMMA DeathRounds ==
  ASSUME NEW rows \in Rows
  PROVE  /\ FirstDead(rows) \in Nat /\ LastDead(rows) \in Nat
         /\ FirstDead(rows) = 0 <=> LastDead(rows) = 0
         /\ InWindow(rows) => FirstDead(rows) <= Window /\ LastDead(rows) <= Window
<1>1. DeadRows(rows) \in SUBSET (0 .. Len(rows)) /\ Len(rows) \in Nat
      /\ DeadRows(rows) \subseteq DOMAIN rows
  BY DEF DeadRows, Rows
<1>2. \A n \in DOMAIN rows : rows[n].round \in Nat \ {0}
  <2>1. DOMAIN rows = 1 .. Len(rows)
    BY DEF Rows
  <2> QED
    BY <2>1, LineType DEF Line
<1>3. CASE DeadRows(rows) = {}
  BY <1>3, WindowAssumption DEF FirstDead, LastDead
<1>4. CASE DeadRows(rows) # {}
  <2> DEFINE a == CHOOSE n \in DeadRows(rows) : \A j \in DeadRows(rows) : n <= j
             b == CHOOSE n \in DeadRows(rows) : \A j \in DeadRows(rows) : n >= j
  <2>1. a \in DeadRows(rows)
    <3>1. DeadRows(rows) \in SUBSET Nat
      BY <1>1
    <3>2. \E n \in DeadRows(rows) : \A j \in DeadRows(rows) : n <= j
      BY <1>4, <3>1, SmallestExists
    <3> QED
      BY <3>2
  <2>2. b \in DeadRows(rows)
    <3>1. PICK n \in DeadRows(rows) : \A j \in DeadRows(rows) : j <= n
      BY <1>1, <1>4, LargestExists
    <3>2. \A j \in DeadRows(rows) : n >= j
      BY <1>1, <3>1
    <3> QED
      BY <3>2
  <2>3. FirstDead(rows) = rows[a].round /\ LastDead(rows) = rows[b].round
    BY <1>4 DEF FirstDead, LastDead
  <2> HIDE DEF a, b
  <2> QED
    BY <1>1, <1>2, <2>1, <2>2, <2>3 DEF InWindow
<1> QED
  BY <1>3, <1>4

-----------------------------------------------------------------------------
(***************************************************************************)
(* The verdict on one layout.                                              *)
(***************************************************************************)
BaseProtocols == {"esmac", "leach", "lecmac"}

(* What plot_results.py makes of a file that holds a run in the window. *)
LEMMA InfoOfRun ==
  ASSUME NEW files \in [Protocol -> Rows], NEW p \in Protocol, files[p] # <<>>
  PROVE  /\ Fnd(Info(files), p) = IF FirstDead(files[p]) = 0 THEN Window + 1
                                  ELSE FirstDead(files[p])
         /\ Lnd(Info(files), p) = IF FirstDead(files[p]) = 0 THEN Window + 1
                                  ELSE LastDead(files[p])
<1>1. p \in DOMAIN Info(files) /\ Info(files)[p] = FndLnd(files[p])
  BY DEF Info
<1> QED
  BY <1>1 DEF Fnd, Lnd, FndLnd

(* Verdicts on runs within the window give the order of their first deaths. *)
LEMMA BaseOkOrders ==
  ASSUME NEW files \in [Protocol -> Rows], BaseOk(Info(files)),
         \A p \in BaseProtocols : files[p] # <<>> /\ InWindow(files[p])
  PROVE  /\ ParserOrdering(files)
         /\ 0 < FirstDead(files["esmac"])
         /\ FirstDead(files["esmac"]) < FirstDead(files["leach"])
         /\ FirstDead(files["lecmac"]) = 0
              \/ FirstDead(files["leach"]) < FirstDead(files["lecmac"])
<1>1. /\ "esmac" \in Protocol /\ "leach" \in Protocol /\ "lecmac" \in Protocol
      /\ "esmac" \in BaseProtocols /\ "leach" \in BaseProtocols /\ "lecmac" \in BaseProtocols
  BY ProtocolNames DEF BaseProtocols
<1>2. \A p \in BaseProtocols :
        /\ FirstDead(files[p]) \in Nat /\ LastDead(files[p]) \in Nat
        /\ FirstDead(files[p]) = 0 <=> LastDead(files[p]) = 0
        /\ FirstDead(files[p]) <= Window /\ LastDead(files[p]) <= Window
        /\ Fnd(Info(files), p) = IF FirstDead(files[p]) = 0 THEN Window + 1
                                 ELSE FirstDead(files[p])
        /\ Lnd(Info(files), p) = IF FirstDead(files[p]) = 0 THEN Window + 1
                                 ELSE LastDead(files[p])
  <2> SUFFICES ASSUME NEW p \in BaseProtocols
               PROVE  /\ FirstDead(files[p]) \in Nat /\ LastDead(files[p]) \in Nat
                      /\ FirstDead(files[p]) = 0 <=> LastDead(files[p]) = 0
                      /\ FirstDead(files[p]) <= Window /\ LastDead(files[p]) <= Window
                      /\ Fnd(Info(files), p) = IF FirstDead(files[p]) = 0 THEN Window + 1
                                               ELSE FirstDead(files[p])
                      /\ Lnd(Info(files), p) = IF FirstDead(files[p]) = 0 THEN Window + 1
                                               ELSE LastDead(files[p])
    OBVIOUS
  <2>1. p \in Protocol /\ files[p] \in Rows
    BY ProtocolNames DEF BaseProtocols
  <2> QED
    BY <2>1, DeathRounds, InfoOfRun
<1> DEFINE f(p) == FirstDead(files[p])
           g(p) == LastDead(files[p])
<1>3. /\ Fnd(Info(files), "esmac") < Fnd(Info(files), "leach")
      /\ Fnd(Info(files), "leach") < Fnd(Info(files), "lecmac")
      /\ Lnd(Info(files), "esmac") < Lnd(Info(files), "leach")
      /\ Lnd(Info(files), "lecmac") > Window
           \/ Lnd(Info(files), "leach") < Lnd(Info(files), "lecmac")
  BY DEF BaseOk, Capped
<1>4. Window \in Nat
  BY WindowAssumption
<1>5. /\ 0 < f("esmac") /\ f("esmac") < f("leach")
      /\ f("lecmac") = 0 \/ f("leach") < f("lecmac")
  BY <1>1, <1>2, <1>3, <1>4
<1>6. /\ 0 < g("esmac") /\ g("esmac") < g("leach")
      /\ g("lecmac") = 0 \/ g("leach") < g("lecmac")
  BY <1>1, <1>2, <1>3, <1>4, <1>5
<1>7. /\ f("esmac") \in Nat /\ f("leach") \in Nat /\ f("lecmac") \in Nat
      /\ g("esmac") \in Nat /\ g("leach") \in Nat /\ g("lecmac") \in Nat
  BY <1>1, <1>2
<1>8. ParserOrdering(files)
  BY <1>5, <1>6, <1>7 DEF ParserOrdering, AtLeast
<1> QED
  BY <1>5, <1>8

-----------------------------------------------------------------------------
(***************************************************************************)
(* The batch.                                                              *)
(***************************************************************************)
JobStates == {"none", "build", "start", "write", "ok", "failed"}

BatchType ==
  /\ parallel \in BOOLEAN
  /\ outcome \in Outcomes
  /\ file \in [Job -> Rows]
  /\ job \in [Job -> JobStates]
  /\ k \in Nat

(* Until its run opens it a file is that of an earlier batch; from then on *)
(* it is the beginning of what that run writes.                            *)
FileInv(j) ==
  /\ job[j] \in {"none", "build", "start"} => OfEarlierBatch(j)
  /\ job[j] = "write" => OfThisBatch(j)
  /\ job[j] = "ok" => file[j] = outcome[j]
  /\ job[j] = "failed" => OfThisBatch(j) \/ OfEarlierBatch(j)

FilesInv == \A j \in Job : FileInv(j)

(* What the loops of the script have before and behind them: what is not   *)
(* reached yet has not started; started one by one, all but the last job   *)
(* have succeeded; what has been waited for runs no more.                  *)
LoopsInv ==
  /\ phase \in {"build", "launch", "wait"} => k \in 1 .. Jobs + 1
  /\ phase = "build" => k = 1
  /\ phase \in {"build", "launch"} => \A n \in k .. Jobs : job[JobAt(n)] = "none"
  /\ phase = "launch" /\ ~parallel => \A n \in 1 .. k - 2 : job[JobAt(n)] = "ok"
  /\ phase = "wait" => \A n \in 1 .. k - 1 : ~Running(JobAt(n))
  /\ phase \in {"plot", "done"} => \A j \in Job : ~Running(j)
  /\ phase \in {"wait", "plot", "done"} /\ ~parallel => \A j \in Job : job[j] = "ok"

VerdictInv ==
  verdict = "PASS" => phase = "done" /\ ValidateOrdering(Infos)

BatchInv == BatchType /\ FilesInv /\ LoopsInv /\ VerdictInv

(* No job has been started. *)
LEMMA InitBatch == Init => BatchInv
<1> SUFFICES ASSUME Init PROVE BatchInv
  OBVIOUS
<1>1. BatchType
  BY BatchAssumption DEF Init, BatchType, JobStates
<1>2. FilesInv
  BY DEF Init, FilesInv, FileInv, OfEarlierBatch
<1>3. LoopsInv
  <2>1. phase = "build" /\ k = 1 /\ Jobs \in Nat /\ job = [j \in Job |-> "none"]
    BY JobsType DEF Init
  <2>2. \A n \in k .. Jobs : job[JobAt(n)] = "none"
    BY <2>1, JobAtType
  <2> QED
    BY <2>1, <2>2 DEF LoopsInv
<1>4. VerdictInv
  BY DEF Init, VerdictInv
<1> QED
  BY <1>1, <1>2, <1>3, <1>4 DEF BatchInv

(* A job that runs stays a job that runs or ends, and no other moves. *)
LEMMA JobStepKeeps ==
  ASSUME BatchInv, NEW j \in Job, Running(j), NEW to \in JobStates, JobStep(j, job[j], to),
         file' \in [Job -> Rows], \A g \in Job : g # j => file'[g] = file[g],
         FileInv(j)'
  PROVE  BatchInv'
<1>1. /\ job' = [job EXCEPT ![j] = to] /\ job \in [Job -> JobStates]
      /\ UNCHANGED <<parallel, outcome, phase, k, verdict>>
      /\ job[j] \in {"build", "start", "write"}
  BY DEF JobStep, BatchInv, BatchType, Running
<1>2. job'[j] = to /\ \A g \in Job : g # j => job'[g] = job[g]
  BY <1>1
<1>3. BatchType'
  BY <1>1 DEF BatchInv, BatchType
<1>4. FilesInv'
  BY <1>1, <1>2 DEF BatchInv, FilesInv, FileInv, OfThisBatch, OfEarlierBatch
<1>5. \A g \in Job : /\ ~Running(g) => ~Running(g)'
                     /\ job[g] = "ok" => job'[g] = "ok"
  BY <1>1, <1>2 DEF Running
<1>6. phase \notin {"plot", "done"}
  BY DEF BatchInv, LoopsInv
<1>7. LoopsInv'
  <2>1. \A n \in 1 .. Jobs : JobAt(n) \in Job
    BY JobAtType
  <2>2. Jobs \in Nat /\ k \in Nat /\ LoopsInv
    BY JobsType DEF BatchInv, BatchType
  <2>3. (\A n \in 1 .. k - 2 : job[JobAt(n)] = "ok") /\ phase = "launch" =>
           (\A n \in 1 .. k - 2 : job'[JobAt(n)] = "ok")
    BY <1>5, <2>1, <2>2 DEF LoopsInv
  <2>4. (\A n \in 1 .. k - 1 : ~Running(JobAt(n))) /\ phase = "wait" =>
           (\A n \in 1 .. k - 1 : ~Running(JobAt(n))')
    BY <1>5, <2>1, <2>2 DEF LoopsInv
  <2>5. (\A g \in Job : job[g] = "ok") => (\A g \in Job : job'[g] = "ok")
    BY <1>5
  <2>6. phase \in {"build", "launch"} => \A n \in k .. Jobs : job'[JobAt(n)] = "none"
    <3> SUFFICES ASSUME phase \in {"build", "launch"}, NEW n \in k .. Jobs
                 PROVE  job'[JobAt(n)] = "none"
      OBVIOUS
    <3>1. n \in 1 .. Jobs /\ job[JobAt(n)] = "none"
      BY <2>2 DEF LoopsInv
    <3>2. JobAt(n) \in Job /\ JobAt(n) # j
      BY <1>1, <2>1, <3>1
    <3> QED
      BY <1>2, <3>1, <3>2
  <2> QED
    BY <1>1, <1>6, <2>2, <2>3, <2>4, <2>5, <2>6 DEF LoopsInv
<1>8. VerdictInv'
  BY <1>1, <1>6 DEF BatchInv, VerdictInv
<1> QED
  BY <1>3, <1>4, <1>7, <1>8 DEF BatchInv

(* A step of a running job keeps the invariant of the batch. *)
LEMMA JobNext ==
  ASSUME BatchInv, NEW j \in Job, JobRuns(j) \/ JobFails(j)
  PROVE  BatchInv'
<1>0. /\ file \in [Job -> Rows] /\ outcome[j] \in Rows /\ file[j] \in Rows
      /\ Len(outcome[j]) \in Nat /\ Len(file[j]) \in Nat
      /\ job \in [Job -> JobStates] /\ FileInv(j)
  <2>1. file \in [Job -> Rows] /\ outcome \in [Job -> Rows]
    BY BatchAssumption DEF BatchInv, BatchType
  <2>2. job \in [Job -> JobStates] /\ FileInv(j)
    BY DEF BatchInv, BatchType, FilesInv
  <2> QED
    BY <2>1, <2>2 DEF Rows
<1>1. CASE JobBuilt(j)
  <2>1. /\ JobStep(j, job[j], "start") /\ Running(j) /\ file' = file
        /\ job[j] = "build" /\ job'[j] = "start"
    BY <1>0, <1>1 DEF JobBuilt, JobStep, Running
  <2>2. FileInv(j)'
    BY <1>0, <2>1 DEF FileInv, OfEarlierBatch
  <2> QED
    BY <1>0, <2>1, <2>2, JobStepKeeps DEF JobStates
<1>2. CASE JobTruncates(j)
  <2>1. /\ JobStep(j, job[j], "write") /\ Running(j) /\ file' = [file EXCEPT ![j] = <<>>]
        /\ outcome' = outcome /\ job'[j] = "write"
    BY <1>0, <1>2 DEF JobTruncates, JobStep, Running
  <2>2. <<>> \in Rows /\ Len(<<>>) = 0
    BY DEF Rows
  <2>3. file'[j] = <<>> /\ file' \in [Job -> Rows] /\ \A g \in Job : g # j => file'[g] = file[g]
    BY <1>0, <2>1, <2>2
  <2>4. FileInv(j)'
    BY <1>0, <2>1, <2>2, <2>3 DEF FileInv, OfThisBatch
  <2> QED
    BY <1>0, <2>1, <2>3, <2>4, JobStepKeeps DEF JobStates
<1>3. CASE JobWrites(j)
  <2> DEFINE n == Len(file[j]) + 1
             new == Append(file[j], outcome[j][n])
  <2>1. /\ JobStep(j, job[j], "write") /\ Running(j) /\ file' = [file EXCEPT ![j] = new]
        /\ Len(file[j]) < Len(outcome[j]) /\ job[j] = "write"
        /\ outcome' = outcome /\ job'[j] = "write"
    BY <1>0, <1>3 DEF JobWrites, JobStep, Running
  <2>2. n \in 1 .. Len(outcome[j]) /\ outcome[j][n] \in Line
    <3>1. n \in 1 .. Len(outcome[j])
      BY <1>0, <2>1
    <3> QED
      BY <1>0, <3>1, LineType
  <2>3. new \in Rows /\ Len(new) = n /\ new[n] = outcome[j][n]
        /\ \A m \in 1 .. Len(file[j]) : new[m] = file[j][m]
    BY <1>0, <2>2 DEF Rows
  <2>4. \A m \in 1 .. Len(file[j]) : file[j][m] = outcome[j][m]
    BY <1>0, <2>1 DEF FileInv, OfThisBatch
  <2>5. \A m \in 1 .. Len(new) : new[m] = outcome[j][m]
    BY <1>0, <2>3, <2>4
  <2> HIDE DEF new
  <2>6. file'[j] = new /\ file' \in [Job -> Rows] /\ \A g \in Job : g # j => file'[g] = file[g]
    BY <1>0, <2>1, <2>3
  <2>7. FileInv(j)'
    BY <1>0, <2>1, <2>2, <2>3, <2>5, <2>6 DEF FileInv, OfThisBatch
  <2> QED
    BY <1>0, <2>1, <2>6, <2>7, JobStepKeeps DEF JobStates
<1>4. CASE JobEnds(j)
  <2>1. /\ JobStep(j, job[j], "ok") /\ Running(j) /\ file' = file
        /\ Len(file[j]) = Len(outcome[j]) /\ job[j] = "write"
        /\ outcome' = outcome /\ job'[j] = "ok"
    BY <1>0, <1>4 DEF JobEnds, JobStep, Running
  <2>2. \A m \in 1 .. Len(file[j]) : file[j][m] = outcome[j][m]
    BY <1>0, <2>1 DEF FileInv, OfThisBatch
  <2>3. file[j] = outcome[j]
    BY <1>0, <2>1, <2>2, SeqEqual DEF Rows
  <2>4. FileInv(j)'
    BY <2>1, <2>3 DEF FileInv
  <2> QED
    BY <1>0, <2>1, <2>4, JobStepKeeps DEF JobStates
<1>5. CASE JobFails(j)
  <2>1. /\ JobStep(j, job[j], "failed") /\ Running(j) /\ file' = file
        /\ outcome' = outcome /\ job'[j] = "failed"
    BY <1>0, <1>5 DEF JobFails, JobStep
  <2>2. FileInv(j)'
    BY <1>0, <2>1 DEF FileInv, OfThisBatch, OfEarlierBatch, Running
  <2> QED
    BY <1>0, <2>1, <2>2, JobStepKeeps DEF JobStates
<1> QED
  BY <1>1, <1>2, <1>3, <1>4, <1>5 DEF JobRuns

(* One step of the script. *)
LEMMA LaunchBatch ==
  ASSUME BatchInv, Launch
  PROVE  BatchInv'
<1>1. /\ phase = "launch" /\ phase' = "launch" /\ k' = k + 1 /\ k \in 1 .. Jobs
      /\ job' = [job EXCEPT ![JobAt(k)] = "build"]
      /\ UNCHANGED <<parallel, outcome, file, verdict>>
      /\ ~parallel /\ k > 1 => job[JobAt(k - 1)] = "ok"
      /\ k \in Nat /\ Jobs \in Nat /\ job \in [Job -> JobStates]
      /\ \A n \in k .. Jobs : job[JobAt(n)] = "none"
  BY JobsType DEF Launch, PreviousDone, BatchInv, LoopsInv, BatchType
<1>2. JobAt(k) \in Job /\ \A n \in 1 .. Jobs : JobAt(n) \in Job
  BY <1>1, JobAtType
<1>3. job'[JobAt(k)] = "build" /\ \A j \in Job : j # JobAt(k) => job'[j] = job[j]
  BY <1>1, <1>2
<1>4. BatchType'
  <2>1. job' \in [Job -> JobStates]
    BY <1>1 DEF JobStates
  <2> QED
    BY <1>1, <2>1 DEF BatchInv, BatchType
<1>5. FilesInv'
  <2>1. job[JobAt(k)] = "none"
    BY <1>1
  <2> QED
    BY <1>1, <1>3, <2>1 DEF BatchInv, FilesInv, FileInv, OfThisBatch, OfEarlierBatch
<1>6. LoopsInv'
  <2>1. k' \in 1 .. Jobs + 1 /\ k' - 2 = k - 1
    BY <1>1
  <2>2. ASSUME ~parallel, NEW n \in 1 .. k - 1
        PROVE  job'[JobAt(n)] = "ok"
    <3>1. job[JobAt(n)] = "ok"
      <4>1. CASE n = k - 1
        BY <1>1, <2>2, <4>1
      <4>2. CASE n # k - 1
        <5>1. n \in 1 .. k - 2
          BY <1>1, <4>2
        <5> QED
          BY <1>1, <2>2, <5>1 DEF BatchInv, LoopsInv
      <4> QED
        BY <4>1, <4>2
    <3>2. n \in 1 .. Jobs /\ n # k
      BY <1>1
    <3>3. JobAt(n) # JobAt(k)
      BY <1>1, <3>2, JobAtOnce
    <3> QED
      BY <1>2, <1>3, <3>1, <3>2, <3>3
  <2>3. ASSUME NEW n \in k + 1 .. Jobs
        PROVE  job'[JobAt(n)] = "none"
    <3>1. n \in k .. Jobs /\ n \in 1 .. Jobs /\ n # k
      BY <1>1
    <3>2. JobAt(n) # JobAt(k)
      BY <1>1, <3>1, JobAtOnce
    <3> QED
      BY <1>1, <1>2, <1>3, <3>1, <3>2
  <2> QED
    BY <1>1, <2>1, <2>2, <2>3 DEF LoopsInv
<1>7. VerdictInv'
  BY <1>1 DEF BatchInv, VerdictInv
<1> QED
  BY <1>4, <1>5, <1>6, <1>7 DEF BatchInv

(* Steps that move the script only. *)
LEMMA ScriptKeeps ==
  ASSUME BatchInv, UNCHANGED <<parallel, outcome, file, job>>, k' \in Nat,
         LoopsInv', VerdictInv'
  PROVE  BatchInv'
<1>1. BatchType' /\ FilesInv'
  BY DEF BatchInv, BatchType, FilesInv, FileInv, OfThisBatch, OfEarlierBatch
<1> QED
  BY <1>1 DEF BatchInv

(* Behind the last job are all of them. *)
LEMMA AllJobs ==
  ASSUME NEW S, \A n \in 1 .. Jobs : JobAt(n) \in S
  PROVE  Job \subseteq S
BY JobAtAll

(* A step of the script keeps the invariant of the batch. *)
LEMMA ScriptNext ==
  ASSUME BatchInv, Script \/ BuildFails
  PROVE  BatchInv'
<1>0. k \in Nat /\ Jobs \in Nat /\ LoopsInv /\ VerdictInv
  BY JobsType DEF BatchInv, BatchType
<1>1. CASE Build
  <2>1. LoopsInv' /\ VerdictInv'
    BY <1>0, <1>1 DEF Build, LoopsInv, VerdictInv
  <2> QED
    BY <1>0, <1>1, <2>1, ScriptKeeps DEF Build
<1>2. CASE BuildFails
  <2>1. LoopsInv' /\ VerdictInv'
    BY <1>0, <1>2 DEF BuildFails, LoopsInv, VerdictInv
  <2> QED
    BY <1>0, <1>2, <2>1, ScriptKeeps DEF BuildFails
<1>3. CASE Launch
  BY <1>3, LaunchBatch
<1>4. CASE AbortOnFailure
  <2>1. LoopsInv' /\ VerdictInv'
    BY <1>0, <1>4 DEF AbortOnFailure, LoopsInv, VerdictInv
  <2> QED
    BY <1>0, <1>4, <2>1, ScriptKeeps DEF AbortOnFailure
<1>5. CASE AllLaunched
  <2>1. /\ phase = "launch" /\ k = Jobs + 1 /\ phase' = "wait" /\ k' = 1
        /\ UNCHANGED <<parallel, outcome, file, job, verdict>>
        /\ ~parallel /\ k > 1 => job[JobAt(k - 1)] = "ok"
    BY <1>0, <1>5 DEF AllLaunched, PreviousDone, LoopsInv
  <2>2. ASSUME ~parallel
        PROVE  \A j \in Job : job'[j] = "ok"
    <3> DEFINE S == {j \in Job : job'[j] = "ok"}
    <3>1. ASSUME NEW n \in 1 .. Jobs
          PROVE  JobAt(n) \in S
      <4>1. n = k - 1 \/ n \in 1 .. k - 2
        BY <1>0, <2>1
      <4>2. job[JobAt(n)] = "ok"
        BY <1>0, <2>1, <2>2, <4>1 DEF LoopsInv
      <4> QED
        BY <2>1, <4>2, JobAtType
    <3> HIDE DEF S
    <3>2. Job \subseteq S
      BY <3>1, AllJobs
    <3> QED
      BY <3>2 DEF S
  <2>3. LoopsInv'
    BY <1>0, <2>1, <2>2 DEF LoopsInv
  <2>4. VerdictInv'
    BY <1>0, <2>1 DEF VerdictInv
  <2> QED
    BY <2>1, <2>3, <2>4, ScriptKeeps
<1>6. CASE Wait
  <2>1. /\ phase = "wait" /\ phase' = "wait" /\ k \in 1 .. Jobs /\ k' = k + 1
        /\ ~Running(JobAt(k))
        /\ UNCHANGED <<parallel, outcome, file, job, verdict>>
    BY <1>0, <1>6 DEF Wait, WaitedFor, LoopsInv
  <2>2. \A n \in 1 .. k' - 1 : ~Running(JobAt(n))'
    BY <1>0, <2>1 DEF LoopsInv, Running
  <2>3. LoopsInv'
    BY <1>0, <2>1, <2>2 DEF LoopsInv
  <2>4. VerdictInv'
    BY <1>0, <2>1 DEF VerdictInv
  <2> QED
    BY <1>0, <2>1, <2>3, <2>4, ScriptKeeps
<1>7. CASE CheckFiles
  <2>1. /\ phase = "wait" /\ phase' = "plot" /\ k = Jobs + 1 /\ k' = 1
        /\ UNCHANGED <<parallel, outcome, file, job, verdict>>
    BY <1>0, <1>7 DEF CheckFiles, LoopsInv
  <2>2. \A j \in Job : ~Running(j)'
    <3> DEFINE S == {j \in Job : ~Running(j)}
    <3>1. \A n \in 1 .. Jobs : JobAt(n) \in S
      BY <1>0, <2>1, JobAtType DEF LoopsInv
    <3> HIDE DEF S
    <3>2. Job \subseteq S
      BY <3>1, AllJobs
    <3> QED
      BY <2>1, <3>2 DEF S, Running
  <2>3. LoopsInv'
    BY <1>0, <2>1, <2>2 DEF LoopsInv
  <2>4. VerdictInv'
    BY <1>0, <2>1 DEF VerdictInv
  <2> QED
    BY <2>1, <2>3, <2>4, ScriptKeeps
<1>8. CASE Plot
  <2>1. LoopsInv'
    BY <1>0, <1>8 DEF Plot, LoopsInv, Running
  <2>2. VerdictInv'
    <3>1. Infos' = Infos
      BY <1>8 DEF Plot, Infos, LayoutFiles
    <3>2. verdict # "PASS"
      BY <1>0, <1>8 DEF Plot, VerdictInv
    <3> QED
      BY <1>8, <3>1, <3>2 DEF Plot, VerdictInv
  <2> QED
    BY <1>0, <1>8, <2>1, <2>2, ScriptKeeps DEF Plot
<1> QED
  BY <1>1, <1>2, <1>3, <1>4, <1>5, <1>6, <1>7, <1>8 DEF Script

(* The invariant of the batch is inductive. *)
LEMMA NextBatch == BatchInv /\ [Next]_vars => BatchInv'
<1> SUFFICES ASSUME BatchInv, [Next]_vars PROVE BatchInv'
  OBVIOUS
<1>1. CASE UNCHANGED vars
  BY <1>1 DEF vars, BatchInv, BatchType, FilesInv, FileInv, OfThisBatch, OfEarlierBatch,
     LoopsInv, VerdictInv, Running, Infos, LayoutFiles
<1>2. CASE Script \/ BuildFails
  BY <1>2, ScriptNext
<1>3. CASE \E j \in Job : JobRuns(j) \/ JobFails(j)
  BY <1>3, JobNext
<1> QED
  BY <1>1, <1>2, <1>3 DEF Next

(* The invariant of the batch holds in every state. *)
THEOREM BatchKept == Spec => []BatchInv
<1>1. Init => BatchInv
  BY InitBatch
<1>2. BatchInv /\ [Next]_vars => BatchInv'
  BY NextBatch
<1> QED
  BY <1>1, <1>2, PTL DEF Spec

-----------------------------------------------------------------------------
(***************************************************************************)
(* Theorems.                                                               *)
(***************************************************************************)
(* The plots are drawn when no simulator runs any more, a file whose run   *)
(* succeeded holds that run, and no file mixes two batches: `wait` (lines  *)
(* 110-115 of run_all_simulations.sh) covers every job that was started.   *)
THEOREM PlotsCorrect == Spec => []PlotsSeeFinishedRuns
<1>1. ASSUME BatchInv, phase \in {"plot", "done"}, NEW j \in Job
      PROVE  /\ ~Running(j)
             /\ job[j] = "ok" => file[j] = outcome[j]
             /\ OfThisBatch(j) \/ OfEarlierBatch(j)
  <2>1. ~Running(j) /\ FileInv(j) /\ job[j] \in JobStates
    BY <1>1 DEF BatchInv, BatchType, LoopsInv, FilesInv
  <2>2. job[j] \in {"none", "ok", "failed"}
    BY <2>1 DEF Running, JobStates
  <2>3. outcome[j] \in Rows
    BY <1>1, BatchAssumption DEF BatchInv, BatchType
  <2> QED
    BY <2>1, <2>2, <2>3 DEF FileInv, OfThisBatch, Rows
<1>2. BatchInv => PlotsSeeFinishedRuns
  BY <1>1 DEF PlotsSeeFinishedRuns
<1> QED
  BY <1>2, BatchKept, PTL

(* With --no-parallel every file belongs to this batch when the plots are  *)
(* drawn: set -e lets no failure pass.                                     *)
THEOREM SequentialCorrect == Spec => []SequentialIsComplete
<1>1. BatchInv => SequentialIsComplete
  BY DEF BatchInv, LoopsInv, FilesInv, FileInv, SequentialIsComplete
<1> QED
  BY <1>1, BatchKept, PTL

(* What PASS says of the layouts whose runs went well. *)
LEMMA PassLayout ==
  ASSUME BatchInv, verdict = "PASS", NEW l \in Layout, BaseRunsOk(l)
  PROVE  /\ ParserOrdering(LayoutFiles(l))
         /\ 0 < FirstDead(LayoutFiles(l)["esmac"])
         /\ FirstDead(LayoutFiles(l)["esmac"]) < FirstDead(LayoutFiles(l)["leach"])
         /\ FirstDead(LayoutFiles(l)["lecmac"]) = 0
              \/ FirstDead(LayoutFiles(l)["leach"]) < FirstDead(LayoutFiles(l)["lecmac"])
         /\ \A p \in BaseProtocols : LayoutFiles(l)[p] = outcome[<<l, p>>]
<1> DEFINE files == LayoutFiles(l)
<1>1. files \in [Protocol -> Rows] /\ outcome \in Outcomes
      /\ \A p \in Protocol : files[p] = file[<<l, p>>]
  BY DEF LayoutFiles, BatchInv, BatchType, Job
<1>2. ASSUME NEW p \in BaseProtocols
      PROVE  p \in Protocol /\ files[p] = outcome[<<l, p>>] /\ files[p] # <<>>
             /\ InWindow(files[p])
  <2>1. p \in Protocol /\ <<l, p>> \in Job
    BY ProtocolNames DEF BaseProtocols, Job
  <2>2. job[<<l, p>>] = "ok" /\ InWindow(outcome[<<l, p>>])
    BY DEF BaseRunsOk, BaseProtocols, InWindow
  <2>3. files[p] = outcome[<<l, p>>]
    BY <1>1, <2>1, <2>2 DEF BatchInv, FilesInv, FileInv
  <2>4. outcome[<<l, p>>] # <<>>
    BY <1>1, <2>1, BatchAssumption
  <2> QED
    BY <2>1, <2>2, <2>3, <2>4
<1> HIDE DEF files
<1>3. Info(files) = Infos[l] /\ l \in DOMAIN Infos
  BY DEF Infos, files
<1>4. "esmac" \in DOMAIN Info(files)
  <2>1. "esmac" \in BaseProtocols
    BY DEF BaseProtocols
  <2>2. "esmac" \in Protocol /\ files["esmac"] # <<>>
    BY <1>2, <2>1
  <2> QED
    BY <1>1, <2>2 DEF Info
<1>5. BaseOk(Info(files))
  BY <1>3, <1>4 DEF BatchInv, VerdictInv, ValidateOrdering
<1> QED
  BY <1>1, <1>2, <1>5, BaseOkOrders DEF files

(* Where the runs went well parse_traces.py passes what plot_results.py    *)
(* confirms: its `>=` and `or inf` are no stricter than the strict order   *)
(* with MAX_ROUNDS + 1 for a run without a death.                          *)
THEOREM PassAgreesCorrect == Spec => []PassAgrees
<1>1. BatchInv => PassAgrees
  BY PassLayout DEF PassAgrees
<1> QED
  BY <1>1, BatchKept, PTL

(* PASS means that ES-MAC lost its first node before LEACH, and LEACH      *)
(* before LECMAC, in every layout whose runs went well within the window.  *)
THEOREM PassMeansOrderCorrect == Spec => []PassMeansOrder
<1>1. ASSUME BatchInv
      PROVE  PassMeansOrder
  <2> SUFFICES ASSUME verdict = "PASS", NEW l \in Layout, BaseRunsOk(l)
               PROVE  LET first == FirstDeaths(l) IN
                      /\ 0 < first["esmac"] /\ first["esmac"] < first["leach"]
                      /\ first["lecmac"] = 0 \/ first["leach"] < first["lecmac"]
    BY DEF PassMeansOrder
  <2>1. \A p \in BaseProtocols : FirstDeaths(l)[p] = FirstDead(LayoutFiles(l)[p])
    <3>1. BaseProtocols \subseteq Protocol
      BY ProtocolNames DEF BaseProtocols
    <3> QED
      BY <1>1, <3>1, PassLayout DEF FirstDeaths
  <2>2. "esmac" \in BaseProtocols /\ "leach" \in BaseProtocols /\ "lecmac" \in BaseProtocols
    BY DEF BaseProtocols
  <2> QED
    BY <1>1, <2>1, <2>2, PassLayout
<1> QED
  BY <1>1, BatchKept, PTL

=============================================================================
