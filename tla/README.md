# WSN protocol simulator: TLA+ models and proofs

This directory verifies the wireless-sensor-network simulator of this
repository: the engine `scratch/wsn-protocol-model.h` that runs LEACH, ES-MAC,
LECMAC and LECMAC+, the scripts that run it and judge its results, and the two
parts of ns-3 everything else stands on, its random number streams and its event
core. Paths are relative to `src/ns-3-dev/`; line numbers without a file refer
to `scratch/wsn-protocol-model.h`.

## Inventory

| Part | State | Operations | Interacts through | Hard behaviour | What makes it correct |
|---|---|---|---|---|---|
| Radio model (286-307) | constants | `Dist`, `TxCost`, `RxCost`, `IdleCost` | called by every phase | boundaries of comparisons | costs are never negative |
| Node vector, `Consume` (109-120, 266-283, 310-324) | energy, life, role, head, members of every node | `PrepareNodes`, `Consume`, counters | shared by all phases | a node dies inside a loop that goes on using it | four fields change together, nobody comes back |
| Election (342-549, 859-893) | `lastChEpoch`, candidates, `chs` | `SelectClusterHeads`, `ComputeAdaptiveTE`, `ComputeMaxAliveEnergy` | returns `chs` | epochs, unstable sort, fallback overrides the rules | rotation, distance between heads, threshold, a head is always found |
| Formation (552-614) | `clusterHeadId`, `members` | `JoinClusters` | reads `chs`, writes nodes | cap closes heads during the scan, second pass | nearest open head, cap as last resort, lists and ids agree |
| Relay map (898-957) | `m_relayMap`, `gwLoad` | `BuildRelayMap` | read at the end of each cluster's slots | greedy order, load limit, map outlives the round | limit kept, every relay cheaper, no cycles |
| Data phase (617-795) | energy | `SetupPhase`, `SteadyStateFrame`, `SteadyStatePhase` | reads roles while paying takes them away | deaths of members, heads and gateways in mid-loop; id -1 cast to unsigned | who pays and who is silent |
| Round loop (133-208, 797-816) | round, FND, LND, output file | `Run`, `SimulateRound` | all of the above, the result file | ends, whatever dies | every round costs, rows follow each other, FND is the first row with a dead node |
| Entry points (`scratch/*-sim.cc`) | command line, seed and run of the process | `main` | call the engine, create random variables | the animation takes streams of its own first | protocols are compared on the same random numbers |
| Diagnostic (`scratch/wsn-diag.cc`) | own node vector | `main`, `run` twice | seeds the generator twice | seeding again does not restart streams | - |
| Batch runner (`run_all_simulations.sh`) | background jobs, result files | build, 16 simulations, wait, plot | processes and files | exit codes dropped, files of an earlier batch, `set -e` | what is plotted is finished, and of this batch |
| Seed scan (`seed_scan.py`) | results of a seed, result file | ES-MAC and LEACH for 25 seeds in 4 layouts | the wrapper `ns3`, processes, files | time-outs, simulators that survive them, stale files | the good seed, and the first one, is found |
| Analysis (`analysis/*.py`) | parsed rows | FND and LND, verdict on the order, CSV, plots | result files | missing protocols, runs without a death, two scripts for one question | the verdict is about the deaths of the engine |
| ns-3 random streams (`rng-seed-manager.cc`, `rng-stream.cc`, `random-variable-stream.cc`) | seed, run, next automatic stream; generator of each variable | `SetSeed`, `SetRun`, construction | used by the entry points and the engine | one counter for all automatic streams of a process | no two variables share numbers |
| ns-3 event lists (`heap-`, `calendar-`, `list-scheduler.cc`) | heap, buckets, list | `Insert`, `RemoveNext`, `Remove`, `SetScheduler` | behind `Scheduler`, called by the simulator | resizing, removal from the middle, ties, replacement while events are pending | the earliest event is always next |
| ns-3 default simulator (`default-simulator-impl.cc`) | event list, inbox of other threads, clock, ids, destroy events | `Schedule*`, `Cancel`, `Remove`, `IsExpired`, `Stop`, `Run`, `Destroy` | event lists; handlers call back; threads post | an unlocked flag, ids that outlive events, ties, wrap-around | exact ids, nothing lost or late, FIFO among ties (broken when ids wrap around) |
| Rest of ns-3 (`src/`, `examples/`, ...) | - | vendored upstream | command line, NetAnim | - | outside this project |

The engine is one sequential program; there are no threads, callbacks or
messages between processes in it. What is hard are long sequences of legal
steps whose order depends on random draws and on who dies when: state is read
through a vector (`chs`), a flag (`isClusterHead`), an index (`clusterHeadId`)
and a list (`members`), which deaths update only in part. Around it there is
concurrency: the scripts start processes that share the result files, survive
time-outs and fail half-way, and ns-3's simulator takes events from other
threads through a flag it reads without the lock.

## Modules

    WsnRadio                constants of the radio, squared distances, costs
      WsnState              CONSTANTS, VARIABLES, Consume and other node operations, TypeOK
        WsnElection         SelectClusterHeads: draw, back-off, fallback
        WsnFormation        JoinClusters, BuildRelayMap
        WsnDataPhase        SetupPhase, SteadyStateFrame, SteadyStatePhase
          WsnEngine         Run and SimulateRound: Init, Next, Spec
            WsnProperties   the properties, refinement mappings
              MCWsn         instances for TLC
    WsnLifetime             abstract: energy, life, rounds
    WsnClustering           abstract: clusters of a round
    InductionLemmas         induction over finite sets, folds, loops, powers of two
    WsnElectionProofs       theorems: charges, types, heads, election
      WsnClusterProofs      theorems: members, refinements, relays, rows

    WsnResults              rows -> FND, LND, verdicts of both analysis scripts
      RunAll, MCRunAll      the batch and its jobs
        RunAllProofs        theorems
    SeedScan, MCSeedScan    the scan, the wrapper and the simulators
      SeedScanProofs        theorems
    NsRng                   streams and places in the cycle
      WsnStreams, MCWsnStreams  the mains of this repository, two at a time
        WsnStreamsProofs    theorems
    NsEvents                the order of events
      NsAgenda              abstract: the event list
      NsHeap, NsCalendar, NsList  operators: what Insert, PeekNext, RemoveNext
                            and Remove do to each data structure
        NsScheduler         the list in use and SetScheduler; implements NsAgenda
          NsSchedulerProofs theorems
      NsSimulator           the default simulator over the abstract list
        NsSimulatorProofs   theorems

How they fit together. `WsnEngine` treats a random draw as a choice;
`WsnStreams` says which generator each of these draws comes from, and that two
protocols under one seed use the same ones. `SeedScan` and `RunAll` see a
simulation as the process it is: it truncates its file, appends a row per round
and ends, and the rows are those `Record` of `WsnEngine` writes (dead once, dead
for ever: `RowsFollow`, proved). `WsnResults` is what the scripts make of these rows. `NsAgenda` assumes of
its user that ids come from a counter and that no event is inserted before the
time of the last one removed; `NsSimulator` is that user, its `NothingLate`
(proved) is that assumption, and in turn it takes from its list what `NsAgenda`
promises and `NsScheduler` shows (proved) each of the three implementations to keep,
also when one replaces another.

Correspondence. `nodes` is `m_nodes` (without the coordinates, which are `pos`
and never change), `chs` the vector returned by `SelectClusterHeads`, `relayMap`
is `m_relayMap` (`None` = -1 = key absent; `find` at lines 759-762 treats both
alike), `gwLoad` the local of `BuildRelayMap`. `row` is the last line written to
the output file. `pc` names the loop in execution and `i`, `slot`, `frame` are
its counters; `todo` is what is left of a sorted vector. One action is one
iteration of a loop with everything it calls, so a state between two actions is
one the program passes through.

    run -> draw -> [elect] -> fallback -> join -> [relay] -> advertise -> setup
        -> frame -> (cluster -> slot* -> forward)* -> frame ... -> record -> run | done

`elect` exists for LECMAC and LECMAC+, `relay` for LECMAC+. The protocol is a
CONSTANT; every action carries the conditions the code has for it.

Abstractions, and why they are sound for the properties:

* Energies are integers in a fixed unit and points lie on a grid of 5 m. The
  code's doubles are rounded; the properties are about order and sign. Distances
  are compared as squares, which has the same order, and `TxCost` uses `d * d`
  in the code as well.
* A random draw is a choice between its possible outcomes. For LEACH the
  threshold is 1 in the last round of an epoch (line 361: p / (1 - p * 19) = 1
  for p = 1/20), where no draw below 1 reaches it, so that outcome is forced; in
  all other cases it lies strictly between 0 and 1. Real-number arithmetic is
  assumed for that threshold: with doubles the quotient may differ from 1 in the
  last bit, which a draw hits with a probability around 1e-16.
* `ComputeMaxAliveEnergy` (881-892) only scales a probability: the outcome is
  either. The adaptive threshold is modelled exactly, multiplied out.
* `std::sort` is not stable and its comparison looks at the energy only: equal
  candidates come in any order. The relay order has no ties, ids are compared.
* `AsUint` is the cast to `uint32_t`; any range above N gives the same
  behaviour, since -1 becomes an index out of range.
* Console output, number formats and the file name are left out.

The scripts (`SeedScan`, `RunAll`). `seed`, `task`, `result` are the loop
variables and results of seed_scan.py (a task is a layout and one of the two
protocols), `wrapper` is where the process `ns3 run` is, `proc[p]` the simulator
started for a seed and task: its place in `Run`, its round, and whether somebody
still holds the other end of its output (`heard`). Builds fail, simulators crash
and the time-out strikes at any moment of any run, in every instance. A time-out
kills the wrapper only (subprocess.run kills its child, line 24); the simulator
goes on until it prints the next console line (135-141, 185-189, 205), on a
closed pipe, which ends it (`"crashed"`; `"ended"` is the return from `main`).
`fnd[p]` is the outcome of the run fixed in advance: the round of its first
death. In `RunAll` `parallel` is the option of the command line, `outcome`
fixes the rows of each job, `job` is its process, `phase` and `k` are the position in the script; `LayoutFiles` and `Infos` are
what plot_results.py reads when it is started.

Random streams (`NsRng`, `WsnStreams`). A generator is the record
of seed, run, stream and its place in the cycle, which `AdvanceNthBy` computes
bit by bit as the code multiplies matrices. 64 bits, 2^127 and 2^76 are scaled
down; the places are still exact integers, so overlap is equality of places. `failed` is
NS_FATAL_ERROR or a failed assertion. In `WsnStreams` two processes run any two
mains with any seeds side by side; `draws` are the variables created, with what
they are for.

Event core. `events` of `NsScheduler` is the object `m_events` points to: its
type, and as `q` what it holds. For the heap that is `m_heap` without its unused
first element, for the calendar the fields of CalendarScheduler (`m_qSize` is
the number of events), for the list `m_events`. `SetScheduler` is one action: nothing runs
between its removals and insertions. In `NsSimulator` an event carries the id drawn for it without
truncation (`no`); `Uid` reduces it to `UidRange`, which stands for 2^32. One
action is one call, except where threads meet: `Push` and `Publish` are the two
writes under the lock, `Check` reads the flag without it, `Swap` takes the lock.
What the handler of an event does is any sequence of calls between
`ProcessOneEvent` and `HandlerReturns`. Contexts are left out: they are only
handed on.

## Runs

All bounds are CONSTANTs in the `.cfg` files. The unit of energy is 0.4 uJ and
of length 5 m, so that electronics : idle : amplifier costs keep the proportions
50 nJ : 40 nJ : 100 pJ/m^2 of the code (20 : 16 : 1) and packets of 160 and 800
bits are 1 and 5. The field is that of layout 1. Batteries hold only a few
rounds, so that nodes die early, at different times and in every phase.

| Run | Instance | Shows |
|---|---|---|
| `MCLeach` | 3 nodes, epochs of 3 rounds, 7 rounds: some runs end there, others with all nodes dead | batteries and roles, rotation over two epochs, silence of stranded members, termination |
| `MCEsmac` | 3 nodes, 20 rounds: more than the batteries last | heads, member lists, rows, `ClusteringSpec`; every run ends with all nodes dead |
| `MCLecmac` | 4 nodes in two close pairs or three and one, MCS 1, events near and far | back-off, cap with second pass, nearest heads, nobody unassigned |
| `MCLecmacPlus` | 4 nodes, 2 sources for a gateway of load 1 | types, weak heads under the adaptive threshold, relay load, paths and priority, no data sent to a dead gateway, `LifetimeSpec` |

Why these bounds are enough: three nodes give a head, a member and a second head
or a stranded member; four give two clusters that are full and a gateway with
two sources, one of which has to do without. Two frames a round separate the
frame in which a head dies from the next one. Two placements for three nodes
contain equal distances and nodes closer than PT. The number of rounds lets every
battery run out in `MCEsmac` (checked by `NetworkDies`), in the others at least
one. In `MCLeach` both ends of a run occur: the round limit with survivors and
the death of the last node. In these runs heads die while advertising, while receiving and when
forwarding; members die in the JOIN-REQ (so that the cast of -1 is executed) and
in their slots; gateways die before and while they relay.

The scripts, the random streams and the event core:

| Run | Instance | Shows |
|---|---|---|
| `MCSeedScan` | 1 layout, 2 seeds, 1 round, old files or none; failures, crashes and time-outs at any moment | what is read of an undisturbed run is its own, verdicts are right as far as the runs were clean, the scan ends |
| `MCDocGoodSeed` | as `MCSeedScan` | violated: a seed announced has the order where LEACH ended in time (seed_scan.py:58) |
| `MCRunAll` | 4 jobs, parallel or not, clean directory or old files, any job failing at any moment, first deaths in every order, as ties and after the window, window of 2 rounds | plots see finished runs, sequential batches are complete, what PASS means, the script ends |
| `MCNsScheduler` | 5 events over 5 times, heap, calendar (both orders, up to 4 buckets) and list | heap order, calendar invariant, implements `NsAgenda`, moving loses nothing |
| `MCDocHeap` | heap of 7 events | violated: RemoveNext takes the earliest (scheduler.h:203) |
| `MCNsSimulator` | 3 ids (4 to 6), delays 0 and 1, handlers that stop, a second thread that posts | exact ids, counts and clock, order of events and of posts, arrival of posts |
| `MCWsnStreams` | any two programs and seeds, 3 rounds | same field and events for all protocols; no number serves twice |
| `MCDocReproducible` | the same, animation included | violated: one seed, one result (FINAL_SUMMARY.md:155) |

The bounds of these. Two seeds make a verdict that is not the first and a
simulator that outlives its time-out: it truncates, or writes its row into, the
file the next seed's run has opened. One round suffices for that, for a file
without rows and for one of an earlier batch; the theorems on the scan hold for any
number of layouts, seeds and rounds, so this run only has to show that they are
about something. Four jobs are all the protocols of one layout; no job
depends on another layout. Runs in which nobody dies, and one whose first death
comes after the window, are among the outcomes.

Five events make the calendar grow from two to four buckets and shrink to two
and one again, and a heap of five has a last inner node with two children, one of four
a node with one. `HeapRemovals` is the largest heap `Remove` is called on: up to
five elements the last one is never smaller than the parent of the hole, with six
it may be, which breaks `HeapOrder`, and with seven the wrong event comes out,
which is what `MCDocHeap` shows. So `MCNsScheduler` has every call of `Remove` the heap can
answer. Three ids suffice for two tied events and one that removes, cancels,
stops or posts; the second thread may post them all. In that run, as in the
theorems on the simulator, the ids do not wrap around (`MaxUid <= UidRange`): that
takes 2^32 events.

Each property has a mutant: a definition of the model changed as a programming
slip would change the code (a field not reset in `Consume`, a comparison off by
one, a sort the wrong way round, a list not cleared, a loop that does not
advance). The mutants stand before the definitions they change, and are used by
no specification.

Fairness. `Spec` has `WF_vars(Next)` and nothing else: the simulator is one
process that nothing suspends, so it takes a step whenever it has one. No
fairness is put on the random draws: `Termination` and `NetworkDies` hold for
every sequence of outcomes, because the fallback always finds a head and every
head pays.

The scan is fair to itself only: `WF_vars(Scan)` and `WF_vars(Timeout)`, a Python
process and its clock; a wrapper or simulator may hang for ever, and the scan
still ends if every run is subject to the time-out, as it is in the code. The
batch needs its jobs to run on (`WF_vars(JobRuns(j))`), as `wait` has no time-out.
In `NsSimulator` both threads run (`WF_vars(Main)`, `WF_vars(Publish)`: nobody
holds the lock for ever) and handlers return; nothing is assumed of the program's
calls, so `PostsArrive` is conditional on the program being in `Run` again and
again.

## Findings

Statements of documentation and comments the code does not keep. Three are shown
by a run of their own, whose trace is the argument:

* `MCDocHeap`: `HeapScheduler::Remove` lets the last element sink from the hole
  but never rise (heap-scheduler.cc:227, a bug), after which events come out in
  the wrong order.
* `MCDocGoodSeed`: the -1 of a run cut off by the time-out (seed_scan.py:41) is less
  than every round, so a seed is announced because ES-MAC did not finish. The
  property also fails without that, when both runs end in time: the simulator of a
  run given up with an earlier seed goes on writing (the time-out kills the wrapper
  only, line 24) and truncates the file of this seed's run before it is read.
* `MCDocReproducible`: with the animation, the default of lecmac-sim, the same
  seed gives another field (lecmac-sim.cc:59).

For the others a property of a passing run says how far the statement holds.

| Statement | What the code does | Property |
|---|---|---|
| a node is head at most once per epoch (line 28) | the fallback (523-545) elects regardless of the epoch | `EpochRotation` |
| nodes below TE are never head (README.md:187) | the fallback does so when nobody else is there | `WeakHeadInv` |
| a head rejects members beyond MCS (README.md:189) | the second pass (587-597) ignores the cap | `CapLastResort` |
| each live member gets a slot in a frame (661) | members of a dead head are neither served nor unassigned (695) | `StrandedSilent` |
| "GOOD SEED" (seed_scan.py:58) | besides the above, a failed run is read from an old file (25) | `GoodSeedIsGood`, for clean runs |
| "Runs all 16 simulations" (run_all_simulations.sh:4), "${lines} rounds logged" (125) | exit codes are dropped (113) when jobs run in parallel, and only the existence of a file is tested: after a failure the rows of an earlier batch, or the first ones of this, are reported and plotted | `SequentialIsComplete`, `PlotsSeeFinishedRuns` |
| "LND = Last Node Death" (FINAL_SUMMARY.md:132) | LND is set in every round that ends with a dead node (178-181), so it is the last simulated round; that is the round of a death when nobody is left | `RowsFollow` |
| ids count up, "tied events are handled in FIFO order" (events.rst:79-81) | `m_uid` is a `uint32_t` (default-simulator-impl.h:111) and wraps around after 2^32 events; an event scheduled then runs before the tied ones scheduled earlier | none: `NothingLate` and the others suppose that it does not |
| PASS confirms the order (plot_results.py:352) | a missing file counts as 0 (324), a run without a death as one after a window of 6000 rounds (109), LECMAC+ does not count (339) | `PassMeansOrder`, where the runs went well |
| posts are executed (simulator.h:133) | `Run` may return with a post in the inbox | `PostsArrive`, if the program runs again |

Two more were met while reading and are part of the model without a property of
their own: plot_results.py takes a KeyError if LECMAC has no data but LECMAC+ has
(338), so that the script ends before summary.csv (`ValidationRaises`); and the
diagnostic seeds twice without repeating the field (wsn-diag.cc:42,
`DiagnoseAgain`).

## Theorems

The proofs are for every number of nodes, any costs, placements, thresholds and
round limits that satisfy `RadioAssumption` and `StateAssumption` (sizes are
natural numbers, there is at least one node, receiving electronics and control
packets cost something, placements and events are points).

* `Paid` (WsnElectionProofs) is what a charge may do: energy falls, and roles are
  lost only with life. `ConsumeFacts` proves it of `Consume`, and `DataPhasePays`
  of every step of the data phase. Nearly everything about the data phase
  follows from it, whatever the order of the charges.
* `TypeInv` = `TypeOK`, cursors inside their loops, and batteries in step
  with lives. `TypeCorrect`, `BatteryCorrect`. The cursors are needed because
  `SetupMember` and `DataSlot` index the vector with them.
* `HeadInv` adds to `HeadsInv` what the election promises: nobody is offered to
  the election twice, a head is found when somebody is alive, heads do not die
  before advertising, and rounds respect the limit. `HeadsCorrect`.
* `ElectInv` describes the back-off half-way: heads are PT apart, the candidates
  still to come have no more energy than those already judged, and whoever was
  turned away has a head of at least its energy within PT; afterwards, that a
  weak head is alone and the strongest. Nobody pays in between, so the energies
  compared are those of the election. `ProximityCorrect`, `WeakHeadsCorrect`.
* `RotationInv`, for LEACH: while the last round of an epoch draws, every node
  behind the cursor that is alive has been a head in that epoch, because the
  threshold leaves it no choice; nothing before the clusters takes that back.
  `RotationCorrect`.
* `MemberInv` adds to `MembershipInv` how far the join has come: nodes beyond
  the cursor are in no cluster, nodes before it have one. `MembershipCorrect`,
  `EverybodyAssigned`.
* `PlacedInv`: members enter the lists in the order of their ids, so a full head
  that was passed over is full with smaller ids, and while some head is open no
  list is longer than MCS. `NearestCorrect`, `CapCorrect`.
* `ClusteringCorrect` and `LifetimeCorrect`: the engine implements
  `WsnClustering` and `WsnLifetime`. Each action maps to one abstract action or
  a stutter; the step that needs the invariants is `EndJoin` for the former, and
  the first `Advertise` of a round for the latter (it has a live head, and a
  broadcast is never free).
* `RelayInv` counts the loads while the map is built: `RelayLoadCorrect`,
  `RelayPathsCorrect`. With it, disjoint member lists and the fact that only heads
  are in the loops of the frame, `StrandedCorrect`. An entry of the map that is used
  names a head, and whoever is charged pays in full or has nothing left
  (`ConsumeInFull`), hence `DataReachesBaseCorrect`.
* `PriorityInv`: heads leave `todo` from the farthest to the nearest, so those
  that fill a gateway are at least as far away as whoever finds it full, and a
  full gateway changes no more. `RelayPriorityCorrect`.
* `RowInv` ties the last row of the output file to the nodes until the run is over:
  the row is of the round before the counter, the nodes have at least its dead and
  at most its energy, and less once something has been spent in this round.
  `RowsCorrect`; it needs that a sum over the nodes falls when no summand rises and
  one falls (`EnergyLess`), by induction over subsets.

The scan (`SeedScanProofs`), for any number of layouts, seeds and rounds, with failures,
crashes and time-outs at any moment:

* `ScanInv`: the only simulator still listened to is that of the current run, and runs
  to come have not been started (`OneSimulatorAtATime`). `FileInv`: while no simulator
  given up writes to the same file, the file holds exactly the rows its run has
  written (`UndisturbedFileIsOwn`), so results, and the verdicts over them, are right
  for clean runs (`GoodSeedsAreGood`, `GoodSeedsAreFound`). The condition is needed:
  `MCDocGoodSeed` shows what happens without it.

The batch (`RunAllProofs`), for any number of layouts, any rows the runs may write
or an earlier batch have left, and jobs that fail at any moment:

* `BatchInv` says what the script's position and its loop variable mean for the jobs:
  those not reached have not started, those waited for are over, one after the other
  all earlier ones have succeeded. A file is that of an earlier batch until its run
  opens it, and from then on a prefix of the outcome of its job, also if the job
  fails. `PlotsCorrect`, `SequentialCorrect`.
* The verdict is computed from the files at `Plot` and nothing is written
  afterwards; the files of jobs that succeeded are their outcomes, so the verdict
  of one script can be compared with that of the other on the same rows, and with
  the outcomes. `PassAgreesCorrect`, `PassMeansOrderCorrect`. The proof showed that
  both need what the first version of the properties did not say, that the runs
  compared stay within the window of plot_results.py (109): it gives a run
  without a death the round after the window, which is earlier than a
  first death that comes later still. That is part of `BaseRunsOk`, and one of the
  outcomes of `MCRunAll` is such a run.

The random streams (`WsnStreamsProofs`), for any number of bits and distances, any
seeds and any number of rounds:

* `AdvanceArrives`: the loop of `AdvanceNthBy` over the bits of `nth` ends at
  `nth * 2^by`, by induction over the bits; `PlacesApart`: so no two streams
  within the bound of `SetStream` have one place.
* `StreamsInv`: the streams of the variables of a process rise and are below its
  counter, which seeding again does not take back. `OwnStreamsCorrect`.
* `UsesInv`: in a process without animation the counter is a function of the
  place in the program and the round, so the stream of a variable is one of its
  use: 0 for the field, 2r - 1 and 2r for event and election of round r.
  `SameDrawsCorrect`.

The simulator (`NsSimulatorProofs`), for any delays and any calls, as long as the ids do
not wrap around (`NoWrap`):

* `IdsInv` (an id is drawn once and names one event) and `Settled` (an event whose id is
  held is in the list, cancelled, or at or before the last one run) give
  `ExpiredIsExact`; with `NothingLate` (`ClockIsMonotone`) each is needed for the other.
* `LockInv` ties flag, lock and inbox (`FlagIsRight`), `PostsInv` posts, inbox and list:
  a post in the list is due no later than its delay from now and after every earlier one
  whose delay was no longer (`PostsRunInOrder`). `NoEventLost` counts.

The event lists (`NsSchedulerProofs`), for any number of events, any times, any number
and width of buckets, and replacements at any moment (`SchedulerAssumption` only says
that the bounds are natural numbers):

* `SchedulerInv`: the list in use is in order (`GoodHeap`, `GoodList` or
  `GoodCalendar`), its ids have been drawn, and a calendar's `m_lastPrio` is not later
  than the event removed last; without that the next insertion could land behind
  the position, where the search does not look. Each operation keeps it and changes
  the set of events as `NsAgenda` says (`GoodInsert`, `GoodRemoveNext`,
  `GoodRemoveEvent`, `GoodMove`), so `HeapOrderCorrect`, `CalendarInvCorrect`,
  `MoveKeepsEventsCorrect`, `RemovesEarliestCorrect` and the refinement `AgendaCorrect`.
* Heap. While an element rises or sinks, the array is in order but for that element,
  and its children come after its parent in any case (`NearHeap`); the loop ends because
  the index falls or rises with each round (`RiseKeeps`, `SinkKeeps`, `BottomUpFacts`,
  `TopDownFacts`).
* Calendar. A year's scan looks at every bucket once (`YearIsFull`), in the order
  of the days (`KthDay`, `DaysFromNow`), so the first bucket whose first event is in its
  slice has the earliest of all, and if there is none the direct search finds it
  (`CalendarPeek`). A resize inserts every event again, in any order, and ends
  with the same events and position (`CalendarResize`). That the samples are
  events and the width is positive is all it takes of `CalculateNewWidth`.
* `SetScheduler` takes the events one by one; none is in both lists or in neither
  (`MoveOneKeeps`), and with as many rounds as there are events the old list is empty.
* All of it supposes `FewHeapRemovals`: where the heap is used, `Remove` is called on
  heaps of up to five events only. The code does not keep to this; from six events on the
  statements are false of it (`MCDocHeap`), and the proof says what is missing: the last
  element may come before the parent of the hole (`HeapTake`), and nothing lets it rise.
  For the calendar and the list nothing is supposed.

`InductionLemmas` has what these proofs need of data. The induction theorems of the
library are about operators, which the provers do not instantiate; but a set is not
an operator: `SmallestExists` (a non-empty set of naturals has a smallest element,
from the well-foundedness of `<`) gives induction for any property written as a set
(`SetInduction`), along cardinalities for finite sets (`SubsetInduction`), and that
functions defined by recursion over the subsets of a finite set exist
(`SubsetRecursion`), which is what a fold of the community modules is. `LoopRuns`
and `LoopEnds` are for loops: they have rounds, and once a rank falls with each
they are over. `PowerType`,
`PowerOfNext`, `Division` do the same for powers of two and for bits.

`NearestHead` for LEACH and ES-MAC, `LifetimeSpec` for all protocols but LECMAC+,
and the flag and the one listened-to simulator (`FlagTellsInbox`, `OneAtATime`)
are proved without a run of their own.

Only model-checked: the liveness properties (`Termination`, `NetworkDies`,
`ScanTerminates`, `BatchEnds`, `PostsArrive`), which are out of the prover's reach.
Every invariant and action property of a passing run, and every refinement, is a theorem.

## Not modelled

The console, file names and formats; the drawing of plots and the layout of the
tables; the arithmetic of the one round of `wsn-diag.cc`, a stand-alone copy of
an older engine whose result is printed and read by nobody; the numbers MRG32k3a
produces and their distributions; map- and priority-queue-scheduler, which call
the standard containers; streams a program sets by hand (`SetStream` with an index from 0 on)
and run numbers so large that substreams reach into the next stream, neither of
which occurs in this project.

Everything else in `src/`, `examples/`, `contrib/`, `bindings/` and `utils/` is ns-3 as
published upstream: more than two thousand files of protocol models (Wi-Fi,
LTE, TCP, routing, ...) that no program of this repository calls. The four
simulators use its command line, its random variables and, for the animation,
nodes, positions and NetAnim. They are left out as vendored code.
