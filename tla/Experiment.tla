----------------------------- MODULE Experiment -----------------------------
(***************************************************************************)
(* A node that runs one experiment after the other: the main threads of    *)
(* common.py, experiment1.py and experiment2.py, the sampler of the last   *)
(* two, the containers of the load balancers they recreate, and the files  *)
(* they leave behind.                                                      *)
(*                                                                         *)
(*    idle -> checked            containers found, backends probed         *)
(*         -> removed            docker rm of the next load balancer       *)
(*         -> checked, created   docker run of it                          *)
(*         -> begin              the self-test passed                      *)
(*         -> hey                a phase runs                              *)
(*         -> save, cooling, cooled   its results are written              *)
(*         -> stopping, joining  the finally clause                        *)
(*         -> restoring, restarting   ... of experiment2.py                *)
(*         -> finish -> idle     the last files, DONE                      *)
(*                                                                         *)
(* experiment2.py goes through checked .. begin before each phase, the     *)
(* others once.  A file is opened, which truncates it, and filled later:   *)
(* in between it holds any part of what it will hold.  The process may be  *)
(* killed anywhere; a failing write, docker run or self-test, or an        *)
(* interrupt, ends it by way of the finally clause, if it is in there.     *)
(***************************************************************************)
EXTENDS Sampler, SequencesExt

CONSTANTS Steps,        \* phases of a run
          Backends,     \* LB_SERVERS as prepare.py deployed it: a sequence
          ProbeRates,   \* --probe-rates, one for each phase
          PreparedRate, \* LB_PROBE_RATE as prepare.py deployed it
          MaxRuns       \* bound: runs

Prequal == "lb-prequal"
WRR     == "lb-weightedrr"
LB      == {Prequal, WRR}
Program == {"common", "experiment1", "experiment2"}
Backend == ToSet(Backends)

ASSUME StepsAssumption == Steps \in Nat \ {0}
ASSUME BackendsAssumption == Backends \in Seq(Backend)
ASSUME RatesAssumption ==
    /\ ProbeRates \in Seq(Nat) /\ Len(ProbeRates) = Steps
    /\ PreparedRate \in Nat

VARIABLES lb,       \* lb[c]: the configuration of container c, or Missing
          runs,     \* runs so far
          pc,       \* where the main thread is
          program,  \* the script it runs
          servers,  \* --servers
          full,     \* the healthy backends; before that, the list they are taken from
          restore,  \* ~ --no-restore
          found,    \* the LB_PROBE_RATE found on lb-prequal
          pending,  \* load balancers to recreate before the next phase
          k,        \* the phase to run next, or running
          failed,   \* the finally clause runs because of an exception
          todo,     \* files to write before going on
          opened,   \* the first of them is open
          got,      \* how many rows get_rows returned
          ts, phases, samples,   \* the contents of timeseries.csv, phases.csv and of
                                 \* the file of samples: phases, phases, rows
          status,   \* STATUS.json
          drifted   \* history: an experiment2.py was killed, or told not to restore

configVars == <<runs, program, servers, full, restore, found>>
mainVars == <<configVars, pc, pending, k, failed>>
resultVars == <<got, ts, phases, samples, status>>
fileVars == <<todo, opened, resultVars>>
experimentVars == <<samplerVars, mainVars, fileVars, lb, drifted>>

Missing == [servers |-> <<>>, rate |-> 0]
Unfinished == {"unreadable", "RUNNING", "COOLDOWN"}

ExperimentTypeOK ==
    /\ lb \in [LB -> [servers : Seq(Backend), rate : Nat]]
    /\ pc \in {"idle", "checked", "removed", "created", "begin", "hey", "save",
               "cooling", "cooled", "stopping", "joining", "restoring", "restarting",
               "finish"}
    /\ runs \in Nat /\ program \in Program /\ servers \in Nat
    /\ full \in Seq(Backend) /\ found \in Nat
    /\ {restore, failed, opened, drifted, stopped} \subseteq BOOLEAN
    /\ pending \in Seq(LB) /\ k \in 1 .. Steps
    /\ todo \in Seq({"ts", "phases", "samples", "status"})
    /\ ts \in 0 .. Steps /\ phases \in 0 .. Steps
    /\ got \in 0 .. Len(rows) /\ samples \in 0 .. Len(rows)
    /\ status \in Unfinished \cup {"DONE"}
    /\ phase \in 0 .. Steps /\ tag \in 0 .. Steps /\ previous \in 0 .. Steps
    /\ thread \in Places
    /\ rows \in Seq([tag : 1 .. Steps, since : 1 .. Steps])

ExperimentInit ==
    /\ SamplerInit
    /\ lb = [c \in LB |-> [servers |-> Backends,
                          rate |-> IF c = Prequal THEN PreparedRate ELSE 0]]
    /\ runs = 0 /\ pc = "idle"
    /\ program = "common" /\ servers = 0 /\ full = <<>>
    /\ restore = TRUE /\ found = 0
    /\ pending = <<>> /\ k = 1 /\ failed = FALSE
    /\ todo = <<>> /\ opened = FALSE /\ got = 0
    /\ ts = 0 /\ phases = 0 /\ samples = 0 /\ status = "unreadable"
    /\ drifted = FALSE

-----------------------------------------------------------------------------
(* Leaving.                                                                *)

\* The process is gone, and with it the sampler, which is a daemon thread.
Exit ==
    /\ pc' = "idle"
    /\ thread' = "none" /\ tag' = 0
    /\ todo' = <<>> /\ opened' = FALSE
    /\ failed' = FALSE

\* Mutant: the try clause of experiment2.py begins with the measurement.
GuardedMeasurement ==
    pc \in {"begin", "hey", "save"} /\ program # "common"

\* The try clause: from the start of the sampler to the end of the last phase.
Guarded ==
    \/ /\ program = "experiment1"
       /\ pc \in {"begin", "hey", "save"}
    \/ /\ program = "experiment2"
       /\ pc \in {"checked", "removed", "created", "begin", "hey", "save"}

\* An exception, sys.exit included.  Whatever was being written is left as it is.
Fail ==
    IF Guarded
    THEN /\ pc' = "stopping" /\ failed' = TRUE
         /\ todo' = <<>> /\ opened' = FALSE
         /\ UNCHANGED <<thread, tag>>
    ELSE Exit

Interrupt ==
    /\ pc \notin {"idle", "stopping", "joining", "restoring", "restarting"}
    /\ Fail
    /\ UNCHANGED <<lb, configVars, pending, k, resultVars, phase, stopped, previous,
                   rows, drifted>>

Kill ==
    /\ pc # "idle"
    /\ Exit
    /\ drifted' = (drifted \/ program = "experiment2")
    /\ UNCHANGED <<lb, configVars, pending, k, resultVars, phase, stopped, previous,
                   rows>>

-----------------------------------------------------------------------------
(* Before the phases.                                                      *)

\* get_full_lb_servers: the list of the first container that has one, which an
\* earlier run may have cut down.
GetFullServers ==
    IF lb[Prequal] # Missing THEN lb[Prequal].servers ELSE lb[WRR].servers

\* filter_healthy: the backends that answer now, in the order of the list.  There is
\* one such list: the places it keeps, ascending.
FilterHealthy(list, up) ==
    LET kept == {i \in DOMAIN list : list[i] \in up}
        ascending == {at \in [1 .. Cardinality(kept) -> kept] :
                        \A i, j \in DOMAIN at : i < j => at[i] < at[j]}
    IN  {[j \in DOMAIN at |-> list[at[j]]] : at \in ascending}

\* The load balancers the program recreates before its first phase.
Targets(p, c) ==
    IF p = "experiment1" THEN <<Prequal, WRR>>
    ELSE IF p = "experiment2" THEN <<Prequal>> ELSE <<c>>

\* main as far as the count of healthy backends: the run directory is new, the
\* containers are there and their environment is captured.  Without the containers
\* the run is over before it did anything.  Only experiment1.py may be given the
\* list of backends.  experiment2.py starts its sampler here.
Launch(p, c, n, given, keep, up) ==
    /\ pc = "idle" /\ runs < MaxRuns
    /\ \A needed \in ToSet(Targets(p, c)) : lb[needed] # Missing
    /\ LET list == IF p = "experiment1" /\ given THEN Backends ELSE GetFullServers
       IN  \E healthy \in FilterHealthy(list, up) :
           /\ full' = healthy
           /\ pc' = IF Len(healthy) < n THEN "idle" ELSE "checked"
           /\ thread' = IF p = "experiment2" /\ Len(healthy) >= n THEN "loop"
                        ELSE "none"
    /\ runs' = runs + 1 /\ program' = p /\ servers' = n /\ restore' = ~keep
    /\ found' = lb[Prequal].rate
    /\ pending' = Targets(p, c)
    /\ k' = 1
    /\ ts' = 0 /\ phases' = 0 /\ samples' = 0 /\ got' = 0 /\ status' = "unreadable"
    /\ phase' = 0 /\ stopped' = FALSE /\ previous' = 0 /\ rows' = <<>>
    /\ drifted' = (drifted \/ (p = "experiment2" /\ keep))
    /\ UNCHANGED <<lb, tag, failed, todo, opened>>

\* reconfigure_lb and reconfigure_prequal: docker rm -f, ...
RemoveLB ==
    /\ pc = "checked"
    /\ lb' = [lb EXCEPT ![Head(pending)] = Missing]
    /\ pc' = "removed"
    /\ UNCHANGED <<samplerVars, configVars, pending, k, failed, fileVars, drifted>>

\* ... then docker run with the environment captured before, the first n healthy
\* backends and, in experiment2.py, the probe rate of the phase.
Subset == SubSeq(full, 1, servers)

\* Mutant: the probe rate is the one that was found.
FoundConfig(c) ==
    [servers |-> Subset, rate |-> IF c = WRR THEN 0 ELSE found]

NewConfig(c) ==
    [servers |-> Subset,
     rate |-> IF c = WRR THEN 0
              ELSE IF program = "experiment2" THEN ProbeRates[k] ELSE found]

Create ==
    /\ pc = "removed"
    /\ lb' = [lb EXCEPT ![Head(pending)] = NewConfig(Head(pending))]
    /\ pending' = Tail(pending)
    /\ pc' = IF Len(pending) = 1 THEN "created" ELSE "checked"
    /\ UNCHANGED <<samplerVars, configVars, k, failed, fileVars, drifted>>

\* The self-test and the warm-up are over.  experiment1.py starts its sampler.
SelfTest ==
    /\ pc = "created"
    /\ pc' = "begin" /\ todo' = <<"status">>
    /\ thread' = IF program = "experiment1" THEN "loop" ELSE thread
    /\ UNCHANGED <<configVars, pending, k, failed, phase, stopped, tag, previous,
                   rows, opened, resultVars, lb, drifted>>

-----------------------------------------------------------------------------
(* Writing a file.                                                         *)

\* open(path, "w"), after the rows of the sampler were taken: from now on the file
\* holds any part of its new content.
Open ==
    /\ todo # <<>> /\ ~opened
    /\ opened' = TRUE
    /\ got' = IF Head(todo) = "samples" THEN Len(rows) ELSE got
    /\ IF Head(todo) = "ts" THEN ts' \in 0 .. k ELSE ts' = ts
    /\ IF Head(todo) = "phases" THEN phases' \in 0 .. k ELSE phases' = phases
    /\ IF Head(todo) = "samples" THEN samples' \in 0 .. Len(rows) ELSE samples' = samples
    /\ status' = IF Head(todo) = "status" THEN "unreadable" ELSE status
    /\ UNCHANGED <<samplerVars, mainVars, todo, lb, drifted>>

State ==
    IF pc = "finish" THEN "DONE" ELSE IF pc = "cooling" THEN "COOLDOWN" ELSE "RUNNING"

Fill ==
    /\ opened
    /\ opened' = FALSE /\ todo' = Tail(todo)
    /\ ts' = IF Head(todo) = "ts" THEN k ELSE ts
    /\ phases' = IF Head(todo) = "phases" THEN k ELSE phases
    /\ samples' = IF Head(todo) = "samples" THEN got ELSE samples
    /\ status' = IF Head(todo) = "status" THEN State ELSE status
    /\ UNCHANGED <<samplerVars, mainVars, got, lb, drifted>>

-----------------------------------------------------------------------------
(* The phases.                                                             *)

Sampled == program # "common"

StartPhase ==
    /\ pc = "begin" /\ todo = <<>>
    /\ pc' = "hey"
    /\ phase' = IF Sampled THEN k ELSE 0
    /\ UNCHANGED <<configVars, pending, k, failed, stopped, thread, tag, previous,
                   rows, fileVars, lb, drifted>>

\* hey returned, with or without an error, and its file is parsed.
EndPhase ==
    /\ pc = "hey"
    /\ pc' = "save"
    /\ phase' = 0
    /\ todo' = IF Sampled THEN <<"ts", "phases", "samples">> ELSE <<"ts", "phases">>
    /\ UNCHANGED <<configVars, pending, k, failed, stopped, thread, tag, previous,
                   rows, opened, resultVars, lb, drifted>>

\* common.py idles between two phases, and adds that to the time series.
CoolDown ==
    /\ program = "common" /\ todo = <<>>
    /\ \/ pc = "save" /\ k < Steps /\ pc' = "cooling" /\ todo' = <<"status">>
       \/ pc = "cooling" /\ pc' = "cooled" /\ todo' = <<"ts">>
    /\ UNCHANGED <<samplerVars, configVars, pending, k, failed, opened, resultVars,
                   lb, drifted>>

\* experiment2.py recreates its load balancer with the next rate.
NextPhase ==
    /\ todo = <<>> /\ k < Steps
    /\ pc = IF program = "common" THEN "cooled" ELSE "save"
    /\ k' = k + 1
    /\ IF program = "experiment2"
       THEN pc' = "checked" /\ pending' = <<Prequal>> /\ todo' = <<>>
       ELSE pc' = "begin" /\ pending' = <<>> /\ todo' = <<"status">>
    /\ UNCHANGED <<samplerVars, configVars, failed, opened, resultVars, lb, drifted>>

LastFiles == IF Sampled THEN <<"samples", "status">> ELSE <<"status">>

LastPhaseOver ==
    /\ pc = "save" /\ todo = <<>> /\ k = Steps
    /\ IF Sampled THEN pc' = "stopping" /\ todo' = <<>>
                  ELSE pc' = "finish" /\ todo' = LastFiles
    /\ UNCHANGED <<samplerVars, configVars, pending, k, failed, opened, resultVars,
                   lb, drifted>>

-----------------------------------------------------------------------------
(* The finally clause.                                                     *)

StopSampler ==
    /\ pc = "stopping"
    /\ stopped' = TRUE
    /\ pc' = "joining"
    /\ UNCHANGED <<configVars, pending, k, failed, phase, thread, tag, previous, rows,
                   fileVars, lb, drifted>>

\* Mutant: the exception is lost in the finally clause.
AlwaysFinish ==
    /\ pc' = "finish" /\ todo' = LastFiles
    /\ UNCHANGED <<failed, opened, thread, tag>>

\* What follows the finally clause: the exception goes on, or the last files are
\* written.
AfterFinally ==
    IF failed
    THEN Exit
    ELSE /\ pc' = "finish" /\ todo' = LastFiles
         /\ UNCHANGED <<failed, opened, thread, tag>>

\* Mutant: join has no timeout.
JoinForever ==
    /\ pc = "joining"
    /\ thread = "ended"
    /\ IF program = "experiment2" /\ restore
       THEN /\ pc' = "restoring"
            /\ UNCHANGED <<failed, todo, opened, thread, tag>>
       ELSE AfterFinally
    /\ UNCHANGED <<configVars, pending, k, phase, stopped, previous, rows, resultVars,
                   lb, drifted>>

\* join returns when the thread ended, or after a few seconds.
Join ==
    /\ pc = "joining"
    /\ IF program = "experiment2" /\ restore
       THEN /\ pc' = "restoring"
            /\ UNCHANGED <<failed, todo, opened, thread, tag>>
       ELSE AfterFinally
    /\ UNCHANGED <<configVars, pending, k, phase, stopped, previous, rows, resultVars,
                   lb, drifted>>

RestoreRemoves ==
    /\ pc = "restoring"
    /\ lb' = [lb EXCEPT ![Prequal] = Missing]
    /\ pc' = "restarting"
    /\ UNCHANGED <<samplerVars, configVars, pending, k, failed, fileVars, drifted>>

\* "Could not restore" is a warning and the container stays away.
RestoreCreates(works) ==
    /\ pc = "restarting"
    /\ lb' = IF works THEN [lb EXCEPT ![Prequal] = [servers |-> Subset, rate |-> found]]
             ELSE lb
    /\ AfterFinally
    /\ UNCHANGED <<configVars, pending, k, phase, stopped, previous, rows, resultVars,
                   drifted>>

Finish ==
    /\ pc = "finish" /\ todo = <<>>
    /\ Exit
    /\ UNCHANGED <<configVars, pending, k, phase, stopped, previous, rows, resultVars,
                   lb, drifted>>

-----------------------------------------------------------------------------

Main ==
    \/ RemoveLB \/ Create \/ SelfTest \/ Open \/ Fill \/ StartPhase \/ EndPhase
    \/ CoolDown \/ NextPhase \/ LastPhaseOver \/ StopSampler \/ Join \/ RestoreRemoves
    \/ RestoreCreates(TRUE) \/ Finish

Sample ==
    /\ \/ CheckStop \/ CopyPhase \/ SampleFails
       \/ program = "experiment1" /\ AppendCPURow
       \/ program = "experiment2" /\ AppendRIFRow
    /\ UNCHANGED <<mainVars, fileVars, lb, drifted>>

ExperimentNext ==
    \/ \E p \in Program, c \in LB, n \in 1 .. Len(Backends), given, keep \in BOOLEAN,
          up \in SUBSET Backend : Launch(p, c, n, given, keep, up)
    \/ Main \/ Sample
    \/ Interrupt \/ Kill \/ RestoreCreates(FALSE)

ExperimentSpec == ExperimentInit /\ [][ExperimentNext]_experimentVars

\* Everything main waits for has a timeout: hey, docker, curl and the join.  Of the
\* sampler nothing is assumed.
ExperimentFairSpec == ExperimentSpec /\ WF_experimentVars(Main)

-----------------------------------------------------------------------------

Directory == INSTANCE RunDirectory WITH saved <- phases

\* The files are what a reader of the run directory may rely on.
KeepsDirectory == Directory!DirectorySpec

\* DONE is only written over complete results: every phase in both files, and
\* every sample but the one the thread may still have been taking when main no
\* longer waited for it.
DoneMeansComplete ==
    status = "DONE" => /\ ts = Steps /\ phases = Steps
                       /\ samples >= Len(rows) - 1

\* While a phase runs the load balancers are those it claims to measure: in
\* experiment1.py both have the same backends, as many as were asked for, whatever
\* earlier runs, failures and kills left behind; in experiment2.py the probe rate
\* is that of the phase.
MeasuresWhatItSays ==
    pc = "hey" =>
        CASE program = "experiment1" ->
               /\ lb[Prequal] # Missing /\ Len(lb[Prequal].servers) = servers
               /\ lb[WRR].servers = lb[Prequal].servers
               /\ lb[Prequal].rate = found
          [] program = "experiment2" ->
               /\ Len(lb[Prequal].servers) = servers
               /\ lb[Prequal].rate = ProbeRates[k]
          [] OTHER -> \E c \in LB : Len(lb[c].servers) = servers

\* Between two runs lb-prequal has the probe rate prepare.py gave it, or is gone, in
\* spite of failures and interrupts at any moment, unless an experiment2.py was
\* killed or told not to restore it.
RateRestored ==
    pc = "idle" /\ ~drifted => lb[Prequal] = Missing \/ lb[Prequal].rate = PreparedRate

\* Every run comes to an end, even if the sampler never does.
RunEnds == pc # "idle" ~> pc = "idle"
=============================================================================
