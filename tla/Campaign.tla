------------------------------ MODULE Campaign ------------------------------
(***************************************************************************)
(* experiment1_scaling.sh and experiment1_scaling_plot.py: from a laptop,  *)
(* prepare the nodes, run experiment1.py on the lb node once for each      *)
(* number of servers, fetch the results and plot them.                     *)
(*                                                                         *)
(*    idle -> prepare -> clean -> check, run, running for each count       *)
(*         -> pull -> plot -> plotted -> idle                              *)
(*                                                                         *)
(* An experiment is what it promises to be, see RunDirectory.  The script  *)
(* ends at the first command that fails (set -e), and may then be started  *)
(* again, with RESUME=1 or without.  A lost connection ends the script,    *)
(* but not the experiment it was waiting for.                              *)
(*                                                                         *)
(* servers_<n> holds one run at most, as it is emptied before each.        *)
(***************************************************************************)
EXTENDS Prepare

CONSTANTS Plans,      \* what COUNTS may be
          Steps,      \* phases of a run: LOADS x order
          MaxScripts,      \* bound: times the script is started
          MaxPreparations  \* bound: how many of these may prepare the nodes

\* A count above TOTAL is refused.
ASSUME PlansAssumption == Plans \subseteq Seq(Backend) /\ Steps \in Nat \ {0}

Scale == UNION {ToSet(counts) : counts \in Plans}

VARIABLES script,    \* where experiment1_scaling.sh is
          counts,    \* COUNTS
          resume,    \* RESUME=1
          started,   \* how often it was started
          idx,       \* IDX, the count to run next
          unsure,    \* history: the last check went unanswered, or came while an
                     \* experiment1.py of an earlier script was still at it
          remote,    \* remote[n]: the run under servers_<n> on the lb node
          present,   \* the counts of which there is one
          running,   \* the counts of which an experiment1.py runs
          local,     \* local[n]: what was fetched, or None
          plotted    \* plotted[n]: the rows of the plot for n servers

askedVars == <<counts, resume, started>>
scriptVars == <<script, askedVars, idx, unsure>>
lbVars == <<remote, present, running>>
resultVars == <<local, plotted>>
campaignVars == <<prepareVars, scriptVars, lbVars, resultVars>>

None == [status |-> "none", saved |-> 0]
NewRun == [status |-> "unreadable", saved |-> 0]
Unfinished == {"unreadable", "RUNNING"}
CampaignInit ==
    /\ PrepareInit
    /\ script = "idle" /\ counts = <<>> /\ resume = FALSE
    /\ started = 0 /\ idx = 1 /\ unsure = FALSE
    /\ remote = [n \in Scale |-> NewRun]
    /\ present = {} /\ running = {}
    /\ local = [n \in Scale |-> None]
    /\ plotted = [n \in Scale |-> -1]

-----------------------------------------------------------------------------
(* The script.                                                             *)

\* With SKIP_PREPARE=1 the containers are those there are.  RESUME=1 is for when there
\* is something to resume.
StartScript(list, again, skipPrepare) ==
    /\ script = "idle" /\ started < MaxScripts
    /\ skipPrepare \/ started < MaxPreparations
    /\ again => present # {}
    /\ script' = IF skipPrepare THEN "clean" ELSE "prepare"
    /\ counts' = list /\ resume' = again
    /\ started' = started + 1 /\ idx' = 1 /\ unsure' = FALSE
    /\ local' = [n \in Scale |-> None]
    /\ plotted' = [n \in Scale |-> -1]
    /\ UNCHANGED <<prepareVars, lbVars>>

\* [2/6]
Prepared ==
    /\ script = "prepare" /\ Exit
    /\ script' = IF main = "done" THEN "clean" ELSE "idle"
    /\ UNCHANGED <<askedVars, idx, unsure, lbVars, resultVars>>

\* Mutant: RESUME is not looked at.
CleanAlways ==
    /\ script = "clean"
    /\ script' = "check"
    /\ present' = {} /\ running' = {}
    /\ UNCHANGED <<prepareVars, askedVars, idx, unsure, remote, resultVars>>

\* [3/6] What is not resumed is removed, and an experiment that still runs has no
\* directory to write to any more.
Clean ==
    /\ script = "clean"
    /\ script' = "check"
    /\ present' = IF resume THEN present ELSE {}
    /\ running' = IF resume THEN running ELSE {}
    /\ UNCHANGED <<prepareVars, askedVars, idx, unsure, remote, resultVars>>

Done(n) == n \in present /\ remote[n].status = "DONE"

\* Mutant: any run that left a directory counts as complete.
CheckPresent(answers) ==
    /\ script = "check" /\ idx <= Len(counts)
    /\ IF resume /\ answers /\ counts[idx] \in present
       THEN idx' = idx + 1 /\ script' = script
       ELSE idx' = idx /\ script' = "run"
    /\ unsure' = (~answers \/ counts[idx] \in running)
    /\ UNCHANGED <<prepareVars, askedVars, lbVars, resultVars>>

\* When the lb node does not answer, or grep finds nothing, DONE_RUN is empty.
Check(answers) ==
    /\ script = "check" /\ idx <= Len(counts)
    /\ IF resume /\ answers /\ Done(counts[idx])
       THEN idx' = idx + 1 /\ script' = script
       ELSE idx' = idx /\ script' = "run"
    /\ unsure' = (~answers \/ counts[idx] \in running)
    /\ UNCHANGED <<prepareVars, askedVars, lbVars, resultVars>>

\* --lb-servers: the list the script makes up, server i on 10.10.1.i:9001, of which
\* experiment1.py keeps the addresses that answer.
Listed ==
    {g \in Backend : /\ Port(g) = 1 /\ HostOf(g) <= Backends
                     /\ up[BackendServer(g)] # "gone"}

\* rm -rf run_*, then experiment1.py with a directory of its own.
StartRun ==
    /\ script = "run"
    /\ LET n == counts[idx]
       IN  /\ present' = present \cup {n}
           /\ remote' = [remote EXCEPT ![n] = NewRun]
           /\ IF /\ up[LBPrequal] # "gone" /\ up[LBWeightedRR] # "gone"
                 /\ Cardinality(Listed) >= n
              THEN running' = running \cup {n} /\ script' = "running"
              ELSE running' = running \ {n} /\ script' = "idle"
    /\ UNCHANGED <<prepareVars, askedVars, idx, unsure, resultVars>>

\* experiment1.py exited, with 0 only after DONE.
RunOver ==
    /\ script = "running"
    /\ counts[idx] \notin running
    /\ IF remote[counts[idx]].status = "DONE"
       THEN script' = "check" /\ idx' = idx + 1
       ELSE script' = "idle" /\ idx' = idx
    /\ UNCHANGED <<prepareVars, askedVars, unsure, lbVars, resultVars>>

AllRun ==
    /\ script = "check" /\ idx = Len(counts) + 1
    /\ script' = "pull"
    /\ UNCHANGED <<prepareVars, askedVars, idx, unsure, lbVars, resultVars>>

\* [4/6] The directories are copied one by one, whatever they hold.
Pull(n) ==
    /\ script = "pull" /\ n \in present /\ local[n] = None
    /\ local' = [local EXCEPT ![n] = remote[n]]
    /\ UNCHANGED <<prepareVars, scriptVars, lbVars, plotted>>

Pulled ==
    /\ script = "pull" /\ \A n \in present : local[n] # None
    /\ script' = "plot"
    /\ UNCHANGED <<prepareVars, askedVars, idx, unsure, lbVars, resultVars>>

\* [5/6] latest_runs: for each count the run that has a phases.csv.  STATUS.json is
\* not looked at.
LatestRuns == {n \in Scale : local[n] # None /\ local[n].saved > 0}

\* Without any run build_summary raises.
Plot ==
    /\ script = "plot"
    /\ IF LatestRuns = {}
       THEN script' = "idle" /\ plotted' = plotted
       ELSE /\ script' = "plotted"
            /\ plotted' = [n \in Scale |->
                              IF n \in LatestRuns THEN local[n].saved ELSE -1]
    /\ UNCHANGED <<prepareVars, askedVars, idx, unsure, lbVars, local>>

Finish ==
    /\ script = "plotted"
    /\ script' = "idle"
    /\ UNCHANGED <<prepareVars, askedVars, idx, unsure, lbVars, resultVars>>

\* A command fails, the connection is lost, or the script is interrupted.  Bound:
\* not while prepare.py runs, which would go on.
ScriptEnds ==
    /\ script \in {"clean", "run", "running", "pull"}
    /\ script' = "idle"
    /\ UNCHANGED <<prepareVars, askedVars, idx, unsure, lbVars, resultVars>>

-----------------------------------------------------------------------------
(* The lb node.                                                            *)

Preparing ==
    /\ script = "prepare"
    /\ PrepareStep \/ \E t \in Task : AttemptTimesOut(t) \/ LateCommand(t)
    /\ UNCHANGED <<scriptVars, lbVars, resultVars>>

RunUnchanged == UNCHANGED <<main, taskVars, scriptVars, present, resultVars>>

RunReports(n) ==
    /\ n \in running /\ remote[n].status \in Unfinished
    /\ \E s \in Unfinished : remote' = [remote EXCEPT ![n].status = s]
    /\ UNCHANGED <<running, up>> /\ RunUnchanged

RunSaves(n) ==
    /\ n \in running /\ remote[n].status \in Unfinished
    /\ \E k \in 0 .. Steps : remote' = [remote EXCEPT ![n].saved = k]
    /\ UNCHANGED <<running, up>> /\ RunUnchanged

RunDone(n) ==
    /\ n \in running /\ remote[n].saved = Steps
    /\ remote' = [remote EXCEPT ![n].status = "DONE"]
    /\ UNCHANGED <<running, up>> /\ RunUnchanged

\* At any moment, and perhaps between docker rm and docker run of a load balancer: that
\* is in its first seconds, when its script is still there.
RunExits(n) ==
    /\ n \in running
    /\ running' = running \ {n}
    /\ \E c \in {LBPrequal, LBWeightedRR} :
          \/ up' = up
          \/ /\ script = "running" /\ n = counts[idx] /\ remote[n] = NewRun
             /\ up' = [up EXCEPT ![c] = "gone"]
    /\ UNCHANGED remote /\ RunUnchanged

-----------------------------------------------------------------------------

ScriptStep ==
    \/ Prepared \/ Clean \/ Check(TRUE) \/ StartRun \/ RunOver \/ AllRun \/ Pulled
    \/ Plot \/ Finish
    \/ \E n \in Scale : Pull(n)

Terminating ==
    /\ script = "idle" /\ started = MaxScripts
    /\ UNCHANGED campaignVars

CampaignNext ==
    \/ \E list \in Plans, again, skip \in BOOLEAN : StartScript(list, again, skip)
    \/ ScriptStep \/ Preparing
    \/ Check(FALSE) \/ ScriptEnds \/ Terminating
    \/ \E n \in Scale : RunReports(n) \/ RunSaves(n) \/ RunDone(n) \/ RunExits(n)

CampaignSpec == CampaignInit /\ [][CampaignNext]_campaignVars

-----------------------------------------------------------------------------

\* The plot has every phase of every count the script was asked for, although
\* latest_runs never looks at STATUS.json, and although earlier scripts, and the
\* experiments they left behind, may have stopped anywhere.  It has nothing but these
\* counts unless the script resumed.
PlotComplete ==
    script = "plotted" =>
        /\ \A n \in ToSet(counts) : plotted[n] = Steps
        /\ \A n \in Scale \ ToSet(counts) : resume \/ plotted[n] = -1

\* A script that resumes never removes a run that is DONE, unless the lb node did not
\* answer when it looked, or the run was still going on.
DoneKept ==
    [][\A n \in Scale : resume /\ Done(n) /\ ~Done(n)' => unsure]_campaignVars
=============================================================================
