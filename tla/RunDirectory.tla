---------------------------- MODULE RunDirectory ----------------------------
(***************************************************************************)
(* What an experiment promises to whoever reads its run directory, while   *)
(* it runs or after it died: STATUS.json says DONE only when phases.csv    *)
(* holds every phase, and nothing changes after that.  Before, anything    *)
(* may be half written: phases.csv is rewritten as a whole after every     *)
(* phase, and a reader may meet any part of it.                            *)
(***************************************************************************)
EXTENDS Integers

CONSTANT Steps   \* phases of a run

VARIABLES status,  \* the state in STATUS.json
          saved    \* how many phases phases.csv holds

directoryVars == <<status, saved>>

\* "unreadable" is a file that is not there yet, or was cut short.
Unfinished == {"unreadable", "RUNNING", "COOLDOWN"}

DirectoryInit == status = "unreadable" /\ saved = 0

\* A new run makes a directory of its own.
NewDirectory == status' = "unreadable" /\ saved' = 0

ReportProgress ==
    /\ status \in Unfinished /\ status' \in Unfinished
    /\ UNCHANGED saved

SavePhases ==
    /\ status \in Unfinished
    /\ saved' \in 0 .. Steps
    /\ UNCHANGED status

ReportDone ==
    /\ saved = Steps /\ status' = "DONE"
    /\ UNCHANGED saved

DirectoryNext == NewDirectory \/ ReportProgress \/ SavePhases \/ ReportDone

DirectorySpec == DirectoryInit /\ [][DirectoryNext]_directoryVars
=============================================================================
