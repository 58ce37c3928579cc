------------------------------ MODULE Sampler ------------------------------
(***************************************************************************)
(* The thread that samples while an experiment measures: HostCPUSampler of *)
(* experiment1.py and RIFSampler of experiment2.py.  It shares with the    *)
(* main thread the current phase, the rows and the stop event; every       *)
(* access to one of them is a step, and a sample takes place between two   *)
(* of them, outside the lock:                                              *)
(*    loop -> checked     the stop event was not set                       *)
(*         -> sampling    the phase was copied, and is not None            *)
(*         -> loop        the row, tagged with that phase, was appended    *)
(* Meanwhile the main thread may clear the phase, set the next one, write  *)
(* the rows there are, and stop waiting for the thread.                    *)
(*                                                                         *)
(* A row of CPU load is a difference of two snapshots: since is the phase  *)
(* the earlier one was taken for.  The hosts are sampled independently of  *)
(* each other and this is about one of them.                               *)
(***************************************************************************)
EXTENDS Integers, Sequences

CONSTANT MaxRows   \* bound: rows of a run

VARIABLES phase,     \* self.phase, 0 for None
          stopped,   \* self.stop_event
          thread,    \* where the thread is
          tag,       \* the phase _sample_once copied
          previous,  \* the phase of the last snapshot, 0 if there is none
          rows       \* self.rows

samplerVars == <<phase, stopped, thread, tag, previous, rows>>

Places == {"none", "loop", "checked", "sampling", "ended"}

SamplerInit ==
    /\ phase = 0 /\ stopped = FALSE
    /\ thread = "none"
    /\ tag = 0 /\ previous = 0 /\ rows = <<>>

\* while not self.stop_event.is_set()
CheckStop ==
    /\ thread = "loop"
    /\ thread' = IF stopped THEN "ended" ELSE "checked"
    /\ UNCHANGED <<phase, stopped, tag, previous, rows>>

\* Without a phase there is nothing to sample, and the thread waits.
CopyPhase ==
    /\ thread = "checked"
    /\ thread' = IF phase = 0 THEN "loop" ELSE "sampling"
    /\ tag' = phase
    /\ UNCHANGED <<phase, stopped, previous, rows>>

\* No host answered in time, or no metrics were served: there is no row.
SampleFails ==
    /\ thread = "sampling"
    /\ thread' = "loop" /\ tag' = 0
    /\ UNCHANGED <<phase, stopped, previous, rows>>

\* Mutant: the first snapshot stays the one to compare with.
FirstSnapshotKept ==
    /\ thread = "sampling"
    /\ previous' = IF previous = 0 THEN tag ELSE previous
    /\ rows' = IF previous = 0 \/ Len(rows) = MaxRows THEN rows
               ELSE Append(rows, [tag |-> tag, since |-> previous])
    /\ thread' = "loop" /\ tag' = 0
    /\ UNCHANGED <<phase, stopped>>

\* The first snapshot of all only gives later ones something to compare with.
AppendCPURow ==
    /\ thread = "sampling"
    /\ previous' = tag
    /\ rows' = IF previous = 0 \/ Len(rows) = MaxRows THEN rows
               ELSE Append(rows, [tag |-> tag, since |-> previous])
    /\ thread' = "loop" /\ tag' = 0
    /\ UNCHANGED <<phase, stopped>>

AppendRIFRow ==
    /\ thread = "sampling"
    /\ Len(rows) < MaxRows
    /\ rows' = Append(rows, [tag |-> tag, since |-> tag])
    /\ thread' = "loop" /\ tag' = 0
    /\ UNCHANGED <<phase, stopped, previous>>

\* Only the first CPU row of a phase reaches back into an earlier phase; every
\* other one compares two moments of the phase it is tagged with, although a
\* sample may end when its phase is long over.
OnlyFirstRowReachesBack ==
    \A i, j \in DOMAIN rows :
        i < j /\ rows[i].tag = rows[j].tag => rows[j].since = rows[j].tag
=============================================================================
