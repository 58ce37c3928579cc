--------------------------- MODULE MCPhaseReport ---------------------------
(* PhaseReport on a small instance: two phases of three bins, successes    *)
(* with a latency well within the deadline and with one as long as that,   *)
(* failures that came fast, a header, a line cut short after its latency,  *)
(* and requests sent when the phase should have been over.                 *)
EXTENDS PhaseReport, SequencesExt

CONSTANTS wrr, prequal, MaxLines

MCFileLine ==
    {[lat |-> NoNumber, code |-> NoNumber, off |-> NoNumber],
     [lat |-> 1, code |-> NoNumber, off |-> NoNumber]}
    \cup [lat : {1, 2}, code : {200}, off : {0, 4, 6}]
    \cup [lat : {1}, code : {503}, off : {0, 4, 6}]

MCPlans ==
    {<<[algo |-> wrr, load |-> 75], [algo |-> prequal, load |-> 75]>>,
     <<[algo |-> prequal, load |-> 75], [algo |-> prequal, load |-> 75]>>}

Bound == Len(file) + Len(FlattenSeq(files)) <= MaxLines
=============================================================================
