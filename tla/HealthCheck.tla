---------------------------- MODULE HealthCheck ----------------------------
(***************************************************************************)
(* What probing is for: a server that stops answering leaves the rotation, *)
(* one that answers again comes back.  The probe goroutines of Prober,     *)
(* with servers that come and go.                                          *)
(*                                                                         *)
(* responsive[s] says that s answers /health with 200 within ProbeTimeout; *)
(* a crashed, unreachable or too slow server is not responsive.  A probe   *)
(* finds out when it ends, so its result may be out of date by the time it *)
(* is applied.                                                             *)
(***************************************************************************)
EXTENDS Prober

VARIABLE responsive  \* responsive[s]: s answers probes in time

healthVars == <<responsive, proberVars>>

HealthInit == ProberInit /\ responsive \in [Server -> BOOLEAN]

\* The probe of a responsive server succeeds and any other fails.
AnswerAsServed(k) ==
    \E s \in Server : /\ probes[k].st = "flying" /\ probes[k].server = s
                      /\ Answer(k, responsive[s])

\* A server stops answering in time, or answers again.
Turn(s) ==
    /\ responsive' = [responsive EXCEPT ![s] = ~@]
    /\ UNCHANGED proberVars

\* What a probe goroutine does once it is fired.
ProbeGoesOn(k) ==
    /\ AnswerAsServed(k) \/ Apply(k) \/ Finish(k)
    /\ responsive' = responsive

PeriodicProbe(s) ==
    /\ \E k \in Probe : FirePeriodic(k, s)
    /\ responsive' = responsive

RequestProbes ==
    /\ \E targets \in SUBSET Server : FireAsync(targets)
    /\ responsive' = responsive

HealthNext ==
    \/ \E k \in Probe : ProbeGoesOn(k)
    \/ \E s \in Server : PeriodicProbe(s) \/ Turn(s)
    \/ RequestProbes
    \/ ProberTick /\ responsive' = responsive

HealthSafety == HealthInit /\ [][HealthNext]_healthVars

\* probeServer ends within ProbeTimeout and the rest of the goroutine does not
\* block.  The ticker never stops, so each server is probed again and again;
\* strong fairness, because in the model a tick may find no goroutine free.
HealthFairness ==
    /\ \A k \in Probe : WF_healthVars(ProbeGoesOn(k))
    /\ \A s \in Server : SF_healthVars(PeriodicProbe(s))

HealthSpec == HealthSafety /\ HealthFairness

-----------------------------------------------------------------------------

\* A server that always answers in time is never taken out of rotation, whatever
\* the probes of the other servers do and in whatever order results land.
NoFalseAlarm == \A s \in Server : []responsive[s] => []healthy[s]

\* Detection settles.  A server that stays down is eventually out of rotation for good,
\* whatever late successes, periodic or on behalf of a request, are still to come; and
\* one that stays up is eventually in rotation for good, whatever failures were still
\* in flight when it came back.
StatusSettles ==
    \A s \in Server : /\ <>[]~responsive[s] => <>[]~healthy[s]
                      /\ <>[]responsive[s] => <>[]healthy[s]
=============================================================================
