------------------------------- MODULE Prober -------------------------------
(***************************************************************************)
(* Probe goroutines.  The periodic prober starts one per server and tick,  *)
(* a proxied request starts a few for servers drawn at random.  Nobody     *)
(* waits for them, so any number is in flight and their results are        *)
(* applied in any order.                                                   *)
(*                                                                         *)
(* A goroutine goes through                                                *)
(*    idle -> flying    firedAt is stamped, the request is sent            *)
(*         -> back      probeServer returned                               *)
(*         -> applied   IsHealthy was written under lb.mu                  *)
(*         -> idle      (Prequal) the observation is in the pool           *)
(* and a failed probe on behalf of a request ends without writing.         *)
(*                                                                         *)
(* Whether a probe succeeds is the server's business and free here; module *)
(* HealthCheck ties it to a server that is up or down.                     *)
(***************************************************************************)
EXTENDS Signals

CONSTANT Probe      \* identities of probe goroutines alive at once (a bound)

VARIABLES healthy,     \* healthy[s]: Server.IsHealthy
          probes       \* probes[k]: the state of goroutine k

proberVars == <<healthy, probes>>

Idle == [st |-> "idle"]

Flying == [st : {"flying"}, kind : {"periodic", "async"}, server : Server, age : Ages]

Answered == [st : {"back", "applied"}, kind : {"periodic", "async"},
             server : Server, age : Ages, ok : BOOLEAN,
             rif : ReportedRIFs, lat : Latencies]

ProberTypeOK ==
    /\ healthy \in [Server -> BOOLEAN]
    /\ probes \in [Probe -> {Idle} \cup Flying \cup Answered]

Free == {k \in Probe : probes[k].st = "idle"}

-----------------------------------------------------------------------------

\* main registers every server with IsHealthy: true before it starts probing.
ProberInit ==
    /\ healthy = [s \in Server |-> TRUE]
    /\ probes = [k \in Probe |-> Idle]

NewProbe(kind, s) == [st |-> "flying", kind |-> kind, server |-> s, age |-> 0]

\* The goroutine probeAllServers starts for s.
FirePeriodic(k, s) ==
    /\ k \in Free
    /\ probes' = [probes EXCEPT ![k] = NewProbe("periodic", s)]
    /\ healthy' = healthy

\* The goroutines triggerAsyncProbes starts: one for each of the targets.
FireAsync(targets) ==
    /\ \E slot \in [targets -> Free] :
          /\ \A s, t \in targets : slot[s] = slot[t] => s = t
          /\ probes' = [k \in Probe |->
                          IF \E s \in targets : slot[s] = k
                          THEN NewProbe("async", CHOOSE s \in targets : slot[s] = k)
                          ELSE probes[k]]
    /\ healthy' = healthy

\* probeServer returns: the signals of the server, or a failure, which has no RIF
\* and whose latency is the time it took to fail.  The replicas of this
\* repository answer /health with 200 and an X-RIF header whenever they answer.
ProbeResults(p, ok) ==
    [st : {"back"}, kind : {p.kind}, server : {p.server}, age : {p.age}, ok : {ok},
     rif : IF ok THEN RIFs ELSE {NoRIF}, lat : Latencies]

Answer(k, ok) ==
    /\ probes[k].st = "flying"
    /\ \E r \in ProbeResults(probes[k], ok) : probes' = [probes EXCEPT ![k] = r]
    /\ healthy' = healthy

\* Mutant: no probe reports a failure.
FailureDropped(p) == ~p.ok

\* Only a periodic probe can report a failure.
Dropped(p) == p.kind = "async" /\ ~p.ok

\* Mutant: the goroutine shares the loop variable, which has moved on to some server.
ApplyToAny(k) ==
    /\ probes[k].st = "back"
    /\ probes' = [probes EXCEPT ![k] = IF Dropped(probes[k]) THEN Idle
                                       ELSE [probes[k] EXCEPT !.st = "applied"]]
    /\ IF Dropped(probes[k]) THEN healthy' = healthy
       ELSE \E s \in Server : healthy' = [healthy EXCEPT ![s] = probes[k].ok]

\* The critical section under lb.mu.  The last one to enter it wins, which need
\* not be the last one fired.
Apply(k) ==
    /\ probes[k].st = "back"
    /\ IF Dropped(probes[k])
       THEN /\ probes' = [probes EXCEPT ![k] = Idle]
            /\ healthy' = healthy
       ELSE /\ probes' = [probes EXCEPT ![k].st = "applied"]
            /\ healthy' = [healthy EXCEPT ![probes[k].server] = probes[k].ok]

\* The goroutine ends, after the deposit in the pool where there is one.
Finish(k) ==
    /\ probes[k].st = "applied"
    /\ probes' = [probes EXCEPT ![k] = Idle]
    /\ healthy' = healthy

\* Time passes for every probe on its way.
ProberTick ==
    /\ probes' = [k \in Probe |-> IF k \in Free THEN Idle
                                  ELSE [probes[k] EXCEPT !.age = Older(@)]]
    /\ healthy' = healthy

ProberNext ==
    \/ \E k \in Probe, s \in Server : FirePeriodic(k, s)
    \/ \E targets \in SUBSET Server : FireAsync(targets)
    \/ \E k \in Probe, ok \in BOOLEAN : Answer(k, ok)
    \/ \E k \in Probe : Apply(k) \/ Finish(k)
    \/ ProberTick

ProberSpec == ProberInit /\ [][ProberNext]_proberVars
=============================================================================
