------------------------------ MODULE Prepare ------------------------------
(***************************************************************************)
(* prepare.py: the backends are dealt out to the hosts, then a pool of     *)
(* threads sets the nodes up, each by a script that is sent to the node,   *)
(* and again if it fails.                                                  *)
(*                                                                         *)
(*    main:  idle -> setup -> verify -> done or failed                     *)
(*    task:  queued -> running -> ok or failed                             *)
(*                                                                         *)
(* A script is the docker commands it gives, in their order: set -e ends   *)
(* it at the first that fails.  What it does before them (apt, git, docker *)
(* build) and between them may fail and changes no container.              *)
(*                                                                         *)
(* When a script takes too long it is given up, and so is the connection;  *)
(* the command it was waiting for is not, and may take place later.        *)
(***************************************************************************)
EXTENDS Integers, SequencesExt

CONSTANTS Hosts,      \* discover_hosts(): the numbers of the bhosts, ascending
          Backends,   \* --total
          CleanStep,  \* every CleanStep-th backend is clean
          Jobs,       \* --jobs
          Attempts,   \* retries + 1 of task(), 3 in the code
          MaxFaults   \* bound: attempts that fail

ASSUME HostsAssumption ==
    /\ Hosts \in Seq(Nat) /\ Hosts # <<>>
    /\ \A i, j \in DOMAIN Hosts : i < j => Hosts[i] < Hosts[j]
ASSUME PrepareAssumption ==
    /\ Backends \in Nat \ {0} /\ CleanStep \in Nat \ {0, 1}
    /\ Jobs \in Nat \ {0} /\ Attempts \in Nat \ {0} /\ MaxFaults \in Nat

Backend == 1 .. Backends

-----------------------------------------------------------------------------
(* Who is where.                                                           *)

HostIndex(g) == ((g - 1) % Len(Hosts)) + 1
HostOf(g) == Hosts[HostIndex(g)]

\* Mutant: ports are counted over all hosts, round by round, from the second one on.
RoundPort(g) == (g - 1) \div (Len(Hosts) + 1) + 1

\* port_ctr: how many backends the host of g has got so far, g included.
Port(g) == Cardinality({h \in 1 .. g : HostOf(h) = HostOf(g)})

IsClean(g) == g % CleanStep = 0

\* An entry of LB_SERVERS: 10.10.1.<host>:<9000 + port>.
Address(g) == <<HostOf(g), Port(g)>>

\* The replicas bgload disturbs.
Contended == {Address(g) : g \in {h \in Backend : ~IsClean(h)}}

-----------------------------------------------------------------------------
(* The scripts.                                                            *)

BackendServer(g) == <<"backend_server", g>>
LBPrequal == <<"lb-prequal", 0>>
LBWeightedRR == <<"lb-weightedrr", 0>>
BGLoad == <<"bgload", 0>>
Prometheus == <<"prometheus", 0>>
Grafana == <<"grafana", 0>>
Container == {BackendServer(g) : g \in Backend}
             \cup {LBPrequal, LBWeightedRR, BGLoad, Prometheus, Grafana}

Rm(c) == [op |-> "rm", container |-> c]
Run(c) == [op |-> "run", container |-> c]

\* The tasks in the order they are submitted: a host each, lb, bgload, monitor.
LB == Len(Hosts) + 1
BG == Len(Hosts) + 2
Monitor == Len(Hosts) + 3
Task == 1 .. Len(Hosts) + 3

\* host_items: the backends dealt to the i-th host, every Len(Hosts)-th from the i-th on.
ItemsOf(i) ==
    [k \in 1 .. (Backends - i) \div Len(Hosts) + 1 |-> i + (k - 1) * Len(Hosts)]

BackendScript(items) ==
    [k \in 1 .. 2 * Len(items) |->
        LET c == BackendServer(items[(k + 1) \div 2])
        IN  IF k % 2 = 1 THEN Rm(c) ELSE Run(c)]

LBScript == <<Rm(LBPrequal), Rm(LBWeightedRR), Run(LBPrequal), Run(LBWeightedRR)>>

\* There is a contended replica, the first.
BGLoadScript == <<Rm(BGLoad), Run(BGLoad)>>

MonitorScript == <<Rm(Prometheus), Rm(Grafana), Run(Prometheus), Run(Grafana)>>

Script(t) ==
    CASE t = LB -> LBScript
      [] t = BG -> BGLoadScript
      [] t = Monitor -> MonitorScript
      [] OTHER -> BackendScript(ItemsOf(t))

-----------------------------------------------------------------------------

VARIABLES main,     \* where prepare.py is: "idle", "setup", "verify", "done", "failed"
          state,    \* state[t]: "queued", "running", "ok" or "failed"
          attempt,  \* attempt[t], 0 before the first and at most Attempts
          next,     \* next[t]: the next command of its script
          late,     \* late[t]: a command given up but not over, or <<>>
          gaveUp,   \* history: tasks of which an attempt took too long
          faults,   \* attempts that failed so far
          up        \* up[c]: "gone", "old" from an earlier preparation, or "new"

taskVars == <<state, attempt, next, late, gaveUp, faults>>
prepareVars == <<main, taskVars, up>>

\* On nodes of which some were prepared before.
PrepareInit ==
    /\ main = "idle"
    /\ state = [t \in Task |-> "queued"]
    /\ attempt = [t \in Task |-> 0]
    /\ next = [t \in Task |-> 1]
    /\ late = [t \in Task |-> <<>>]
    /\ gaveUp = {} /\ faults = 0
    /\ \E before \in {"gone", "old"} : up = [c \in Container |-> before]

\* The first host answered, or nothing is tried.
Preflight ==
    /\ main = "idle"
    /\ main' \in {"setup", "failed"}
    /\ UNCHANGED <<taskVars, up>>

\* A thread of the pool is free and takes the oldest task.
Begin(t) ==
    /\ main = "setup" /\ state[t] = "queued"
    /\ \A s \in Task : s < t => state[s] # "queued"
    /\ Cardinality({s \in Task : state[s] = "running"}) < Jobs
    /\ state' = [state EXCEPT ![t] = "running"]
    /\ attempt' = [attempt EXCEPT ![t] = 1]
    /\ UNCHANGED <<main, next, late, gaveUp, faults, up>>

\* docker rm -f, docker run.  A name that is taken makes docker run fail.
Works(command) == command.op = "run" => up[command.container] = "gone"
Effect(command) ==
    [up EXCEPT ![command.container] = IF command.op = "run" THEN "new" ELSE "gone"]

Command(t) ==
    /\ state[t] = "running" /\ next[t] <= Len(Script(t))
    /\ Works(Script(t)[next[t]])
    /\ up' = Effect(Script(t)[next[t]])
    /\ next' = [next EXCEPT ![t] = @ + 1]
    /\ UNCHANGED <<main, state, attempt, late, gaveUp, faults>>

\* run_on returned 0.
Succeed(t) ==
    /\ state[t] = "running" /\ next[t] = Len(Script(t)) + 1
    /\ state' = [state EXCEPT ![t] = "ok"]
    /\ UNCHANGED <<main, attempt, next, late, gaveUp, faults, up>>

\* Mutant: the next attempt goes on where this one failed.
Continue(t) ==
    /\ IF attempt[t] < Attempts
       THEN attempt' = [attempt EXCEPT ![t] = @ + 1] /\ state' = state
       ELSE attempt' = attempt /\ state' = [state EXCEPT ![t] = "failed"]
    /\ next' = [next EXCEPT ![t] = IF @ <= Len(Script(t)) THEN @ + 1 ELSE @]

\* The script is sent again, from its beginning, or that was the last attempt.
Retry(t) ==
    /\ IF attempt[t] < Attempts
       THEN attempt' = [attempt EXCEPT ![t] = @ + 1] /\ state' = state
       ELSE attempt' = attempt /\ state' = [state EXCEPT ![t] = "failed"]
    /\ next' = [next EXCEPT ![t] = 1]

\* Anything in a script may fail, and so may the connection.
AttemptFails(t) ==
    /\ state[t] = "running" /\ faults < MaxFaults
    /\ Retry(t)
    /\ faults' = faults + 1
    /\ UNCHANGED <<main, late, gaveUp, up>>

\* A late command started what the script removed.
NameTaken(t) ==
    /\ state[t] = "running" /\ next[t] <= Len(Script(t))
    /\ ~Works(Script(t)[next[t]])
    /\ Retry(t)
    /\ UNCHANGED <<main, late, gaveUp, faults, up>>

\* TimeoutExpired.  Bound: a task leaves no more than one command behind.
AttemptTimesOut(t) ==
    /\ state[t] = "running" /\ next[t] <= Len(Script(t))
    /\ t \notin gaveUp /\ faults < MaxFaults
    /\ Retry(t)
    /\ faults' = faults + 1
    /\ late' = [late EXCEPT ![t] = <<Script(t)[next[t]]>>]
    /\ gaveUp' = gaveUp \cup {t}
    /\ UNCHANGED <<main, up>>

\* The command given up takes place, or fails, after all.
LateCommand(t) ==
    /\ late[t] # <<>>
    /\ up' = IF Works(late[t][1]) THEN Effect(late[t][1]) ELSE up
    /\ late' = [late EXCEPT ![t] = <<>>]
    /\ UNCHANGED <<main, state, attempt, next, gaveUp, faults>>

SetUp ==
    /\ main = "setup"
    /\ \A t \in Task : state[t] \in {"ok", "failed"}
    /\ main' = "verify"
    /\ UNCHANGED <<taskVars, up>>

\* How many backends answer.
Healthy == Cardinality({g \in Backend : up[BackendServer(g)] # "gone"})

\* The exit status does not depend on the tasks: an lb-prequal that is up is good
\* enough, whoever started it.
Verify ==
    /\ main = "verify"
    /\ main' = IF Healthy = 0 \/ up[LBPrequal] = "gone" THEN "failed" ELSE "done"
    /\ UNCHANGED <<taskVars, up>>

\* The process is over.  To the next preparation what is there now is old.
Exit ==
    /\ main \in {"done", "failed"}
    /\ main' = "idle"
    /\ state' = [t \in Task |-> "queued"]
    /\ attempt' = [t \in Task |-> 0]
    /\ next' = [t \in Task |-> 1]
    /\ gaveUp' = {t \in Task : late[t] # <<>>}
    /\ up' = [c \in Container |-> IF up[c] = "new" THEN "old" ELSE up[c]]
    /\ UNCHANGED <<late, faults>>

PrepareStep ==
    \/ Preflight \/ SetUp \/ Verify
    \/ \E t \in Task : \/ Begin(t) \/ Command(t) \/ Succeed(t)
                        \/ NameTaken(t) \/ AttemptFails(t)

PrepareNext == PrepareStep \/ Exit \/ \E t \in Task : AttemptTimesOut(t) \/ LateCommand(t)

PrepareSpec == PrepareInit /\ [][PrepareNext]_prepareVars

-----------------------------------------------------------------------------

\* No two containers that run have the same address, so that those of one host, which
\* use its network, never fight for a port.
AddressesDistinct ==
    \A g, h \in Backend :
        /\ g # h
        /\ up[BackendServer(g)] # "gone" /\ up[BackendServer(h)] # "gone"
        => Address(g) # Address(h)

\* When the tasks are over, one that is ok has left exactly what this preparation
\* wants on its node, however many attempts failed and wherever they did, unless one
\* of them took too long.
OkMeansNew ==
    main \in {"setup", "verify"} =>
        \A t \in Task \ gaveUp : state[t] = "ok" =>
            \A k \in DOMAIN Script(t) : up[Script(t)[k].container] = "new"
=============================================================================
