------------------------------ MODULE Prequal ------------------------------
(***************************************************************************)
(* The Prequal policy: goroutines that serve requests select a server from *)
(* the probe pool while probe goroutines deposit observations in it and    *)
(* the remover takes observations out.  Composes ProbePool and Prober.     *)
(*                                                                         *)
(* selectPrequal holds no lock from beginning to end.  It copies the fresh *)
(* entries under pp.mu, reads the health of their servers one by one with  *)
(* no lock at all, and calls MarkUsed under pp.mu again; whenever the copy *)
(* is of no use it falls back on a healthy server drawn at random.         *)
(***************************************************************************)
EXTENDS ProbePool, Prober

CONSTANT MaxOwed     \* probe batches requested and not yet started (a bound)

VARIABLES pc,        \* pc[c]: where goroutine c is in ServeHTTP
          todo,      \* todo[c]: entries of the copy whose server c has yet to look at
          seen,      \* seen[c]: entries of the copy whose server c saw healthy
          answer,    \* answer[c]: the server selected: {} for none, or {s}
          eligible,  \* eligible[c]: servers healthy at a moment of c's selection,
                     \* a history variable
          owed,      \* triggerAsyncProbes goroutines started by ServeHTTP
          remover,   \* where runProbeRemover is: "idle" or "removing"
          threshold, \* the RIF threshold the remover computed
          toggle     \* lb.removeToggle

clientVars  == <<pc, todo, seen, answer, eligible>>
removerVars == <<remover, threshold, toggle>>
prequalVars == <<poolVars, proberVars, clientVars, owed, removerVars>>

\* Servers in rotation, as healthyServersLocked finds them.
HealthyServers == {s \in Server : healthy[s]}

\* How many probes one request pays for: int(ProbeRatePerQuery), and no server
\* twice.
AsyncCount ==
    IF ProbeRate \div 100 > Cardinality(Server) THEN Cardinality(Server)
                                                ELSE ProbeRate \div 100

ASSUME ServerAssumption == IsFiniteSet(Server)
ASSUME BreuseAssumption == Breuse(Cardinality(Server)) \in Budgets

PrequalTypeOK ==
    /\ PoolTypeOK
    /\ ProberTypeOK
    /\ pc \in [Client -> {"idle", "copying", "scanning", "random", "decided"}]
    /\ todo \in [Client -> SUBSET Entry]
    /\ seen \in [Client -> SUBSET Entry]
    /\ \A c \in Client : /\ todo[c] \cup seen[c] \subseteq snap[c]
                         /\ pc[c] # "scanning" => todo[c] = {} /\ seen[c] = {}
    /\ answer \in [Client -> SUBSET Server]
    /\ eligible \in [Client -> SUBSET Server]
    /\ owed \in Nat
    /\ remover \in {"idle", "removing"}
    /\ threshold \in ReportedRIFs \cup {0}
    /\ toggle \in BOOLEAN

PrequalInit ==
    /\ PoolInit
    /\ ProberInit
    /\ pc = [c \in Client |-> "idle"]
    /\ todo = [c \in Client |-> {}]
    /\ seen = [c \in Client |-> {}]
    /\ answer = [c \in Client |-> {}]
    /\ eligible = [c \in Client |-> {}]
    /\ owed = 0
    /\ remover = "idle"
    /\ threshold = 0
    /\ toggle = FALSE

-----------------------------------------------------------------------------
(* Serving a request.                                                      *)

Selecting(c) == pc[c] \in {"copying", "scanning", "random"}

\* ServeHTTP: ask for probes, then select.
Serve(c) ==
    /\ pc[c] = "idle"
    /\ owed < MaxOwed
    /\ owed' = owed + 1
    /\ pc' = [pc EXCEPT ![c] = "copying"]
    /\ eligible' = [eligible EXCEPT ![c] = HealthyServers]
    /\ UNCHANGED <<poolVars, proberVars, removerVars, todo, seen, answer>>

\* With fewer than two fresh entries the copy is dropped at once.
TooFewFresh(c) ==
    /\ pc[c] = "copying"
    /\ Cardinality(FreshEntries) < 2
    /\ pc' = [pc EXCEPT ![c] = "random"]
    /\ UNCHANGED <<poolVars, proberVars, removerVars, owed, todo, seen, answer, eligible>>

\* Mutant: the copy is of the whole pool, however old its entries.
CopyAll(c) ==
    /\ pc[c] = "copying"
    /\ Cardinality(pool) >= 2
    /\ snap' = [snap EXCEPT ![c] = pool]
    /\ todo' = [todo EXCEPT ![c] = pool]
    /\ pc' = [pc EXCEPT ![c] = "scanning"]
    /\ UNCHANGED <<pool, heap, chosen, proberVars, removerVars, owed, seen, answer, eligible>>

CopyFresh(c) ==
    /\ pc[c] = "copying"
    /\ Cardinality(FreshEntries) >= 2
    /\ Fresh(c)
    /\ todo' = [todo EXCEPT ![c] = FreshEntries]
    /\ pc' = [pc EXCEPT ![c] = "scanning"]
    /\ UNCHANGED <<proberVars, removerVars, owed, seen, answer, eligible>>

\* Mutant: the health of the server is not read.
LookBlind(c, i) ==
    /\ i \in todo[c]
    /\ todo' = [todo EXCEPT ![c] = @ \ {i}]
    /\ seen' = [seen EXCEPT ![c] = @ \cup {i}]
    /\ UNCHANGED <<poolVars, proberVars, removerVars, owed, pc, answer, eligible>>

\* One iteration of the loop that splits the copy: one unlocked read of IsHealthy.
Look(c, i) ==
    /\ i \in todo[c]
    /\ todo' = [todo EXCEPT ![c] = @ \ {i}]
    /\ seen' = IF healthy[heap[i].server] THEN [seen EXCEPT ![c] = @ \cup {i}] ELSE seen
    /\ UNCHANGED <<poolVars, proberVars, removerVars, owed, pc, answer, eligible>>

\* The entry the hot-cold rule prefers is used, and its server answered.  The
\* threshold is the quantile of the whole copy, unhealthy servers included.
Choose(c, i) ==
    /\ pc[c] = "scanning" /\ todo[c] = {}
    /\ i \in HCL(seen[c], heap, RifQuantile(snap[c], heap))
    /\ MarkUsed(c, i)
    /\ answer' = [answer EXCEPT ![c] = {heap[i].server}]
    /\ seen' = [seen EXCEPT ![c] = {}]
    /\ eligible' = [eligible EXCEPT ![c] = {}]
    /\ pc' = [pc EXCEPT ![c] = "decided"]
    /\ UNCHANGED <<proberVars, removerVars, owed, todo>>

\* Mutant: the scan starts again with a new copy.
NothingToChooseRetries(c) ==
    /\ pc[c] = "scanning" /\ todo[c] = {} /\ seen[c] = {}
    /\ Release(c)
    /\ pc' = [pc EXCEPT ![c] = "copying"]
    /\ UNCHANGED <<proberVars, removerVars, owed, todo, seen, answer, eligible>>

NothingToChoose(c) ==
    /\ pc[c] = "scanning" /\ todo[c] = {} /\ seen[c] = {}
    /\ Release(c)
    /\ pc' = [pc EXCEPT ![c] = "random"]
    /\ UNCHANGED <<proberVars, removerVars, owed, todo, seen, answer, eligible>>

\* selectRandom: any server in rotation, or none if there is none.
Fallback(c) ==
    /\ pc[c] = "random"
    /\ \/ \E s \in HealthyServers : answer' = [answer EXCEPT ![c] = {s}]
       \/ HealthyServers = {} /\ answer' = [answer EXCEPT ![c] = {}]
    /\ eligible' = [eligible EXCEPT ![c] = {}]
    /\ pc' = [pc EXCEPT ![c] = "decided"]
    /\ UNCHANGED <<poolVars, proberVars, removerVars, owed, todo, seen>>

\* SelectServer returns and the request goes on to the server, or is refused.
Leave(c) ==
    /\ pc[c] = "decided"
    /\ pc' = [pc EXCEPT ![c] = "idle"]
    /\ answer' = [answer EXCEPT ![c] = {}]
    /\ IF chosen[c] # {} THEN Release(c) ELSE UNCHANGED poolVars
    /\ UNCHANGED <<proberVars, removerVars, owed, todo, seen, eligible>>

-----------------------------------------------------------------------------
(* Probing.                                                                *)

\* triggerAsyncProbes: distinct servers in random order.
StartBatch ==
    /\ owed > 0
    /\ owed' = owed - 1
    /\ \E targets \in SUBSET Server :
          Cardinality(targets) = AsyncCount /\ FireAsync(targets)
    /\ UNCHANGED <<poolVars, clientVars, removerVars>>

StartPeriodic(s) ==
    /\ \E k \in Probe : FirePeriodic(k, s)
    /\ UNCHANGED <<poolVars, clientVars, removerVars, owed>>

ProbeAnswered(k) ==
    /\ \E ok \in BOOLEAN : Answer(k, ok)
    /\ UNCHANGED <<poolVars, clientVars, removerVars, owed>>

\* The write to IsHealthy; the history of every selection under way follows it.
ProbeApplied(k) ==
    /\ Apply(k)
    /\ eligible' = [c \in Client |->
                      IF Selecting(c) THEN eligible[c] \cup HealthyServers'
                                      ELSE eligible[c]]
    /\ UNCHANGED <<poolVars, removerVars, owed, pc, todo, seen, answer>>

\* The deposit, made whether the probe succeeded or, for a periodic one, failed;
\* its timestamp is firedAt, so the entry is born as old as the probe.
Deposit(k, i) ==
    /\ Finish(k)
    /\ Add(i, [server |-> probes[k].server, rif |-> probes[k].rif,
               lat |-> probes[k].lat, age |-> probes[k].age,
               maxUses |-> Breuse(Cardinality(Server))])
    /\ UNCHANGED <<clientVars, removerVars, owed>>

-----------------------------------------------------------------------------
(* Removing.                                                               *)

\* currentRIFThreshold takes and drops a copy of the fresh entries of its own.
RemoverReads ==
    /\ remover = "idle"
    /\ threshold' = RifQuantile(FreshEntries, heap)
    /\ toggle' = ~toggle
    /\ remover' = "removing"
    /\ UNCHANGED <<poolVars, proberVars, clientVars, owed>>

\* RemoveWorst, with a threshold the pool may have outlived.
RemoverRemoves ==
    /\ remover = "removing"
    /\ IF pool = {} THEN UNCHANGED poolVars ELSE RemoveWorst(threshold, toggle)
    /\ remover' = "idle"
    /\ threshold' = 0
    /\ UNCHANGED <<proberVars, clientVars, owed, toggle>>

-----------------------------------------------------------------------------

TimePasses ==
    /\ Tick
    /\ ProberTick
    /\ UNCHANGED <<clientVars, removerVars, owed>>

\* The steps of goroutine c once it has begun a selection.
SelectStep(c) ==
    \/ TooFewFresh(c) \/ CopyFresh(c) \/ NothingToChoose(c) \/ Fallback(c)
    \/ \E i \in Entry : Look(c, i) \/ Choose(c, i)

ProbeStep(k) ==
    ProbeAnswered(k) \/ ProbeApplied(k) \/ \E i \in Entry : Deposit(k, i)

RemoverStep == RemoverReads \/ RemoverRemoves

PrequalNext ==
    \/ \E c \in Client : Serve(c) \/ SelectStep(c) \/ Leave(c)
    \/ StartBatch
    \/ \E s \in Server : StartPeriodic(s)
    \/ \E k \in Probe : ProbeStep(k)
    \/ RemoverStep
    \/ TimePasses

PrequalSafety == PrequalInit /\ [][PrequalNext]_prequalVars

\* A selection takes no lock it could wait on for ever, and the remover's ticker
\* never stops.  Nothing is assumed about requests, servers or time.
PrequalFairness ==
    /\ \A c \in Client : WF_prequalVars(SelectStep(c))
    /\ \A k \in Probe : WF_prequalVars(ProbeStep(k))
    /\ WF_prequalVars(RemoverStep)

PrequalSpec == PrequalSafety /\ PrequalFairness

-----------------------------------------------------------------------------

\* What a caller of SelectServer sees of a Prequal balancer.
Phase(c) == IF Selecting(c) THEN "selecting" ELSE pc[c]

Caller == INSTANCE Selection WITH phase <- [c \in Client |-> Phase(c)]

\* Prequal keeps the promise of Selection: the server it returns was healthy at
\* some moment of the call, although the observation that got it chosen may be
\* older than its last failure, and it refuses a request only while no server is
\* healthy.
KeepsPromise == Caller!SelectionSafety

\* Every selection comes to an answer: the scan of a copy ends, and a copy whose
\* servers are all unhealthy falls back.
SelectionAnswered == Caller!CallsAnswered

\* The pool and the prober are used according to their own specifications.
UsesPool   == PoolSpec
UsesProber == ProberSpec
=============================================================================
