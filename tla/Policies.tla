------------------------------ MODULE Policies ------------------------------
(***************************************************************************)
(* The policies other than prequal: weighted round robin, round robin,     *)
(* random, least loaded, and power of two choices.                         *)
(*                                                                         *)
(* Each takes lb.mu for as long as it lists the healthy servers and no     *)
(* longer: what it reads after that (a weight, a ClientRIF, the turn of    *)
(* round robin) concurrent requests, probes and the weight updater change  *)
(* under its feet, one read at a time.                                     *)
(***************************************************************************)
EXTENDS Naturals, Sequences, FiniteSets

CONSTANTS N,        \* servers 1 .. N, in the order of lb.servers
          Client,   \* goroutines that serve requests
          Weights,  \* the weights recomputeWRRWeights may find: 1000 / EWMALatency
          Wrap      \* rrIdx counts modulo Wrap, which is 2^32

ASSUME PoliciesAssumption ==
    /\ N \in Nat \ {0}
    /\ IsFiniteSet(Client)
    /\ Weights \subseteq Nat \ {0} /\ 1 \in Weights
    /\ Wrap \in Nat \ {0}

Server == 1 .. N
Algorithms == {"weightedrr", "roundrobin", "random", "leastloaded", "ll-po2c"}

VARIABLES algorithm,  \* lb.config.Algorithm, fixed for good
          healthy,    \* healthy[s]: IsHealthy of s
          weight,     \* weight[s]: Weight of s
          updater,    \* the server recomputeWRRWeights writes next; 0 while the
                      \* updater sleeps; it holds lb.mu all the while
          clientRIF,  \* clientRIF[s]: requests this balancer has forwarded to s
          rrIdx,      \* lb.rrIdx
          phase,      \* phase[c]: where goroutine c is in ServeHTTP
          call,       \* call[c]: the local variables of c's selection
          answer,     \* answer[c]: the server selected: {} for none, or {s}
          eligible,   \* history: servers healthy at a moment of c's call
          moved,      \* history: changes of any ClientRIF since c listed the
                      \* servers, up to the number of clients
          lighter,    \* history: a weight fell since c listed the servers
          lap         \* history: servers that round robin gave a turn to since
                      \* it last had given one to each

sharedVars  == <<healthy, weight, updater, clientRIF, rrIdx>>
historyVars == <<eligible, moved, lighter, lap>>
policyVars  == <<algorithm, sharedVars, phase, call, answer, historyVars>>

HealthyServers == {s \in Server : healthy[s]}

\* Mutant: all servers, whatever their health.
AllServers == {[i \in Server |-> i]}

\* healthyServersLocked: the healthy servers in the order of lb.servers, the only
\* ascending list of them.
Candidates ==
    {list \in [1 .. Cardinality(HealthyServers) -> HealthyServers] :
        \A i, j \in DOMAIN list : i < j => list[i] < list[j]}

\* The phase in which the policy goes on once it has its candidates.
FirstPhase == CASE algorithm = "weightedrr"  -> "summing"
                [] algorithm = "roundrobin"  -> "ticket"
                [] algorithm = "random"      -> "drawing"
                [] algorithm = "leastloaded" -> "loading"
                [] algorithm = "ll-po2c"     -> "pairing"

NoCall == [candidates |-> <<>>, left |-> <<>>, best |-> 0, load |-> 0, sum |-> 0, pick |-> 0]

PoliciesInit ==
    /\ algorithm \in Algorithms
    /\ healthy = [s \in Server |-> TRUE]
    /\ weight = [s \in Server |-> 1]
    /\ updater = 0
    /\ clientRIF = [s \in Server |-> 0]
    /\ rrIdx = 0
    /\ phase = [c \in Client |-> "idle"]
    /\ call = [c \in Client |-> NoCall]
    /\ answer = [c \in Client |-> {}]
    /\ eligible = [c \in Client |-> {}]
    /\ moved = [c \in Client |-> 0]
    /\ lighter = [c \in Client |-> FALSE]
    /\ lap = {}

Selecting(c) == phase[c] \notin {"idle", "decided", "forwarding"}

(***************************************************************************)
(* A request.                                                              *)
(***************************************************************************)
\* A bound: one request at a time under weighted round robin, whose selections write
\* nothing another could read.
Alone(c) == \A d \in Client \ {c} : phase[d] = "idle"

Serve(c) ==
    /\ phase[c] = "idle"
    /\ algorithm = "weightedrr" => Alone(c)
    /\ phase' = [phase EXCEPT ![c] = "called"]
    /\ eligible' = [eligible EXCEPT ![c] = HealthyServers]
    /\ UNCHANGED <<algorithm, sharedVars, call, answer, moved, lighter, lap>>

\* The selection of c ends with a server, or with none.
Answers(c, servers) ==
    /\ answer' = [answer EXCEPT ![c] = servers]
    /\ phase' = [phase EXCEPT ![c] = "decided"]
    /\ eligible' = [eligible EXCEPT ![c] = {}]

\* Every policy begins by listing the healthy servers under lb.mu.  The loop of
\* least loaded starts from the first of them.
ListServers(c) ==
    /\ phase[c] = "called"
    /\ updater = 0
    /\ \E list \in Candidates :
          \/ /\ list = <<>>
             /\ Answers(c, {})
             /\ UNCHANGED call
          \/ /\ list # <<>>
             /\ call' = [call EXCEPT ![c] =
                           [NoCall EXCEPT
                              !.candidates = list,
                              !.left = IF algorithm = "leastloaded" THEN Tail(list)
                                                                    ELSE list,
                              !.best = list[1]]]
             /\ phase' = [phase EXCEPT ![c] = FirstPhase]
             /\ UNCHANGED <<answer, eligible>>
    /\ moved' = [moved EXCEPT ![c] = 0]
    /\ lighter' = [lighter EXCEPT ![c] = FALSE]
    /\ UNCHANGED <<algorithm, sharedVars, lap>>

(***************************************************************************)
(* Round robin and random.                                                 *)
(***************************************************************************)
\* A load and a store instead of one AddUint32: a concurrent turn may be lost.
AdvancedOrLost(c) ==
    IF \E d \in Client \ {c} : phase[d] = "ticket"
    THEN {rrIdx, (rrIdx + 1) % Wrap} ELSE {(rrIdx + 1) % Wrap}

\* AddUint32: the turn of c leaves the next one in rrIdx, and drops the carry.
Advanced(c) == {(rrIdx + 1) % Wrap}

\* The server of a turn among candidates.
Turn(candidates) == candidates[(rrIdx % Len(candidates)) + 1]

\* A lap is over when every candidate had its turn.  A turn among candidates that
\* are no longer the healthy ones, or one after which rrIdx wraps, begins anew.
LapAfter(candidates) ==
    IF \/ candidates \notin Candidates
       \/ rrIdx + 1 = Wrap
       \/ lap \cup {Turn(candidates)} = HealthyServers
    THEN {} ELSE lap \cup {Turn(candidates)}

TakeTurn(c) ==
    /\ phase[c] = "ticket"
    /\ Answers(c, {Turn(call[c].candidates)})
    /\ rrIdx' \in Advanced(c)
    /\ lap' = LapAfter(call[c].candidates)
    /\ call' = [call EXCEPT ![c] = NoCall]
    /\ UNCHANGED <<algorithm, healthy, weight, updater, clientRIF, moved, lighter>>

Draw(c) ==
    /\ phase[c] = "drawing"
    /\ \E i \in DOMAIN call[c].candidates : Answers(c, {call[c].candidates[i]})
    /\ call' = [call EXCEPT ![c] = NoCall]
    /\ UNCHANGED <<algorithm, sharedVars, moved, lighter, lap>>

(***************************************************************************)
(* Least loaded and power of two choices.  Both load the ClientRIF of one  *)
(* server, then that of the best so far, and keep the better.              *)
(***************************************************************************)
\* Two distinct candidates, the first of which wins a tie, or the only one.
DrawPair(c) ==
    /\ phase[c] = "pairing"
    /\ \E first, second \in {call[c].candidates[i] : i \in DOMAIN call[c].candidates} :
          /\ first = second => Len(call[c].candidates) = 1
          /\ call' = [call EXCEPT ![c].candidates = IF first = second THEN <<first>>
                                                    ELSE <<first, second>>,
                                  ![c].left = IF first = second THEN <<>> ELSE <<first>>,
                                  ![c].best = second]
    /\ phase' = [phase EXCEPT ![c] = "loading"]
    /\ UNCHANGED <<algorithm, sharedVars, answer, historyVars>>

LoadCandidate(c) ==
    /\ phase[c] = "loading"
    /\ call[c].left # <<>>
    /\ call' = [call EXCEPT ![c].load = clientRIF[call[c].left[1]]]
    /\ phase' = [phase EXCEPT ![c] = "comparing"]
    /\ UNCHANGED <<algorithm, sharedVars, answer, historyVars>>

\* The comparison of least loaded the wrong way round.
WinsSwapped(load, best) == IF algorithm = "leastloaded" THEN load > best ELSE load <= best

\* The candidate's load wins over the load of the best.
Wins(load, best) == IF algorithm = "leastloaded" THEN load < best ELSE load <= best

LoadBest(c) ==
    /\ phase[c] = "comparing"
    /\ call' = [call EXCEPT ![c].best = IF Wins(call[c].load, clientRIF[call[c].best])
                                        THEN call[c].left[1] ELSE call[c].best,
                            ![c].left = Tail(call[c].left),
                            ![c].load = 0]
    /\ phase' = [phase EXCEPT ![c] = "loading"]
    /\ UNCHANGED <<algorithm, sharedVars, answer, historyVars>>

KeepBest(c) ==
    /\ phase[c] = "loading"
    /\ call[c].left = <<>>
    /\ Answers(c, {call[c].best})
    /\ UNCHANGED <<algorithm, sharedVars, call, moved, lighter, lap>>

(***************************************************************************)
(* Weighted round robin: one pass sums the weights, a second one looks for *)
(* the candidate in whose share of the sum the pick falls.                 *)
(***************************************************************************)
AddWeight(c) ==
    /\ phase[c] = "summing"
    /\ call[c].left # <<>>
    /\ call' = [call EXCEPT ![c].sum = @ + weight[call[c].left[1]],
                            ![c].left = Tail(@)]
    /\ UNCHANGED <<algorithm, sharedVars, phase, answer, historyVars>>

\* rand.Float64() * totalWeight, which lies between the pick and the pick plus one.
\* (On the border of two shares, where it has no weight, <= favours the first.)
Picks(sum) == 0 .. sum - 1

\* The second pass leaves the first candidate out.
PickSkipsFirst(c) ==
    /\ phase[c] = "summing"
    /\ call[c].left = <<>>
    /\ \E pick \in Picks(call[c].sum) :
          call' = [call EXCEPT ![c].pick = pick,
                               ![c].sum = 0,
                               ![c].left = Tail(call[c].candidates)]
    /\ phase' = [phase EXCEPT ![c] = "scanning"]
    /\ UNCHANGED <<algorithm, sharedVars, answer, historyVars>>

Pick(c) ==
    /\ phase[c] = "summing"
    /\ call[c].left = <<>>
    /\ \E pick \in Picks(call[c].sum) :
          call' = [call EXCEPT ![c].pick = pick,
                               ![c].sum = 0,
                               ![c].left = call[c].candidates]
    /\ phase' = [phase EXCEPT ![c] = "scanning"]
    /\ UNCHANGED <<algorithm, sharedVars, answer, historyVars>>

Scan(c) ==
    /\ phase[c] = "scanning"
    /\ call[c].left # <<>>
    /\ LET sum == call[c].sum + weight[call[c].left[1]]
       IN \/ /\ call[c].pick < sum
             /\ Answers(c, {call[c].left[1]})
             /\ call' = [call EXCEPT ![c] = NoCall]
          \/ /\ call[c].pick >= sum
             /\ call' = [call EXCEPT ![c].sum = sum, ![c].left = Tail(@)]
             /\ UNCHANGED <<phase, answer, eligible>>
    /\ UNCHANGED <<algorithm, sharedVars, moved, lighter, lap>>

\* The pick is in nobody's share.
RunPast(c) == phase[c] = "scanning" /\ call[c].left = <<>>

TakeLast(c) ==
    /\ RunPast(c)
    /\ Answers(c, {call[c].candidates[Len(call[c].candidates)]})
    /\ call' = [call EXCEPT ![c] = NoCall]
    /\ UNCHANGED <<algorithm, sharedVars, moved, lighter, lap>>

(***************************************************************************)
(* After the selection: forwardRequest counts the request in ClientRIF for *)
(* as long as it is with the server.                                       *)
(***************************************************************************)
\* c changes a ClientRIF, as seen by the others between their reading of the loads
\* and their answer.
LoadsMove(c) ==
    moved' = [d \in Client |->
                IF d = c \/ phase[d] \notin {"pairing", "loading", "comparing", "decided"}
                THEN 0
                ELSE IF moved[d] < Cardinality(Client) THEN moved[d] + 1 ELSE moved[d]]

GiveUp(c) ==
    /\ phase[c] = "decided"
    /\ answer[c] = {}
    /\ phase' = [phase EXCEPT ![c] = "idle"]
    /\ UNCHANGED <<algorithm, sharedVars, call, answer, historyVars>>

Forward(c) ==
    /\ phase[c] = "decided"
    /\ \E s \in answer[c] : clientRIF' = [clientRIF EXCEPT ![s] = @ + 1]
    /\ phase' = [phase EXCEPT ![c] = "forwarding"]
    /\ call' = [call EXCEPT ![c] = NoCall]
    /\ LoadsMove(c)
    /\ UNCHANGED <<algorithm, healthy, weight, updater, rrIdx, answer, eligible, lighter, lap>>

Complete(c) ==
    /\ phase[c] = "forwarding"
    /\ \E s \in answer[c] : clientRIF' = [clientRIF EXCEPT ![s] = @ - 1]
    /\ phase' = [phase EXCEPT ![c] = "idle"]
    /\ answer' = [answer EXCEPT ![c] = {}]
    /\ LoadsMove(c)
    /\ UNCHANGED <<algorithm, healthy, weight, updater, rrIdx, call, eligible, lighter, lap>>

(***************************************************************************)
(* Probes and the weight updater.                                          *)
(***************************************************************************)
\* A probe result sets the health of a server, under lb.mu.
Observe(s, ok) ==
    /\ updater = 0
    /\ healthy' = [healthy EXCEPT ![s] = ok]
    /\ eligible' = [c \in Client |-> IF Selecting(c) THEN eligible[c] \cup HealthyServers'
                                                     ELSE eligible[c]]
    /\ lap' = IF ok = healthy[s] THEN lap ELSE {}
    /\ UNCHANGED <<algorithm, weight, updater, clientRIF, rrIdx, phase, call, answer,
                   moved, lighter>>

\* The ticker of runWeightUpdater, which runs for weighted round robin only.
StartUpdate ==
    /\ algorithm = "weightedrr"
    /\ updater = 0
    /\ updater' = 1
    /\ UNCHANGED <<algorithm, healthy, weight, clientRIF, rrIdx, phase, call, answer,
                   historyVars>>

\* recomputeWRRWeights writes the weights of all servers, the unhealthy included,
\* one by one.
WriteWeight ==
    /\ updater # 0
    /\ \E w \in Weights :
          /\ weight' = [weight EXCEPT ![updater] = w]
          /\ lighter' = [c \in Client |->
                           /\ phase[c] \in {"summing", "scanning"}
                           /\ lighter[c] \/ w < weight[updater]]
    /\ updater' = IF updater = N THEN 0 ELSE updater + 1
    /\ UNCHANGED <<algorithm, healthy, clientRIF, rrIdx, phase, call, answer,
                   eligible, moved, lap>>

SelectStep(c) ==
    \/ ListServers(c)
    \/ TakeTurn(c)
    \/ Draw(c)
    \/ DrawPair(c) \/ LoadCandidate(c) \/ LoadBest(c) \/ KeepBest(c)
    \/ AddWeight(c) \/ Pick(c) \/ Scan(c) \/ TakeLast(c)

PoliciesNext ==
    \/ \E c \in Client : Serve(c) \/ SelectStep(c) \/ GiveUp(c) \/ Forward(c) \/ Complete(c)
    \/ \E s \in Server, ok \in BOOLEAN : Observe(s, ok)
    \/ StartUpdate
    \/ WriteWeight

PoliciesSpec == PoliciesInit /\ [][PoliciesNext]_policyVars

(***************************************************************************)
(* Properties.                                                             *)
(***************************************************************************)
\* The types of the state; rrIdx keeps its width (balancer.go:491).
PoliciesTypeOK ==
    /\ algorithm \in Algorithms
    /\ healthy \in [Server -> BOOLEAN]
    /\ weight \in [Server -> Weights]
    /\ updater \in 0 .. N
    /\ clientRIF \in [Server -> Nat]
    /\ rrIdx \in 0 .. Wrap - 1
    /\ phase \in [Client -> {"idle", "called", "ticket", "drawing", "pairing", "loading",
                             "comparing", "summing", "scanning", "decided", "forwarding"}]
    /\ call \in [Client -> [candidates : Seq(Server), left : Seq(Server), best : 0 .. N,
                            load : Nat, sum : Nat, pick : Nat]]
    /\ answer \in [Client -> SUBSET Server]
    /\ eligible \in [Client -> SUBSET Server]
    /\ moved \in [Client -> 0 .. Cardinality(Client)]
    /\ lighter \in [Client -> BOOLEAN]
    /\ lap \in SUBSET Server

\* Concurrent requests take their turns one after another: while the same servers
\* stay healthy and rrIdx does not wrap, nobody has a second turn before everybody
\* had one (selectRoundRobin, balancer.go:485-494).
RoundRobinFair ==
    algorithm = "roundrobin" =>
        \A list \in Candidates : list # <<>> => Turn(list) \notin lap

\* How far least loaded and power of two choices can be wrong about the loads, which
\* other requests change between two of their reads: the server they answer has at
\* most as many more requests as ClientRIFs changed during the selection than any
\* server they compared it with (balancer.go:507-544).
HerdBounded ==
    \A c \in Client :
        algorithm \in {"leastloaded", "ll-po2c"} /\ phase[c] = "decided" =>
            \A s \in answer[c], i \in DOMAIN call[c].candidates :
                clientRIF[s] <= clientRIF[call[c].candidates[i]] + moved[c]

\* The scan of weighted round robin runs past its last candidate only when a weight
\* fell between the two passes; weights that rise, and servers that come and go, do
\* not send the traffic of others to the last server (balancer.go:452-466).
RunsPastOnlyWhenLighter == \A c \in Client : RunPast(c) => lighter[c]

\* Whichever of these policies is configured, it keeps the promise of SelectServer:
\* a server healthy during the call, and none only while none is.
Phase == [c \in Client |->
            CASE Selecting(c) -> "selecting"
              [] phase[c] = "idle" -> "idle"
              [] OTHER -> "decided"]

Promise == INSTANCE Selection WITH phase <- Phase

KeepsPromise == Promise!SelectionSafety
=============================================================================
