--------------------------- MODULE PoliciesProofs ---------------------------
(***************************************************************************)
(* Proofs about the policies other than prequal, for any number of servers *)
(* and of concurrent requests.                                             *)
(*                                                                         *)
(* The invariant has a part for each goroutine c, about the local variables*)
(* of its selection, and one about all of them: RIFInv, which says whose   *)
(* requests a ClientRIF counts.                                            *)
(*   ChoiceInv  whatever c may still answer was healthy during its call.   *)
(*   AnswerInv  the answer is kept until the request is over.              *)
(*   ScanInv    the partial sums of the first pass of weighted round robin *)
(*              bound those of the second, unless a weight fell.           *)
(*   HerdInv    what least loaded and power of two choices know of the     *)
(*              loads they compared is at most moved[c] changes old.       *)
(* LapInv, about round robin, stands apart: the servers that had their turn*)
(* in this lap are those of consecutive turns, in the one order there is of*)
(* the healthy servers, of which the next turn is not one.                 *)
(***************************************************************************)
EXTENDS Policies, FiniteSetTheorems, WellFoundedInduction, TLAPS

\* c has its candidates, and no answer yet.
Listed(c) == Selecting(c) /\ phase[c] # "called"

Elements(s) == {s[i] : i \in DOMAIN s}

ChoiceInv(c) ==
    /\ Selecting(c) => HealthyServers \subseteq eligible[c]
    /\ Listed(c) => /\ call[c].candidates # <<>>
                    /\ Elements(call[c].candidates) \subseteq eligible[c]
                    /\ Elements(call[c].left) \subseteq eligible[c]
                    /\ call[c].best \in eligible[c]
    /\ phase[c] = "comparing" => call[c].left # <<>>

AnswerInv(c) ==
    /\ phase[c] = "forwarding" => \E s \in Server : answer[c] = {s}
    /\ phase[c] = "decided" => answer[c] = {} \/ \E s \in Server : answer[c] = {s}
    /\ phase[c] = "idle" => answer[c] = {}

\* The clients whose requests are with s.
Holders(s) == {c \in Client : phase[c] = "forwarding" /\ answer[c] = {s}}

RIFInv == \A s \in Server : clientRIF[s] = Cardinality(Holders(s))

\* The part of the candidates that AddWeight, Scan and the loading loop passed.
Passed(c) == Len(call[c].candidates) - Len(call[c].left)

\* The candidates that the best so far was compared with, itself included.
Compared(c) == Elements(call[c].candidates) \ Elements(call[c].left)

\* Partial sums of the candidates' weights, as the first pass found them.
PartialSums(c) == [0 .. Len(call[c].candidates) -> Nat]

\* The i-th of these weights was at most what it is now.
Covered(c, sums, i) == sums[i] <= sums[i - 1] + weight[call[c].candidates[i]]

ScanInv(c) ==
    /\ phase[c] \in {"summing", "scanning"} =>
          /\ Passed(c) \in 0 .. Len(call[c].candidates)
          /\ \A i \in DOMAIN call[c].left :
                call[c].left[i] = call[c].candidates[Passed(c) + i]
    /\ phase[c] = "summing" /\ ~lighter[c] =>
          \E sums \in PartialSums(c) :
              /\ sums[0] = 0 /\ sums[Passed(c)] = call[c].sum
              /\ \A i \in 1 .. Passed(c) : Covered(c, sums, i)
    /\ phase[c] = "scanning" => call[c].sum <= call[c].pick
    /\ phase[c] = "scanning" /\ ~lighter[c] =>
          \E sums \in PartialSums(c) :
              /\ call[c].pick < sums[Len(call[c].candidates)]
              /\ sums[Passed(c)] <= call[c].sum
              /\ \A i \in Passed(c) + 1 .. Len(call[c].candidates) : Covered(c, sums, i)

HerdInv(c) ==
    /\ phase[c] \in {"loading", "comparing"} =>
          /\ call[c].best \in Compared(c)
          /\ Elements(call[c].left) \subseteq Elements(call[c].candidates)
          /\ \A i, j \in DOMAIN call[c].left : i # j => call[c].left[i] # call[c].left[j]
          /\ \A s \in Compared(c) : clientRIF[call[c].best] <= clientRIF[s] + moved[c]
    /\ phase[c] = "comparing" =>
          /\ call[c].load <= Cardinality(Client)
          /\ call[c].load <= clientRIF[call[c].left[1]] + moved[c]
          /\ \A s \in Compared(c) :
                clientRIF[call[c].left[1]] + clientRIF[call[c].best]
                    <= call[c].load + clientRIF[s] + moved[c]
    /\ phase[c] = "decided" =>
          \A s \in answer[c], x \in Elements(call[c].candidates) :
              clientRIF[s] <= clientRIF[x] + moved[c]

PoliciesInv ==
    /\ PoliciesTypeOK /\ RIFInv
    /\ \A c \in Client : ChoiceInv(c) /\ AnswerInv(c) /\ ScanInv(c) /\ HerdInv(c)

(* The sets of clients are finite, and no larger than the set of all. *)
LEMMA Finite ==
    /\ Cardinality(Client) \in Nat
    /\ \A S \in SUBSET Client : /\ IsFiniteSet(S) /\ Cardinality(S) \in Nat
                                /\ Cardinality(S) <= Cardinality(Client)
BY PoliciesAssumption, FS_CardinalityType, FS_Subset

(* What the policies use of the list of candidates. *)
LEMMA ListType ==
    ASSUME PoliciesTypeOK, NEW list \in Candidates
    PROVE  /\ list \in Seq(Server)
           /\ list = <<>> => HealthyServers = {}
           /\ list # <<>> => Elements(list) \subseteq HealthyServers /\ list[1] \in HealthyServers
                             /\ Tail(list) \in Seq(Server) /\ Elements(Tail(list)) \subseteq HealthyServers
           /\ \A i, j \in DOMAIN list : i # j => list[i] # list[j]
<1>1. IsFiniteSet(HealthyServers) /\ Cardinality(HealthyServers) \in Nat
  <2>1. IsFiniteSet(Server)
    BY PoliciesAssumption, FS_Interval DEF Server
  <2>2. HealthyServers \subseteq Server
    BY DEF HealthyServers
  <2>. QED
    BY <2>1, <2>2, FS_Subset, FS_CardinalityType
<1>2. DOMAIN list = 1 .. Cardinality(HealthyServers) /\ \A i \in DOMAIN list : list[i] \in HealthyServers
  BY DEF Candidates
<1>3. list \in Seq(Server) /\ Len(list) = Cardinality(HealthyServers)
  BY <1>1, <1>2 DEF Candidates, HealthyServers
<1>4. list = <<>> => HealthyServers = {}
  BY <1>1, <1>3, FS_EmptySet
<1>5. ASSUME list # <<>>
      PROVE  Elements(list) \subseteq HealthyServers /\ list[1] \in HealthyServers
                             /\ Tail(list) \in Seq(Server) /\ Elements(Tail(list)) \subseteq HealthyServers
  BY <1>2, <1>3, <1>5 DEF Elements
<1>6. \A i, j \in DOMAIN list : i # j => list[i] # list[j]
  BY <1>1, <1>2 DEF Candidates, HealthyServers, Server
<1>. QED BY <1>3, <1>4, <1>5, <1>6

CallType == [candidates : Seq(Server), left : Seq(Server), best : 0 .. N,
             load : Nat, sum : Nat, pick : Nat]

(* The head and the tail of a list of servers. *)
LEMMA FirstOf ==
    ASSUME NEW q \in Seq(Server), q # <<>>
    PROVE  /\ q[1] \in Server /\ q[1] \in 0 .. N /\ Tail(q) \in Seq(Server)
           /\ q[1] \in Elements(q) /\ Elements(Tail(q)) \subseteq Elements(q)
<1>1. /\ q[1] \in Server /\ Tail(q) \in Seq(Server) /\ 1 \in DOMAIN q
      /\ Len(q) \in Nat \ {0} /\ DOMAIN q = 1 .. Len(q)
  OBVIOUS
<1>2. q[1] \in 0 .. N
  BY <1>1, PoliciesAssumption DEF Server
<1>3. DOMAIN Tail(q) = 1 .. Len(q) - 1 /\ \A i \in DOMAIN Tail(q) : i + 1 \in DOMAIN q /\ Tail(q)[i] = q[i + 1]
  BY <1>1
<1>4. Elements(Tail(q)) \subseteq Elements(q)
  BY <1>3 DEF Elements
<1>. QED BY <1>1, <1>2, <1>4 DEF Elements

(* A step of a selection leaves its local variables well typed. *)
LEMMA CallTypeSelect ==
    ASSUME PoliciesTypeOK, NEW c \in Client, SelectStep(c), ChoiceInv(c)
    PROVE  call' \in [Client -> CallType]
<1>0. call \in [Client -> CallType] /\ call[c] \in CallType /\ NoCall \in CallType
  <2>1. call \in [Client -> CallType]
    BY DEF PoliciesTypeOK, CallType
  <2>2. NoCall \in CallType
    BY PoliciesAssumption DEF CallType, NoCall
  <2>. QED BY <2>1, <2>2
<1>1. CASE ListServers(c)
  <2>1. PICK list \in Candidates :
          \/ list = <<>> /\ UNCHANGED call
          \/ /\ list # <<>>
             /\ call' = [call EXCEPT ![c] =
                           [NoCall EXCEPT
                              !.candidates = list,
                              !.left = IF algorithm = "leastloaded" THEN Tail(list)
                                                                    ELSE list,
                              !.best = list[1]]]
    BY <1>1 DEF ListServers
  <2>3. CASE list = <<>>
    BY <2>1, <2>3, <1>0
  <2>4. CASE list # <<>>
    <3>1. /\ list \in Seq(Server) /\ list[1] \in 0 .. N /\ Tail(list) \in Seq(Server)
      BY <2>4, ListType DEF HealthyServers, Server
    <3>2. call' = [call EXCEPT ![c] = [candidates |-> list,
                     left |-> IF algorithm = "leastloaded" THEN Tail(list) ELSE list,
                     best |-> list[1], load |-> 0, sum |-> 0, pick |-> 0]]
      BY <2>1, <2>4 DEF NoCall
    <3>3. QED
      BY <3>1, <3>2, <1>0 DEF CallType
  <2>. QED BY <2>3, <2>4
<1>2. CASE TakeTurn(c) \/ Draw(c) \/ TakeLast(c)
  BY <1>2, <1>0 DEF TakeTurn, Draw, TakeLast
<1>3. CASE KeepBest(c)
  BY <1>3, <1>0 DEF KeepBest
<1>4. CASE DrawPair(c)
  <2>1. PICK first, second \in {call[c].candidates[i] : i \in DOMAIN call[c].candidates} :
          call' = [call EXCEPT ![c].candidates = IF first = second THEN <<first>>
                                                    ELSE <<first, second>>,
                                  ![c].left = IF first = second THEN <<>> ELSE <<first>>,
                                  ![c].best = second]
    BY <1>4 DEF DrawPair
  <2>2. first \in Server /\ second \in Server
    BY <1>0 DEF CallType
  <2>3. second \in 0 .. N /\ <<first>> \in Seq(Server) /\ <<first, second>> \in Seq(Server) /\ <<>> \in Seq(Server)
    BY <2>2 DEF Server
  <2>. QED BY <2>1, <2>3, <1>0 DEF CallType
<1>5. CASE LoadCandidate(c)
  <2>1. clientRIF[call[c].left[1]] \in Nat
    <3>1. call[c].left \in Seq(Server) /\ call[c].left # <<>>
      BY <1>5, <1>0 DEF LoadCandidate, CallType
    <3>2. call[c].left[1] \in Server
      BY <3>1, FirstOf
    <3>. QED BY <3>2 DEF PoliciesTypeOK
  <2>2. [call[c] EXCEPT !.load = clientRIF[call[c].left[1]]] \in CallType
    BY <2>1, <1>0 DEF CallType
  <2>. QED BY <1>5, <2>2, <1>0 DEF LoadCandidate
<1>6. CASE LoadBest(c)
  <2>1. call[c].left # <<>> 
    BY <1>6 DEF LoadBest, ChoiceInv
  <2>2. call[c].left[1] \in 0 .. N /\ Tail(call[c].left) \in Seq(Server)
    BY <2>1, <1>0, FirstOf DEF CallType
  <2>3. \A b \in 0 .. N : [call[c] EXCEPT !.best = b, !.left = Tail(call[c].left), !.load = 0] \in CallType
    BY <2>2, <1>0 DEF CallType
  <2>4. call[c].best \in 0 .. N
    BY <1>0 DEF CallType
  <2>. QED BY <1>6, <2>2, <2>3, <2>4, <1>0 DEF LoadBest
<1>7. CASE AddWeight(c)
  <2>1. call[c].left # <<>> 
    BY <1>7 DEF AddWeight
  <2>2. call[c].left[1] \in Server /\ Tail(call[c].left) \in Seq(Server)
    BY <2>1, <1>0, FirstOf DEF CallType
  <2>3. call[c].sum + weight[call[c].left[1]] \in Nat
    <3>1. weight[call[c].left[1]] \in Nat
      BY <2>2, PoliciesAssumption DEF PoliciesTypeOK
    <3>2. call[c].sum \in Nat
      BY <1>0 DEF CallType
    <3>. QED BY <3>1, <3>2
  <2>4. [call[c] EXCEPT !.sum = call[c].sum + weight[call[c].left[1]], !.left = Tail(call[c].left)] \in CallType
    BY <2>2, <2>3, <1>0 DEF CallType
  <2>. QED BY <1>7, <2>4, <1>0 DEF AddWeight
<1>8. CASE Pick(c)
  <2>1. PICK pick \in Picks(call[c].sum) :
          call' = [call EXCEPT ![c].pick = pick, ![c].sum = 0, ![c].left = call[c].candidates]
    BY <1>8 DEF Pick
  <2>2. pick \in Nat /\ call[c].candidates \in Seq(Server)
    BY <1>0 DEF Picks, CallType
  <2>3. [call[c] EXCEPT !.pick = pick, !.sum = 0, !.left = call[c].candidates] \in CallType
    BY <2>2, <1>0 DEF CallType
  <2>. QED BY <2>1, <2>3, <1>0
<1>9. CASE Scan(c)
  <2>1. call[c].left # <<>> 
    BY <1>9 DEF Scan
  <2>2. call[c].left[1] \in Server /\ Tail(call[c].left) \in Seq(Server)
    BY <2>1, <1>0, FirstOf DEF CallType
  <2>3. call[c].sum + weight[call[c].left[1]] \in Nat
    <3>1. weight[call[c].left[1]] \in Nat
      BY <2>2, PoliciesAssumption DEF PoliciesTypeOK
    <3>2. call[c].sum \in Nat
      BY <1>0 DEF CallType
    <3>. QED BY <3>1, <3>2
  <2>4. [call[c] EXCEPT !.sum = call[c].sum + weight[call[c].left[1]], !.left = Tail(call[c].left)] \in CallType
    BY <2>2, <2>3, <1>0 DEF CallType
  <2>. QED BY <1>9, <2>4, <1>0 DEF Scan
<1>. QED BY <1>1, <1>2, <1>3, <1>4, <1>5, <1>6, <1>7, <1>8, <1>9 DEF SelectStep

Phases == {"idle", "called", "ticket", "drawing", "pairing", "loading",
           "comparing", "summing", "scanning", "decided", "forwarding"}

(* A step of a selection keeps the types. *)
LEMMA TypeSelect ==
    ASSUME PoliciesTypeOK, NEW c \in Client, SelectStep(c), ChoiceInv(c)
    PROVE  PoliciesTypeOK'
<1>0. call' \in [Client -> CallType]
  BY CallTypeSelect
<1>c. call[c] \in CallType
  BY DEF PoliciesTypeOK, CallType
<1>u. /\ algorithm' \in Algorithms /\ healthy' \in [Server -> BOOLEAN]
      /\ weight' \in [Server -> Weights] /\ updater' \in 0 .. N
      /\ clientRIF' \in [Server -> Nat] /\ lighter' \in [Client -> BOOLEAN]
  BY DEF PoliciesTypeOK, SelectStep, ListServers, TakeTurn, Draw, DrawPair, LoadCandidate, LoadBest,
         KeepBest, AddWeight, Pick, Scan, TakeLast, sharedVars, historyVars
<1>m. moved' \in [Client -> 0 .. Cardinality(Client)]
  <2>1. 0 \in 0 .. Cardinality(Client)
    BY Finite
  <2>. QED
    BY <2>1 DEF PoliciesTypeOK, SelectStep, ListServers, TakeTurn, Draw, DrawPair, LoadCandidate, LoadBest,
         KeepBest, AddWeight, Pick, Scan, TakeLast, sharedVars, historyVars
<1>r. rrIdx' \in 0 .. Wrap - 1
  <2>1. (rrIdx + 1) % Wrap \in 0 .. Wrap - 1
    BY PoliciesAssumption DEF PoliciesTypeOK
  <2>. QED
    BY <2>1 DEF PoliciesTypeOK, SelectStep, ListServers, TakeTurn, Draw, DrawPair, LoadCandidate, LoadBest,
         KeepBest, AddWeight, Pick, Scan, TakeLast, sharedVars, historyVars, Advanced
<1>p. phase' \in [Client -> Phases]
  <2>1. FirstPhase \in Phases
    BY DEF FirstPhase, PoliciesTypeOK, Algorithms, Phases
  <2>. QED
    BY <2>1 DEF PoliciesTypeOK, SelectStep, ListServers, TakeTurn, Draw, DrawPair, LoadCandidate, LoadBest,
         KeepBest, AddWeight, Pick, Scan, TakeLast, Phases, Answers
<1>a. answer' \in [Client -> SUBSET Server] /\ eligible' \in [Client -> SUBSET Server] /\ lap' \in SUBSET Server
  <2>0. /\ answer \in [Client -> SUBSET Server] /\ eligible \in [Client -> SUBSET Server] /\ lap \in SUBSET Server
        /\ call[c].candidates \in Seq(Server) /\ call[c].left \in Seq(Server)
    BY <1>c DEF PoliciesTypeOK, CallType
  <2>1. CASE ListServers(c)
    BY <2>0, <2>1 DEF ListServers, Answers
  <2>2. CASE TakeTurn(c)
    <3>1. call[c].candidates # <<>>
      BY <2>2 DEF TakeTurn, ChoiceInv, Listed, Selecting
    <3>2. Turn(call[c].candidates) \in Server
      BY <2>0, <3>1 DEF Turn, PoliciesTypeOK
    <3>3. lap' \in SUBSET Server
      BY <2>0, <2>2, <3>2 DEF TakeTurn, LapAfter
    <3>. QED
      BY <2>0, <2>2, <3>2, <3>3 DEF TakeTurn, Answers
  <2>3. CASE Draw(c)
    BY <2>0, <2>3 DEF Draw, Answers
  <2>4. CASE KeepBest(c)
    <3>1. call[c].best \in Server
      BY <2>4, <2>0 DEF KeepBest, ChoiceInv, Listed, Selecting
    <3>. QED BY <2>0, <2>4, <3>1 DEF KeepBest, Answers
  <2>5. CASE Scan(c)
    <3>1. call[c].left[1] \in Server
      BY <2>5, <2>0 DEF Scan
    <3>. QED BY <2>0, <2>5, <3>1 DEF Scan, Answers
  <2>6. CASE TakeLast(c)
    <3>1. call[c].candidates # <<>>
      BY <2>6 DEF TakeLast, RunPast, ChoiceInv, Listed, Selecting
    <3>2. call[c].candidates[Len(call[c].candidates)] \in Server
      BY <2>0, <3>1
    <3>. QED BY <2>0, <2>6, <3>2 DEF TakeLast, Answers
  <2>7. CASE DrawPair(c) \/ LoadCandidate(c) \/ LoadBest(c) \/ AddWeight(c) \/ Pick(c)
    BY <2>7, <2>0 DEF DrawPair, LoadCandidate, LoadBest, AddWeight, Pick, historyVars
  <2>. QED BY <2>1, <2>2, <2>3, <2>4, <2>5, <2>6, <2>7 DEF SelectStep
<1>. QED BY <1>0, <1>u, <1>m, <1>r, <1>p, <1>a DEF PoliciesTypeOK, CallType, Phases

(* So do the other steps, those that change a ClientRIF apart. *)
LEMMA TypeOthers ==
    ASSUME PoliciesTypeOK, \A c \in Client : AnswerInv(c),
           \/ \E c \in Client : Serve(c) \/ GiveUp(c)
           \/ \E s \in Server, ok \in BOOLEAN : Observe(s, ok)
           \/ StartUpdate \/ WriteWeight
    PROVE  PoliciesTypeOK'
<1>1. ASSUME NEW c \in Client, Serve(c) \/ GiveUp(c) PROVE PoliciesTypeOK'
  <2>1. CASE Serve(c)
    BY <1>1, <2>1 DEF Serve, PoliciesTypeOK, sharedVars, HealthyServers
  <2>2. CASE GiveUp(c)
    BY <1>1, <2>2 DEF GiveUp, PoliciesTypeOK, sharedVars, historyVars
  <2>. QED BY <1>1, <2>1, <2>2
<1>2. ASSUME NEW s \in Server, NEW ok \in BOOLEAN, Observe(s, ok) PROVE PoliciesTypeOK'
  BY <1>2 DEF Observe, PoliciesTypeOK, HealthyServers
<1>3. ASSUME StartUpdate PROVE PoliciesTypeOK'
  BY <1>3, PoliciesAssumption DEF StartUpdate, PoliciesTypeOK, historyVars
<1>4. ASSUME WriteWeight PROVE PoliciesTypeOK'
  <2>1. updater' \in 0 .. N
    BY <1>4, PoliciesAssumption DEF WriteWeight, PoliciesTypeOK
  <2>2. weight' \in [Server -> Weights] /\ lighter' \in [Client -> BOOLEAN]
    BY <1>4 DEF WriteWeight, PoliciesTypeOK
  <2>. QED
    BY <1>4, <2>1, <2>2 DEF WriteWeight, PoliciesTypeOK
<1>. QED BY <1>1, <1>2, <1>3, <1>4

(* What a step of c's selection leaves alone. *)
LEMMA SelectFrame ==
    ASSUME PoliciesTypeOK, NEW c \in Client, SelectStep(c)
    PROVE  /\ UNCHANGED <<algorithm, healthy, weight, updater, clientRIF>>
           /\ \A d \in Client \ {c} :
                 /\ phase'[d] = phase[d] /\ call'[d] = call[d] /\ answer'[d] = answer[d]
                 /\ eligible'[d] = eligible[d] /\ moved'[d] = moved[d]
                 /\ lighter'[d] = lighter[d]
           /\ phase[c] # "forwarding" /\ phase'[c] # "forwarding"
           /\ phase[c] # "idle" /\ phase'[c] # "idle" /\ phase[c] # "decided"
<1>1. /\ UNCHANGED <<algorithm, healthy, weight, updater, clientRIF>>
      /\ \A d \in Client \ {c} : eligible'[d] = eligible[d] /\ moved'[d] = moved[d]
                 /\ lighter'[d] = lighter[d]
  BY DEF PoliciesTypeOK, SelectStep, ListServers, TakeTurn, Draw, DrawPair, LoadCandidate, LoadBest,
         KeepBest, AddWeight, Pick, Scan, TakeLast, sharedVars, historyVars, Answers
<1>2. \A d \in Client \ {c} : call'[d] = call[d] /\ answer'[d] = answer[d]
  BY DEF PoliciesTypeOK, SelectStep, ListServers, TakeTurn, Draw, DrawPair, LoadCandidate, LoadBest,
         KeepBest, AddWeight, Pick, Scan, TakeLast, Answers
<1>3. \A d \in Client \ {c} : phase'[d] = phase[d]
  BY DEF PoliciesTypeOK, SelectStep, ListServers, TakeTurn, Draw, DrawPair, LoadCandidate, LoadBest,
         KeepBest, AddWeight, Pick, Scan, TakeLast, Answers
<1>4. FirstPhase \in {"ticket", "drawing", "pairing", "loading", "summing"}
  BY DEF FirstPhase, PoliciesTypeOK, Algorithms
<1>5. /\ phase[c] # "forwarding" /\ phase'[c] # "forwarding"
      /\ phase[c] # "idle" /\ phase'[c] # "idle" /\ phase[c] # "decided"
  BY <1>4 DEF PoliciesTypeOK, SelectStep, ListServers, TakeTurn, Draw, DrawPair, LoadCandidate, LoadBest,
         KeepBest, AddWeight, Pick, Scan, TakeLast, Answers, RunPast
<1>. QED BY <1>1, <1>2, <1>3, <1>5

(* A selection of c leaves the rest of the world, and its part of the invariant, alone. *)
LEMMA OthersUndisturbed ==
    ASSUME PoliciesInv, NEW c \in Client, SelectStep(c), NEW d \in Client \ {c}
    PROVE  ChoiceInv(d)' /\ AnswerInv(d)' /\ ScanInv(d)' /\ HerdInv(d)'
<1>1. /\ ChoiceInv(d) /\ AnswerInv(d) /\ ScanInv(d) /\ HerdInv(d) /\ PoliciesTypeOK
  BY DEF PoliciesInv
<1>2. /\ UNCHANGED <<algorithm, healthy, weight, updater, clientRIF>>
      /\ phase'[d] = phase[d] /\ call'[d] = call[d] /\ answer'[d] = answer[d]
      /\ eligible'[d] = eligible[d] /\ moved'[d] = moved[d] /\ lighter'[d] = lighter[d]
  BY <1>1, SelectFrame
<1>3. ChoiceInv(d)' /\ AnswerInv(d)'
  BY <1>1, <1>2 DEF ChoiceInv, AnswerInv, Listed, Selecting, HealthyServers, Elements
<1>4. ScanInv(d)'
  BY <1>1, <1>2 DEF ScanInv, Passed, PartialSums, Covered
<1>5. HerdInv(d)'
  BY <1>1, <1>2 DEF HerdInv, Compared, Elements
<1>. QED BY <1>3, <1>4, <1>5

(* A step that sends and ends no request keeps RIFInv. *)
LEMMA HoldersKept ==
    ASSUME RIFInv, clientRIF' = clientRIF,
           \A d \in Client : /\ phase'[d] = "forwarding" <=> phase[d] = "forwarding"
                             /\ phase[d] = "forwarding" => answer'[d] = answer[d]
    PROVE  RIFInv'
<1>1. \A s \in Server : Holders(s)' = Holders(s)
  BY DEF Holders
<1>. QED BY <1>1 DEF RIFInv

(* A request sent or ended changes one ClientRIF with its holders. *)
LEMMA ForwardStep ==
    ASSUME PoliciesInv, NEW c \in Client, Forward(c) \/ Complete(c)
    PROVE  PoliciesTypeOK' /\ RIFInv'
<1>. DEFINE out == phase[c] = "decided"
<1>1. PoliciesTypeOK /\ RIFInv /\ AnswerInv(c)
  BY DEF PoliciesInv
<1>2. PICK s \in Server : answer[c] = {s} /\ clientRIF' = [clientRIF EXCEPT ![s] = IF out THEN @ + 1 ELSE @ - 1]
  <2>1. CASE Forward(c)
    BY <1>1, <2>1 DEF Forward, AnswerInv
  <2>2. CASE Complete(c)
    BY <1>1, <2>2 DEF Complete, AnswerInv
  <2>. QED BY <2>1, <2>2
<1>3. /\ \A t \in Server \ {s} : Holders(t)' = Holders(t)
      /\ out => c \notin Holders(s) /\ Holders(s)' = Holders(s) \cup {c}
      /\ ~out => c \in Holders(s) /\ Holders(s)' = Holders(s) \ {c}
  <2>1. CASE Forward(c)
    <3>1. phase[c] = "decided" /\ phase' = [phase EXCEPT ![c] = "forwarding"] /\ answer' = answer
      BY <2>1 DEF Forward
    <3>. QED BY <1>1, <1>2, <3>1 DEF Holders, PoliciesTypeOK
  <2>2. CASE Complete(c)
    <3>1. phase[c] = "forwarding" /\ phase' = [phase EXCEPT ![c] = "idle"] /\ answer' = [answer EXCEPT ![c] = {}]
      BY <2>2 DEF Complete
    <3>. QED BY <1>1, <1>2, <3>1 DEF Holders, PoliciesTypeOK
  <2>. QED BY <2>1, <2>2
<1>4. IsFiniteSet(Holders(s)) /\ Cardinality(Holders(s)) \in Nat
  BY Finite DEF Holders
<1>5. Cardinality(Holders(s)') = IF out THEN Cardinality(Holders(s)) + 1 ELSE Cardinality(Holders(s)) - 1
  BY <1>3, <1>4, FS_AddElement, FS_RemoveElement
<1>6. RIFInv'
  BY <1>1, <1>2, <1>3, <1>5 DEF RIFInv, PoliciesTypeOK
<1>7. Cardinality(Holders(s)') \in Nat
  BY Finite DEF Holders
<1>8. clientRIF' \in [Server -> Nat]
  BY <1>1, <1>2, <1>4, <1>5, <1>7 DEF RIFInv, PoliciesTypeOK
<1>9. moved' \in [Client -> 0 .. Cardinality(Client)]
  <2>1. LoadsMove(c) /\ moved \in [Client -> 0 .. Cardinality(Client)]
    BY <1>1 DEF Forward, Complete, PoliciesTypeOK
  <2>2. \A d \in Client : moved[d] < Cardinality(Client) => moved[d] + 1 \in 0 .. Cardinality(Client)
    BY <2>1, Finite
  <2>. QED BY <2>1, <2>2, Finite DEF LoadsMove
<1>10. call' \in [Client -> CallType]
  <2>1. NoCall \in CallType
    BY PoliciesAssumption DEF CallType, NoCall
  <2>. QED
    BY <1>1, <2>1, ZenonT(60) DEF Forward, Complete, PoliciesTypeOK, CallType
<1>. QED
  BY <1>1, <1>6, <1>8, <1>9, <1>10 DEF Forward, Complete, PoliciesTypeOK, CallType

(* The outcomes of ListServers. *)
LEMMA Listing ==
    ASSUME PoliciesInv, NEW c \in Client, ListServers(c)
    PROVE  \E list \in Candidates :
             \/ /\ list = <<>> /\ HealthyServers = {}
                /\ phase'[c] = "decided" /\ answer'[c] = {} /\ eligible'[c] = {}
             \/ /\ list # <<>>
                /\ call'[c] = [candidates |-> list,
                               left |-> IF algorithm = "leastloaded" THEN Tail(list) ELSE list,
                               best |-> list[1], load |-> 0, sum |-> 0, pick |-> 0]
                /\ phase'[c] = FirstPhase /\ answer'[c] = answer[c] /\ eligible'[c] = eligible[c]
                /\ moved'[c] = 0
<1>1. PoliciesTypeOK
  BY DEF PoliciesInv
<1>2. PICK list \in Candidates :
          \/ list = <<>> /\ Answers(c, {}) /\ UNCHANGED call
          \/ /\ list # <<>>
             /\ call' = [call EXCEPT ![c] =
                           [NoCall EXCEPT
                              !.candidates = list,
                              !.left = IF algorithm = "leastloaded" THEN Tail(list)
                                                                    ELSE list,
                              !.best = list[1]]]
             /\ phase' = [phase EXCEPT ![c] = FirstPhase]
             /\ UNCHANGED <<answer, eligible>>
  BY DEF ListServers
<1>3. moved'[c] = 0
  BY <1>1 DEF ListServers, PoliciesTypeOK
<1>4. CASE list = <<>>
  BY <1>1, <1>2, <1>4, ListType DEF Answers, PoliciesTypeOK
<1>5. CASE list # <<>>
  <2>1. phase'[c] = FirstPhase /\ answer'[c] = answer[c] /\ eligible'[c] = eligible[c]
    BY <1>1, <1>2, <1>5 DEF PoliciesTypeOK
  <2>2. call'[c] = [NoCall EXCEPT !.candidates = list,
                                  !.left = IF algorithm = "leastloaded" THEN Tail(list) ELSE list,
                                  !.best = list[1]]
    BY <1>1, <1>2, <1>5 DEF PoliciesTypeOK
  <2>3. call'[c] = [candidates |-> list,
                    left |-> IF algorithm = "leastloaded" THEN Tail(list) ELSE list,
                    best |-> list[1], load |-> 0, sum |-> 0, pick |-> 0]
    BY <2>2 DEF NoCall
  <2>. QED BY <1>3, <1>5, <2>1, <2>3
<1>. QED BY <1>4, <1>5

(* A selection answers one server or none. *)
LEMMA AnswerSelect ==
    ASSUME PoliciesInv, NEW c \in Client, SelectStep(c)
    PROVE  AnswerInv(c)'
<1>1. PoliciesTypeOK /\ phase[c] # "forwarding" /\ phase'[c] # "forwarding" /\ phase'[c] # "idle"
  BY SelectFrame DEF PoliciesInv
<1>2. PoliciesTypeOK'
  BY TypeSelect DEF PoliciesInv
<1>3. ASSUME phase'[c] = "decided" PROVE answer'[c] = {} \/ \E s : answer'[c] = {s}
  <2>1. CASE ListServers(c)
    <3>1. FirstPhase # "decided"
      BY <1>1 DEF FirstPhase, PoliciesTypeOK, Algorithms
    <3>. QED BY <1>3, <2>1, <3>1, Listing
  <2>2. ASSUME NEW x, Answers(c, {x}) PROVE answer'[c] = {x}
    BY <1>1, <2>2 DEF Answers, PoliciesTypeOK
  <2>3. CASE TakeTurn(c) \/ Draw(c) \/ KeepBest(c) \/ TakeLast(c)
    BY <2>2, <2>3 DEF TakeTurn, Draw, KeepBest, TakeLast
  <2>4. CASE Scan(c)
    BY <1>1, <1>3, <2>2, <2>4 DEF Scan, PoliciesTypeOK
  <2>5. CASE DrawPair(c) \/ LoadCandidate(c) \/ LoadBest(c) \/ AddWeight(c) \/ Pick(c)
    BY <1>1, <1>3, <2>5 DEF DrawPair, LoadCandidate, LoadBest, AddWeight, Pick, PoliciesTypeOK
  <2>. QED BY <2>1, <2>3, <2>4, <2>5 DEF SelectStep
<1>4. answer'[c] \in SUBSET Server
  BY <1>2 DEF PoliciesTypeOK
<1>. QED BY <1>1, <1>3, <1>4 DEF AnswerInv

(* A selection goes on with servers healthy during the call. *)
LEMMA ChoiceSelect ==
    ASSUME PoliciesInv, NEW c \in Client, SelectStep(c)
    PROVE  ChoiceInv(c)'
<1>1. /\ PoliciesTypeOK /\ ChoiceInv(c) /\ call[c] \in CallType /\ HealthyServers' = HealthyServers
      /\ call[c].candidates \in Seq(Server) /\ call[c].left \in Seq(Server)
  <2>1. PoliciesTypeOK /\ ChoiceInv(c) /\ call[c] \in CallType
    BY DEF PoliciesInv, PoliciesTypeOK, CallType
  <2>. QED BY <2>1, SelectFrame DEF HealthyServers, CallType
<1>2. CASE phase'[c] = "decided"
  BY <1>2 DEF ChoiceInv, Listed, Selecting
<1>3. CASE ListServers(c) /\ phase'[c] # "decided"
  <2>1. PICK list \in Candidates :
                /\ list # <<>>
                /\ call'[c] = [candidates |-> list,
                               left |-> IF algorithm = "leastloaded" THEN Tail(list) ELSE list,
                               best |-> list[1], load |-> 0, sum |-> 0, pick |-> 0]
                /\ phase'[c] = FirstPhase /\ eligible'[c] = eligible[c]
    BY <1>3, Listing
  <2>2. HealthyServers \subseteq eligible[c]
    BY <1>1, <1>3 DEF ChoiceInv, ListServers, Selecting
  <2>3. /\ Elements(list) \subseteq HealthyServers /\ list[1] \in HealthyServers
        /\ Elements(Tail(list)) \subseteq HealthyServers
    BY <1>1, <2>1, ListType
  <2>4. /\ call'[c].candidates = list /\ call'[c].best = list[1]
        /\ call'[c].left \in {list, Tail(list)}
    BY <2>1
  <2>5. FirstPhase # "comparing"
    BY <1>1 DEF FirstPhase, PoliciesTypeOK, Algorithms
  <2>. QED BY <1>1, <2>1, <2>2, <2>3, <2>4, <2>5 DEF ChoiceInv
<1>4. CASE DrawPair(c)
  <2>1. PICK first, second \in {call[c].candidates[i] : i \in DOMAIN call[c].candidates} :
          call' = [call EXCEPT ![c].candidates = IF first = second THEN <<first>>
                                                    ELSE <<first, second>>,
                                  ![c].left = IF first = second THEN <<>> ELSE <<first>>,
                                  ![c].best = second]
    BY <1>4 DEF DrawPair
  <2>2. /\ call'[c].candidates = (IF first = second THEN <<first>> ELSE <<first, second>>)
        /\ call'[c].left = (IF first = second THEN <<>> ELSE <<first>>)
        /\ call'[c].best = second
    BY <1>1, <2>1 DEF PoliciesTypeOK, CallType
  <2>3. /\ phase'[c] = "loading" /\ phase[c] = "pairing" /\ eligible' = eligible
    BY <1>1, <1>4 DEF DrawPair, PoliciesTypeOK, historyVars
  <2>4. /\ {first, second} \subseteq eligible[c] /\ HealthyServers \subseteq eligible[c]
    BY <1>1, <2>3 DEF ChoiceInv, Listed, Selecting, Elements
  <2>5. Elements(call'[c].candidates) \subseteq {first, second} /\ call'[c].candidates # <<>>
    BY <2>2 DEF Elements
  <2>6. Elements(call'[c].left) \subseteq {first, second}
    BY <2>2 DEF Elements
  <2>. QED BY <1>1, <2>2, <2>3, <2>4, <2>5, <2>6 DEF ChoiceInv
<1>5. CASE LoadCandidate(c) \/ LoadBest(c) \/ AddWeight(c) \/ Pick(c) \/ (Scan(c) /\ phase'[c] # "decided")
  <2>1. /\ Listed(c) /\ eligible'[c] = eligible[c]
    BY <1>1, <1>5 DEF LoadCandidate, LoadBest, AddWeight, Pick, Scan, Listed, Selecting, historyVars, Answers, PoliciesTypeOK
  <2>2. /\ HealthyServers \subseteq eligible[c] /\ call[c].candidates # <<>>
        /\ Elements(call[c].candidates) \subseteq eligible[c]
        /\ Elements(call[c].left) \subseteq eligible[c]
        /\ call[c].best \in eligible[c]
    BY <1>1, <2>1 DEF ChoiceInv, Listed
  <2>3. /\ call'[c].candidates = call[c].candidates
        /\ call'[c].best = call[c].best \/ (call'[c].best = call[c].left[1] /\ call[c].left # <<>>)
        /\ \/ call'[c].left = call[c].left
           \/ call'[c].left = Tail(call[c].left) /\ call[c].left # <<>>
           \/ call'[c].left = call[c].candidates
    <3>0. \A r : call' = [call EXCEPT ![c] = r] => call'[c] = r
      BY <1>1 DEF PoliciesTypeOK
    <3>1. CASE LoadCandidate(c)
      BY <1>1, <3>0, <3>1 DEF LoadCandidate, CallType
    <3>2. CASE LoadBest(c)
      <4>1. call[c].left # <<>>
        BY <1>1, <3>2 DEF LoadBest, ChoiceInv
      <4>2. PICK b \in {call[c].left[1], call[c].best} :
              call'[c] = [call[c] EXCEPT !.best = b, !.left = Tail(call[c].left), !.load = 0]
        BY <1>1, <3>2 DEF LoadBest, PoliciesTypeOK
      <4>. QED BY <1>1, <4>1, <4>2 DEF CallType
    <3>3. CASE AddWeight(c)
      <4>1. PICK n : call'[c] = [call[c] EXCEPT !.sum = n, !.left = Tail(call[c].left)]
        BY <1>1, <3>3 DEF AddWeight, PoliciesTypeOK
      <4>2. call[c].left # <<>>
        BY <3>3 DEF AddWeight
      <4>. QED BY <1>1, <4>1, <4>2 DEF CallType
    <3>4. CASE Pick(c)
      <4>1. PICK n : call'[c] = [call[c] EXCEPT !.pick = n, !.sum = 0, !.left = call[c].candidates]
        BY <1>1, <3>4 DEF Pick, PoliciesTypeOK
      <4>. QED BY <1>1, <4>1 DEF CallType
    <3>5. CASE Scan(c) /\ phase'[c] # "decided"
      BY <1>1, <3>0, <3>5 DEF Scan, Answers, CallType, PoliciesTypeOK
    <3>. QED BY <1>5, <3>1, <3>2, <3>3, <3>4, <3>5
  <2>4. call[c].left # <<>> => call[c].left[1] \in eligible[c] /\ Elements(Tail(call[c].left)) \subseteq eligible[c]
    BY <1>1, <2>2, FirstOf
  <2>5. phase'[c] = "comparing" => call'[c].left # <<>>
    <3>1. CASE LoadCandidate(c)
      BY <1>1, <3>1 DEF LoadCandidate, PoliciesTypeOK, CallType
    <3>2. CASE ~LoadCandidate(c)
      BY <1>1, <1>5, <3>2 DEF LoadBest, AddWeight, Pick, Scan, PoliciesTypeOK, Answers
    <3>. QED BY <3>1, <3>2
  <2>. QED BY <1>1, <2>1, <2>2, <2>3, <2>4, <2>5 DEF ChoiceInv
<1>6. CASE TakeTurn(c) \/ Draw(c) \/ KeepBest(c) \/ TakeLast(c)
  <2>1. phase'[c] = "decided"
    BY <1>1, <1>6 DEF TakeTurn, Draw, KeepBest, TakeLast, Answers, PoliciesTypeOK
  <2>. QED BY <1>2, <2>1
<1>. QED BY <1>2, <1>3, <1>4, <1>5, <1>6 DEF SelectStep

(* The steps of a selection, by what they do to its local variables. *)
LEMMA LoadCandidateCall ==
    ASSUME PoliciesTypeOK, NEW c \in Client, LoadCandidate(c)
    PROVE  /\ phase[c] = "loading" /\ phase'[c] = "comparing" /\ call[c].left # <<>>
           /\ call'[c].candidates = call[c].candidates /\ call'[c].left = call[c].left
           /\ call'[c].best = call[c].best /\ call'[c].load = clientRIF[call[c].left[1]]
           /\ UNCHANGED <<clientRIF, moved, lighter, answer>>
<1>1. call[c] \in CallType /\ call'[c] = [call[c] EXCEPT !.load = clientRIF[call[c].left[1]]]
  BY DEF PoliciesTypeOK, LoadCandidate, CallType
<1>2. phase[c] = "loading" /\ phase'[c] = "comparing" /\ call[c].left # <<>>
  BY DEF PoliciesTypeOK, LoadCandidate
<1>. QED BY <1>1, <1>2 DEF CallType, LoadCandidate, sharedVars, historyVars

(* Likewise for LoadBest. *)
LEMMA LoadBestCall ==
    ASSUME PoliciesTypeOK, NEW c \in Client, LoadBest(c)
    PROVE  /\ phase[c] = "comparing" /\ phase'[c] = "loading"
           /\ call'[c].candidates = call[c].candidates /\ call'[c].left = Tail(call[c].left)
           /\ call'[c].best = (IF Wins(call[c].load, clientRIF[call[c].best])
                               THEN call[c].left[1] ELSE call[c].best)
           /\ UNCHANGED <<clientRIF, moved, lighter, answer>>
<1>1. call[c] \in CallType
      /\ call'[c] = [call[c] EXCEPT !.best = IF Wins(call[c].load, clientRIF[call[c].best])
                                             THEN call[c].left[1] ELSE call[c].best,
                                    !.left = Tail(call[c].left), !.load = 0]
  BY DEF PoliciesTypeOK, LoadBest, CallType
<1>2. phase[c] = "comparing" /\ phase'[c] = "loading"
  BY DEF PoliciesTypeOK, LoadBest
<1>3. UNCHANGED <<clientRIF, moved, lighter, answer>>
  BY DEF LoadBest, sharedVars, historyVars
<1>. QED BY <1>1, <1>2, <1>3 DEF CallType

(* Likewise for AddWeight. *)
LEMMA AddWeightCall ==
    ASSUME PoliciesTypeOK, NEW c \in Client, AddWeight(c)
    PROVE  /\ phase[c] = "summing" /\ phase'[c] = "summing" /\ call[c].left # <<>>
           /\ call'[c].candidates = call[c].candidates /\ call'[c].left = Tail(call[c].left)
           /\ call'[c].sum = call[c].sum + weight[call[c].left[1]]
           /\ UNCHANGED <<weight, lighter>>
<1>1. call[c] \in CallType
      /\ call'[c] = [call[c] EXCEPT !.sum = call[c].sum + weight[call[c].left[1]],
                                    !.left = Tail(call[c].left)]
  BY DEF PoliciesTypeOK, AddWeight, CallType
<1>2. /\ phase[c] = "summing" /\ phase'[c] = "summing" /\ call[c].left # <<>>
      /\ UNCHANGED <<weight, lighter>>
  BY DEF AddWeight, sharedVars, historyVars
<1>. QED BY <1>1, <1>2 DEF CallType

(* Likewise for Pick. *)
LEMMA PickCall ==
    ASSUME PoliciesTypeOK, NEW c \in Client, Pick(c)
    PROVE  /\ phase[c] = "summing" /\ phase'[c] = "scanning" /\ call[c].left = <<>>
           /\ call'[c].candidates = call[c].candidates /\ call'[c].left = call[c].candidates
           /\ call'[c].sum = 0 /\ call'[c].pick \in 0 .. call[c].sum - 1
           /\ UNCHANGED <<weight, lighter>>
<1>1. PICK pick \in Picks(call[c].sum) :
         call' = [call EXCEPT ![c].pick = pick, ![c].sum = 0, ![c].left = call[c].candidates]
  BY DEF Pick
<1>2. call[c] \in CallType
      /\ call'[c] = [call[c] EXCEPT !.pick = pick, !.sum = 0, !.left = call[c].candidates]
  BY <1>1 DEF PoliciesTypeOK, CallType
<1>3. phase[c] = "summing" /\ phase'[c] = "scanning" /\ call[c].left = <<>>
  BY DEF Pick, PoliciesTypeOK
<1>. QED BY <1>2, <1>3 DEF CallType, Pick, sharedVars, historyVars, Picks

(* Likewise for Scan, when it goes on. *)
LEMMA ScanCall ==
    ASSUME PoliciesTypeOK, NEW c \in Client, Scan(c), phase'[c] # "decided"
    PROVE  /\ phase[c] = "scanning" /\ phase'[c] = "scanning" /\ call[c].left # <<>>
           /\ call'[c].candidates = call[c].candidates /\ call'[c].left = Tail(call[c].left)
           /\ call'[c].sum = call[c].sum + weight[call[c].left[1]]
           /\ call'[c].pick = call[c].pick /\ call'[c].sum <= call'[c].pick
           /\ UNCHANGED <<weight, lighter>>
<1>1. /\ call[c].pick >= call[c].sum + weight[call[c].left[1]] /\ phase' = phase
      /\ call' = [call EXCEPT ![c].sum = call[c].sum + weight[call[c].left[1]], ![c].left = Tail(@)]
  BY DEF Scan, Answers, PoliciesTypeOK
<1>2. call[c] \in CallType
      /\ call'[c] = [call[c] EXCEPT !.sum = call[c].sum + weight[call[c].left[1]],
                                    !.left = Tail(call[c].left)]
  BY <1>1 DEF PoliciesTypeOK, CallType
<1>3. phase[c] = "scanning" /\ call[c].left # <<>>
  BY DEF Scan
<1>4. /\ call'[c].candidates = call[c].candidates /\ call'[c].left = Tail(call[c].left)
           /\ call'[c].sum = call[c].sum + weight[call[c].left[1]]
           /\ call'[c].pick = call[c].pick
  BY <1>2 DEF CallType
<1>. QED BY <1>1, <1>3, <1>4 DEF Scan, sharedVars

(* A pass over the candidates goes on to the next of them. *)
LEMMA Onward ==
    ASSUME PoliciesTypeOK, NEW c \in Client, ScanInv(c),
           phase[c] \in {"summing", "scanning"}, call[c].left # <<>>,
           call'[c].candidates = call[c].candidates, call'[c].left = Tail(call[c].left)
    PROVE  /\ Passed(c) \in 0 .. Len(call[c].candidates)
           /\ Passed(c) + 1 \in 0 .. Len(call[c].candidates)
           /\ Passed(c) + 1 \in 1 .. Len(call[c].candidates)
           /\ Passed(c)' = Passed(c) + 1
           /\ call[c].left[1] = call[c].candidates[Passed(c) + 1]
           /\ \A i \in DOMAIN call'[c].left :
                 call'[c].left[i] = call'[c].candidates[Passed(c) + 1 + i]
<1>. DEFINE l == call[c].left
            k == call[c].candidates
<1>1. l \in Seq(Server) /\ k \in Seq(Server)
  <2>1. call[c] \in CallType
    BY DEF PoliciesTypeOK, CallType
  <2>. QED BY <2>1 DEF CallType
<1>2. Len(l) \in Nat \ {0} /\ Len(k) \in Nat /\ DOMAIN l = 1 .. Len(l)
  BY <1>1
<1>3. Passed(c) = Len(k) - Len(l)
  BY DEF Passed
<1>4. Passed(c) \in 0 .. Len(k) /\ \A i \in DOMAIN l : l[i] = k[Passed(c) + i]
  BY DEF ScanInv
<1>5. Len(Tail(l)) = Len(l) - 1 /\ DOMAIN Tail(l) = 1 .. Len(l) - 1
      /\ \A i \in 1 .. Len(l) - 1 : Tail(l)[i] = l[i + 1]
  BY <1>1, <1>2
<1>6. Passed(c)' = Len(k) - (Len(l) - 1)
  BY <1>5 DEF Passed
<1>7. \A i \in DOMAIN Tail(l) : i + 1 \in DOMAIN l /\ Passed(c) + (i + 1) = Passed(c) + 1 + i
  BY <1>2, <1>4, <1>5
<1>8. \A i \in DOMAIN Tail(l) : Tail(l)[i] = k[Passed(c) + 1 + i]
  BY <1>4, <1>5, <1>7
<1>9. l[1] = k[Passed(c) + 1]
  BY <1>2, <1>4
<1>10. /\ Passed(c)' = Passed(c) + 1 /\ Passed(c) + 1 \in 0 .. Len(k) /\ Passed(c) + 1 \in 1 .. Len(k)
  <2>1. Passed(c)' = Passed(c) + 1
    BY <1>2, <1>3, <1>6
  <2>2. PICK p, q, r \in Int : p = Passed(c) /\ q = Len(k) /\ r = Len(l)
    BY <1>2, <1>4
  <2>3. p = q - r /\ r \in Nat \ {0} /\ p \in 0 .. q /\ q \in Nat
    <3>1. Len(l) \in Nat \ {0} /\ Len(k) \in Nat
      BY <1>2
    <3>2. Passed(c) \in 0 .. Len(k)
      BY <1>4
    <3>. QED BY <1>3, <2>2, <3>1, <3>2
  <2>4. p + 1 \in 0 .. q /\ p + 1 \in 1 .. q
    BY <2>3
  <2>. QED BY <2>1, <2>2, <2>4
<1>. QED BY <1>4, <1>8, <1>9, <1>10

(* The passes of weighted round robin keep ScanInv. *)
LEMMA ScanSelect ==
    ASSUME PoliciesInv, NEW c \in Client, SelectStep(c)
    PROVE  ScanInv(c)'
<1>1. PoliciesTypeOK /\ ScanInv(c) /\ ChoiceInv(c)
  BY DEF PoliciesInv
<1>2. /\ call[c].candidates \in Seq(Server) /\ call[c].left \in Seq(Server) 
      /\ Len(call[c].candidates) \in Nat /\ Len(call[c].left) \in Nat
      /\ call[c].sum \in Nat /\ call[c].pick \in Nat
      /\ \A s \in Server : weight[s] \in Nat
  <2>1. call[c] \in CallType
    BY <1>1 DEF PoliciesTypeOK, CallType
  <2>2. \A s \in Server : weight[s] \in Nat
    BY <1>1, PoliciesAssumption DEF PoliciesTypeOK
  <2>. QED BY <2>1, <2>2 DEF CallType
<1>p. PICK n \in Nat, m \in {Passed(c)} : n = Len(call[c].candidates) /\ m = Passed(c)
  BY <1>2
<1>3. CASE ListServers(c)
  <2>1. ASSUME phase'[c] \in {"summing", "scanning"}
        PROVE  \E list \in Candidates : call'[c].candidates = list /\ call'[c].left = list /\ call'[c].sum = 0
               /\ phase'[c] = "summing"
    <3>1. PICK list \in Candidates :
                /\ call'[c] = [candidates |-> list,
                               left |-> IF algorithm = "leastloaded" THEN Tail(list) ELSE list,
                               best |-> list[1], load |-> 0, sum |-> 0, pick |-> 0]
                /\ phase'[c] = FirstPhase
      BY <1>3, <2>1, Listing
    <3>2. algorithm # "leastloaded" /\ FirstPhase = "summing"
      BY <1>1, <2>1, <3>1 DEF FirstPhase, PoliciesTypeOK, Algorithms
    <3>. QED BY <3>1, <3>2
  <2>2. CASE phase'[c] \notin {"summing", "scanning"}
    BY <2>2 DEF ScanInv
  <2>3. CASE phase'[c] \in {"summing", "scanning"}
    <3>1. PICK list \in Candidates : call'[c].candidates = list /\ call'[c].left = list /\ call'[c].sum = 0
               /\ phase'[c] = "summing"
      BY <2>1, <2>3
    <3>2. list \in Seq(Server) /\ Len(list) \in Nat
      BY <1>1, <3>1, ListType
    <3>3. Passed(c)' = 0
      BY <3>1, <3>2 DEF Passed
    <3>4. [i \in 0 .. Len(list) |-> 0] \in PartialSums(c)'
      BY <3>1 DEF PartialSums
    <3>. QED BY <3>1, <3>2, <3>3, <3>4 DEF ScanInv
  <2>. QED BY <1>p, <2>2, <2>3
<1>4. CASE AddWeight(c)
  <2>1. /\ phase[c] = "summing" /\ phase'[c] = "summing" /\ call[c].left # <<>>
           /\ call'[c].candidates = call[c].candidates /\ call'[c].left = Tail(call[c].left)
           /\ call'[c].sum = call[c].sum + weight[call[c].left[1]]
           /\ UNCHANGED <<weight, lighter>>
    BY <1>1, <1>4, AddWeightCall
  <2>2. m \in 0 .. n
    BY <1>p, <1>1, <2>1, Onward
  <2>3. /\ Passed(c)' = m + 1 /\ m + 1 \in 0 .. n /\ m + 1 \in 1 .. n
        /\ call[c].left[1] = call[c].candidates[m + 1]
    BY <1>p, <1>1, <2>1, Onward
  <2>4. \A i \in DOMAIN call'[c].left : call'[c].left[i] = call'[c].candidates[m + 1 + i]
    BY <1>p, <1>1, <2>1, Onward
  <2>5. ASSUME ~lighter'[c]
        PROVE  \E sums \in PartialSums(c)' :
                  /\ sums[0] = 0 /\ sums[m + 1] = call'[c].sum
                  /\ \A i \in 1 .. m + 1 : Covered(c, sums, i)'
    <3>1. PICK sums \in PartialSums(c) : /\ sums[0] = 0 /\ sums[m] = call[c].sum
                                         /\ \A i \in 1 .. m : Covered(c, sums, i)
      BY <1>p, <1>1, <2>1, <2>5 DEF ScanInv
    <3>0. PICK longer : longer = [sums EXCEPT ![m + 1] = call'[c].sum]
      OBVIOUS
    <3>2. call'[c].sum \in Nat /\ longer \in PartialSums(c)'
      <4>1. weight[call[c].left[1]] \in Nat
        BY <1>2, <2>1
      <4>2. call'[c].sum \in Nat
        BY <4>1, <1>2, <2>1
      <4>. QED BY <1>p, <2>3, <4>2, <2>1, <3>0, <3>1 DEF PartialSums
    <3>3. longer[0] = 0 /\ longer[m + 1] = call'[c].sum /\ longer[m] = sums[m]
      BY <1>p, <2>2, <2>3, <3>0, <3>1 DEF PartialSums
    <3>4. \A i \in 1 .. m : longer[i] = sums[i] /\ longer[i - 1] = sums[i - 1]
      BY <1>p, <2>2, <2>3, <3>0, <3>1 DEF PartialSums
    <3>5. \A i \in 1 .. m : Covered(c, longer, i)'
      BY <3>1, <3>4, <2>1 DEF Covered
    <3>6. Covered(c, longer, m + 1)'
      <4>0. call[c].left[1] \in Server
        BY <1>2, <2>1, FirstOf
      <4>1. weight[call[c].candidates[m + 1]] \in Nat
        BY <1>2, <2>3, <4>0
      <4>2. /\ longer[m + 1] = longer[m] + weight[call[c].candidates[m + 1]]
            /\ (m + 1) - 1 = m /\ longer[m] \in Nat
        BY <1>p, <1>2, <2>1, <2>2, <2>3, <3>1, <3>3
      <4>3. call'[c].candidates = call[c].candidates /\ weight' = weight
        BY <2>1
      <4>4. longer[m + 1] <= longer[(m + 1) - 1] + weight[call[c].candidates[m + 1]]
        BY <4>1, <4>2
      <4>5. longer[m + 1] <= longer[(m + 1) - 1] + weight'[call'[c].candidates[m + 1]]
        BY <4>3, <4>4
      <4>. QED BY <4>5 DEF Covered
    <3>. QED BY <2>2, <3>2, <3>3, <3>5, <3>6
  <2>. QED BY <1>p, <2>1, <2>3, <2>4, <2>5 DEF ScanInv
<1>5. CASE Pick(c)
  <2>1. /\ phase[c] = "summing" /\ phase'[c] = "scanning" /\ call[c].left = <<>>
           /\ call'[c].candidates = call[c].candidates /\ call'[c].left = call[c].candidates
           /\ call'[c].sum = 0 /\ call'[c].pick \in 0 .. call[c].sum - 1
           /\ UNCHANGED <<weight, lighter>>
    BY <1>1, <1>5, PickCall
  <2>2. m = n /\ Passed(c)' = 0
    BY <1>p, <1>2, <2>1 DEF Passed
  <2>3. ASSUME ~lighter'[c]
        PROVE  \E sums \in PartialSums(c)' :
                  /\ call'[c].pick < sums[Len(call'[c].candidates)] /\ sums[0] <= call'[c].sum
                  /\ \A i \in 0 + 1 .. Len(call'[c].candidates) : Covered(c, sums, i)'
    <3>1. PICK sums \in PartialSums(c) : /\ sums[0] = 0 /\ sums[n] = call[c].sum
                                         /\ \A i \in 1 .. n : Covered(c, sums, i)
      BY <1>p, <1>1, <2>1, <2>2, <2>3 DEF ScanInv
    <3>2. \A i \in 1 .. n : Covered(c, sums, i)'
      BY <3>1, <2>1 DEF Covered
    <3>3. sums \in PartialSums(c)'
      BY <2>1, <3>1 DEF PartialSums
    <3>4. call'[c].pick < sums[n]
      BY <1>2, <2>1, <3>1
    <3>. QED BY <1>p, <2>1, <3>1, <3>2, <3>3, <3>4
  <2>. QED BY <1>p, <1>2, <2>1, <2>2, <2>3 DEF ScanInv
<1>6. CASE Scan(c) /\ phase'[c] # "decided"
  <2>1. /\ phase[c] = "scanning" /\ phase'[c] = "scanning" /\ call[c].left # <<>>
           /\ call'[c].candidates = call[c].candidates /\ call'[c].left = Tail(call[c].left)
           /\ call'[c].sum = call[c].sum + weight[call[c].left[1]]
           /\ call'[c].pick = call[c].pick /\ call'[c].sum <= call'[c].pick
           /\ UNCHANGED <<weight, lighter>>
    BY <1>1, <1>6, ScanCall
  <2>2. m \in 0 .. n
    BY <1>p, <1>1, <2>1, Onward
  <2>3. /\ Passed(c)' = m + 1 /\ m + 1 \in 0 .. n /\ m + 1 \in 1 .. n
        /\ call[c].left[1] = call[c].candidates[m + 1]
    BY <1>p, <1>1, <2>1, Onward
  <2>4. \A i \in DOMAIN call'[c].left : call'[c].left[i] = call'[c].candidates[m + 1 + i]
    BY <1>p, <1>1, <2>1, Onward
  <2>5. ASSUME ~lighter'[c]
        PROVE  \E sums \in PartialSums(c)' :
                  /\ call'[c].pick < sums[Len(call'[c].candidates)] /\ sums[m + 1] <= call'[c].sum
                  /\ \A i \in m + 1 + 1 .. Len(call'[c].candidates) : Covered(c, sums, i)'
    <3>1. PICK sums \in PartialSums(c) : /\ call[c].pick < sums[n] /\ sums[m] <= call[c].sum
                                         /\ \A i \in m + 1 .. n : Covered(c, sums, i)
      BY <1>p, <1>1, <2>1, <2>5 DEF ScanInv
    <3>2. \A i \in m + 1 + 1 .. n : Covered(c, sums, i)'
      BY <3>1, <2>1, <2>2 DEF Covered
    <3>3. sums[m + 1] <= sums[m] + weight[call[c].left[1]]
      <4>1. (m + 1) - 1 = m /\ m + 1 \in m + 1 .. n
        BY <1>p, <2>2, <2>3
      <4>2. Covered(c, sums, m + 1)
        BY <3>1, <2>3, <4>1
      <4>3. sums[m + 1] <= sums[(m + 1) - 1] + weight[call[c].candidates[m + 1]]
        BY <4>2 DEF Covered
      <4>4. sums[(m + 1) - 1] = sums[m]
        BY <4>1
      <4>5. call[c].candidates[m + 1] = call[c].left[1]
        BY <2>3
      <4>. QED BY <4>3, <4>4, <4>5
    <3>4. sums[m + 1] \in Nat /\ sums[m] \in Nat /\ weight[call[c].left[1]] \in Nat
      BY <1>p, <1>2, <2>1, <2>2, <2>3, <3>1 DEF PartialSums
    <3>5. sums[m + 1] <= call'[c].sum
      BY <1>2, <2>1, <3>1, <3>3, <3>4
    <3>6. sums \in PartialSums(c)'
      BY <2>1, <3>1 DEF PartialSums
    <3>. QED BY <1>p, <2>1, <3>1, <3>2, <3>5, <3>6
  <2>. QED BY <1>p, <2>1, <2>3, <2>4, <2>5 DEF ScanInv
<1>7. CASE phase'[c] \notin {"summing", "scanning"}
  BY <1>7 DEF ScanInv
<1>8. CASE TakeTurn(c) \/ Draw(c) \/ DrawPair(c) \/ LoadCandidate(c) \/ LoadBest(c) \/ KeepBest(c) \/ TakeLast(c)
  <2>1. phase'[c] \notin {"summing", "scanning"}
    BY <1>1, <1>8 DEF TakeTurn, Draw, DrawPair, LoadCandidate, LoadBest, KeepBest, TakeLast, Answers, PoliciesTypeOK
  <2>. QED BY <1>7, <2>1
<1>. QED BY <1>3, <1>4, <1>5, <1>6, <1>7, <1>8 DEF SelectStep

(* Nobody is with two servers. *)
LoadsBounded ==
    \A x, y \in Server :
        /\ clientRIF[x] \in Nat /\ clientRIF[x] <= Cardinality(Client)
        /\ x # y => clientRIF[x] + clientRIF[y] <= Cardinality(Client)

LEMMA Loads == PoliciesTypeOK /\ RIFInv => LoadsBounded
<1>. SUFFICES ASSUME PoliciesTypeOK, RIFInv PROVE LoadsBounded
  OBVIOUS
<1>1. ASSUME NEW x \in Server
      PROVE  clientRIF[x] \in Nat /\ clientRIF[x] <= Cardinality(Client)
  BY <1>1, Finite DEF PoliciesTypeOK, RIFInv, Holders
<1>2. ASSUME NEW x \in Server, NEW y \in Server, x # y
      PROVE  clientRIF[x] + clientRIF[y] <= Cardinality(Client)
  <2>1. /\ Holders(x) \cap Holders(y) = {}
        /\ Holders(x) \in SUBSET Client /\ Holders(y) \in SUBSET Client
        /\ Holders(x) \cup Holders(y) \in SUBSET Client
    BY <1>2 DEF Holders
  <2>2. /\ IsFiniteSet(Holders(x)) /\ Cardinality(Holders(x)) \in Nat
        /\ IsFiniteSet(Holders(y)) /\ Cardinality(Holders(y)) \in Nat
        /\ Cardinality(Holders(x) \cup Holders(y)) <= Cardinality(Client)
    BY <2>1, Finite
  <2>3. Cardinality(Holders(x) \cup Holders(y)) = Cardinality(Holders(x)) + Cardinality(Holders(y))
    <3>1. Cardinality(Holders(x) \cap Holders(y)) = 0
      BY <2>1, FS_EmptySet
    <3>2. Cardinality(Holders(x) \cup Holders(y)) =
            Cardinality(Holders(x)) + Cardinality(Holders(y)) - Cardinality(Holders(x) \cap Holders(y))
      BY <2>2, FS_Union
    <3>. QED BY <2>2, <3>1, <3>2
  <2>. QED BY <2>2, <2>3 DEF RIFInv
<1>. QED BY <1>1, <1>2 DEF LoadsBounded

(* The state of the comparison, in the terms of the algebra below. *)
LEMMA Comparing ==
    ASSUME PoliciesInv, NEW c \in Client, phase[c] \in {"loading", "comparing"}
    PROVE  /\ call[c] \in CallType
           /\ call[c].left \in Seq(Server) /\ call[c].candidates \in Seq(Server)
           /\ call[c].best \in Server /\ Compared(c) \subseteq Server
           /\ call[c].load \in Nat /\ moved[c] \in Nat
           /\ \A s \in Server : clientRIF[s] \in Nat
           /\ call[c].left # <<>> => /\ call[c].left[1] \in Server
                                     /\ call[c].left[1] \in Elements(call[c].left)
                                     /\ call[c].left[1] # call[c].best
<1>1. /\ call[c] \in CallType /\ moved[c] \in Nat /\ \A s \in Server : clientRIF[s] \in Nat
  BY Finite DEF PoliciesInv, PoliciesTypeOK, CallType
<1>2. call[c].left \in Seq(Server) /\ call[c].candidates \in Seq(Server) /\ call[c].load \in Nat
  BY <1>1 DEF CallType
<1>3. call[c].best \in Compared(c) /\ Compared(c) \subseteq Server
  BY <1>2 DEF PoliciesInv, HerdInv, Compared, Elements
<1>4. call[c].left # <<>> => call[c].left[1] \in Server /\ call[c].left[1] \in Elements(call[c].left)
  BY <1>2, FirstOf
<1>. QED BY <1>1, <1>2, <1>3, <1>4 DEF Compared

(* A list without repetition, split into its head and its tail. *)
LEMMA HeadApart ==
    ASSUME NEW l \in Seq(Server), l # <<>>,
           \A i, j \in DOMAIN l : i # j => l[i] # l[j]
    PROVE  /\ l[1] \in Elements(l) /\ l[1] \notin Elements(Tail(l))
           /\ Elements(l) = {l[1]} \cup Elements(Tail(l))
           /\ \A i, j \in DOMAIN Tail(l) : i # j => Tail(l)[i] # Tail(l)[j]
<1>1. /\ Len(l) \in Nat \ {0} /\ DOMAIN l = 1 .. Len(l)
      /\ DOMAIN Tail(l) = 1 .. Len(l) - 1
      /\ \A i \in 1 .. Len(l) - 1 : Tail(l)[i] = l[i + 1]
  OBVIOUS
<1>2. /\ 1 \in DOMAIN l
      /\ \A i \in DOMAIN Tail(l) : i + 1 \in DOMAIN l /\ i + 1 # 1
      /\ \A i, j \in DOMAIN Tail(l) : i # j => i + 1 # j + 1
  BY <1>1
<1>3. \A i \in DOMAIN Tail(l) : Tail(l)[i] # l[1] /\ Tail(l)[i] \in Elements(l)
  BY <1>1, <1>2 DEF Elements
<1>4. ASSUME NEW i \in DOMAIN l, i # 1 PROVE l[i] \in Elements(Tail(l))
  <2>1. i - 1 \in 1 .. Len(l) - 1 /\ (i - 1) + 1 = i
    BY <1>1, <1>4
  <2>2. Tail(l)[i - 1] = l[i] /\ i - 1 \in DOMAIN Tail(l)
    BY <1>1, <2>1
  <2>. QED BY <2>2 DEF Elements
<1>5. l[1] \in Elements(l) /\ l[1] \notin Elements(Tail(l)) /\ Elements(Tail(l)) \subseteq Elements(l)
  BY <1>2, <1>3 DEF Elements
<1>6. \A e \in Elements(l) : e = l[1] \/ e \in Elements(Tail(l))
  BY <1>4 DEF Elements
<1>7. \A i, j \in DOMAIN Tail(l) : i # j => Tail(l)[i] # Tail(l)[j]
  BY <1>1, <1>2
<1>. QED BY <1>5, <1>6, <1>7

(* HerdInv, step by step: nothing is compared with the first candidate yet.    *)
LEMMA HerdList ==
    ASSUME PoliciesInv, NEW c \in Client, ListServers(c)
    PROVE  HerdInv(c)'
<1>1. PoliciesTypeOK
  BY DEF PoliciesInv
<1>2. CASE phase'[c] = "decided"
  <2>1. answer'[c] = {}
    <3>1. FirstPhase # "decided"
      BY <1>1 DEF FirstPhase, PoliciesTypeOK, Algorithms
    <3>. QED BY <1>2, <3>1, Listing
  <2>. QED BY <1>2, <2>1 DEF HerdInv
<1>3. CASE phase'[c] = "loading"
  <2>1. FirstPhase = "loading" => algorithm = "leastloaded"
    BY <1>1 DEF FirstPhase, PoliciesTypeOK, Algorithms
  <2>2. PICK list \in Candidates :
           /\ list # <<>>
           /\ call'[c] = [candidates |-> list, left |-> Tail(list),
                          best |-> list[1], load |-> 0, sum |-> 0, pick |-> 0]
           /\ moved'[c] = 0
    BY <1>3, <2>1, Listing
  <2>3. list \in Seq(Server) /\ \A i, j \in DOMAIN list : i # j => list[i] # list[j]
    BY <1>1, ListType
  <2>6. /\ list[1] \in Elements(list) /\ list[1] \notin Elements(Tail(list))
        /\ Elements(list) = {list[1]} \cup Elements(Tail(list))
        /\ \A i, k \in DOMAIN Tail(list) : i # k => Tail(list)[i] # Tail(list)[k]
    BY <2>2, <2>3, HeadApart
  <2>9. clientRIF'[list[1]] <= clientRIF'[list[1]] + 0
    <3>1. clientRIF' = clientRIF /\ list[1] \in Server
      BY <2>2, <2>3 DEF ListServers, sharedVars
    <3>. QED BY <1>1, <3>1 DEF PoliciesTypeOK
  <2>10. /\ call'[c].candidates = list /\ call'[c].left = Tail(list) /\ call'[c].best = list[1]
    BY <2>2
  <2>11. Compared(c)' = {list[1]}
    BY <2>6, <2>10 DEF Compared
  <2>. QED BY <1>3, <2>2, <2>6, <2>9, <2>10, <2>11 DEF HerdInv
<1>4. CASE phase'[c] \notin {"decided", "loading"}
  <2>1. phase'[c] # "comparing"
    BY <1>1, <1>4, Listing DEF FirstPhase, PoliciesTypeOK, Algorithms
  <2>. QED BY <1>4, <2>1 DEF HerdInv
<1>. QED BY <1>2, <1>3, <1>4

(* The second of a pair is the best so far, the first is still to come. *)
LEMMA HerdPair ==
    ASSUME PoliciesInv, NEW c \in Client, DrawPair(c)
    PROVE  HerdInv(c)'
<1>1. PoliciesTypeOK /\ call[c] \in CallType /\ ChoiceInv(c) /\ moved[c] \in Nat
  <2>1. PoliciesTypeOK /\ ChoiceInv(c)
    BY DEF PoliciesInv
  <2>2. call[c] \in CallType /\ moved[c] \in 0 .. Cardinality(Client)
    BY <2>1 DEF PoliciesTypeOK, CallType
  <2>. QED BY <2>1, <2>2, Finite
<1>2. PICK first, second \in {call[c].candidates[i] : i \in DOMAIN call[c].candidates} :
          call' = [call EXCEPT ![c].candidates = IF first = second THEN <<first>>
                                                    ELSE <<first, second>>,
                                  ![c].left = IF first = second THEN <<>> ELSE <<first>>,
                                  ![c].best = second]
  BY DEF DrawPair
<1>3. /\ call'[c].candidates = (IF first = second THEN <<first>> ELSE <<first, second>>)
      /\ call'[c].left = (IF first = second THEN <<>> ELSE <<first>>)
      /\ call'[c].best = second
  BY <1>1, <1>2 DEF PoliciesTypeOK, CallType
<1>4. first \in Server /\ second \in Server
  BY <1>1 DEF CallType
<1>5. phase'[c] = "loading" /\ clientRIF' = clientRIF /\ moved' = moved
  BY <1>1 DEF DrawPair, PoliciesTypeOK, historyVars, sharedVars
<1>6. /\ Elements(call'[c].candidates) = {first, second}
      /\ Elements(call'[c].left) = {first} \ {second}
      /\ \A i, j \in DOMAIN call'[c].left : i # j => call'[c].left[i] # call'[c].left[j]
  <2>1. CASE first = second
    BY <1>3, <2>1 DEF Elements
  <2>2. CASE first # second
    <3>1. Elements(<<first, second>>) = {first, second} /\ Elements(<<first>>) = {first}
      BY DEF Elements
    <3>2. \A i, j \in DOMAIN <<first>> : i = j
      OBVIOUS
    <3>. QED BY <1>3, <2>2, <3>1, <3>2
  <2>. QED BY <2>1, <2>2
<1>7. Compared(c)' = {second}
  BY <1>6 DEF Compared
<1>8. clientRIF[second] <= clientRIF[second] + moved[c]
  BY <1>1, <1>4 DEF PoliciesTypeOK
<1>. QED BY <1>3, <1>5, <1>6, <1>7, <1>8 DEF HerdInv

(* The load of a candidate is loaded: it is exact at that moment. *)
LEMMA HerdLoad ==
    ASSUME PoliciesInv, NEW c \in Client, LoadCandidate(c)
    PROVE  HerdInv(c)'
<1>1. PoliciesTypeOK /\ RIFInv /\ HerdInv(c)
  BY DEF PoliciesInv
<1>2. /\ phase[c] = "loading" /\ phase'[c] = "comparing" /\ call[c].left # <<>>
      /\ call'[c].candidates = call[c].candidates /\ call'[c].left = call[c].left
      /\ call'[c].best = call[c].best /\ call'[c].load = clientRIF[call[c].left[1]]
      /\ UNCHANGED <<clientRIF, moved, lighter, answer>>
  BY <1>1, LoadCandidateCall
<1>3. PICK x \in Server, b \in Server, load \in Nat, slack \in Nat :
         x = call[c].left[1] /\ b = call[c].best /\ load = clientRIF[x] /\ slack = moved[c]
  BY <1>2, Comparing
<1>4. Compared(c)' = Compared(c) /\ Compared(c) \subseteq Server
  BY <1>2, Comparing DEF Compared
<1>5. load <= Cardinality(Client) /\ load <= clientRIF[x] + slack
  BY <1>1, <1>3, Loads DEF LoadsBounded
<1>6. ASSUME NEW s \in Compared(c)
      PROVE  clientRIF[x] + clientRIF[b] <= load + clientRIF[s] + slack
  <2>1. clientRIF[s] \in Nat /\ clientRIF[b] \in Nat
    BY <1>1, <1>4 DEF PoliciesTypeOK
  <2>2. clientRIF[b] <= clientRIF[s] + slack
    BY <1>1, <1>2, <1>3 DEF HerdInv
  <2>. QED BY <1>3, <2>1, <2>2
<1>7. /\ call[c].best \in Compared(c)
      /\ Elements(call[c].left) \subseteq Elements(call[c].candidates)
      /\ \A i, j \in DOMAIN call[c].left : i # j => call[c].left[i] # call[c].left[j]
      /\ \A s \in Compared(c) : clientRIF[call[c].best] <= clientRIF[s] + moved[c]
  BY <1>1, <1>2 DEF HerdInv
<1>. QED BY <1>2, <1>3, <1>4, <1>5, <1>6, <1>7 DEF HerdInv

(* The load of the best is loaded, and the better of the two is kept. *)
LEMMA HerdBest ==
    ASSUME PoliciesInv, NEW c \in Client, LoadBest(c)
    PROVE  HerdInv(c)'
<1>1. PoliciesTypeOK /\ RIFInv /\ HerdInv(c) /\ ChoiceInv(c)
  BY DEF PoliciesInv
<1>2. /\ phase[c] = "comparing" /\ phase'[c] = "loading"
      /\ call'[c].candidates = call[c].candidates /\ call'[c].left = Tail(call[c].left)
      /\ call'[c].best = (IF Wins(call[c].load, clientRIF[call[c].best])
                               THEN call[c].left[1] ELSE call[c].best)
      /\ UNCHANGED <<clientRIF, moved, lighter, answer>>
  BY <1>1, LoadBestCall
<1>3. call[c].left # <<>> /\ call[c].left \in Seq(Server)
  BY <1>1, <1>2, Comparing DEF ChoiceInv
<1>4. PICK x \in Server, b \in Server, load \in Nat, slack \in Nat :
         x = call[c].left[1] /\ b = call[c].best /\ load = call[c].load /\ slack = moved[c]
  BY <1>2, <1>3, Comparing
<1>5. PICK l \in Seq(Server) : l = call[c].left
  BY <1>3
<1>8. \A i, j \in DOMAIN l : i # j => l[i] # l[j]
  BY <1>1, <1>2, <1>5 DEF HerdInv
<1>9. /\ x \in Elements(l) /\ x \notin Elements(Tail(l))
      /\ Elements(l) = {x} \cup Elements(Tail(l))
      /\ \A i, j \in DOMAIN Tail(l) : i # j => Tail(l)[i] # Tail(l)[j]
  BY <1>3, <1>4, <1>5, <1>8, HeadApart
<1>11. /\ b \in Compared(c) /\ Elements(l) \subseteq Elements(call[c].candidates)
       /\ Compared(c) \subseteq Server
  BY <1>1, <1>2, <1>4, <1>5, Comparing DEF HerdInv
<1>12. Compared(c)' = Compared(c) \cup {x}
  BY <1>2, <1>5, <1>9, <1>11 DEF Compared
<1>13. /\ load <= clientRIF[x] + slack
       /\ \A s \in Compared(c) : /\ clientRIF[x] + clientRIF[b] <= load + clientRIF[s] + slack
                                 /\ clientRIF[b] <= clientRIF[s] + slack
  BY <1>1, <1>2, <1>4 DEF HerdInv
<1>14. /\ clientRIF[x] \in Nat /\ clientRIF[b] \in Nat
       /\ \A s \in Compared(c) : clientRIF[s] \in Nat
  BY <1>1, <1>11 DEF PoliciesTypeOK
<1>15. PICK best \in {x, b} : /\ best = call'[c].best
                              /\ best = x => load <= clientRIF[b]
                              /\ best = b => clientRIF[b] <= load
  <2>1. x # b
    BY <1>2, <1>3, <1>4, Comparing
  <2>2. CASE Wins(load, clientRIF[b])
    BY <1>2, <1>4, <1>14, <2>1, <2>2 DEF Wins
  <2>3. CASE ~Wins(load, clientRIF[b])
    BY <1>2, <1>4, <1>14, <2>1, <2>3 DEF Wins
  <2>. QED BY <2>2, <2>3
<1>16. ASSUME NEW s \in Compared(c) \cup {x}
       PROVE  clientRIF[best] <= clientRIF[s] + slack
  <2>1. clientRIF[s] \in Nat
    BY <1>14
  <2>2. CASE best = b /\ s = x
    <3>1. clientRIF[b] <= load /\ load <= clientRIF[x] + slack
      BY <1>13, <1>15, <2>2
    <3>2. clientRIF[x] \in Nat /\ clientRIF[b] \in Nat /\ load \in Nat /\ slack \in Nat
      BY <1>14
    <3>3. clientRIF[b] <= clientRIF[x] + slack
      BY <3>1, <3>2
    <3>. QED BY <2>2, <3>3
  <2>3. CASE best = b /\ s \in Compared(c)
    BY <1>13, <2>3
  <2>4. CASE best = x /\ s = x
    BY <1>4, <1>14, <2>4
  <2>5. CASE best = x /\ s \in Compared(c)
    <3>1. clientRIF[x] + clientRIF[b] <= load + clientRIF[s] + slack /\ load <= clientRIF[b]
      BY <1>13, <1>15, <2>5
    <3>2. clientRIF[x] \in Nat /\ clientRIF[b] \in Nat /\ load \in Nat /\ slack \in Nat
      BY <1>14
    <3>3. clientRIF[x] <= clientRIF[s] + slack
      BY <2>1, <3>1, <3>2
    <3>. QED BY <2>5, <3>3
  <2>. QED BY <1>15, <2>2, <2>3, <2>4, <2>5
<1>17. best \in Compared(c)' /\ Elements(Tail(l)) \subseteq Elements(call'[c].candidates)
  BY <1>2, <1>9, <1>11, <1>12, <1>15
<1>. QED
  <2>1. call'[c].left = Tail(l) /\ call'[c].best = best /\ phase'[c] = "loading"
        /\ moved'[c] = slack /\ clientRIF' = clientRIF
    BY <1>2, <1>4, <1>5, <1>15
  <2>. QED BY <1>9, <1>12, <1>16, <1>17, <2>1 DEF HerdInv

(* All steps of a selection. *)
LEMMA HerdSelect ==
    ASSUME PoliciesInv, NEW c \in Client, SelectStep(c)
    PROVE  HerdInv(c)'
<1>1. PoliciesTypeOK /\ HerdInv(c) /\ call[c] \in CallType
  BY DEF PoliciesInv, PoliciesTypeOK, CallType
<1>2. CASE KeepBest(c)
  <2>1. /\ phase[c] = "loading" /\ call[c].left = <<>> /\ phase'[c] = "decided"
        /\ answer'[c] = {call[c].best} /\ UNCHANGED <<call, moved, clientRIF>>
    BY <1>1, <1>2 DEF KeepBest, Answers, PoliciesTypeOK, sharedVars
  <2>2. Compared(c) = Elements(call[c].candidates)
    BY <2>1 DEF Compared, Elements
  <2>3. \A s \in Compared(c) : clientRIF[call[c].best] <= clientRIF[s] + moved[c]
    BY <1>1, <2>1 DEF HerdInv
  <2>. QED BY <2>1, <2>2, <2>3 DEF HerdInv
<1>3. CASE TakeTurn(c) \/ Draw(c) \/ TakeLast(c) \/ (Scan(c) /\ phase'[c] = "decided")
  <2>1. phase'[c] = "decided" /\ call'[c] = NoCall
    BY <1>1, <1>3 DEF TakeTurn, Draw, TakeLast, Scan, Answers, PoliciesTypeOK
  <2>2. Elements(call'[c].candidates) = {}
    BY <2>1 DEF NoCall, Elements
  <2>. QED BY <2>1, <2>2 DEF HerdInv
<1>4. CASE AddWeight(c) \/ Pick(c) \/ (Scan(c) /\ phase'[c] # "decided")
  <2>1. phase'[c] \in {"summing", "scanning"}
    BY <1>1, <1>4 DEF AddWeight, Pick, Scan, Answers, PoliciesTypeOK
  <2>. QED BY <2>1 DEF HerdInv
<1>. QED
  BY <1>2, <1>3, <1>4, HerdList, HerdPair, HerdLoad, HerdBest DEF SelectStep

(* A ClientRIF changes under the selection of d: moved[d] counts the change,   *)
(* or has reached the number of clients, which no load exceeds.                *)
LEMMA HerdMoves ==
    ASSUME PoliciesInv, PoliciesTypeOK', RIFInv',
           NEW c \in Client, Forward(c) \/ Complete(c), NEW d \in Client \ {c}
    PROVE  HerdInv(d)'
<1>1. PoliciesTypeOK /\ RIFInv /\ AnswerInv(c) /\ HerdInv(d) /\ moved[d] \in 0 .. Cardinality(Client)
  BY DEF PoliciesInv, PoliciesTypeOK
<1>2. PICK s \in Server, delta \in {1, -1} :
         \A t \in Server : clientRIF'[t] = IF t = s THEN clientRIF[t] + delta ELSE clientRIF[t]
  <2>0. clientRIF \in [Server -> Nat]
    BY <1>1 DEF PoliciesTypeOK
  <2>1. CASE Forward(c)
    <3>1. PICK s \in Server : clientRIF' = [clientRIF EXCEPT ![s] = clientRIF[s] + 1]
      BY <1>1, <2>1 DEF Forward, AnswerInv
    <3>. QED BY <2>0, <3>1
  <2>2. CASE Complete(c)
    <3>1. PICK s \in Server : clientRIF' = [clientRIF EXCEPT ![s] = clientRIF[s] - 1]
      BY <1>1, <2>2 DEF Complete, AnswerInv
    <3>2. \A t \in Server : clientRIF'[t] = IF t = s THEN clientRIF[t] + (-1) ELSE clientRIF[t]
      BY <2>0, <3>1
    <3>. QED BY <3>2
  <2>. QED BY <2>1, <2>2
<1>3. /\ phase'[d] = phase[d] /\ answer'[d] = answer[d]
  BY <1>1, ZenonT(60) DEF Forward, Complete, PoliciesTypeOK
<1>4. call'[d] = call[d]
  BY <1>1 DEF Forward, Complete, PoliciesTypeOK
<1>5. CASE phase[d] \notin {"loading", "comparing", "decided"}
  BY <1>3, <1>5 DEF HerdInv
<1>6. CASE phase[d] \in {"loading", "comparing", "decided"}
  <2>1. PICK all \in Nat, slack \in Nat, more \in Nat :
           /\ all = Cardinality(Client) /\ slack = moved[d] /\ more = moved'[d]
           /\ more = slack + 1 \/ (more = slack /\ slack = all)
    <3>1. LoadsMove(c)
      BY DEF Forward, Complete
    <3>2. moved'[d] = IF moved[d] < Cardinality(Client) THEN moved[d] + 1 ELSE moved[d]
      BY <1>6, <3>1 DEF LoadsMove
    <3>. QED BY <1>1, <3>2, Finite
  <2>2. /\ \A t \in Server : clientRIF[t] \in Nat /\ clientRIF'[t] \in Nat /\ clientRIF'[t] <= all
        /\ \A t, u \in Server : t # u => clientRIF'[t] + clientRIF'[u] <= all
    <3>1. LoadsBounded'
      BY Loads, PTL
    <3>. QED BY <1>1, <2>1, <3>1 DEF PoliciesTypeOK, LoadsBounded
  <2>3. ASSUME NEW x \in Server, NEW y \in Server, clientRIF[x] <= clientRIF[y] + slack
        PROVE  clientRIF'[x] <= clientRIF'[y] + more
    <3>1. clientRIF[x] \in Nat /\ clientRIF[y] \in Nat /\ clientRIF'[x] \in Nat /\ clientRIF'[y] \in Nat
          /\ clientRIF'[x] <= all
      BY <2>2
    <3>2. /\ clientRIF'[x] = IF x = s THEN clientRIF[x] + delta ELSE clientRIF[x]
          /\ clientRIF'[y] = IF y = s THEN clientRIF[y] + delta ELSE clientRIF[y]
      BY <1>2
    <3>. QED BY <2>1, <2>3, <3>1, <3>2
  <2>4. ASSUME NEW load \in Nat, NEW x \in Server, load <= all, load <= clientRIF[x] + slack
        PROVE  load <= clientRIF'[x] + more
    <3>1. clientRIF[x] \in Nat /\ clientRIF'[x] \in Nat
      BY <2>2
    <3>2. clientRIF'[x] = IF x = s THEN clientRIF[x] + delta ELSE clientRIF[x]
      BY <1>2
    <3>. QED BY <2>1, <2>4, <3>1, <3>2
  <2>5. ASSUME NEW load \in Nat, NEW x \in Server, NEW b \in Server, NEW t \in Server,
               x # b, x # t, clientRIF[x] + clientRIF[b] <= load + clientRIF[t] + slack
        PROVE  clientRIF'[x] + clientRIF'[b] <= load + clientRIF'[t] + more
    <3>1. /\ clientRIF[x] \in Nat /\ clientRIF[b] \in Nat /\ clientRIF[t] \in Nat
          /\ clientRIF'[x] \in Nat /\ clientRIF'[b] \in Nat /\ clientRIF'[t] \in Nat
          /\ clientRIF'[x] + clientRIF'[b] <= all
      BY <2>2, <2>5
    <3>2. /\ clientRIF'[x] = IF x = s THEN clientRIF[x] + delta ELSE clientRIF[x]
          /\ clientRIF'[b] = IF b = s THEN clientRIF[b] + delta ELSE clientRIF[b]
          /\ clientRIF'[t] = IF t = s THEN clientRIF[t] + delta ELSE clientRIF[t]
      BY <1>2
    <3>. QED BY <2>1, <2>5, <3>1, <3>2
  <2>6. CASE phase[d] = "decided"
    <3>1. call[d].candidates \in Seq(Server) /\ answer[d] \in SUBSET Server
      <4>1. call[d] \in CallType
        BY <1>1 DEF PoliciesTypeOK, CallType
      <4>. QED BY <1>1, <4>1 DEF PoliciesTypeOK, CallType
    <3>2. Elements(call[d].candidates) \subseteq Server
      BY <3>1 DEF Elements
    <3>3. \A x \in answer[d], y \in Elements(call[d].candidates) : clientRIF[x] <= clientRIF[y] + slack
      BY <1>1, <2>1, <2>6 DEF HerdInv
    <3>4. \A x \in answer[d], y \in Elements(call[d].candidates) : clientRIF'[x] <= clientRIF'[y] + more
      BY <2>3, <3>1, <3>2, <3>3
    <3>5. Elements(call[d].candidates)' = Elements(call[d].candidates)
      BY <1>4
    <3>. QED BY <1>3, <1>4, <2>1, <2>6, <3>4 DEF HerdInv, Elements
  <2>7. CASE phase[d] \in {"loading", "comparing"}
    <3>1. PICK b \in Server : b = call[d].best
      BY <2>7, Comparing
    <3>2. Compared(d) \subseteq Server
      BY <2>7, Comparing
    <3>3. /\ b \in Compared(d)
          /\ Elements(call[d].left) \subseteq Elements(call[d].candidates)
          /\ \A i, j \in DOMAIN call[d].left : i # j => call[d].left[i] # call[d].left[j]
          /\ \A t \in Compared(d) : clientRIF[b] <= clientRIF[t] + slack
      BY <1>1, <2>1, <2>7, <3>1 DEF HerdInv
    <3>4. \A t \in Compared(d) : clientRIF'[b] <= clientRIF'[t] + more
      BY <2>3, <3>2, <3>3
    <3>5. Compared(d)' = Compared(d)
      BY <1>4 DEF Compared, Elements
    <3>6. ASSUME phase[d] = "comparing"
          PROVE  /\ call[d].load <= all
                 /\ call[d].load <= clientRIF'[call[d].left[1]] + more
                 /\ \A t \in Compared(d) :
                      clientRIF'[call[d].left[1]] + clientRIF'[b] <= call[d].load + clientRIF'[t] + more
      <4>0. call[d].left # <<>>
        BY <3>6 DEF PoliciesInv, ChoiceInv
      <4>1. PICK x \in Server, load \in Nat : x = call[d].left[1] /\ load = call[d].load
        BY <2>7, <4>0, Comparing
      <4>2. x # b /\ x \in Elements(call[d].left)
        BY <2>7, <3>1, <4>0, <4>1, Comparing
      <4>3. \A t \in Compared(d) : x # t
        BY <4>2 DEF Compared
      <4>4. /\ load <= all /\ load <= clientRIF[x] + slack
            /\ \A t \in Compared(d) : clientRIF[x] + clientRIF[b] <= load + clientRIF[t] + slack
        BY <1>1, <2>1, <3>1, <3>6, <4>1 DEF HerdInv
      <4>5. load <= clientRIF'[x] + more
        BY <2>4, <4>4
      <4>6. \A t \in Compared(d) : clientRIF'[x] + clientRIF'[b] <= load + clientRIF'[t] + more
        BY <2>5, <3>2, <4>2, <4>3, <4>4
      <4>. QED BY <4>1, <4>4, <4>5, <4>6
    <3>. QED BY <1>3, <1>4, <2>1, <2>7, <3>1, <3>3, <3>4, <3>5, <3>6 DEF HerdInv, Elements
  <2>. QED BY <1>6, <2>6, <2>7
<1>. QED BY <1>5, <1>6

(* A request that comes, gives up, goes out or comes back. *)
LEMMA RequestStep ==
    ASSUME PoliciesInv, NEW c \in Client, Serve(c) \/ GiveUp(c) \/ Forward(c) \/ Complete(c)
    PROVE  \A d \in Client : ChoiceInv(d)' /\ AnswerInv(d)' /\ ScanInv(d)'
<1>1. PoliciesTypeOK /\ \A d \in Client : ChoiceInv(d) /\ AnswerInv(d) /\ ScanInv(d)
  BY DEF PoliciesInv
<1>2. /\ healthy' = healthy /\ weight' = weight /\ HealthyServers' = HealthyServers
      /\ lighter' = lighter
      /\ phase'[c] \in {"called", "idle", "forwarding"}
      /\ phase'[c] = "called" => eligible'[c] = HealthyServers
  BY <1>1 DEF Serve, GiveUp, Forward, Complete, sharedVars, historyVars, HealthyServers, PoliciesTypeOK
<1>3. /\ phase'[c] = "idle" => answer'[c] = {}
      /\ phase'[c] = "forwarding" => answer'[c] = answer[c] /\ answer[c] # {} /\ phase[c] = "decided"
  BY <1>1 DEF Serve, GiveUp, Forward, Complete, PoliciesTypeOK
<1>4. \A d \in Client \ {c} : /\ phase'[d] = phase[d] /\ answer'[d] = answer[d]
                              /\ eligible'[d] = eligible[d]
  BY <1>1 DEF Serve, GiveUp, Forward, Complete, sharedVars, historyVars, PoliciesTypeOK
<1>5. \A d \in Client \ {c} : call'[d] = call[d]
  BY <1>1 DEF Serve, GiveUp, Forward, Complete, sharedVars, historyVars, PoliciesTypeOK
<1>6. ChoiceInv(c)' /\ AnswerInv(c)' /\ ScanInv(c)'
  <2>1. ChoiceInv(c)'
    BY <1>2 DEF ChoiceInv, Listed, Selecting
  <2>2. AnswerInv(c)'
    BY <1>1, <1>2, <1>3 DEF AnswerInv
  <2>3. ScanInv(c)'
    BY <1>2 DEF ScanInv
  <2>. QED BY <2>1, <2>2, <2>3
<1>7. ASSUME NEW d \in Client \ {c} PROVE ChoiceInv(d)' /\ AnswerInv(d)' /\ ScanInv(d)'
  <2>1. phase'[d] = phase[d] /\ answer'[d] = answer[d] /\ eligible'[d] = eligible[d] /\ call'[d] = call[d]
    BY <1>4, <1>5
  <2>2. ChoiceInv(d)' /\ AnswerInv(d)'
    BY <1>1, <1>2, <2>1 DEF ChoiceInv, AnswerInv, Listed, Selecting, Elements
  <2>3. ScanInv(d)'
    BY <1>1, <1>2, <2>1, ZenonT(60) DEF ScanInv, Passed, PartialSums, Covered
  <2>. QED BY <2>2, <2>3
<1>. QED BY <1>6, <1>7

(* Probe results and the updater touch no call; weights that only rise keep the sums. *)
LEMMA EnvironmentStep ==
    ASSUME PoliciesInv, PoliciesTypeOK',
           (\E s \in Server, ok \in BOOLEAN : Observe(s, ok)) \/ StartUpdate \/ WriteWeight
    PROVE  \A d \in Client : ChoiceInv(d)' /\ AnswerInv(d)' /\ ScanInv(d)' /\ HerdInv(d)'
<1> TAKE d \in Client
<1>1. PoliciesTypeOK /\ ChoiceInv(d) /\ AnswerInv(d) /\ ScanInv(d) /\ HerdInv(d)
  BY DEF PoliciesInv
<1>2. /\ UNCHANGED <<phase, call, answer, moved, clientRIF>>
  BY DEF Observe, StartUpdate, WriteWeight, historyVars
<1>3. ChoiceInv(d)'
  <2>1. eligible[d] \subseteq eligible'[d] /\ (Selecting(d) => HealthyServers' \subseteq eligible'[d])
    <3>1. CASE \E s \in Server, ok \in BOOLEAN : Observe(s, ok)
      BY <1>1, <3>1 DEF Observe
    <3>2. CASE StartUpdate \/ WriteWeight
      BY <1>1, <3>2 DEF StartUpdate, WriteWeight, historyVars, ChoiceInv, HealthyServers
    <3>. QED BY <3>1, <3>2
  <2>. QED BY <1>1, <1>2, <2>1 DEF ChoiceInv, Listed, Selecting, Elements
<1>4. AnswerInv(d)' /\ HerdInv(d)'
  BY <1>1, <1>2 DEF AnswerInv, HerdInv, Compared, Elements
<1>5. ScanInv(d)'
  <2>1. CASE phase[d] \notin {"summing", "scanning"}
    BY <1>2, <2>1 DEF ScanInv
  <2>2. CASE phase[d] \in {"summing", "scanning"} /\ lighter'[d]
    BY <1>1, <1>2, <2>2 DEF ScanInv, Passed
  <2>3. CASE phase[d] \in {"summing", "scanning"} /\ ~lighter'[d]
    <3>1. ~lighter[d] /\ \A s \in Server : weight[s] \in Nat /\ weight'[s] \in Nat /\ weight[s] <= weight'[s]
      <4>0. \A s \in Server : weight[s] \in Nat /\ weight'[s] \in Nat
        BY <1>1, PoliciesAssumption DEF PoliciesTypeOK
      <4>1. CASE WriteWeight
        <5>1. PICK w \in Weights : /\ weight' = [weight EXCEPT ![updater] = w]
                                   /\ ~lighter[d] /\ ~(w < weight[updater])
          BY <2>3, <4>1 DEF WriteWeight
        <5>2. updater \in Server /\ w \in Nat
          BY <1>1, <4>1, PoliciesAssumption DEF WriteWeight, PoliciesTypeOK, Server
        <5>3. weight[updater] <= w
          BY <4>0, <5>1, <5>2
        <5>4. weight \in [Server -> Weights]
          BY <1>1 DEF PoliciesTypeOK
        <5>5. \A s \in Server : weight'[s] = IF s = updater THEN w ELSE weight[s]
          BY <5>1, <5>4
        <5>6. \A s \in Server : weight[s] <= weight'[s]
          BY <4>0, <5>3, <5>5
        <5>. QED BY <4>0, <5>1, <5>6
      <4>2. CASE weight' = weight /\ lighter' = lighter
        BY <2>3, <4>0, <4>2
      <4>. QED BY <4>1, <4>2 DEF Observe, StartUpdate, historyVars
    <3>2. call[d].candidates \in Seq(Server) /\ call[d].left \in Seq(Server)
      <4>1. call[d] \in CallType
        BY <1>1 DEF PoliciesTypeOK, CallType
      <4>. QED BY <4>1 DEF CallType
    <3>3. Passed(d) \in 0 .. Len(call[d].candidates)
      BY <1>1, <2>3 DEF ScanInv
    <3>4. ASSUME NEW sums \in PartialSums(d), NEW i \in 1 .. Len(call[d].candidates), Covered(d, sums, i)
          PROVE  Covered(d, sums, i)'
      <4>1. PICK s \in Server, p \in Nat, q \in Nat : /\ s = call[d].candidates[i]
                                                      /\ p = sums[i - 1] /\ q = sums[i]
        <5>1. call[d].candidates[i] \in Server
          BY <3>2
        <5>2. i \in 0 .. Len(call[d].candidates) /\ i - 1 \in 0 .. Len(call[d].candidates)
          BY <3>2
        <5>. QED BY <5>1, <5>2 DEF PartialSums
      <4>2. q <= p + weight[s]
        BY <3>4, <4>1 DEF Covered
      <4>3. q <= p + weight'[s]
        <5>1. weight[s] \in Nat /\ weight'[s] \in Nat /\ weight[s] <= weight'[s]
          BY <3>1
        <5>. QED BY <4>2, <5>1
      <4>. QED BY <1>2, <4>1, <4>3 DEF Covered
    <3>5. \A i \in 1 .. Passed(d) : i \in 1 .. Len(call[d].candidates)
      BY <3>2, <3>3
    <3>6. \A i \in Passed(d) + 1 .. Len(call[d].candidates) : i \in 1 .. Len(call[d].candidates)
      BY <3>2, <3>3
    <3>7. PartialSums(d)' = PartialSums(d) /\ Passed(d)' = Passed(d)
      BY <1>2 DEF PartialSums, Passed
    <3>8. CASE phase[d] = "summing"
      <4>1. PICK sums \in PartialSums(d) :
              /\ sums[0] = 0 /\ sums[Passed(d)] = call[d].sum
              /\ \A i \in 1 .. Passed(d) : Covered(d, sums, i)
        BY <1>1, <3>1, <3>8 DEF ScanInv
      <4>2. \A i \in 1 .. Passed(d) : Covered(d, sums, i)'
        BY <3>4, <3>5, <4>1
      <4>. QED BY <1>1, <1>2, <3>7, <3>8, <4>1, <4>2 DEF ScanInv
    <3>9. CASE phase[d] = "scanning"
      <4>1. PICK sums \in PartialSums(d) :
              /\ call[d].pick < sums[Len(call[d].candidates)]
              /\ sums[Passed(d)] <= call[d].sum
              /\ \A i \in Passed(d) + 1 .. Len(call[d].candidates) : Covered(d, sums, i)
        BY <1>1, <3>1, <3>9 DEF ScanInv
      <4>2. \A i \in Passed(d) + 1 .. Len(call[d].candidates) : Covered(d, sums, i)'
        BY <3>4, <3>6, <4>1
      <4>. QED BY <1>1, <1>2, <3>7, <3>9, <4>1, <4>2 DEF ScanInv
    <3>. QED BY <2>3, <3>8, <3>9
  <2>. QED BY <2>1, <2>2, <2>3
<1>. QED BY <1>3, <1>4, <1>5

(* The invariant holds at first. *)
LEMMA InitInv == PoliciesInit => PoliciesInv
<1>. SUFFICES ASSUME PoliciesInit PROVE PoliciesInv
  OBVIOUS
<1>1. PoliciesTypeOK
  <2>1. NoCall \in CallType /\ 0 \in 0 .. Cardinality(Client) /\ 0 \in 0 .. Wrap - 1
    BY Finite, PoliciesAssumption DEF CallType, NoCall
  <2>. QED
    BY <2>1, PoliciesAssumption DEF PoliciesInit, PoliciesTypeOK, CallType
<1>2. RIFInv
  <2>1. \A s \in Server : Holders(s) = {}
    BY DEF PoliciesInit, Holders
  <2>. QED BY <2>1, FS_EmptySet DEF PoliciesInit, RIFInv
<1>3. ASSUME NEW c \in Client PROVE ChoiceInv(c) /\ AnswerInv(c) /\ ScanInv(c) /\ HerdInv(c)
  BY DEF PoliciesInit, ChoiceInv, AnswerInv, ScanInv, HerdInv, Listed, Selecting
<1>. QED BY <1>1, <1>2, <1>3 DEF PoliciesInv

(* Every step keeps it. *)
LEMMA StepInv == PoliciesInv /\ [PoliciesNext]_policyVars => PoliciesInv'
<1>. SUFFICES ASSUME PoliciesInv, [PoliciesNext]_policyVars PROVE PoliciesInv'
  OBVIOUS
<1>0. PoliciesTypeOK /\ RIFInv /\ \A c \in Client : ChoiceInv(c) /\ AnswerInv(c) /\ HerdInv(c)
  BY DEF PoliciesInv
<1>1. ASSUME NEW c \in Client, SelectStep(c) PROVE PoliciesInv'
  <2>1. PoliciesTypeOK'
    BY <1>0, <1>1, TypeSelect
  <2>2. RIFInv'
    BY <1>0, <1>1, SelectFrame, HoldersKept
  <2>3. ChoiceInv(c)' /\ AnswerInv(c)' /\ ScanInv(c)' /\ HerdInv(c)'
    BY <1>1, ChoiceSelect, AnswerSelect, ScanSelect, HerdSelect
  <2>4. \A d \in Client \ {c} : ChoiceInv(d)' /\ AnswerInv(d)' /\ ScanInv(d)' /\ HerdInv(d)'
    BY <1>1, OthersUndisturbed
  <2>. QED BY <2>1, <2>2, <2>3, <2>4 DEF PoliciesInv
<1>2. ASSUME NEW c \in Client, Serve(c) \/ GiveUp(c) PROVE PoliciesInv'
  <2>1. PoliciesTypeOK'
    BY <1>0, <1>2, TypeOthers
  <2>2. /\ UNCHANGED <<clientRIF, call, answer, moved>>
        /\ phase'[c] \in {"called", "idle"} /\ phase[c] # "forwarding"
        /\ \A d \in Client \ {c} : phase'[d] = phase[d]
    BY <1>0, <1>2 DEF Serve, GiveUp, sharedVars, historyVars, PoliciesTypeOK
  <2>3. RIFInv'
    BY <1>0, <2>2, HoldersKept
  <2>4. \A d \in Client : ChoiceInv(d)' /\ AnswerInv(d)' /\ ScanInv(d)'
    BY <1>2, RequestStep
  <2>5. HerdInv(c)'
    BY <2>2 DEF HerdInv
  <2>6. ASSUME NEW d \in Client \ {c} PROVE HerdInv(d)'
    <3>1. HerdInv(d) /\ phase'[d] = phase[d]
      BY <1>0, <2>2
    <3>. QED BY <2>2, <3>1 DEF HerdInv, Compared, Elements
  <2>. QED BY <2>1, <2>3, <2>4, <2>5, <2>6 DEF PoliciesInv
<1>3. ASSUME NEW c \in Client, Forward(c) \/ Complete(c) PROVE PoliciesInv'
  <2>1. PoliciesTypeOK' /\ RIFInv'
    BY <1>3, ForwardStep
  <2>2. \A d \in Client : ChoiceInv(d)' /\ AnswerInv(d)' /\ ScanInv(d)'
    BY <1>3, RequestStep
  <2>3. HerdInv(c)'
    <3>1. phase'[c] \in {"forwarding", "idle"}
      BY <1>0, <1>3 DEF Forward, Complete, PoliciesTypeOK
    <3>. QED BY <3>1 DEF HerdInv
  <2>4. \A d \in Client \ {c} : HerdInv(d)'
    BY <1>3, <2>1, HerdMoves
  <2>. QED BY <2>1, <2>2, <2>3, <2>4 DEF PoliciesInv
<1>4. ASSUME (\E s \in Server, ok \in BOOLEAN : Observe(s, ok)) \/ StartUpdate \/ WriteWeight
      PROVE  PoliciesInv'
  <2>1. PoliciesTypeOK'
    BY <1>0, <1>4, TypeOthers
  <2>2. RIFInv'
    <3>1. UNCHANGED <<clientRIF, phase, answer>>
      BY <1>4 DEF Observe, StartUpdate, WriteWeight
    <3>. QED BY <1>0, <3>1, HoldersKept
  <2>. QED BY <1>4, <2>1, <2>2, EnvironmentStep DEF PoliciesInv
<1>5. ASSUME UNCHANGED policyVars PROVE PoliciesInv'
  <2>1. UNCHANGED <<algorithm, healthy, weight, updater, clientRIF, rrIdx, phase, call, answer,
                    eligible, moved, lighter, lap>>
    BY <1>5 DEF policyVars, sharedVars, historyVars
  <2>2. PoliciesTypeOK'
    BY <1>0, <2>1 DEF PoliciesTypeOK
  <2>3. RIFInv'
    BY <1>0, <2>1, HoldersKept
  <2>4. ASSUME NEW d \in Client PROVE ChoiceInv(d)' /\ AnswerInv(d)' /\ ScanInv(d)' /\ HerdInv(d)'
    <3>1. ChoiceInv(d) /\ AnswerInv(d) /\ ScanInv(d) /\ HerdInv(d)
      BY DEF PoliciesInv
    <3>2. ChoiceInv(d)' /\ AnswerInv(d)'
      BY <2>1, <3>1 DEF ChoiceInv, AnswerInv, Listed, Selecting, HealthyServers, Elements
    <3>3. ScanInv(d)'
      BY <2>1, <3>1 DEF ScanInv, Passed, PartialSums, Covered
    <3>4. HerdInv(d)'
      BY <2>1, <3>1 DEF HerdInv, Compared, Elements
    <3>. QED BY <3>2, <3>3, <3>4
  <2>. QED BY <2>2, <2>3, <2>4 DEF PoliciesInv
<1>. QED BY <1>1, <1>2, <1>3, <1>4, <1>5 DEF PoliciesNext

(* The inductive invariant holds throughout. *)
THEOREM PoliciesInvariant == PoliciesSpec => []PoliciesInv
BY InitInv, StepInv, PTL DEF PoliciesSpec

(* The state of the policies keeps its types; rrIdx keeps its width, and no    *)
(* ClientRIF goes below zero, whatever requests, probes and updates do between *)
(* two reads of a selection (balancer.go:452-544).                             *)
THEOREM PoliciesTypes == PoliciesSpec => []PoliciesTypeOK
BY PoliciesInvariant, PTL DEF PoliciesInv

(* The pick of weighted round robin is in somebody's share unless a weight     *)
(* fell between the two passes: the sums of the second pass are then at least  *)
(* those of the first, whose total the pick is below (balancer.go:452-466).    *)
THEOREM PicksHitAShare == PoliciesSpec => []RunsPastOnlyWhenLighter
<1>1. PoliciesInv => RunsPastOnlyWhenLighter
  <2>. SUFFICES ASSUME PoliciesInv, NEW c \in Client, RunPast(c), ~lighter[c] PROVE FALSE
    BY DEF RunsPastOnlyWhenLighter, PoliciesInv, PoliciesTypeOK
  <2>1. phase[c] = "scanning" /\ call[c].left = <<>> /\ ScanInv(c)
    BY DEF RunPast, PoliciesInv
  <2>2. call[c].pick \in Nat /\ call[c].sum \in Nat /\ Len(call[c].candidates) \in Nat
    <3>1. call[c] \in CallType
      BY DEF PoliciesInv, PoliciesTypeOK, CallType
    <3>. QED BY <3>1 DEF CallType
  <2>3. Passed(c) = Len(call[c].candidates)
    BY <2>1, <2>2 DEF Passed
  <2>4. PICK sums \in PartialSums(c) : /\ call[c].pick < sums[Len(call[c].candidates)]
                                       /\ sums[Passed(c)] <= call[c].sum
    BY <2>1 DEF ScanInv
  <2>5. call[c].sum <= call[c].pick
    BY <2>1 DEF ScanInv
  <2>6. sums[Len(call[c].candidates)] \in Nat
    BY <2>2, <2>4 DEF PartialSums
  <2>. QED BY <2>2, <2>3, <2>4, <2>5, <2>6
<1>. QED BY <1>1, PoliciesInvariant, PTL

(* A server that least loaded or power of two choices answers has at most as   *)
(* many more requests as ClientRIFs moved during the selection than any server *)
(* it was compared with, for any number of servers and of concurrent requests  *)
(* (balancer.go:507-544).                                                      *)
THEOREM HerdIsBounded == PoliciesSpec => []HerdBounded
<1>1. PoliciesInv => HerdBounded
  BY DEF PoliciesInv, HerdInv, HerdBounded, Elements
<1>. QED BY <1>1, PoliciesInvariant, PTL

(* Every step is one of Selection, or a stutter. *)
LEMMA PromiseStep ==
    ASSUME PoliciesInv, [PoliciesNext]_policyVars
    PROVE  [Promise!SelectionNext]_(Promise!selectionVars)
<1>1. /\ PoliciesTypeOK /\ Promise!HealthyServers = HealthyServers
      /\ Promise!HealthyServers' = HealthyServers'
  BY DEF PoliciesInv, Promise!HealthyServers, HealthyServers
<1>2. ASSUME NEW c \in Client, Serve(c) PROVE Promise!Call(c)
  <2>1. phase[c] = "idle" /\ phase' = [phase EXCEPT ![c] = "called"]
    BY <1>2 DEF Serve
  <2>2. Phase[c] = "idle" /\ Phase' = [Phase EXCEPT ![c] = "selecting"]
    BY <1>1, <2>1 DEF Phase, Selecting, PoliciesTypeOK
  <2>. QED BY <1>1, <1>2, <2>2 DEF Serve, Promise!Call, sharedVars
<1>3. ASSUME NEW c \in Client, NEW servers, Answers(c, servers), Selecting(c), healthy' = healthy,
             \/ servers = {} /\ HealthyServers = {}
             \/ \E s \in eligible[c] : servers = {s}
      PROVE  Promise!Decide(c)
  <2>1. phase' = [phase EXCEPT ![c] = "decided"]
    BY <1>3 DEF Answers
  <2>2. Phase[c] = "selecting" /\ Phase' = [Phase EXCEPT ![c] = "decided"]
    BY <1>1, <1>3, <2>1 DEF Phase, Selecting, PoliciesTypeOK
  <2>. QED BY <1>1, <1>3, <2>2 DEF Answers, Promise!Decide
<1>4. ASSUME NEW c \in Client, SelectStep(c) PROVE [Promise!SelectionNext]_(Promise!selectionVars)
  <2>0. /\ ChoiceInv(c) /\ healthy' = healthy /\ call[c] \in CallType
        /\ call[c].candidates \in Seq(Server) /\ call[c].left \in Seq(Server)
    <3>1. call[c] \in CallType /\ ChoiceInv(c)
      BY DEF PoliciesInv, PoliciesTypeOK, CallType
    <3>. QED BY <1>1, <1>4, <3>1, SelectFrame DEF CallType
  <2>1. ASSUME NEW x, Answers(c, {x}), x \in eligible[c], Selecting(c)
        PROVE  Promise!SelectionNext
    BY <1>3, <2>0, <2>1 DEF Promise!SelectionNext
  <2>2. ASSUME Listed(c), Listed(c)', UNCHANGED <<answer, eligible>>,
               \A d \in Client \ {c} : phase'[d] = phase[d]
        PROVE  UNCHANGED Promise!selectionVars
    <3>1. \A d \in Client \ {c} : Selecting(d)' <=> Selecting(d)
      BY <2>2 DEF Selecting
    <3>2. ASSUME NEW d \in Client
          PROVE  (CASE Selecting(d) -> "selecting" [] phase[d] = "idle" -> "idle" [] OTHER -> "decided")'
               = CASE Selecting(d) -> "selecting" [] phase[d] = "idle" -> "idle" [] OTHER -> "decided"
      <4>1. CASE d = c
        BY <2>2, <4>1 DEF Listed, Selecting
      <4>2. CASE d # c
        BY <2>2, <3>1, <4>2
      <4>. QED BY <4>1, <4>2
    <3>3. Phase' = Phase
      BY <3>2 DEF Phase
    <3>. QED BY <2>0, <2>2, <3>3 DEF Promise!selectionVars
  <2>3. CASE ListServers(c)
    <3>1. /\ phase[c] = "called" /\ FirstPhase \notin {"idle", "called", "decided", "forwarding"}
      BY <1>1, <2>3 DEF ListServers, FirstPhase, PoliciesTypeOK, Algorithms
    <3>2. PICK list \in Candidates :
             \/ list = <<>> /\ Answers(c, {})
             \/ list # <<>> /\ phase' = [phase EXCEPT ![c] = FirstPhase] /\ UNCHANGED <<answer, eligible>>
      BY <2>3 DEF ListServers
    <3>3. CASE list = <<>>
      <4>1. HealthyServers = {} /\ Answers(c, {}) /\ Selecting(c)
        BY <1>1, <3>1, <3>2, <3>3, ListType DEF Selecting
      <4>. QED BY <1>3, <2>0, <4>1 DEF Promise!SelectionNext
    <3>4. CASE list # <<>>
      <4>1. Phase' = Phase
        BY <1>1, <3>1, <3>2, <3>4 DEF Phase, Selecting, PoliciesTypeOK
      <4>. QED BY <2>0, <3>2, <3>4, <4>1 DEF Promise!selectionVars
    <3>. QED BY <3>3, <3>4
  <2>4. CASE TakeTurn(c)
    <3>1. Listed(c) /\ call[c].candidates # <<>> /\ Elements(call[c].candidates) \subseteq eligible[c]
      BY <2>0, <2>4 DEF TakeTurn, ChoiceInv, Listed, Selecting
    <3>2. Turn(call[c].candidates) \in eligible[c]
      <4>1. (rrIdx % Len(call[c].candidates)) + 1 \in DOMAIN call[c].candidates
        <5>1. PICK n \in Nat \ {0} : n = Len(call[c].candidates) /\ DOMAIN call[c].candidates = 1 .. n
          BY <2>0, <3>1
        <5>2. rrIdx \in Nat
          BY <1>1, PoliciesAssumption DEF PoliciesTypeOK
        <5>3. rrIdx % n \in 0 .. n - 1
          BY <5>2
        <5>4. (rrIdx % n) + 1 \in 1 .. n
          BY <5>3
        <5>. QED BY <5>1, <5>4
      <4>. QED BY <3>1, <4>1 DEF Turn, Elements
    <3>. QED BY <2>1, <2>4, <3>1, <3>2 DEF TakeTurn, Listed
  <2>5. CASE Draw(c)
    BY <2>0, <2>1, <2>5 DEF Draw, ChoiceInv, Listed, Selecting, Elements
  <2>6. CASE KeepBest(c)
    BY <2>0, <2>1, <2>6 DEF KeepBest, ChoiceInv, Listed, Selecting
  <2>7. CASE TakeLast(c)
    <3>1. Listed(c) /\ call[c].candidates # <<>> /\ Elements(call[c].candidates) \subseteq eligible[c]
      BY <2>0, <2>7 DEF TakeLast, RunPast, ChoiceInv, Listed, Selecting
    <3>2. call[c].candidates[Len(call[c].candidates)] \in eligible[c]
      <4>1. Len(call[c].candidates) \in DOMAIN call[c].candidates
        BY <2>0, <3>1
      <4>. QED BY <3>1, <4>1 DEF Elements
    <3>. QED BY <2>1, <2>7, <3>1, <3>2 DEF TakeLast, Listed
  <2>8. CASE Scan(c)
    <3>1. Listed(c) /\ call[c].left # <<>> /\ Elements(call[c].left) \subseteq eligible[c]
      BY <2>0, <2>8 DEF Scan, ChoiceInv, Listed, Selecting
    <3>2. call[c].left[1] \in eligible[c]
      BY <2>0, <3>1, FirstOf
    <3>3. CASE Answers(c, {call[c].left[1]})
      BY <2>1, <3>1, <3>2, <3>3 DEF Listed
    <3>4. CASE UNCHANGED <<phase, answer, eligible>>
      BY <2>2, <3>1, <3>4 DEF Listed, Selecting
    <3>. QED BY <2>8, <3>3, <3>4 DEF Scan
  <2>9. CASE DrawPair(c) \/ LoadCandidate(c) \/ LoadBest(c) \/ AddWeight(c) \/ Pick(c)
    <3>1. Listed(c) /\ Listed(c)' /\ UNCHANGED <<answer, eligible>>
          /\ \A d \in Client \ {c} : phase'[d] = phase[d]
      BY <1>1, <2>9 DEF DrawPair, LoadCandidate, LoadBest, AddWeight, Pick, historyVars, Listed,
                        Selecting, PoliciesTypeOK
    <3>. QED BY <2>2, <3>1
  <2>. QED BY <1>4, <2>3, <2>4, <2>5, <2>6, <2>7, <2>8, <2>9 DEF SelectStep
<1>5. ASSUME NEW c \in Client, GiveUp(c) \/ Complete(c) PROVE Promise!Return(c)
  <2>1. /\ phase[c] \in {"decided", "forwarding"} /\ phase' = [phase EXCEPT ![c] = "idle"]
        /\ answer' = [answer EXCEPT ![c] = {}] /\ UNCHANGED <<healthy, eligible>>
    BY <1>1, <1>5 DEF GiveUp, Complete, sharedVars, historyVars, PoliciesTypeOK
  <2>2. Phase[c] = "decided" /\ Phase' = [Phase EXCEPT ![c] = "idle"]
    BY <1>1, <2>1 DEF Phase, Selecting, PoliciesTypeOK
  <2>. QED BY <2>1, <2>2 DEF Promise!Return
<1>6. ASSUME NEW c \in Client, Forward(c) PROVE UNCHANGED Promise!selectionVars
  <2>1. phase[c] = "decided" /\ phase' = [phase EXCEPT ![c] = "forwarding"]
        /\ UNCHANGED <<healthy, answer, eligible>>
    BY <1>6 DEF Forward
  <2>2. Phase' = Phase
    BY <1>1, <2>1 DEF Phase, Selecting, PoliciesTypeOK
  <2>. QED BY <2>1, <2>2 DEF Promise!selectionVars
<1>7. ASSUME NEW s \in Server, NEW ok \in BOOLEAN, Observe(s, ok) PROVE Promise!Observe(s, ok)
  <2>0. phase' = phase /\ answer' = answer /\ healthy' = [healthy EXCEPT ![s] = ok]
    BY <1>7 DEF Observe
  <2>1. Phase' = Phase
    BY <2>0 DEF Phase, Selecting
  <2>2. \A c \in Client : Selecting(c) <=> Phase[c] = "selecting"
    BY DEF Phase, Selecting
  <2>3. eligible' = [c \in Client |-> IF Phase[c] = "selecting" THEN eligible[c] \cup HealthyServers'
                                                                ELSE eligible[c]]
    BY <1>7, <2>2 DEF Observe
  <2>. QED BY <1>1, <2>0, <2>1, <2>3 DEF Promise!Observe
<1>8. ASSUME StartUpdate \/ WriteWeight \/ UNCHANGED policyVars PROVE UNCHANGED Promise!selectionVars
  <2>1. UNCHANGED <<phase, healthy, answer, eligible>>
    BY <1>8 DEF StartUpdate, WriteWeight, policyVars, sharedVars, historyVars
  <2>. QED BY <2>1 DEF Promise!selectionVars, Phase, Selecting
<1>. QED
  BY <1>2, <1>4, <1>5, <1>6, <1>7, <1>8 DEF PoliciesNext, Promise!SelectionNext

(* Whichever of these policies is configured, it implements what SelectServer  *)
(* promises: a server healthy at a moment of the call, and none only at a      *)
(* moment when none is (balancer.go:417-544).                                  *)
THEOREM PoliciesKeepPromise == PoliciesSpec => KeepsPromise
<1>1. PoliciesInit => Promise!SelectionInit
  BY DEF PoliciesInit, Promise!SelectionInit, Phase, Selecting
<1>2. PoliciesInv /\ [PoliciesNext]_policyVars => [Promise!SelectionNext]_(Promise!selectionVars)
  BY PromiseStep
<1>. QED
  BY <1>1, <1>2, PoliciesInvariant, PTL DEF PoliciesSpec, KeepsPromise, Promise!SelectionSafety

-----------------------------------------------------------------------------
(* Round robin.                                                            *)

\* The turns from first up to next, in a lap of n.
Since(first, next, n) ==
    {i \in 0 .. n - 1 : IF first <= next THEN first <= i /\ i < next
                                         ELSE first <= i \/ i < next}

\* The servers of a lap had the turns from some first one up to that of rrIdx.
LapInv ==
    \A list \in Candidates : list # <<>> =>
        \E first \in 0 .. Len(list) - 1 :
            lap = {list[i + 1] : i \in Since(first, rrIdx % Len(list), Len(list))}

(* Division with remainder. *)
LEMMA DivMod ==
    ASSUME NEW n \in Nat \ {0}, NEW x \in Nat
    PROVE  x % n \in 0 .. n - 1 /\ x \div n \in Nat /\ x = n * (x \div n) + (x % n)
OBVIOUS

LEMMA ModUnique ==
    ASSUME NEW n \in Nat \ {0}, NEW q \in Nat, NEW r \in 0 .. n - 1
    PROVE  (n * q + r) % n = r
OBVIOUS

(* The turn after the last of a lap is the first. *)
LEMMA NextTurn ==
    ASSUME NEW n \in Nat \ {0}, NEW x \in Nat
    PROVE  (x + 1) % n = IF x % n = n - 1 THEN 0 ELSE (x % n) + 1
<1> DEFINE q == x \div n
           r == x % n
<1>1. q \in Nat /\ r \in 0 .. n - 1 /\ x = n * q + r
  BY DivMod
<1> HIDE DEF q, r
<1>2. CASE r = n - 1
  <2>1. x + 1 = n * (q + 1) + 0
    BY <1>1, <1>2
  <2>2. (n * (q + 1) + 0) % n = 0
    BY <1>1, ModUnique
  <2>3. QED
    BY <2>1, <2>2, <1>2 DEF r
<1>3. CASE r # n - 1
  <2>1. x + 1 = n * q + (r + 1) /\ r + 1 \in 0 .. n - 1
    BY <1>1, <1>3
  <2>2. (n * q + (r + 1)) % n = r + 1
    BY <1>1, <2>1, ModUnique
  <2>3. QED
    BY <2>1, <2>2, <1>3 DEF r
<1>4. QED
  BY <1>2, <1>3

(* Servers are numbers. *)
LEMMA ServersOrdered == ASSUME NEW S \in SUBSET Server, NEW s \in S PROVE s \in Nat
<1>1. s \in Server
  OBVIOUS
<1>2. QED
  BY <1>1, PoliciesAssumption DEF Server

\* The ascending lists of S.
Ascending(S) ==
    {list \in [1 .. Cardinality(S) -> S] :
        \A i, j \in DOMAIN list : i < j => list[i] < list[j]}

(* An ascending list of servers has each of them, once. *)
LEMMA EachOnce ==
    ASSUME NEW S \in SUBSET Server, NEW list \in Ascending(S)
    PROVE  /\ Len(list) = Cardinality(S) /\ Len(list) \in Nat
           /\ \A i \in 1 .. Len(list) : list[i] \in S
           /\ \A i, j \in 1 .. Len(list) : i < j => list[i] < list[j]
           /\ \A i, j \in 1 .. Len(list) : i # j => list[i] # list[j]
           /\ \A s \in S : \E i \in 1 .. Len(list) : list[i] = s
           /\ list # <<>> => Len(list) # 0
<1> DEFINE n == Cardinality(S)
<1>1. IsFiniteSet(S) /\ n \in Nat
  <2>1. IsFiniteSet(Server)
    BY PoliciesAssumption, FS_Interval DEF Server
  <2>2. QED
    BY <2>1, FS_Subset, FS_CardinalityType
<1>2. /\ list \in [1 .. n -> S]
      /\ \A i, j \in DOMAIN list : i < j => list[i] < list[j]
  BY DEF Ascending
<1> HIDE DEF n
<1>3. Len(list) = n /\ DOMAIN list = 1 .. n
  BY <1>1, <1>2
<1>4. \A i \in 1 .. n : list[i] \in Nat
  BY <1>2, ServersOrdered
<1>5. \A i, j \in 1 .. n : i # j => list[i] # list[j]
  BY <1>1, <1>2, <1>3, <1>4
<1>6. list \in Injection(1 .. n, S)
  BY <1>2, <1>5 DEF Injection, IsInjective
<1>7. Cardinality(1 .. n) = n
  BY <1>1, FS_Interval
<1>8. list \in Surjection(1 .. n, S)
  BY <1>1, <1>6, <1>7, FS_Injection DEF n
<1>9. list # <<>> => n # 0
  BY <1>2
<1>10. QED
  BY <1>1, <1>2, <1>3, <1>5, <1>8, <1>9 DEF Surjection, n

(* Of two ascending lists of the same servers none is first to have a lesser one. *)
LEMMA NoLesser ==
    ASSUME NEW S \in SUBSET Server, NEW a \in Ascending(S), NEW b \in Ascending(S),
           NEW i \in 1 .. Cardinality(S), \A j \in 1 .. Cardinality(S) : j < i => a[j] = b[j]
    PROVE  ~ (a[i] < b[i])
<1> DEFINE n == Cardinality(S)
<1>1. SUFFICES ASSUME a[i] < b[i] PROVE FALSE
  OBVIOUS
<1>2. /\ n \in Nat /\ Len(a) = n /\ Len(b) = n
      /\ \A j \in 1 .. n : a[j] \in S /\ b[j] \in S
      /\ \A j, k \in 1 .. n : j # k => a[j] # a[k]
      /\ \A j, k \in 1 .. n : j < k => b[j] < b[k]
      /\ \A s \in S : \E j \in 1 .. n : b[j] = s
  BY EachOnce
<1> HIDE DEF n
<1>3. i \in 1 .. n /\ \A j \in 1 .. n : j < i => a[j] = b[j]
  BY DEF n
<1>4. \A j \in 1 .. n : a[j] \in Nat /\ b[j] \in Nat
  BY <1>2, ServersOrdered
<1>5. PICK j \in 1 .. n : b[j] = a[i]
  BY <1>2, <1>3
<1>6. CASE j < i
  <2>1. a[j] = a[i] /\ i # j
    BY <1>3, <1>5, <1>6
  <2>2. QED
    BY <1>2, <1>3, <2>1
<1>7. CASE j = i
  BY <1>1, <1>3, <1>4, <1>5, <1>7
<1>8. CASE j > i
  <2>1. b[i] < b[j]
    BY <1>2, <1>3, <1>8
  <2>2. QED
    BY <1>1, <1>3, <1>4, <1>5, <2>1
<1>9. QED
  BY <1>2, <1>3, <1>6, <1>7, <1>8

(* There is only one ascending list of the same servers. *)
LEMMA OneList ==
    ASSUME NEW S \in SUBSET Server, NEW f \in Ascending(S), NEW g \in Ascending(S)
    PROVE  f = g
<1> DEFINE n == Cardinality(S)
           D == {i \in 1 .. n : f[i] # g[i]}
<1>1. n \in Nat /\ \A j \in 1 .. n : f[j] \in Nat /\ g[j] \in Nat
  <2>1. n \in Nat /\ \A j \in 1 .. n : f[j] \in S /\ g[j] \in S
    BY EachOnce
  <2>2. QED
    BY <2>1, ServersOrdered
<1>2. f \in [1 .. n -> S] /\ g \in [1 .. n -> S]
  BY DEF Ascending
<1>3. SUFFICES ASSUME D # {} PROVE FALSE
  <2>1. CASE D = {}
    <3>1. \A i \in 1 .. n : f[i] = g[i]
      BY <2>1
    <3>2. f = [i \in 1 .. n |-> f[i]] /\ g = [i \in 1 .. n |-> g[i]]
      BY <1>2
    <3>3. QED
      BY <3>1, <3>2, Zenon
  <2>2. QED
    BY <2>1
<1>4. PICK i \in D : \A j \in D : ~ (j < i)
  <2>1. D \subseteq Nat
    BY <1>1
  <2> HIDE DEF D
  <2>2. PICK i \in D : \A j \in D : <<j, i>> \notin OpToRel(<, Nat)
    BY <1>3, <2>1, NatLessThanWellFounded, WFMin
  <2>3. QED
    BY <2>1, <2>2 DEF OpToRel
<1>5. i \in 1 .. n /\ f[i] # g[i] /\ \A j \in 1 .. n : j < i => f[j] = g[j]
  BY <1>1, <1>4
<1>6. ~ (f[i] < g[i]) /\ ~ (g[i] < f[i])
  BY <1>5, NoLesser
<1>7. QED
  BY <1>1, <1>5, <1>6

(* A lap in which nobody has had a turn begins with the turn that is next. *)
LEMMA EmptyLap ==
    ASSUME NEW list, Len(list) \in Nat \ {0}, NEW x \in Nat
    PROVE  \E first \in 0 .. Len(list) - 1 :
               {} = {list[i + 1] : i \in Since(first, x % Len(list), Len(list))}
<1> DEFINE n == Len(list)
           next == x % n
<1>1. next \in 0 .. n - 1
  BY DivMod
<1>2. Since(next, next, n) = {}
  BY <1>1 DEF Since
<1> HIDE DEF n, next
<1>3. {} = {list[i + 1] : i \in Since(next, next, n)}
  BY <1>2
<1>4. QED
  BY <1>1, <1>3 DEF n, next

(* The turn that is next has not been taken in this lap. *)
LEMMA NextIsNew ==
    ASSUME PoliciesTypeOK, LapInv, NEW list \in Candidates, list # <<>>
    PROVE  Turn(list) \notin lap
<1>0. HealthyServers \in SUBSET Server /\ list \in Ascending(HealthyServers)
  BY DEF Candidates, HealthyServers, Ascending
<1> DEFINE n == Len(list)
           r == rrIdx % n
<1>1. n \in Nat \ {0} /\ r \in 0 .. n - 1
  <2>1. n \in Nat \ {0}
    BY <1>0, EachOnce
  <2>2. rrIdx \in Nat
    BY PoliciesAssumption DEF PoliciesTypeOK
  <2>3. QED
    BY <2>1, <2>2, DivMod
<1>2. PICK first \in 0 .. n - 1 : lap = {list[i + 1] : i \in Since(first, r, n)}
  BY DEF LapInv
<1>3. Turn(list) = list[r + 1]
  BY DEF Turn
<1> HIDE DEF n, r
<1>4. ASSUME NEW i \in Since(first, r, n) PROVE list[i + 1] # list[r + 1]
  <2>1. i \in 0 .. n - 1 /\ i # r
    BY <1>1, <1>4 DEF Since
  <2>2. i + 1 \in 1 .. n /\ r + 1 \in 1 .. n /\ i + 1 # r + 1
    BY <1>1, <2>1
  <2>3. QED
    BY <1>0, <2>2, EachOnce DEF n
<1>5. QED
  BY <1>2, <1>3, <1>4

(* A turn of the current candidates adds the next server to the lap, or ends it. *)
LEMMA TurnInLap ==
    ASSUME PoliciesTypeOK, LapInv, NEW c \in Client, TakeTurn(c)
    PROVE  LapInv'
<1>1. /\ lap' = LapAfter(call[c].candidates) /\ healthy' = healthy
      /\ rrIdx' = (rrIdx + 1) % Wrap /\ rrIdx \in Nat /\ rrIdx < Wrap
  BY PoliciesAssumption DEF TakeTurn, Advanced, PoliciesTypeOK
<1>2. Candidates' = Candidates /\ HealthyServers' = HealthyServers
  BY <1>1 DEF Candidates, HealthyServers
<1>a. HealthyServers \in SUBSET Server /\ Candidates = Ascending(HealthyServers)
  BY DEF Candidates, HealthyServers, Ascending
<1>3. SUFFICES ASSUME NEW list \in Candidates, list # <<>>
               PROVE  \E first \in 0 .. Len(list) - 1 :
                        lap' = {list[i + 1] : i \in Since(first, rrIdx' % Len(list), Len(list))}
  BY <1>2 DEF LapInv
<1> DEFINE n == Len(list)
           r == rrIdx % n
           next == rrIdx' % n
<1>4. n \in Nat \ {0} /\ r \in 0 .. n - 1 /\ next \in 0 .. n - 1
  <2>1. n \in Nat \ {0}
    BY <1>3, <1>a, EachOnce
  <2>2. rrIdx' \in Nat
    BY <1>1, PoliciesAssumption, DivMod
  <2>3. QED
    BY <1>1, <2>1, <2>2, DivMod
<1>5. CASE lap' = {}
  <2>1. rrIdx' \in Nat
    BY <1>1, PoliciesAssumption, DivMod
  <2>2. QED
    BY <1>4, <1>5, <2>1, EmptyLap
<1>6. CASE lap' # {}
  <2>1. /\ call[c].candidates \in Candidates /\ rrIdx + 1 # Wrap
        /\ lap \cup {Turn(call[c].candidates)} # HealthyServers
        /\ lap' = lap \cup {Turn(call[c].candidates)}
    BY <1>1, <1>6 DEF LapAfter
  <2>2. call[c].candidates = list
    BY <2>1, <1>a, OneList
  <2>3. Turn(list) = list[r + 1]
    BY DEF Turn
  <2>4. rrIdx' = rrIdx + 1
    <3>1. rrIdx + 1 \in 0 .. Wrap - 1 /\ Wrap \in Nat \ {0}
      BY <1>1, <2>1, PoliciesAssumption
    <3>2. (Wrap * 0 + (rrIdx + 1)) % Wrap = rrIdx + 1
      BY <3>1, ModUnique
    <3>3. QED
      BY <1>1, <3>1, <3>2
  <2>5. next = IF r = n - 1 THEN 0 ELSE r + 1
    BY <1>1, <1>4, <2>4, NextTurn
  <2>6. PICK first \in 0 .. n - 1 : lap = {list[i + 1] : i \in Since(first, r, n)}
    BY <1>3 DEF LapInv
  <2>7. lap' = {list[i + 1] : i \in Since(first, r, n) \cup {r}}
    BY <2>1, <2>2, <2>3, <2>6
  <2>8. \A s \in HealthyServers : \E i \in 0 .. n - 1 : list[i + 1] = s
    <3>1. ASSUME NEW s \in HealthyServers PROVE \E i \in 0 .. n - 1 : list[i + 1] = s
      <4>1. PICK j \in 1 .. n : list[j] = s
        BY <1>a, EachOnce
      <4>2. j - 1 \in 0 .. n - 1 /\ list[(j - 1) + 1] = s
        BY <1>4, <4>1
      <4>3. QED
        BY <4>2
    <3>2. QED
      BY <3>1
  <2>9. \A i \in 0 .. n - 1 : list[i + 1] \in HealthyServers
    BY <1>4, <1>a, EachOnce
  <2> HIDE DEF n, r, next
  <2>10. next # first
    <3>1. SUFFICES ASSUME next = first PROVE FALSE
      OBVIOUS
    <3>2. Since(first, r, n) \cup {r} = 0 .. n - 1
      BY <1>4, <2>5, <3>1 DEF Since
    <3>3. lap' = HealthyServers
      BY <2>7, <2>8, <2>9, <3>2
    <3>4. QED
      BY <2>1, <3>3
  <2>11. Since(first, r, n) \cup {r} = Since(first, next, n)
    BY <1>4, <2>5, <2>10 DEF Since
  <2>12. QED
    BY <2>7, <2>11 DEF n, next
<1>7. QED
  BY <1>5, <1>6

(* The lap of round robin is an interval of turns that ends with the last one. *)
LEMMA LapStep ==
    ASSUME PoliciesTypeOK, LapInv, [PoliciesNext]_policyVars
    PROVE  LapInv'
<1>1. ASSUME NEW c \in Client, TakeTurn(c) PROVE LapInv'
  BY <1>1, TurnInLap
<1>2. ASSUME UNCHANGED <<healthy, rrIdx, lap>> PROVE LapInv'
  BY <1>2 DEF LapInv, Candidates, HealthyServers
<1>3. ASSUME NEW s \in Server, NEW ok \in BOOLEAN, Observe(s, ok) PROVE LapInv'
  <2>1. healthy' = [healthy EXCEPT ![s] = ok] /\ rrIdx' = rrIdx
        /\ lap' = IF ok = healthy[s] THEN lap ELSE {}
    BY <1>3 DEF Observe
  <2>2. CASE ok = healthy[s]
    <3>1. healthy' = healthy
      BY <2>1, <2>2 DEF PoliciesTypeOK
    <3>2. QED
      BY <1>2, <2>1, <2>2, <3>1
  <2>3. CASE ok # healthy[s]
    <3>1. HealthyServers' \in SUBSET Server /\ Candidates' = Ascending(HealthyServers')
      BY DEF Candidates, HealthyServers, Ascending
    <3>2. SUFFICES ASSUME NEW list \in Candidates', list # <<>>
                   PROVE  \E first \in 0 .. Len(list) - 1 :
                            lap' = {list[i + 1] : i \in Since(first, rrIdx' % Len(list), Len(list))}
      BY DEF LapInv
    <3>3. Len(list) \in Nat \ {0} /\ rrIdx' \in Nat
      BY <2>1, <3>1, <3>2, EachOnce, PoliciesAssumption DEF PoliciesTypeOK
    <3>4. QED
      BY <2>1, <2>3, <3>3, EmptyLap
  <2>4. QED
    BY <2>2, <2>3
<1>4. ASSUME NEW c \in Client, SelectStep(c), ~ TakeTurn(c) PROVE UNCHANGED <<healthy, rrIdx, lap>>
  BY <1>4 DEF SelectStep, ListServers, Draw, DrawPair, LoadCandidate, LoadBest, KeepBest,
              AddWeight, Pick, Scan, TakeLast, sharedVars, historyVars
<1>5. ASSUME NEW c \in Client, Serve(c) \/ GiveUp(c) \/ Forward(c) \/ Complete(c)
      PROVE  UNCHANGED <<healthy, rrIdx, lap>>
  BY <1>5 DEF Serve, GiveUp, Forward, Complete, sharedVars, historyVars
<1>6. ASSUME StartUpdate \/ WriteWeight \/ UNCHANGED policyVars
      PROVE  UNCHANGED <<healthy, rrIdx, lap>>
  BY <1>6 DEF StartUpdate, WriteWeight, policyVars, sharedVars, historyVars
<1>7. QED
  BY <1>1, <1>2, <1>3, <1>4, <1>5, <1>6 DEF PoliciesNext

(* No turn was taken initially. *)
LEMMA LapInit == PoliciesInit => LapInv
<1>1. SUFFICES ASSUME PoliciesInit, NEW list \in Candidates, list # <<>>
               PROVE  \E first \in 0 .. Len(list) - 1 :
                        lap = {list[i + 1] : i \in Since(first, rrIdx % Len(list), Len(list))}
  BY DEF LapInv
<1>2. HealthyServers \in SUBSET Server /\ Candidates = Ascending(HealthyServers)
  BY DEF Candidates, HealthyServers, Ascending
<1>3. Len(list) \in Nat \ {0} /\ rrIdx \in Nat /\ lap = {}
  BY <1>1, <1>2, EachOnce DEF PoliciesInit
<1>4. QED
  BY <1>3, EmptyLap

(* Round robin gives nobody a second turn before everybody had one, for any number *)
(* of servers and of concurrent requests, while the same servers stay healthy and  *)
(* rrIdx does not wrap (balancer.go:485-494).                                      *)
THEOREM RoundRobinIsFair == PoliciesSpec => []RoundRobinFair
<1>1. PoliciesTypeOK /\ LapInv /\ [PoliciesNext]_policyVars => LapInv'
  BY LapStep
<1>2. PoliciesTypeOK /\ LapInv => RoundRobinFair
  BY NextIsNew DEF RoundRobinFair
<1>3. QED
  BY LapInit, <1>1, <1>2, PoliciesTypes, PTL DEF PoliciesSpec
=============================================================================
