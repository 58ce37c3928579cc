--------------------------- MODULE BalancerProofs ---------------------------
(***************************************************************************)
(* The counters of the balancer are right for every number of handlers and *)
(* servers and however many requests it serves.                            *)
(*                                                                         *)
(* The report of /healthz is inductive only with what each load leaves to  *)
(* the next: after the first one, what the total has and the other two     *)
(* counters lack is in the backlog, and both only grow.  The last step     *)
(* needs that FailedRequests is at least the refusals it contains.         *)
(*                                                                         *)
(* The gauge of a server can show all handlers only while one of them, who *)
(* set it on the way in, has yet to set it again on the way out.           *)
(***************************************************************************)
EXTENDS Balancer, FiniteSetTheorems, TLAPS

\* FailedRequests is the sum of its reasons.
FailuresByReason == failed = errors["no_server"] + errors["proxy_error"]

\* What the loads made so far leave to the next.
ReportSoFar ==
    /\ report.st = "one" => report.total <= ok + errors["no_server"] + backlog
    /\ report.st = "two" => report.total <= report.ok + errors["no_server"] + backlog
    /\ report.st = "three" => report.total <= report.ok + report.failed + backlog

\* Where a handler is between the two times it sets the gauge.
BetweenSets == {"proxying", "unwinding", "left", "settling"}

\* A handler loads less than all handlers on its way out, for it counts itself no
\* more; on its way in it may load all, but then it has its second Set before it.
GaugeSoFar ==
    /\ \A h \in Handler : pc[h] = "settling" => held[h] < Cardinality(Handler)
    /\ \A s \in Server :
          \/ gauge[s] < Cardinality(Handler)
          \/ \E h \in Handler : pc[h] \in BetweenSets /\ srv[h] = {s}

BalancerInv ==
    /\ BalancerTypeOK /\ InFlightExact /\ Accounted /\ FailuresByReason
    /\ ReportSoFar /\ GaugeSoFar

-----------------------------------------------------------------------------

(* The sets of handlers the counters count are finite. *)
LEMMA HandlersFinite ==
    /\ IsFiniteSet(Unfinished) /\ Cardinality(Unfinished) \in Nat
    /\ IsFiniteSet(InGauge) /\ Cardinality(InGauge) \in Nat
    /\ \A s \in Server : IsFiniteSet(InForward(s)) /\ Cardinality(InForward(s)) \in Nat
<1>1. /\ Unfinished \in SUBSET Handler /\ InGauge \in SUBSET Handler
      /\ \A s \in Server : InForward(s) \in SUBSET Handler
  BY DEF Unfinished, InGauge, InForward
<1>2. \A S \in SUBSET Handler : IsFiniteSet(S)
  BY HandlerAssumption, FS_Subset
<1>3. QED
  BY <1>1, <1>2, FS_CardinalityType

(* A handler that moves between idle and the rest changes the number of the
   unfinished by one, and any other move leaves it.                         *)
LEMMA UnfinishedMoves ==
    ASSUME BalancerTypeOK, NEW h \in Handler, NEW from, NEW to, Go(h, from, to)
    PROVE  Cardinality(Unfinished') =
               IF from = "idle" /\ to # "idle" THEN Cardinality(Unfinished) + 1
               ELSE IF from # "idle" /\ to = "idle" THEN Cardinality(Unfinished) - 1
               ELSE Cardinality(Unfinished)
<1>1. pc[h] = from /\ pc'[h] = to /\ \A g \in Handler \ {h} : pc'[g] = pc[g]
  BY DEF Go, BalancerTypeOK
<1>2. CASE from = "idle" /\ to # "idle"
  <2>1. Unfinished' = Unfinished \cup {h} /\ h \notin Unfinished
    BY <1>1, <1>2 DEF Unfinished
  <2>2. QED
    BY <2>1, <1>2, HandlersFinite, FS_AddElement
<1>3. CASE from # "idle" /\ to = "idle"
  <2>1. Unfinished' = Unfinished \ {h} /\ h \in Unfinished
    BY <1>1, <1>3 DEF Unfinished
  <2>2. QED
    BY <2>1, <1>3, HandlersFinite, FS_RemoveElement
<1>4. CASE (from = "idle" /\ to = "idle") \/ (from # "idle" /\ to # "idle")
  <2>1. Unfinished' = Unfinished
    BY <1>1, <1>4 DEF Unfinished
  <2>2. QED
    BY <2>1, <1>4
<1>5. QED
  BY <1>2, <1>3, <1>4

(* The same for the handlers that are in the gauge of active requests. *)
LEMMA GaugeMoves ==
    ASSUME BalancerTypeOK, NEW h \in Handler, NEW from, NEW to, Go(h, from, to)
    PROVE  Cardinality(InGauge') =
               IF from \notin Announced /\ to \in Announced THEN Cardinality(InGauge) + 1
               ELSE IF from \in Announced /\ to \notin Announced THEN Cardinality(InGauge) - 1
               ELSE Cardinality(InGauge)
<1>1. pc[h] = from /\ pc'[h] = to /\ \A g \in Handler \ {h} : pc'[g] = pc[g]
  BY DEF Go, BalancerTypeOK
<1>2. CASE from \notin Announced /\ to \in Announced
  <2>1. InGauge' = InGauge \cup {h} /\ h \notin InGauge
    BY <1>1, <1>2 DEF InGauge
  <2>2. QED
    BY <2>1, <1>2, HandlersFinite, FS_AddElement
<1>3. CASE from \in Announced /\ to \notin Announced
  <2>1. InGauge' = InGauge \ {h} /\ h \in InGauge
    BY <1>1, <1>3 DEF InGauge
  <2>2. QED
    BY <2>1, <1>3, HandlersFinite, FS_RemoveElement
<1>4. CASE from \in Announced <=> to \in Announced
  <2>1. InGauge' = InGauge
    BY <1>1, <1>4 DEF InGauge
  <2>2. QED
    BY <2>1, <1>4
<1>5. QED
  BY <1>2, <1>3, <1>4

(* A move within forwardRequest, or outside of it, leaves every server its
   requests in flight.                                                      *)
LEMMA ForwardKept ==
    ASSUME BalancerTypeOK, NEW h \in Handler, NEW from, NEW to, Go(h, from, to),
           from \in Forwarding <=> to \in Forwarding,
           from \in Forwarding => srv'[h] = srv[h],
           \A g \in Handler \ {h} : srv'[g] = srv[g]
    PROVE  \A s \in Server : Cardinality(InForward(s)') = Cardinality(InForward(s))
<1>1. pc[h] = from /\ pc'[h] = to /\ \A g \in Handler \ {h} : pc'[g] = pc[g]
  BY DEF Go, BalancerTypeOK
<1>2. SUFFICES ASSUME NEW s \in Server PROVE InForward(s)' = InForward(s)
  OBVIOUS
<1>3. \A g \in Handler : g \in InForward(s)' <=> g \in InForward(s)
  BY <1>1 DEF InForward
<1>4. QED
  BY <1>3 DEF InForward

-----------------------------------------------------------------------------

(* Nothing has happened initially. *)
LEMMA BalancerInitInv == BalancerInit => BalancerInv
<1>1. SUFFICES ASSUME BalancerInit PROVE BalancerInv
  OBVIOUS
<1>2. BalancerTypeOK
  BY <1>1 DEF BalancerInit, BalancerTypeOK, States, Reports
<1>3. Unfinished = {} /\ InGauge = {} /\ \A s \in Server : InForward(s) = {}
  BY <1>1 DEF BalancerInit, Unfinished, InGauge, InForward, Forwarding, Announced
<1>4. InFlightExact /\ Accounted
  BY <1>1, <1>3, FS_EmptySet, SMTT(30) DEF BalancerInit, InFlightExact, Accounted
<1>5. FailuresByReason /\ ReportSoFar
  BY <1>1 DEF BalancerInit, FailuresByReason, ReportSoFar
<1>6. GaugeSoFar
  <2>1. Cardinality(Handler) \in Nat /\ Cardinality(Handler) # 0
    BY HandlerAssumption, FS_CardinalityType, FS_EmptySet
  <2>2. QED
    BY <1>1, <2>1 DEF BalancerInit, GaugeSoFar
<1>7. QED
  BY <1>2, <1>4, <1>5, <1>6 DEF BalancerInv

(* Every step keeps the variables in their types. *)
LEMMA BalancerTypeStep ==
    ASSUME BalancerTypeOK, [BalancerNext]_balancerVars
    PROVE  BalancerTypeOK'
<1> USE DEF BalancerTypeOK, States, Forwarding, Go, rifVars, statVars, reportVars,
            handlerVars
<1>1. ASSUME NEW h \in Handler, Accept(h) PROVE BalancerTypeOK'
  BY <1>1 DEF Accept
<1>2. ASSUME NEW h \in Handler, NoServer(h) PROVE BalancerTypeOK'
  BY <1>2 DEF NoServer
<1>3. ASSUME NEW h \in Handler, NEW s \in Server, Enter(h, s) PROVE BalancerTypeOK'
  BY <1>3 DEF Enter
<1>4. ASSUME NEW h \in Handler, NEW s \in Server, Announce(h, s) PROVE BalancerTypeOK'
  BY <1>4 DEF Announce
<1>5. ASSUME NEW h \in Handler, NEW s \in Server, Publish(h, s) PROVE BalancerTypeOK'
  <2>1. CASE Go(h, "announcing", "proxying") /\ UNCHANGED <<srv, panicked, aborted>>
    BY <2>1, <1>5 DEF Publish
  <2>2. CASE /\ h \notin panicked /\ Go(h, "settling", "counting")
             /\ UNCHANGED <<srv, panicked, aborted>>
    BY <2>2, <1>5 DEF Publish
  <2>3. CASE /\ h \in panicked /\ Go(h, "settling", "idle")
             /\ panicked' = panicked \ {h} /\ srv' = [srv EXCEPT ![h] = {}]
             /\ aborted' = aborted + 1
    BY <2>3, <1>5 DEF Publish
  <2>4. QED
    BY <1>5, <2>1, <2>2, <2>3 DEF Publish
<1>6. ASSUME NEW h \in Handler, Proxied(h) PROVE BalancerTypeOK'
  BY <1>6 DEF Proxied
<1>7. ASSUME NEW h \in Handler, ProxyError(h) PROVE BalancerTypeOK'
  BY <1>7 DEF ProxyError
<1>8. ASSUME NEW h \in Handler, Abort(h) PROVE BalancerTypeOK'
  BY <1>8 DEF Abort
<1>9. ASSUME NEW h \in Handler, NEW s \in Server, Exit(h, s) PROVE BalancerTypeOK'
  BY <1>9 DEF Exit
<1>10. ASSUME NEW h \in Handler, NEW s \in Server, Settle(h, s) PROVE BalancerTypeOK'
  BY <1>10 DEF Settle
<1>11. ASSUME NEW h \in Handler, Count(h) PROVE BalancerTypeOK'
  BY <1>11 DEF Count
<1>12. CASE Healthz
  <2>1. Cardinality(Unfinished) + aborted \in Nat
    BY HandlersFinite
  <2>2. CASE LoadTotal
    BY <2>1, <2>2, <1>12 DEF Healthz, LoadTotal, Reports
  <2>3. CASE LoadOk
    BY <2>3, <1>12 DEF Healthz, LoadOk, Reports
  <2>4. CASE LoadFailed
    BY <2>4, <1>12 DEF Healthz, LoadFailed, Reports
  <2>5. CASE Reported
    BY <2>5, <1>12 DEF Healthz, Reported, Reports
  <2>6. QED
    BY <1>12, <2>2, <2>3, <2>4, <2>5 DEF Healthz
<1>13. CASE Shutdown \/ MainReturns
  BY <1>13 DEF Shutdown, MainReturns
<1>14. CASE UNCHANGED balancerVars
  BY <1>14 DEF balancerVars
<1>15. QED
  BY <1>1, <1>2, <1>3, <1>4, <1>5, <1>6, <1>7, <1>8, <1>9, <1>10, <1>11, <1>12,
     <1>13, <1>14 DEF BalancerNext, Handle

(* The number of requests in forwardRequest follows ClientRIF through every step:
   Enter and Exit change both, for the same server, and nothing else changes
   either (balancer.go:576, balancer.go:582).                                *)
LEMMA InFlightStep ==
    ASSUME BalancerTypeOK, InFlightExact, [BalancerNext]_balancerVars
    PROVE  InFlightExact'
<1> DEFINE Same == /\ UNCHANGED <<clientRIF, active>>
                   /\ \A s \in Server : Cardinality(InForward(s)') = Cardinality(InForward(s))
                   /\ Cardinality(InGauge') = Cardinality(InGauge)
<1>0. Same => InFlightExact'
  BY DEF InFlightExact
<1> USE DEF rifVars, handlerVars
<1>1. ASSUME NEW h \in Handler, Accept(h) PROVE Same
  <2>1. Go(h, "idle", "selecting") /\ srv' = srv /\ UNCHANGED <<clientRIF, active>>
    BY <1>1 DEF Accept
  <2>2. QED
    BY <2>1, ForwardKept, GaugeMoves DEF Forwarding, Announced
<1>2. ASSUME NEW h \in Handler, NoServer(h) PROVE Same
  <2>1. Go(h, "selecting", "idle") /\ srv' = srv /\ UNCHANGED <<clientRIF, active>>
    BY <1>2 DEF NoServer
  <2>2. QED
    BY <2>1, ForwardKept, GaugeMoves DEF Forwarding, Announced
<1>3. ASSUME NEW h \in Handler, NEW s \in Server, Enter(h, s) PROVE InFlightExact'
  <2>1. /\ pc[h] = "selecting" /\ pc'[h] = "entered" /\ srv'[h] = {s}
        /\ \A g \in Handler \ {h} : pc'[g] = pc[g] /\ srv'[g] = srv[g]
        /\ Go(h, "selecting", "entered") /\ active' = active
    BY <1>3 DEF Enter, Go, BalancerTypeOK
  <2>2. clientRIF'[s] = clientRIF[s] + 1
        /\ \A t \in Server \ {s} : clientRIF'[t] = clientRIF[t]
    BY <1>3 DEF Enter, BalancerTypeOK
  <2>3. InForward(s)' = InForward(s) \cup {h} /\ h \notin InForward(s)
    BY <2>1 DEF InForward, Forwarding
  <2>4. \A t \in Server \ {s} : InForward(t)' = InForward(t)
    BY <2>1 DEF InForward, Forwarding
  <2>5. Cardinality(InForward(s)') = Cardinality(InForward(s)) + 1
    BY <2>3, HandlersFinite, FS_AddElement
  <2>6. Cardinality(InGauge') = Cardinality(InGauge)
    BY <2>1, GaugeMoves DEF Announced
  <2>7. QED
    BY <2>1, <2>2, <2>4, <2>5, <2>6 DEF InFlightExact
<1>4. ASSUME NEW h \in Handler, NEW s \in Server, Announce(h, s) PROVE InFlightExact'
  <2>1. Go(h, "entered", "announcing") /\ srv' = srv /\ clientRIF' = clientRIF
        /\ active' = active + 1
    BY <1>4 DEF Announce
  <2>2. \A t \in Server : Cardinality(InForward(t)') = Cardinality(InForward(t))
    BY <2>1, ForwardKept DEF Forwarding
  <2>3. Cardinality(InGauge') = Cardinality(InGauge) + 1
    BY <2>1, GaugeMoves DEF Announced
  <2>4. QED
    BY <2>1, <2>2, <2>3 DEF InFlightExact
<1>5. ASSUME NEW h \in Handler, NEW s \in Server, Publish(h, s) PROVE Same
  <2>1. UNCHANGED <<clientRIF, active>>
    BY <1>5 DEF Publish
  <2>2. CASE Go(h, "announcing", "proxying") /\ srv' = srv
    BY <2>1, <2>2, ForwardKept, GaugeMoves DEF Forwarding, Announced
  <2>3. CASE Go(h, "settling", "counting") /\ srv' = srv
    BY <2>1, <2>3, ForwardKept, GaugeMoves DEF Forwarding, Announced
  <2>4. CASE Go(h, "settling", "idle") /\ srv' = [srv EXCEPT ![h] = {}]
    <3>1. \A g \in Handler \ {h} : srv'[g] = srv[g]
      BY <2>4 DEF BalancerTypeOK
    <3>2. QED
      BY <2>1, <2>4, <3>1, ForwardKept, GaugeMoves DEF Forwarding, Announced
  <2>5. QED
    BY <1>5, <2>2, <2>3, <2>4 DEF Publish
<1>6. ASSUME NEW h \in Handler, Proxied(h) \/ ProxyError(h) \/ Abort(h) PROVE Same
  <2>1. Go(h, "proxying", "unwinding") /\ srv' = srv /\ UNCHANGED <<clientRIF, active>>
    BY <1>6 DEF Proxied, ProxyError, Abort
  <2>2. QED
    BY <2>1, ForwardKept, GaugeMoves DEF Forwarding, Announced
<1>7. ASSUME NEW h \in Handler, NEW s \in Server, Exit(h, s) PROVE InFlightExact'
  <2>1. /\ pc[h] = "unwinding" /\ pc'[h] = "left" /\ srv[h] = {s} /\ srv' = srv
        /\ \A g \in Handler \ {h} : pc'[g] = pc[g]
        /\ Go(h, "unwinding", "left") /\ active' = active
    BY <1>7 DEF Exit, Go, BalancerTypeOK
  <2>2. clientRIF'[s] = clientRIF[s] - 1
        /\ \A t \in Server \ {s} : clientRIF'[t] = clientRIF[t]
    BY <1>7 DEF Exit, BalancerTypeOK
  <2>3. InForward(s)' = InForward(s) \ {h} /\ h \in InForward(s)
    BY <2>1 DEF InForward, Forwarding
  <2>4. \A t \in Server \ {s} : InForward(t)' = InForward(t)
    BY <2>1 DEF InForward, Forwarding
  <2>5. Cardinality(InForward(s)') = Cardinality(InForward(s)) - 1
    BY <2>3, HandlersFinite, FS_RemoveElement
  <2>6. Cardinality(InGauge') = Cardinality(InGauge)
    BY <2>1, GaugeMoves DEF Announced
  <2>7. QED
    BY <2>1, <2>2, <2>4, <2>5, <2>6 DEF InFlightExact
<1>8. ASSUME NEW h \in Handler, NEW s \in Server, Settle(h, s) PROVE InFlightExact'
  <2>1. Go(h, "left", "settling") /\ srv' = srv /\ clientRIF' = clientRIF
        /\ active' = active - 1
    BY <1>8 DEF Settle
  <2>2. \A t \in Server : Cardinality(InForward(t)') = Cardinality(InForward(t))
    BY <2>1, ForwardKept DEF Forwarding
  <2>3. Cardinality(InGauge') = Cardinality(InGauge) - 1
    BY <2>1, GaugeMoves DEF Announced
  <2>4. QED
    BY <2>1, <2>2, <2>3 DEF InFlightExact
<1>9. ASSUME NEW h \in Handler, Count(h) PROVE Same
  <2>1. Go(h, "counting", "idle") /\ UNCHANGED <<clientRIF, active>>
    BY <1>9 DEF Count
  <2>2. \A g \in Handler \ {h} : srv'[g] = srv[g]
    BY <1>9 DEF Count, BalancerTypeOK
  <2>3. QED
    BY <2>1, <2>2, ForwardKept, GaugeMoves DEF Forwarding, Announced
<1>10. CASE Healthz \/ Shutdown \/ MainReturns \/ UNCHANGED balancerVars
  <2>1. UNCHANGED <<pc, srv, clientRIF, active>>
    BY <1>10 DEF Healthz, Shutdown, MainReturns, balancerVars
  <2>2. InGauge' = InGauge /\ \A s \in Server : InForward(s)' = InForward(s)
    BY <2>1 DEF InGauge, InForward
  <2>3. QED
    BY <2>1, <2>2 DEF InFlightExact
<1>11. QED
  BY <1>0, <1>1, <1>2, <1>3, <1>4, <1>5, <1>6, <1>7, <1>8, <1>9, <1>10
  DEF BalancerNext, Handle

(* A request stays accounted for through every step: what leaves the unfinished
   goes to exactly one of the counters (balancer.go:557, balancer.go:571).   *)
LEMMA AccountedStep ==
    ASSUME BalancerTypeOK, Accounted, [BalancerNext]_balancerVars
    PROVE  Accounted'
<1> DEFINE n == Cardinality(Unfinished)
           refused == errors["no_server"]
<1>0. n \in Nat /\ total \in Nat /\ ok \in Nat /\ aborted \in Nat /\ refused \in Nat
  BY HandlersFinite DEF BalancerTypeOK
<1>1. ASSUME NEW h \in Handler, Accept(h) PROVE Accounted'
  <2>1. Go(h, "idle", "selecting") /\ total' = total + 1
        /\ UNCHANGED <<ok, errors, aborted>>
    BY <1>1 DEF Accept
  <2>2. Cardinality(Unfinished') = n + 1
    BY <2>1, UnfinishedMoves
  <2>3. QED
    BY <2>1, <2>2, <1>0 DEF Accounted
<1>2. ASSUME NEW h \in Handler, NoServer(h) PROVE Accounted'
  <2>1. Go(h, "selecting", "idle") /\ UNCHANGED <<total, ok, aborted>>
        /\ errors'["no_server"] = refused + 1
    BY <1>2 DEF NoServer, BalancerTypeOK
  <2>2. Cardinality(Unfinished') = n - 1
    BY <2>1, UnfinishedMoves
  <2>3. QED
    BY <2>1, <2>2, <1>0 DEF Accounted
<1>3. ASSUME NEW h \in Handler, NEW s \in Server,
             Enter(h, s) \/ Announce(h, s) \/ Exit(h, s) \/ Settle(h, s)
      PROVE  Accounted'
  <2>1. UNCHANGED <<total, ok, errors, aborted>>
    BY <1>3 DEF Enter, Announce, Exit, Settle, statVars
  <2>2. Cardinality(Unfinished') = n
    BY <1>3, UnfinishedMoves DEF Enter, Announce, Exit, Settle
  <2>3. QED
    BY <2>1, <2>2 DEF Accounted
<1>4. ASSUME NEW h \in Handler, NEW s \in Server, Publish(h, s) PROVE Accounted'
  <2>1. UNCHANGED <<total, ok, errors>>
    BY <1>4 DEF Publish
  <2>2. CASE (Go(h, "announcing", "proxying") \/ Go(h, "settling", "counting"))
             /\ aborted' = aborted
    <3>1. Cardinality(Unfinished') = n
      BY <2>2, UnfinishedMoves
    <3>2. QED
      BY <2>1, <2>2, <3>1 DEF Accounted
  <2>3. CASE Go(h, "settling", "idle") /\ aborted' = aborted + 1
    <3>1. Cardinality(Unfinished') = n - 1
      BY <2>3, UnfinishedMoves
    <3>2. QED
      BY <2>1, <2>3, <3>1, <1>0 DEF Accounted
  <2>4. QED
    BY <1>4, <2>2, <2>3 DEF Publish
<1>5. ASSUME NEW h \in Handler, Proxied(h) \/ ProxyError(h) \/ Abort(h) PROVE Accounted'
  <2>1. Go(h, "proxying", "unwinding") /\ UNCHANGED <<total, ok, aborted>>
        /\ errors'["no_server"] = refused
    BY <1>5 DEF Proxied, ProxyError, Abort, statVars, BalancerTypeOK
  <2>2. Cardinality(Unfinished') = n
    BY <2>1, UnfinishedMoves
  <2>3. QED
    BY <2>1, <2>2 DEF Accounted
<1>6. ASSUME NEW h \in Handler, Count(h) PROVE Accounted'
  <2>1. Go(h, "counting", "idle") /\ ok' = ok + 1 /\ UNCHANGED <<total, errors, aborted>>
    BY <1>6 DEF Count
  <2>2. Cardinality(Unfinished') = n - 1
    BY <2>1, UnfinishedMoves
  <2>3. QED
    BY <2>1, <2>2, <1>0 DEF Accounted
<1>7. CASE Healthz \/ Shutdown \/ MainReturns \/ UNCHANGED balancerVars
  <2>1. UNCHANGED <<pc, total, ok, errors, aborted>>
    BY <1>7 DEF Healthz, Shutdown, MainReturns, balancerVars, handlerVars, statVars
  <2>2. Unfinished' = Unfinished
    BY <2>1 DEF Unfinished
  <2>3. QED
    BY <2>1, <2>2 DEF Accounted
<1>8. QED
  BY <1>1, <1>2, <1>3, <1>4, <1>5, <1>6, <1>7 DEF BalancerNext, Handle

(* The counters only grow, and a failure is counted with its reason. *)
LEMMA CountersStep ==
    ASSUME BalancerTypeOK, FailuresByReason, [BalancerNext]_balancerVars
    PROVE  /\ FailuresByReason'
           /\ ok' >= ok
           /\ errors'["no_server"] >= errors["no_server"]
<1> USE DEF BalancerTypeOK, FailuresByReason, statVars
<1>1. ASSUME NEW h \in Handler, NoServer(h) \/ ProxyError(h)
      PROVE  FailuresByReason' /\ ok' >= ok /\ errors'["no_server"] >= errors["no_server"]
  BY <1>1 DEF NoServer, ProxyError
<1>2. ASSUME NEW h \in Handler, Count(h)
      PROVE  FailuresByReason' /\ ok' >= ok /\ errors'["no_server"] >= errors["no_server"]
  BY <1>2 DEF Count
<1>3. ASSUME UNCHANGED <<ok, failed, errors>>
      PROVE  FailuresByReason' /\ ok' >= ok /\ errors'["no_server"] >= errors["no_server"]
  BY <1>3
<1>4. ASSUME NEW h \in Handler, Accept(h) \/ Proxied(h) \/ Abort(h)
      PROVE  UNCHANGED <<ok, failed, errors>>
  BY <1>4 DEF Accept, Proxied, Abort
<1>5. ASSUME NEW h \in Handler, NEW s \in Server,
             Enter(h, s) \/ Announce(h, s) \/ Publish(h, s) \/ Exit(h, s) \/ Settle(h, s)
      PROVE  UNCHANGED <<ok, failed, errors>>
  BY <1>5 DEF Enter, Announce, Publish, Exit, Settle
<1>6. CASE Healthz \/ Shutdown \/ MainReturns \/ UNCHANGED balancerVars
  BY <1>3, <1>6 DEF Healthz, Shutdown, MainReturns, balancerVars
<1>7. QED
  BY <1>1, <1>2, <1>3, <1>4, <1>5, <1>6 DEF BalancerNext, Handle

(* Each load of a report finds its counter at least where the load before left
   it (balancer.go:650).                                                     *)
LEMMA ReportStep ==
    ASSUME BalancerInv, [BalancerNext]_balancerVars
    PROVE  ReportSoFar'
<1> USE DEF BalancerInv, BalancerTypeOK
<1>1. FailuresByReason' /\ ok' >= ok /\ errors'["no_server"] >= errors["no_server"]
  BY CountersStep
<1>2. BalancerTypeOK'
  BY BalancerTypeStep
<1>3. ASSUME UNCHANGED reportVars PROVE ReportSoFar'
  <2>1. report' = report /\ backlog' = backlog
    BY <1>3 DEF reportVars
  <2>2. CASE report.st = "one"
    <3>1. report.total \in Nat
      BY <2>2 DEF Reports
    <3>2. QED
      BY <1>1, <1>2, <2>1, <2>2, <3>1 DEF ReportSoFar
  <2>3. CASE report.st = "two"
    <3>1. report.total \in Nat /\ report.ok \in Nat
      BY <2>3 DEF Reports
    <3>2. QED
      BY <1>1, <1>2, <2>1, <2>3, <3>1 DEF ReportSoFar
  <2>4. CASE report.st \notin {"one", "two"}
    BY <2>1, <2>4 DEF ReportSoFar
  <2>5. QED
    BY <2>2, <2>3, <2>4
<1>4. CASE Healthz
  <2>1. UNCHANGED <<total, ok, failed, errors, aborted>>
    BY <1>4 DEF Healthz, statVars
  <2>2. CASE LoadTotal
    <3>1. report'.st = "one" /\ report'.total = total
          /\ backlog' = Cardinality(Unfinished) + aborted
      BY <2>2 DEF LoadTotal
    <3>2. Cardinality(Unfinished) \in Nat
      BY HandlersFinite
    <3>3. QED
      BY <2>1, <3>1, <3>2 DEF ReportSoFar, Accounted
  <2>3. CASE LoadOk
    <3>1. report'.st = "two" /\ report'.total = report.total /\ report'.ok = ok
          /\ report.st = "one" /\ backlog' = backlog
      BY <2>3 DEF LoadOk
    <3>2. QED
      BY <2>1, <3>1 DEF ReportSoFar
  <2>4. CASE LoadFailed
    <3>1. report'.st = "three" /\ report'.total = report.total
          /\ report'.ok = report.ok /\ report'.failed = failed
          /\ report.st = "two" /\ backlog' = backlog
      BY <2>4 DEF LoadFailed
    <3>2. report.total \in Nat /\ report.ok \in Nat
      BY <3>1 DEF Reports
    <3>3. QED
      BY <2>1, <3>1, <3>2 DEF ReportSoFar, FailuresByReason
  <2>5. CASE Reported
    BY <2>5 DEF Reported, ReportSoFar
  <2>6. QED
    BY <1>4, <2>2, <2>3, <2>4, <2>5 DEF Healthz
<1>5. ASSUME NEW h \in Handler, Handle(h) PROVE UNCHANGED reportVars
  BY <1>5 DEF Handle, Accept, NoServer, Enter, Announce, Publish, Proxied, ProxyError,
              Abort, Exit, Settle, Count, reportVars
<1>6. CASE Shutdown \/ MainReturns \/ UNCHANGED balancerVars
  BY <1>3, <1>6 DEF Shutdown, MainReturns, balancerVars
<1>7. QED
  BY <1>3, <1>4, <1>5, <1>6 DEF BalancerNext

(* A handler that settles loads a ClientRIF that does not count it, and the gauge
   gets the value loaded by the handler that sets it (balancer.go:576-586).  *)
LEMMA GaugeStep ==
    ASSUME BalancerTypeOK, InFlightExact, GaugeSoFar, [BalancerNext]_balancerVars
    PROVE  GaugeSoFar'
<1> DEFINE Kept(h) == /\ \A g \in Handler \ {h} : pc'[g] = pc[g] /\ srv'[g] = srv[g]
                                                    /\ held'[g] = held[g]
                      /\ pc[h] \in BetweenSets => pc'[h] \in BetweenSets /\ srv'[h] = srv[h]
                      /\ pc'[h] # "settling"
                      /\ gauge' = gauge
<1> USE DEF BalancerTypeOK, Go, rifVars, statVars, handlerVars, BetweenSets
<1>1. ASSUME NEW h \in Handler, Kept(h) PROVE GaugeSoFar'
  <2>1. ASSUME NEW g \in Handler, pc'[g] = "settling"
        PROVE  held'[g] < Cardinality(Handler)
    BY <1>1, <2>1 DEF GaugeSoFar
  <2>2. ASSUME NEW s \in Server, NEW g \in Handler, pc[g] \in BetweenSets, srv[g] = {s}
        PROVE  pc'[g] \in BetweenSets /\ srv'[g] = {s}
    <3> HIDE DEF BetweenSets
    <3>1. QED
      BY <1>1, <2>2
  <2>3. gauge' = gauge
    BY <1>1
  <2> HIDE DEF BetweenSets, Kept
  <2>4. QED
    BY <2>1, <2>2, <2>3 DEF GaugeSoFar
<1>2. ASSUME NEW h \in Handler,
             \/ Accept(h) \/ NoServer(h) \/ Proxied(h) \/ ProxyError(h) \/ Abort(h) \/ Count(h)
             \/ \E s \in Server : Enter(h, s) \/ Announce(h, s) \/ Exit(h, s)
      PROVE  Kept(h)
  <2>1. CASE Accept(h) \/ NoServer(h) \/ Count(h)
    BY <2>1 DEF Accept, NoServer, Count
  <2>2. CASE Proxied(h) \/ ProxyError(h) \/ Abort(h)
    BY <2>2 DEF Proxied, ProxyError, Abort
  <2>3. ASSUME NEW s \in Server, Enter(h, s) \/ Announce(h, s) \/ Exit(h, s)
        PROVE  Kept(h)
    BY <2>3 DEF Enter, Announce, Exit
  <2>4. QED
    BY <1>2, <2>1, <2>2, <2>3
<1>3. ASSUME NEW h \in Handler, NEW s \in Server, Settle(h, s) PROVE GaugeSoFar'
  <2>1. /\ pc[h] = "left" /\ pc'[h] = "settling" /\ srv' = srv /\ gauge' = gauge
        /\ held'[h] = clientRIF[s]
        /\ \A g \in Handler \ {h} : pc'[g] = pc[g] /\ held'[g] = held[g]
    BY <1>3 DEF Settle
  <2>2. InForward(s) \subseteq Handler \ {h}
    BY <2>1 DEF InForward, Forwarding
  <2>3. Cardinality(InForward(s)) < Cardinality(Handler)
    <3>1. IsFiniteSet(Handler \ {h}) /\ Cardinality(Handler \ {h}) = Cardinality(Handler) - 1
      BY HandlerAssumption, FS_RemoveElement
    <3>2. Cardinality(InForward(s)) <= Cardinality(Handler \ {h})
      BY <2>2, <3>1, FS_Subset
    <3>3. Cardinality(Handler) \in Nat /\ Cardinality(InForward(s)) \in Nat
      BY HandlerAssumption, HandlersFinite, FS_CardinalityType
    <3>4. QED
      BY <3>1, <3>2, <3>3
  <2>4. held'[h] < Cardinality(Handler)
    BY <2>1, <2>3 DEF InFlightExact
  <2>5. QED
    BY <2>1, <2>4, SMTT(30) DEF GaugeSoFar
<1>4. ASSUME NEW h \in Handler, NEW s \in Server, Publish(h, s) PROVE GaugeSoFar'
  <2>1. /\ srv[h] = {s} /\ gauge'[s] = held[h]
        /\ \A t \in Server \ {s} : gauge'[t] = gauge[t]
        /\ \A g \in Handler \ {h} : pc'[g] = pc[g] /\ srv'[g] = srv[g] /\ held'[g] = held[g]
        /\ pc'[h] # "settling"
    BY <1>4 DEF Publish
  <2>2. \A g \in Handler : pc'[g] = "settling" => held'[g] < Cardinality(Handler)
    BY <2>1 DEF GaugeSoFar
  <2>3. \A t \in Server \ {s} : \/ gauge'[t] < Cardinality(Handler)
                                \/ \E g \in Handler : pc'[g] \in BetweenSets /\ srv'[g] = {t}
    <3>1. ASSUME NEW t \in Server \ {s}, NEW g \in Handler,
                 pc[g] \in BetweenSets, srv[g] = {t}
          PROVE  pc'[g] \in BetweenSets /\ srv'[g] = {t}
      <4>1. g # h
        BY <2>1, <3>1
      <4>2. QED
        BY <2>1, <3>1, <4>1
    <3> HIDE DEF BetweenSets, BalancerTypeOK
    <3>2. QED
      BY <2>1, <3>1 DEF GaugeSoFar
  <2>4. CASE pc[h] = "announcing"
    <3>1. pc'[h] \in BetweenSets /\ srv'[h] = {s}
      BY <1>4, <2>1, <2>4 DEF Publish
    <3>2. QED
      BY <2>2, <2>3, <3>1 DEF GaugeSoFar
  <2>5. CASE pc[h] = "settling"
    <3>1. gauge'[s] < Cardinality(Handler)
      BY <2>1, <2>5 DEF GaugeSoFar
    <3>2. QED
      BY <2>2, <2>3, <3>1 DEF GaugeSoFar
  <2>6. QED
    BY <1>4, <2>4, <2>5 DEF Publish
<1>5. CASE Healthz \/ Shutdown \/ MainReturns \/ UNCHANGED balancerVars
  BY <1>5 DEF Healthz, Shutdown, MainReturns, balancerVars, GaugeSoFar
<1>6. QED
  <2> HIDE DEF BalancerTypeOK, Go, Kept
  <2>1. QED
    BY <1>1, <1>2, <1>3, <1>4, <1>5 DEF BalancerNext, Handle

-----------------------------------------------------------------------------

(* The invariant the others follow from. *)
THEOREM BalancerInvariant == BalancerSpec => []BalancerInv
<1>1. BalancerInv /\ [BalancerNext]_balancerVars => BalancerInv'
  BY BalancerTypeStep, InFlightStep, AccountedStep, CountersStep, ReportStep, GaugeStep
  DEF BalancerInv
<1>2. QED
  BY BalancerInitInv, <1>1, PTL DEF BalancerSpec

(* The variables of the balancer stay in their types. *)
THEOREM BalancerTypeCorrect == BalancerSpec => []BalancerTypeOK
<1>1. BalancerInv => BalancerTypeOK
  BY DEF BalancerInv
<1>2. QED
  BY <1>1, BalancerInvariant, PTL

(* ClientRIF and activeRequests count the requests in flight, for every number of
   handlers and servers: the deferred decrement runs whatever ends a request
   (balancer.go:581).                                                        *)
THEOREM BalancerInFlightExact == BalancerSpec => []InFlightExact
<1>1. BalancerInv => InFlightExact
  BY DEF BalancerInv
<1>2. QED
  BY <1>1, BalancerInvariant, PTL

(* Every request is accounted for once (balancer.go:546-572). *)
THEOREM BalancerAccounted == BalancerSpec => []Accounted
<1>1. BalancerInv => Accounted
  BY DEF BalancerInv
<1>2. QED
  BY <1>1, BalancerInvariant, PTL

(* What /healthz reports misses only requests that were unfinished or aborted when
   it began (balancer.go:650-656).                                           *)
THEOREM BalancerReports == BalancerSpec => []ReportAccountsForDone
<1>1. BalancerInv => ReportAccountsForDone
  <2>1. SUFFICES ASSUME BalancerInv, report.st = "three"
                 PROVE  report.total - report.ok - report.failed <= backlog
    BY DEF ReportAccountsForDone
  <2>2. /\ report.total \in Nat /\ report.ok \in Nat /\ report.failed \in Nat
        /\ backlog \in Nat
    BY <2>1 DEF BalancerInv, BalancerTypeOK, Reports
  <2>3. QED
    BY <2>1, <2>2 DEF BalancerInv, ReportSoFar
<1>2. QED
  BY <1>1, BalancerInvariant, PTL

(* With no request under way no serverRIF gauge shows as many as there are handlers,
   although those that left may have set it in any order (balancer.go:582-585). *)
THEOREM BalancerGauge == BalancerSpec => []GaugeBounded
<1>1. BalancerInv => GaugeBounded
  <2>1. SUFFICES ASSUME BalancerInv, Unfinished = {}, NEW s \in Server
                 PROVE  gauge[s] < Cardinality(Handler)
    BY DEF GaugeBounded
  <2>2. \A h \in Handler : pc[h] = "idle"
    BY <2>1 DEF Unfinished
  <2>3. QED
    BY <2>1, <2>2 DEF BalancerInv, GaugeSoFar, BetweenSets
<1>2. QED
  BY <1>1, BalancerInvariant, PTL
=============================================================================
