------------------------------ MODULE Balancer ------------------------------
(***************************************************************************)
(* The HTTP side of the balancer: one goroutine per request runs ServeHTTP *)
(* and forwardRequest, a goroutine answers /healthz, and main serves until *)
(* a signal stops it.  The counters and gauges they share are atomic one   *)
(* by one and never together, so each access is a step of its own.         *)
(*                                                                         *)
(* A handler goes through                                                  *)
(*    idle -> selecting    TotalRequests was counted                       *)
(*         -> entered      ClientRIF was incremented                       *)
(*         -> announcing   the new ClientRIF was loaded for the gauge      *)
(*         -> proxying     the gauge was set                               *)
(*         -> unwinding    the proxy is through; the deferred call runs    *)
(*         -> left         ClientRIF was decremented                       *)
(*         -> settling     the new ClientRIF was loaded for the gauge      *)
(*         -> counting     the gauge was set                               *)
(*         -> idle         SuccessfulRequests was counted                  *)
(* Which server SelectServer answers is the business of Selection: here it *)
(* may be any of them, or none.                                            *)
(***************************************************************************)
EXTENDS Integers, FiniteSets

CONSTANTS Server,       \* backend replicas
          Handler,      \* goroutines of net/http that run ServeHTTP
          Malformed,    \* servers whose address url.Parse refuses
          MaxRequests   \* requests accepted in all (a bound)

ASSUME HandlerAssumption == IsFiniteSet(Handler) /\ Handler # {}
ASSUME MalformedAssumption == Malformed \subseteq Server
ASSUME MaxRequestsAssumption == MaxRequests \in Nat

VARIABLES pc,          \* pc[h]: where goroutine h is
          srv,         \* srv[h]: the server h forwards to, {} before the selection
          panicked,    \* the goroutines that are unwinding from a panic
          held,        \* held[h]: the ClientRIF h loaded and has yet to publish
          clientRIF,   \* Server.ClientRIF
          gauge,       \* metrics.serverRIF
          active,      \* metrics.activeRequests
          total, ok, failed,  \* lb.stats
          errors,      \* metrics.requestErrors, by reason
          aborted,     \* requests that ended in a panic, a history variable
          report,      \* the counters /healthz has loaded so far
          backlog,     \* requests unfinished or aborted when /healthz loaded the
                       \* first counter, a history variable
          phase        \* main: "serving", "draining" or "exited"

handlerVars == <<pc, srv, panicked, held>>
rifVars     == <<clientRIF, gauge, active>>
statVars    == <<total, ok, failed, errors, aborted>>
reportVars  == <<report, backlog>>
balancerVars == <<handlerVars, rifVars, statVars, reportVars, phase>>

\* Where a handler is between the two halves of the accounting of forwardRequest.
Forwarding == {"entered", "announcing", "proxying", "unwinding"}

States == Forwarding \cup {"idle", "selecting", "left", "settling", "counting"}

\* Handlers whose request is counted and not finished.
Unfinished == {h \in Handler : pc[h] # "idle"}

InForward(s) == {h \in Handler : pc[h] \in Forwarding /\ srv[h] = {s}}

\* Handlers that have incremented activeRequests and not decremented it.
Announced == {"announcing", "proxying", "unwinding", "left"}
InGauge == {h \in Handler : pc[h] \in Announced}

\* What Stats returns, load by load.
Reports == [st : {"idle"}]
           \cup [st : {"one"}, total : Nat]
           \cup [st : {"two"}, total : Nat, ok : Nat]
           \cup [st : {"three"}, total : Nat, ok : Nat, failed : Nat]

BalancerTypeOK ==
    /\ pc \in [Handler -> States]
    /\ srv \in [Handler -> {{}} \cup {{s} : s \in Server}]
    /\ \A h \in Handler : srv[h] = {} <=> pc[h] \in {"idle", "selecting"}
    /\ panicked \subseteq {h \in Handler : pc[h] \in {"unwinding", "left", "settling"}}
    /\ held \in [Handler -> Int]
    /\ clientRIF \in [Server -> Int]
    /\ gauge \in [Server -> Int]
    /\ active \in Int
    /\ total \in Nat /\ ok \in Nat /\ failed \in Nat /\ aborted \in Nat
    /\ errors \in [{"no_server", "proxy_error"} -> Nat]
    /\ report \in Reports
    /\ backlog \in Nat
    /\ phase \in {"serving", "draining", "exited"}

BalancerInit ==
    /\ pc = [h \in Handler |-> "idle"]
    /\ srv = [h \in Handler |-> {}]
    /\ panicked = {}
    /\ held = [h \in Handler |-> 0]
    /\ clientRIF = [s \in Server |-> 0]
    /\ gauge = [s \in Server |-> 0]
    /\ active = 0
    /\ total = 0 /\ ok = 0 /\ failed = 0 /\ aborted = 0
    /\ errors = [reason \in {"no_server", "proxy_error"} |-> 0]
    /\ report = [st |-> "idle"]
    /\ backlog = 0
    /\ phase = "serving"

-----------------------------------------------------------------------------
(* ServeHTTP, up to the selection.                                         *)

Go(h, from, to) == pc[h] = from /\ pc' = [pc EXCEPT ![h] = to]

\* A connection hands its next request to a handler while main listens.
Accept(h) ==
    /\ phase = "serving" /\ total < MaxRequests
    /\ Go(h, "idle", "selecting")
    /\ total' = total + 1
    /\ UNCHANGED <<srv, panicked, held, rifVars, ok, failed, errors, aborted,
                   reportVars, phase>>

\* Mutant: the return after the 503 is missing.
NoServerGoesOn(h) ==
    /\ Go(h, "selecting", "counting")
    /\ failed' = failed + 1
    /\ errors' = [errors EXCEPT !["no_server"] = @ + 1]
    /\ UNCHANGED <<srv, panicked, held, rifVars, total, ok, aborted, reportVars, phase>>

\* The selection found nothing: 503.
NoServer(h) ==
    /\ Go(h, "selecting", "idle")
    /\ failed' = failed + 1
    /\ errors' = [errors EXCEPT !["no_server"] = @ + 1]
    /\ UNCHANGED <<srv, panicked, held, rifVars, total, ok, aborted, reportVars, phase>>

-----------------------------------------------------------------------------
(* forwardRequest.                                                         *)

Enter(h, s) ==
    /\ Go(h, "selecting", "entered")
    /\ srv' = [srv EXCEPT ![h] = {s}]
    /\ clientRIF' = [clientRIF EXCEPT ![s] = @ + 1]
    /\ UNCHANGED <<panicked, held, gauge, active, statVars, reportVars, phase>>

Announce(h, s) ==
    /\ Go(h, "entered", "announcing")
    /\ srv[h] = {s}
    /\ active' = active + 1
    /\ held' = [held EXCEPT ![h] = clientRIF[s]]
    /\ UNCHANGED <<srv, panicked, clientRIF, gauge, statVars, reportVars, phase>>

\* The gauge is set to what was loaded, on the way in and on the way out; what
\* follows on the way out depends on whether a panic is unwinding.
Publish(h, s) ==
    /\ srv[h] = {s}
    /\ gauge' = [gauge EXCEPT ![s] = held[h]]
    /\ held' = [held EXCEPT ![h] = 0]
    /\ \/ /\ Go(h, "announcing", "proxying")
          /\ UNCHANGED <<srv, panicked, aborted>>
       \/ /\ h \notin panicked
          /\ Go(h, "settling", "counting")
          /\ UNCHANGED <<srv, panicked, aborted>>
       \/ /\ h \in panicked
          /\ Go(h, "settling", "idle")
          /\ panicked' = panicked \ {h}
          /\ srv' = [srv EXCEPT ![h] = {}]
          /\ aborted' = aborted + 1
    /\ UNCHANGED <<clientRIF, active, total, ok, failed, errors, reportVars, phase>>

\* The address is refused and a 500 written, with no counter touched, or the
\* proxy copied the whole answer of the server, whatever its status.
Proxied(h) ==
    /\ Go(h, "proxying", "unwinding")
    /\ UNCHANGED <<srv, panicked, held, rifVars, statVars, reportVars, phase>>

\* The proxy could not reach the server: ErrorHandler, 502.
ProxyError(h) ==
    /\ srv[h] \cap Malformed = {}
    /\ Go(h, "proxying", "unwinding")
    /\ failed' = failed + 1
    /\ errors' = [errors EXCEPT !["proxy_error"] = @ + 1]
    /\ UNCHANGED <<srv, panicked, held, rifVars, total, ok, aborted, reportVars, phase>>

\* The server or the client went away in the middle of the answer: ReverseProxy
\* panics with ErrAbortHandler and net/http recovers from it.
Abort(h) ==
    /\ srv[h] \cap Malformed = {}
    /\ Go(h, "proxying", "unwinding")
    /\ panicked' = panicked \cup {h}
    /\ UNCHANGED <<srv, held, rifVars, statVars, reportVars, phase>>

\* Mutant: the decrement is not deferred, so that a panic skips it.
ExitUndeferred(h, s) ==
    /\ srv[h] = {s}
    /\ Go(h, "unwinding", "left")
    /\ clientRIF' = [clientRIF EXCEPT ![s] = IF h \in panicked THEN @ ELSE @ - 1]
    /\ UNCHANGED <<srv, panicked, held, gauge, active, statVars, reportVars, phase>>

\* The deferred call, which a panic runs as well.
Exit(h, s) ==
    /\ srv[h] = {s}
    /\ Go(h, "unwinding", "left")
    /\ clientRIF' = [clientRIF EXCEPT ![s] = @ - 1]
    /\ UNCHANGED <<srv, panicked, held, gauge, active, statVars, reportVars, phase>>

\* Mutant: the load comes before the decrement.
SettleBeforeDecrement(h, s) ==
    /\ srv[h] = {s}
    /\ Go(h, "left", "settling")
    /\ active' = active - 1
    /\ held' = [held EXCEPT ![h] = clientRIF[s] + 1]
    /\ UNCHANGED <<srv, panicked, clientRIF, gauge, statVars, reportVars, phase>>

Settle(h, s) ==
    /\ srv[h] = {s}
    /\ Go(h, "left", "settling")
    /\ active' = active - 1
    /\ held' = [held EXCEPT ![h] = clientRIF[s]]
    /\ UNCHANGED <<srv, panicked, clientRIF, gauge, statVars, reportVars, phase>>

\* Back in ServeHTTP, which does not know how the forwarding ended.
Count(h) ==
    /\ Go(h, "counting", "idle")
    /\ ok' = ok + 1
    /\ srv' = [srv EXCEPT ![h] = {}]
    /\ UNCHANGED <<panicked, held, rifVars, total, failed, errors, aborted,
                   reportVars, phase>>

-----------------------------------------------------------------------------
(* /healthz: Stats loads the three counters one after the other.           *)

LoadTotal ==
    /\ report.st = "idle"
    /\ report' = [st |-> "one", total |-> total]
    /\ backlog' = Cardinality(Unfinished) + aborted

LoadOk ==
    /\ report.st = "one"
    /\ report' = [st |-> "two", total |-> report.total, ok |-> ok]
    /\ backlog' = backlog

\* Mutant: TotalRequests is loaded last.
LoadTotalLast ==
    /\ report.st = "two"
    /\ report' = [st |-> "three", total |-> total, ok |-> report.ok, failed |-> failed]
    /\ backlog' = backlog

LoadFailed ==
    /\ report.st = "two"
    /\ report' = [st |-> "three", total |-> report.total, ok |-> report.ok,
                  failed |-> failed]
    /\ backlog' = backlog

Reported ==
    /\ report.st = "three"
    /\ report' = [st |-> "idle"]
    /\ backlog' = 0

Healthz ==
    /\ LoadTotal \/ LoadOk \/ LoadFailed \/ Reported
    /\ UNCHANGED <<handlerVars, rifVars, statVars, phase>>

-----------------------------------------------------------------------------
(* main.                                                                   *)

\* A signal arrives: Shutdown closes the listeners before it waits for anything.
Shutdown ==
    /\ phase = "serving"
    /\ phase' = "draining"
    /\ UNCHANGED <<handlerVars, rifVars, statVars, reportVars>>

\* ListenAndServe has returned ErrServerClosed and main returns with it.
MainReturns ==
    /\ phase = "draining"
    /\ phase' = "exited"
    /\ UNCHANGED <<handlerVars, rifVars, statVars, reportVars>>

-----------------------------------------------------------------------------

Handle(h) ==
    \/ Accept(h) \/ NoServer(h)
    \/ \E s \in Server : Enter(h, s) \/ Announce(h, s) \/ Publish(h, s)
    \/ Proxied(h) \/ ProxyError(h) \/ Abort(h)
    \/ \E s \in Server : Exit(h, s) \/ Settle(h, s)
    \/ Count(h)

BalancerNext ==
    \/ phase # "exited" /\ \E h \in Handler : Handle(h)
    \/ phase # "exited" /\ Healthz
    \/ Shutdown
    \/ MainReturns

BalancerSpec == BalancerInit /\ [][BalancerNext]_balancerVars

-----------------------------------------------------------------------------

\* ClientRIF, which the least-loaded policies route by, is the number of requests
\* inside forwardRequest, and activeRequests the number that announced themselves:
\* no interleaving, proxy error or panic makes either of them drift.
InFlightExact ==
    /\ \A s \in Server : clientRIF[s] = Cardinality(InForward(s))
    /\ active = Cardinality(InGauge)

\* Every request is accounted for once: it is still under way, or it was counted
\* ok, or refused for want of a server, or it ended in a panic.
Accounted ==
    total = ok + errors["no_server"] + aborted + Cardinality(Unfinished)

\* The three loads of /healthz are no snapshot, but in the order they are made the
\* requests missing from a report were all unfinished or aborted when it began: a
\* request that is counted in its total and done by then is in ok or in err.
ReportAccountsForDone ==
    report.st = "three" => report.total - report.ok - report.failed <= backlog

\* serverRIF "records this balancer's per-server in-flight request count"
\* (metrics.go:16).  The decrement, the load and the Set of a handler that leaves are
\* three steps (balancer.go:582-585), and the handler that loaded first may set last,
\* so with no request under way the gauge need not be back at zero.  But what it
\* shows then was loaded by a handler that no longer counted itself: it is less than
\* the number of handlers.
GaugeBounded ==
    Unfinished = {} => \A s \in Server : gauge[s] < Cardinality(Handler)

\* "Handle container stop signals without dropping in-flight proxy requests"
\* (cmd/balancer/main.go:119).
NoneDropped == phase = "exited" => Unfinished = {}
=============================================================================
