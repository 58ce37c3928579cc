----------------------------- MODULE Selection -----------------------------
(***************************************************************************)
(* What SelectServer promises, whichever policy answers it: the server it  *)
(* returns was healthy at some moment of the call, it gives up only at a   *)
(* moment when no server is healthy, and it always answers.                *)
(*                                                                         *)
(* A policy may look at the health of one server at a time and return long *)
(* after it looked; it may not return a server that was unhealthy          *)
(* throughout the call, however good its old observations were.            *)
(***************************************************************************)
CONSTANTS Server, Client

VARIABLES healthy,   \* healthy[s]: s is in rotation
          phase,     \* phase[c]: what goroutine c is doing
          eligible,  \* eligible[c]: servers healthy at a moment of c's call
          answer     \* answer[c]: what the call returned: {} for none, or {s}

selectionVars == <<healthy, phase, eligible, answer>>

HealthyServers == {s \in Server : healthy[s]}

SelectionInit ==
    /\ healthy = [s \in Server |-> TRUE]
    /\ phase = [c \in Client |-> "idle"]
    /\ eligible = [c \in Client |-> {}]
    /\ answer = [c \in Client |-> {}]

Call(c) ==
    /\ phase[c] = "idle"
    /\ phase' = [phase EXCEPT ![c] = "selecting"]
    /\ eligible' = [eligible EXCEPT ![c] = HealthyServers]
    /\ UNCHANGED <<healthy, answer>>

\* A probe result sets the health of a server.
Observe(s, ok) ==
    /\ healthy' = [healthy EXCEPT ![s] = ok]
    /\ eligible' = [c \in Client |->
                      IF phase[c] = "selecting" THEN eligible[c] \cup HealthyServers'
                                                ELSE eligible[c]]
    /\ UNCHANGED <<phase, answer>>

Decide(c) ==
    /\ phase[c] = "selecting"
    /\ \/ \E s \in eligible[c] : answer' = [answer EXCEPT ![c] = {s}]
       \/ /\ HealthyServers = {}
          /\ answer' = [answer EXCEPT ![c] = {}]
    /\ phase' = [phase EXCEPT ![c] = "decided"]
    /\ eligible' = [eligible EXCEPT ![c] = {}]
    /\ healthy' = healthy

Return(c) ==
    /\ phase[c] = "decided"
    /\ phase' = [phase EXCEPT ![c] = "idle"]
    /\ answer' = [answer EXCEPT ![c] = {}]
    /\ UNCHANGED <<healthy, eligible>>

SelectionNext ==
    \/ \E c \in Client : Call(c) \/ Decide(c) \/ Return(c)
    \/ \E s \in Server, ok \in BOOLEAN : Observe(s, ok)

SelectionSafety == SelectionInit /\ [][SelectionNext]_selectionVars

\* Every call is answered, by a server or by none.
CallsAnswered == \A c \in Client : phase[c] = "selecting" ~> phase[c] = "decided"
=============================================================================
