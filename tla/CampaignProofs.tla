--------------------------- MODULE CampaignProofs ---------------------------
(***************************************************************************)
(* What holds of a preparation and of a campaign for every number of       *)
(* hosts, backends, threads and attempts, every list of counts, and        *)
(* however often the script is started.                                    *)
(*                                                                         *)
(* Of the scripts three facts are used: they are commands on containers,   *)
(* the scripts of two tasks share no container, and the last command a     *)
(* script gives on each of its containers starts it.  The rest is an       *)
(* invariant of two parts.  The tasks: what a task that left no command    *)
(* behind has done so far is in effect.  The script: the counts before idx *)
(* are done, whatever earlier scripts and their experiments did.           *)
(***************************************************************************)
EXTENDS Campaign, FiniteSetTheorems, TLAPS

-----------------------------------------------------------------------------
(* Who is where.                                                           *)

(* A number is a quotient and a remainder in one way only. *)
LEMMA QuotientUnique ==
    ASSUME NEW n \in Nat \ {0}, NEW q \in Int, NEW p \in Int,
           NEW r \in 0 .. n - 1, NEW s \in 0 .. n - 1, n * q + r = n * p + s
    PROVE  q = p /\ r = s
OBVIOUS

(* A factor that is not zero can be cancelled. *)
LEMMA Cancel ==
    ASSUME NEW n \in Nat \ {0}, NEW p \in Int, NEW q \in Int, NEW t \in Int,
           t + p * n = t + q * n
    PROVE  p = q
<1>1. n * p + 0 = n * q + 0
  OBVIOUS
<1>2. QED
  BY <1>1, QuotientUnique

(* Of two backends on one host the later one has the larger port
   (port_ctr, prepare.py:257).                                              *)
LEMMA PortsAscend ==
    ASSUME NEW g \in Backend, NEW h \in Backend, g < h, HostOf(g) = HostOf(h)
    PROVE  Port(g) # Port(h)
<1> DEFINE Here(x) == {y \in 1 .. x : HostOf(y) = HostOf(x)}
<1>1. g \in Nat /\ h \in Nat
  BY PrepareAssumption DEF Backend
<1>2. Here(g) \subseteq Here(h) \ {h} /\ h \in Here(h)
  <2>1. h \in Here(h)
    BY <1>1, PrepareAssumption DEF Backend
  <2>2. ASSUME NEW y \in Here(g) PROVE y \in Here(h) \ {h}
    BY <1>1
  <2>3. QED
    BY <2>1, <2>2
<1>3. IsFiniteSet(Here(h))
  <2>1. IsFiniteSet(1 .. h) /\ Here(h) \subseteq 1 .. h
    BY <1>1, FS_Interval
  <2>2. QED
    BY <2>1, FS_Subset
<1>4. Port(g) = Cardinality(Here(g)) /\ Port(h) = Cardinality(Here(h))
  BY DEF Port
<1> HIDE DEF Here
<1>5. /\ IsFiniteSet(Here(h) \ {h})
      /\ Cardinality(Here(h) \ {h}) = Cardinality(Here(h)) - 1
  BY <1>2, <1>3, FS_RemoveElement
<1>6. Cardinality(Here(g)) <= Cardinality(Here(h) \ {h})
  BY <1>2, <1>5, FS_Subset
<1>7. Cardinality(Here(g)) \in Nat /\ Cardinality(Here(h)) \in Nat
  BY <1>2, <1>3, <1>5, FS_Subset, FS_CardinalityType
<1>8. QED
  BY <1>4, <1>5, <1>6, <1>7

(* The addresses of LB_SERVERS are distinct, those of one host by their ports
   and those of different hosts by the host.                                *)
LEMMA AddressUnique ==
    ASSUME NEW g \in Backend, NEW h \in Backend, g # h
    PROVE  Address(g) # Address(h)
<1>1. CASE HostOf(g) = HostOf(h)
  <2>1. g < h \/ h < g
    BY PrepareAssumption DEF Backend
  <2>2. Port(g) # Port(h)
    BY <1>1, <2>1, PortsAscend
  <2>3. QED
    BY <2>2 DEF Address
<1>2. CASE HostOf(g) # HostOf(h)
  BY <1>2 DEF Address
<1>3. QED
  BY <1>1, <1>2

-----------------------------------------------------------------------------
(* The scripts.                                                            *)

Order == [op : {"rm", "run"}, container : Container]

(* What a host is given are backends, each of them once. *)
LEMMA ItemsShape ==
    ASSUME NEW i \in 1 .. Len(Hosts)
    PROVE  /\ ItemsOf(i) \in Seq(Backend)
           /\ \A k \in DOMAIN ItemsOf(i) : ItemsOf(i)[k] = i + (k - 1) * Len(Hosts)
<1> DEFINE L == Len(Hosts)
<1> DEFINE m == (Backends - i) \div L + 1
<1>1. L \in Nat \ {0} /\ Backends \in Nat \ {0}
  BY HostsAssumption, PrepareAssumption
<1>2. i \in Nat /\ 1 <= i /\ i <= L
  BY <1>1
<1>3. m \in Nat /\ L * (m - 1) <= Backends - i
  <2>1. \A n \in Nat \ {0}, x \in Int : (x \div n) \in Int /\ n * (x \div n) <= x
                                      /\ (x > -n => (x \div n) >= -1)
    OBVIOUS
  <2>2. Backends - i \in Int /\ Backends - i > -L
    BY <1>1, <1>2
  <2>3. QED
    BY <2>1, <2>2, <1>1
<1>4. ItemsOf(i) = [k \in 1 .. m |-> i + (k - 1) * L]
  BY DEF ItemsOf
<1> HIDE DEF m, L
<1>5. ASSUME NEW k \in 1 .. m PROVE i + (k - 1) * L \in Backend
  <2>1. k \in Nat /\ 1 <= k /\ k <= m
    BY <1>3
  <2>2. 0 <= L * (k - 1) /\ L * (k - 1) <= L * (m - 1)
    BY <2>1, <1>1, <1>3
  <2>3. L * (k - 1) \in Int /\ L * (k - 1) = (k - 1) * L
    BY <2>1, <1>1
  <2>4. QED
    BY <2>2, <2>3, <1>1, <1>2, <1>3 DEF Backend
<1>6. QED
  BY <1>3, <1>4, <1>5 DEF L

(* A host's script: for each of its backends, one after the other, the old
   container is removed and a new one is started.                           *)
LEMMA BackendScriptShape ==
    ASSUME NEW i \in 1 .. Len(Hosts)
    PROVE  LET m == Len(ItemsOf(i))
               s == BackendScript(ItemsOf(i))
           IN  /\ m \in Nat /\ s \in Seq(Order) /\ Len(s) = 2 * m
               /\ \A k \in 1 .. 2 * m :
                     /\ (k + 1) \div 2 \in 1 .. m
                     /\ s[k] = IF k % 2 = 1
                               THEN Rm(BackendServer(ItemsOf(i)[(k + 1) \div 2]))
                               ELSE Run(BackendServer(ItemsOf(i)[(k + 1) \div 2]))
<1> DEFINE items == ItemsOf(i)
<1> DEFINE m == Len(items)
<1> DEFINE s == BackendScript(items)
<1>1. items \in Seq(Backend) /\ m \in Nat /\ DOMAIN items = 1 .. m
  BY ItemsShape
<1>2. \A k \in 1 .. 2 * m : (k + 1) \div 2 \in 1 .. m
  BY <1>1
<1> DEFINE Nth(k) == IF k % 2 = 1 THEN Rm(BackendServer(items[(k + 1) \div 2]))
                                  ELSE Run(BackendServer(items[(k + 1) \div 2]))
<1>3. s = [k \in 1 .. 2 * m |-> Nth(k)]
  BY DEF BackendScript
<1> HIDE DEF items
<1>4. ASSUME NEW k \in 1 .. 2 * m PROVE Nth(k) \in Order
  <2>1. items[(k + 1) \div 2] \in Backend
    BY <1>1, <1>2
  <2>2. BackendServer(items[(k + 1) \div 2]) \in Container
    BY <2>1 DEF Container
  <2> HIDE DEF m
  <2>3. QED
    BY <2>2 DEF Rm, Run, Order
<1> HIDE DEF Nth, m, s
<1>5. s \in Seq(Order) /\ Len(s) = 2 * m /\ \A k \in 1 .. 2 * m : s[k] = Nth(k)
  BY <1>1, <1>3, <1>4
<1>6. QED
  BY <1>1, <1>2, <1>5 DEF items, m, s, Nth

(* Which script is whose. *)
LEMMA Scripts ==
    /\ Len(Hosts) \in Nat \ {0}
    /\ Task = 1 .. Len(Hosts) \cup {LB, BG, Monitor}
    /\ LB # BG /\ BG # Monitor /\ LB # Monitor
    /\ \A t \in 1 .. Len(Hosts) :
          t # LB /\ t # BG /\ t # Monitor /\ Script(t) = BackendScript(ItemsOf(t))
    /\ Script(LB) = LBScript /\ Script(BG) = BGLoadScript /\ Script(Monitor) = MonitorScript
<1>1. Len(Hosts) \in Nat \ {0}
  BY HostsAssumption
<1>2. LB # BG /\ BG # Monitor /\ LB # Monitor
  BY <1>1 DEF LB, BG, Monitor
<1>3. \A t \in 1 .. Len(Hosts) : t # LB /\ t # BG /\ t # Monitor
  BY <1>1 DEF LB, BG, Monitor
<1>4. Task = 1 .. Len(Hosts) \cup {LB, BG, Monitor}
  BY <1>1 DEF Task, LB, BG, Monitor
<1>5. \A t \in 1 .. Len(Hosts) : Script(t) = BackendScript(ItemsOf(t))
  BY <1>3, Zenon DEF Script
<1>6. Script(LB) = LBScript
  BY <1>2, Zenon DEF Script
<1>7. Script(BG) = BGLoadScript
  BY <1>2, Zenon DEF Script
<1>8. Script(Monitor) = MonitorScript
  BY <1>2, Zenon DEF Script
<1>9. QED
  BY <1>1, <1>2, <1>3, <1>4, <1>5, <1>6, <1>7, <1>8

(* The containers of the load balancers, bgload and the monitor. *)
LEMMA OtherContainers ==
    /\ {LBPrequal, LBWeightedRR, BGLoad, Prometheus, Grafana} \subseteq Container
    /\ LBPrequal # LBWeightedRR /\ LBPrequal # BGLoad /\ LBPrequal # Prometheus
    /\ LBPrequal # Grafana /\ LBWeightedRR # BGLoad /\ LBWeightedRR # Prometheus
    /\ LBWeightedRR # Grafana /\ BGLoad # Prometheus /\ BGLoad # Grafana
    /\ Prometheus # Grafana
    /\ \A g \in Backend :
          BackendServer(g) \notin {LBPrequal, LBWeightedRR, BGLoad, Prometheus, Grafana}
BY DEF Container, BackendServer, LBPrequal, LBWeightedRR, BGLoad, Prometheus, Grafana

(* A script is a sequence of commands on containers. *)
LEMMA ScriptShape ==
    ASSUME NEW t \in Task
    PROVE  /\ Script(t) \in Seq(Order) /\ Len(Script(t)) \in Nat
           /\ DOMAIN Script(t) = 1 .. Len(Script(t))
<1>1. Script(t) \in Seq(Order)
  <2>1. CASE t \in 1 .. Len(Hosts)
    BY <2>1, Scripts, BackendScriptShape
  <2>2. CASE t = LB
    BY <2>2, Scripts, OtherContainers DEF LBScript, Rm, Run, Order
  <2>3. CASE t = BG
    BY <2>3, Scripts, OtherContainers DEF BGLoadScript, Rm, Run, Order
  <2>4. CASE t = Monitor
    BY <2>4, Scripts, OtherContainers DEF MonitorScript, Rm, Run, Order
  <2>5. QED
    BY <2>1, <2>2, <2>3, <2>4, Scripts
<1>2. QED
  BY <1>1

(* What a host's script touches are the containers of the host's backends, and it
   touches each by two commands that follow each other.                       *)
LEMMA BackendTouched ==
    ASSUME NEW i \in 1 .. Len(Hosts), NEW k \in DOMAIN Script(i)
    PROVE  /\ Script(i)[k].op = IF k % 2 = 1 THEN "rm" ELSE "run"
           /\ \E g \in Backend : /\ Script(i)[k].container = BackendServer(g)
                                 /\ g = i + ((k + 1) \div 2 - 1) * Len(Hosts)
<1> DEFINE m == Len(ItemsOf(i))
<1> DEFINE g == ItemsOf(i)[(k + 1) \div 2]
<1>1. /\ k \in 1 .. 2 * m /\ (k + 1) \div 2 \in 1 .. m /\ m \in Nat
      /\ Script(i)[k] = IF k % 2 = 1 THEN Rm(BackendServer(g)) ELSE Run(BackendServer(g))
  <2>1. Script(i) = BackendScript(ItemsOf(i))
    BY Scripts
  <2>2. m \in Nat /\ DOMAIN Script(i) = 1 .. 2 * m
    BY <2>1, BackendScriptShape
  <2>3. k \in 1 .. 2 * m
    BY <2>2
  <2>4. QED
    BY <2>1, <2>2, <2>3, BackendScriptShape
<1>2. g \in Backend /\ g = i + ((k + 1) \div 2 - 1) * Len(Hosts)
  BY <1>1, ItemsShape, SMTT(30)
<1> HIDE DEF g
<1>3. Script(i)[k].container = BackendServer(g)
  BY <1>1 DEF Rm, Run
<1>4. Script(i)[k].op = IF k % 2 = 1 THEN "rm" ELSE "run"
  BY <1>1 DEF Rm, Run
<1>5. QED
  BY <1>2, <1>3, <1>4

(* What the other scripts touch. *)
LEMMA OthersTouched ==
    ASSUME NEW t \in {LB, BG, Monitor}, NEW k \in DOMAIN Script(t)
    PROVE  /\ t = LB => Script(t)[k].container \in {LBPrequal, LBWeightedRR}
           /\ t = BG => Script(t)[k].container = BGLoad
           /\ t = Monitor => Script(t)[k].container \in {Prometheus, Grafana}
<1>1. CASE t = LB
  <2>1. t # BG /\ t # Monitor
    BY <1>1, Scripts
  <2>2. k \in 1 .. 4 /\ Script(t) = LBScript
    BY <1>1, Scripts DEF LBScript
  <2>3. QED
    BY <2>1, <2>2 DEF LBScript, Rm, Run
<1>2. CASE t = BG
  <2>1. t # LB /\ t # Monitor
    BY <1>2, Scripts
  <2>2. k \in 1 .. 2 /\ Script(t) = BGLoadScript
    BY <1>2, Scripts DEF BGLoadScript
  <2>3. QED
    BY <2>1, <2>2 DEF BGLoadScript, Rm, Run
<1>3. CASE t = Monitor
  <2>1. t # LB /\ t # BG
    BY <1>3, Scripts
  <2>2. k \in 1 .. 4 /\ Script(t) = MonitorScript
    BY <1>3, Scripts DEF MonitorScript
  <2>3. QED
    BY <2>1, <2>2 DEF MonitorScript, Rm, Run
<1>4. QED
  BY <1>1, <1>2, <1>3

(* No container is touched by the scripts of two tasks. *)
LEMMA ScriptsApart ==
    ASSUME NEW s \in Task, NEW t \in Task, s # t,
           NEW j \in DOMAIN Script(s), NEW k \in DOMAIN Script(t)
    PROVE  Script(s)[j].container # Script(t)[k].container
<1>1. CASE s \in 1 .. Len(Hosts) /\ t \in 1 .. Len(Hosts)
  <2> DEFINE L == Len(Hosts)
  <2> DEFINE q == (j + 1) \div 2 - 1
  <2> DEFINE p == (k + 1) \div 2 - 1
  <2>1. PICK g \in Backend : Script(s)[j].container = BackendServer(g) /\ g = s + q * L
    BY <1>1, BackendTouched
  <2>2. PICK h \in Backend : Script(t)[k].container = BackendServer(h) /\ h = t + p * L
    BY <1>1, BackendTouched
  <2>3. j \in Int /\ k \in Int
    BY ScriptShape
  <2>4. L \in Nat \ {0} /\ q \in Int /\ p \in Int
    BY <2>3, Scripts
  <2> DEFINE r == s - 1
  <2> DEFINE u == t - 1
  <2>5. r \in 0 .. L - 1 /\ u \in 0 .. L - 1 /\ r # u /\ s = r + 1 /\ t = u + 1
    BY <1>1, <2>4
  <2> HIDE DEF L, q, p, r, u
  <2>6. L * q + r # L * p + u
    BY <2>4, <2>5, QuotientUnique
  <2>7. /\ q * L = L * q /\ p * L = L * p /\ L * q \in Int /\ L * p \in Int
        /\ r \in Int /\ u \in Int
    BY <2>4, <2>5
  <2>8. g # h
    BY <2>1, <2>2, <2>5, <2>6, <2>7
  <2>9. QED
    BY <2>1, <2>2, <2>8 DEF BackendServer
<1>2. CASE s \in 1 .. Len(Hosts) /\ t \notin 1 .. Len(Hosts)
  BY <1>2, BackendTouched, OthersTouched, OtherContainers, Scripts
<1>3. CASE s \notin 1 .. Len(Hosts) /\ t \in 1 .. Len(Hosts)
  BY <1>3, BackendTouched, OthersTouched, OtherContainers, Scripts
<1>4. CASE s \notin 1 .. Len(Hosts) /\ t \notin 1 .. Len(Hosts)
  <2>1. s \in {LB, BG, Monitor} /\ t \in {LB, BG, Monitor}
    BY <1>4, Scripts
  <2>2. QED
    BY <2>1, OthersTouched, OtherContainers, Scripts
<1>5. QED
  BY <1>1, <1>2, <1>3, <1>4

(* The last command a script gives on a container starts it: docker rm always comes
   before docker run.                                                         *)
LEMMA RunLast ==
    ASSUME NEW t \in Task, NEW k \in DOMAIN Script(t)
    PROVE  \E j \in DOMAIN Script(t) :
              /\ Script(t)[j].container = Script(t)[k].container /\ Script(t)[j].op = "run"
              /\ \A i \in DOMAIN Script(t) :
                    i > j => Script(t)[i].container # Script(t)[k].container
<1>1. CASE t \in 1 .. Len(Hosts)
  <2> DEFINE half(i) == (i + 1) \div 2
  <2> DEFINE m == Len(ItemsOf(t))
  <2> DEFINE j == IF k % 2 = 1 THEN k + 1 ELSE k
  <2>1. m \in Nat /\ DOMAIN Script(t) = 1 .. 2 * m
    BY <1>1, Scripts, BackendScriptShape
  <2> HIDE DEF m
  <2>2. j \in 1 .. 2 * m /\ (j % 2) = 0 /\ half(j) = half(k)
        /\ \A i \in 1 .. 2 * m : i > j => half(i) > half(k)
    BY <2>1
  <2> HIDE DEF j
  <2>3. Script(t)[j].op = "run"
    <3>1. j \in DOMAIN Script(t) /\ ~((j % 2) = 1)
      BY <2>1, <2>2
    <3>2. QED
      BY <3>1, <1>1, BackendTouched
  <2>4. ASSUME NEW i \in 1 .. 2 * m
        PROVE  Script(t)[i].container = Script(t)[k].container <=> half(i) = half(k)
    <3>1. PICK g \in Backend : /\ Script(t)[i].container = BackendServer(g)
                               /\ g = t + (half(i) - 1) * Len(Hosts)
      BY <2>1, <1>1, BackendTouched
    <3>2. PICK h \in Backend : /\ Script(t)[k].container = BackendServer(h)
                               /\ h = t + (half(k) - 1) * Len(Hosts)
      BY <2>1, <1>1, BackendTouched
    <3>3. half(i) \in Int /\ half(k) \in Int /\ Len(Hosts) \in Nat \ {0} /\ t \in Int
      BY <2>1, <1>1, Scripts
    <3> HIDE DEF half
    <3> DEFINE p == half(i) - 1
    <3> DEFINE q == half(k) - 1
    <3>4. /\ p \in Int /\ q \in Int /\ (half(i) = half(k) <=> p = q)
          /\ g = t + p * Len(Hosts) /\ h = t + q * Len(Hosts)
      BY <3>1, <3>2, <3>3, SMTT(30)
    <3> HIDE DEF p, q
    <3>5. g = h <=> half(i) = half(k)
      BY <3>3, <3>4, Cancel
    <3>6. QED
      BY <3>1, <3>2, <3>5 DEF BackendServer
  <2>5. \A i \in 1 .. 2 * m : i > j => half(i) # half(k)
    <3>1. ASSUME NEW i \in 1 .. 2 * m PROVE half(i) \in Int /\ half(k) \in Int
      BY <2>1
    <3> HIDE DEF half
    <3>2. QED
      BY <3>1, <2>2
  <2> HIDE DEF half
  <2>6. QED
    BY <2>1, <2>2, <2>3, <2>4, <2>5
<1>2. CASE t = LB
  <2>1. DOMAIN Script(t) = 1 .. 4 /\ Script(t) = LBScript
    BY <1>2, Scripts DEF LBScript
  <2>2. QED
    BY <2>1, OtherContainers DEF LBScript, Rm, Run
<1>3. CASE t = BG
  <2>1. DOMAIN Script(t) = 1 .. 2 /\ Script(t) = BGLoadScript
    BY <1>3, Scripts DEF BGLoadScript
  <2>2. QED
    BY <2>1 DEF BGLoadScript, Rm, Run
<1>4. CASE t = Monitor
  <2>1. DOMAIN Script(t) = 1 .. 4 /\ Script(t) = MonitorScript
    BY <1>4, Scripts DEF MonitorScript
  <2>2. QED
    BY <2>1, OtherContainers DEF MonitorScript, Rm, Run
<1>5. QED
  BY <1>1, <1>2, <1>3, <1>4, Scripts

-----------------------------------------------------------------------------
(* The invariant of a preparation.                                         *)

PrepareTypeOK ==
    /\ main \in {"idle", "setup", "verify", "done", "failed"}
    /\ state \in [Task -> {"queued", "running", "ok", "failed"}]
    /\ attempt \in [Task -> 0 .. Attempts]
    /\ next \in [Task -> Nat \ {0}]
    /\ \A t \in Task : next[t] <= Len(Script(t)) + 1
    /\ late \in [Task -> Seq(Order)]
    /\ gaveUp \subseteq Task /\ faults \in Nat
    /\ up \in [Container -> {"gone", "old", "new"}]

\* What a command leaves of its container, if it does not fail.
Outcome(command) == IF command.op = "run" THEN "new" ELSE "gone"

\* The commands of the attempt that t is at are in effect, but for those that a later
\* one of them overrode.
InEffect(t) ==
    \A k \in 1 .. next[t] - 1 :
        (\A j \in k + 1 .. next[t] - 1 : Script(t)[j].container # Script(t)[k].container)
        => up[Script(t)[k].container] = Outcome(Script(t)[k])

\* A command left behind is one of the task's own.
LateInv ==
    \A t \in Task : late[t] # <<>> =>
        t \in gaveUp /\ \E k \in DOMAIN Script(t) : late[t][1] = Script(t)[k]

ProgressInv ==
    \A t \in Task :
        /\ state[t] = "queued" => next[t] = 1
        /\ state[t] = "ok" => next[t] = Len(Script(t)) + 1
        /\ main = "idle" => state[t] = "queued"

EffectInv == \A t \in Task \ gaveUp : InEffect(t)

PrepareInv == PrepareTypeOK /\ LateInv /\ ProgressInv /\ EffectInv

(* A command that works changes its container and no other, and none of another
   task.                                                                      *)
LEMMA CommandTouches ==
    ASSUME PrepareTypeOK, NEW t \in Task, NEW k \in DOMAIN Script(t),
           NEW command, command = Script(t)[k], up' = Effect(command)
    PROVE  /\ up' \in [Container -> {"gone", "old", "new"}]
           /\ up'[command.container] = Outcome(command)
           /\ \A c \in Container : c # command.container => up'[c] = up[c]
           /\ \A s \in Task : s # t =>
                 \A j \in DOMAIN Script(s) :
                    up'[Script(s)[j].container] = up[Script(s)[j].container]
<1>1. command \in Order
  BY ScriptShape
<1>2. command.container \in Container
  BY <1>1 DEF Order
<1>3. up' = [up EXCEPT ![command.container] = Outcome(command)]
  BY DEF Effect, Outcome
<1>4. Outcome(command) \in {"gone", "old", "new"}
  BY DEF Outcome
<1>5. /\ up' \in [Container -> {"gone", "old", "new"}]
      /\ up'[command.container] = Outcome(command)
      /\ \A c \in Container : c # command.container => up'[c] = up[c]
  BY <1>2, <1>3, <1>4 DEF PrepareTypeOK
<1>6. ASSUME NEW s \in Task, s # t, NEW j \in DOMAIN Script(s)
      PROVE  up'[Script(s)[j].container] = up[Script(s)[j].container]
  <2>1. Script(s)[j] \in Order
    BY ScriptShape
  <2>2. Script(s)[j].container \in Container
    BY <2>1 DEF Order
  <2>3. Script(s)[j].container # command.container
    BY <1>6, ScriptsApart
  <2>4. QED
    BY <1>5, <2>2, <2>3
<1>7. QED
  BY <1>5, <1>6

(* What a task has done stays in effect as long as nobody touches its containers,
   and when it starts again there is nothing to be in effect.                 *)
LEMMA EffectKept ==
    ASSUME PrepareTypeOK, NEW s \in Task,
           \/ next'[s] = 1
           \/ /\ InEffect(s) /\ next'[s] = next[s]
              /\ \A j \in DOMAIN Script(s) :
                    up'[Script(s)[j].container] = up[Script(s)[j].container]
    PROVE  InEffect(s)'
<1>1. CASE next'[s] = 1
  BY <1>1 DEF InEffect
<1>2. CASE /\ InEffect(s) /\ next'[s] = next[s]
           /\ \A j \in DOMAIN Script(s) :
                 up'[Script(s)[j].container] = up[Script(s)[j].container]
  <2>1. \A k \in 1 .. next[s] - 1 : k \in DOMAIN Script(s)
    BY ScriptShape DEF PrepareTypeOK
  <2>2. QED
    BY <1>2, <2>1 DEF InEffect
<1>3. QED
  BY <1>1, <1>2

(* The next command of a task is in effect, and so are the ones before it that it
   does not override.                                                         *)
LEMMA CommandInEffect ==
    ASSUME PrepareTypeOK, NEW t \in Task, InEffect(t), Command(t)
    PROVE  InEffect(t)'
<1> DEFINE n == next[t]
<1>1. n \in DOMAIN Script(t) /\ n \in Nat \ {0} /\ next'[t] = n + 1
  BY ScriptShape DEF Command, PrepareTypeOK
<1>2. /\ up'[Script(t)[n].container] = Outcome(Script(t)[n])
      /\ \A c \in Container : c # Script(t)[n].container => up'[c] = up[c]
  BY <1>1, CommandTouches DEF Command
<1> HIDE DEF n
<1>3. ASSUME NEW k \in 1 .. next'[t] - 1,
             \A j \in k + 1 .. next'[t] - 1 :
                Script(t)[j].container # Script(t)[k].container
      PROVE  up'[Script(t)[k].container] = Outcome(Script(t)[k])
  <2>1. CASE k = n
    BY <2>1, <1>2
  <2>2. CASE k # n
    <3>1. k \in 1 .. n - 1 /\ n \in k + 1 .. next'[t] - 1
      BY <2>2, <1>1
    <3>2. Script(t)[n].container # Script(t)[k].container
      BY <3>1, <1>3
    <3>3. \A j \in k + 1 .. n - 1 : Script(t)[j].container # Script(t)[k].container
      BY <1>1, <1>3
    <3>4. up[Script(t)[k].container] = Outcome(Script(t)[k])
      BY <3>1, <3>3 DEF InEffect, n
    <3>5. k \in DOMAIN Script(t)
      BY <1>1, <3>1, ScriptShape
    <3>6. Script(t)[k] \in Order
      BY <3>5, ScriptShape
    <3>7. Script(t)[k].container \in Container
      BY <3>6 DEF Order
    <3>8. QED
      BY <1>2, <3>2, <3>4, <3>7
  <2>3. QED
    BY <2>1, <2>2
<1>4. QED
  BY <1>3 DEF InEffect

(* A preparation starts with nothing done and nothing left behind. *)
LEMMA PrepareInitInv == PrepareInit => PrepareInv
<1> SUFFICES ASSUME PrepareInit PROVE PrepareInv
  OBVIOUS
<1>1. PrepareTypeOK
  <2>1. \A t \in Task : Len(Script(t)) \in Nat
    BY ScriptShape
  <2>2. PICK before \in {"gone", "old"} : up = [c \in Container |-> before]
    BY DEF PrepareInit
  <2>3. up \in [Container -> {"gone", "old", "new"}]
    BY <2>2
  <2>4. QED
    BY <2>1, <2>3, PrepareAssumption DEF PrepareInit, PrepareTypeOK
<1>2. LateInv /\ ProgressInv
  BY DEF PrepareInit, LateInv, ProgressInv
<1>3. EffectInv
  BY DEF PrepareInit, EffectInv, InEffect
<1>4. QED
  BY <1>1, <1>2, <1>3 DEF PrepareInv

(* An attempt that is over makes its task start again from the first command, or
   fail; no other task is concerned.                                          *)
LEMMA RetryShape ==
    ASSUME PrepareTypeOK, NEW t \in Task, Retry(t), state[t] = "running"
    PROVE  /\ state' \in [Task -> {"queued", "running", "ok", "failed"}]
           /\ attempt' \in [Task -> 0 .. Attempts]
           /\ next' \in [Task -> Nat \ {0}]
           /\ \A s \in Task : next'[s] <= Len(Script(s)) + 1
           /\ next'[t] = 1 /\ state'[t] \in {"running", "failed"}
           /\ \A s \in Task : s # t => next'[s] = next[s] /\ state'[s] = state[s]
<1>1. attempt[t] \in 0 .. Attempts /\ Attempts \in Nat \ {0}
  BY PrepareAssumption DEF PrepareTypeOK
<1>2. attempt' \in [Task -> 0 .. Attempts]
  <2>1. CASE attempt[t] < Attempts
    <3>1. attempt[t] + 1 \in 0 .. Attempts
      BY <2>1, <1>1
    <3>2. attempt' = [attempt EXCEPT ![t] = attempt[t] + 1]
      BY <2>1 DEF Retry
    <3>3. QED
      BY <3>1, <3>2 DEF PrepareTypeOK
  <2>2. CASE ~(attempt[t] < Attempts)
    BY <2>2 DEF Retry, PrepareTypeOK
  <2>3. QED
    BY <2>1, <2>2
<1>3. /\ state' \in [Task -> {"queued", "running", "ok", "failed"}]
      /\ state'[t] \in {"running", "failed"}
      /\ \A s \in Task : s # t => state'[s] = state[s]
  BY DEF Retry, PrepareTypeOK
<1>4. /\ next' \in [Task -> Nat \ {0}] /\ next'[t] = 1
      /\ \A s \in Task : s # t => next'[s] = next[s]
  BY DEF Retry, PrepareTypeOK
<1>5. \A s \in Task : next'[s] <= Len(Script(s)) + 1
  <2>1. Len(Script(t)) \in Nat
    BY ScriptShape
  <2>2. next'[t] <= Len(Script(t)) + 1
    BY <1>4, <2>1
  <2>3. \A s \in Task : s # t => next'[s] <= Len(Script(s)) + 1
    BY <1>4 DEF PrepareTypeOK
  <2>4. QED
    BY <2>2, <2>3
<1>6. QED
  BY <1>2, <1>3, <1>4, <1>5

(* Every step of prepare.py keeps its invariant.  A late command may undo what its
   own task did, and no other task's.                                         *)
LEMMA PrepareStepInv ==
    ASSUME PrepareInv, [PrepareNext]_prepareVars
    PROVE  PrepareInv'
<1>1. PrepareTypeOK /\ LateInv /\ ProgressInv /\ EffectInv
  BY DEF PrepareInv
<1>2. \A t \in Task : Len(Script(t)) \in Nat
  BY ScriptShape
<1>3. ASSUME NEW t \in Task, Begin(t) PROVE PrepareInv'
  <2>1. PrepareTypeOK'
    BY <1>1, <1>3, PrepareAssumption DEF PrepareTypeOK, Begin
  <2>2. LateInv' /\ ProgressInv'
    BY <1>1, <1>3 DEF LateInv, ProgressInv, Begin, PrepareTypeOK
  <2>3. EffectInv'
    BY <1>1, <1>3, EffectKept DEF EffectInv, Begin
  <2>4. QED
    BY <2>1, <2>2, <2>3 DEF PrepareInv
<1>4. ASSUME NEW t \in Task, Command(t) PROVE PrepareInv'
  <2>1. /\ next[t] \in DOMAIN Script(t) /\ next'[t] = next[t] + 1
        /\ \A s \in Task : s # t => next'[s] = next[s]
    BY <1>1, <1>4, ScriptShape DEF PrepareTypeOK, Command
  <2>2. /\ up' \in [Container -> {"gone", "old", "new"}]
        /\ \A s \in Task : s # t =>
              \A j \in DOMAIN Script(s) :
                 up'[Script(s)[j].container] = up[Script(s)[j].container]
    BY <1>1, <1>4, <2>1, CommandTouches DEF Command
  <2>3. PrepareTypeOK'
    <3>1. next' \in [Task -> Nat \ {0}] /\ next'[t] <= Len(Script(t)) + 1
      BY <1>1, <1>2, <1>4, <2>1 DEF PrepareTypeOK, Command
    <3>2. \A s \in Task : next'[s] <= Len(Script(s)) + 1
      BY <1>1, <2>1, <3>1 DEF PrepareTypeOK
    <3>3. QED
      BY <1>1, <1>4, <2>2, <3>1, <3>2 DEF PrepareTypeOK, Command
  <2>4. LateInv' /\ ProgressInv'
    BY <1>1, <1>4, <2>1 DEF LateInv, ProgressInv, Command
  <2>5. ASSUME NEW s \in Task \ gaveUp' PROVE InEffect(s)'
    <3>1. s \in Task \ gaveUp /\ InEffect(s)
      BY <1>1, <1>4, <2>5 DEF EffectInv, Command
    <3>2. QED
      BY <1>1, <1>4, <2>1, <2>2, <3>1, EffectKept, CommandInEffect
  <2>6. QED
    BY <2>3, <2>4, <2>5 DEF PrepareInv, EffectInv
<1>5. ASSUME NEW t \in Task, Succeed(t) PROVE PrepareInv'
  <2>1. PrepareTypeOK'
    BY <1>1, <1>5 DEF PrepareTypeOK, Succeed
  <2>2. LateInv' /\ ProgressInv'
    BY <1>1, <1>5 DEF LateInv, ProgressInv, Succeed, PrepareTypeOK
  <2>3. EffectInv'
    BY <1>1, <1>5, EffectKept DEF EffectInv, Succeed
  <2>4. QED
    BY <2>1, <2>2, <2>3 DEF PrepareInv
<1>6. ASSUME NEW t \in Task, AttemptFails(t) \/ NameTaken(t) PROVE PrepareInv'
  <2>1. /\ state[t] = "running" /\ Retry(t) /\ faults' \in Nat
        /\ UNCHANGED <<main, late, gaveUp, up>>
    BY <1>1, <1>6 DEF AttemptFails, NameTaken, PrepareTypeOK
  <2>2. PrepareTypeOK'
    BY <1>1, <1>2, <2>1, RetryShape DEF PrepareTypeOK
  <2>3. LateInv' /\ ProgressInv'
    BY <1>1, <2>1, RetryShape DEF LateInv, ProgressInv
  <2>4. EffectInv'
    BY <1>1, <2>1, RetryShape, EffectKept DEF EffectInv
  <2>5. QED
    BY <2>2, <2>3, <2>4 DEF PrepareInv
<1>7. ASSUME NEW t \in Task, AttemptTimesOut(t) PROVE PrepareInv'
  <2> DEFINE command == Script(t)[next[t]]
  <2>1. /\ state[t] = "running" /\ Retry(t) /\ faults' \in Nat
        /\ UNCHANGED <<main, up>> /\ gaveUp' = gaveUp \cup {t}
        /\ late' = [late EXCEPT ![t] = <<command>>]
    BY <1>1, <1>7 DEF AttemptTimesOut, PrepareTypeOK
  <2>2. next[t] \in DOMAIN Script(t) /\ command \in Order
    BY <1>1, <1>7, ScriptShape DEF AttemptTimesOut, PrepareTypeOK
  <2>3. PrepareTypeOK'
    <3>1. late' \in [Task -> Seq(Order)]
      <4> HIDE DEF command
      <4>1. <<command>> \in Seq(Order)
        BY <2>2
      <4>2. QED
        BY <1>1, <2>1, <4>1 DEF PrepareTypeOK
    <3>2. QED
      BY <1>1, <1>2, <2>1, <3>1, RetryShape DEF PrepareTypeOK
  <2>4. LateInv'
    <3>1. late'[t] = <<command>> /\ \A s \in Task : s # t => late'[s] = late[s]
      BY <1>1, <2>1 DEF PrepareTypeOK
    <3>2. late'[t][1] = Script(t)[next[t]]
      BY <3>1
    <3>3. QED
      BY <1>1, <2>1, <2>2, <3>1, <3>2 DEF LateInv
  <2>5. ProgressInv'
    BY <1>1, <2>1, RetryShape DEF ProgressInv
  <2>6. EffectInv'
    BY <1>1, <2>1, RetryShape, EffectKept DEF EffectInv
  <2>7. QED
    BY <2>3, <2>4, <2>5, <2>6 DEF PrepareInv
<1>8. ASSUME NEW t \in Task, LateCommand(t) PROVE PrepareInv'
  <2>1. PICK k \in DOMAIN Script(t) : late[t][1] = Script(t)[k]
    BY <1>1, <1>8 DEF LateCommand, LateInv
  <2>2. /\ up' \in [Container -> {"gone", "old", "new"}]
        /\ \A s \in Task : s # t =>
              \A j \in DOMAIN Script(s) :
                 up'[Script(s)[j].container] = up[Script(s)[j].container]
    <3>1. CASE Works(late[t][1])
      <4>1. up' = Effect(late[t][1])
        BY <3>1, <1>8 DEF LateCommand
      <4>2. QED
        BY <4>1, <1>1, <2>1, CommandTouches
    <3>2. CASE ~Works(late[t][1])
      BY <3>2, <1>1, <1>8 DEF LateCommand, PrepareTypeOK
    <3>3. QED
      BY <3>1, <3>2
  <2>3. PrepareTypeOK'
    <3>1. late' \in [Task -> Seq(Order)]
      BY <1>1, <1>8 DEF LateCommand, PrepareTypeOK
    <3>2. QED
      BY <1>1, <1>8, <2>2, <3>1 DEF LateCommand, PrepareTypeOK
  <2>4. LateInv' /\ ProgressInv'
    BY <1>1, <1>8 DEF LateInv, ProgressInv, LateCommand, PrepareTypeOK
  <2>5. t \in gaveUp
    BY <1>1, <1>8 DEF LateInv, LateCommand
  <2>6. EffectInv'
    BY <1>1, <1>8, <2>2, <2>5, EffectKept DEF EffectInv, LateCommand
  <2>7. QED
    BY <2>3, <2>4, <2>6 DEF PrepareInv
<1>9. ASSUME Preflight \/ SetUp \/ Verify PROVE PrepareInv'
  <2>1. UNCHANGED <<taskVars, up>> /\ main' \in {"setup", "verify", "done", "failed"}
    BY <1>9 DEF Preflight, SetUp, Verify
  <2>2. PrepareTypeOK'
    BY <1>1, <2>1 DEF PrepareTypeOK, taskVars
  <2>3. LateInv' /\ ProgressInv'
    BY <1>1, <2>1 DEF LateInv, ProgressInv, taskVars
  <2>4. EffectInv'
    BY <1>1, <2>1, EffectKept DEF EffectInv, taskVars
  <2>5. QED
    BY <2>2, <2>3, <2>4 DEF PrepareInv
<1>10. ASSUME Exit PROVE PrepareInv'
  <2>1. PrepareTypeOK'
    BY <1>1, <1>2, <1>10, PrepareAssumption DEF PrepareTypeOK, Exit
  <2>2. LateInv'
    BY <1>1, <1>10 DEF LateInv, Exit
  <2>3. ProgressInv'
    BY <1>10 DEF ProgressInv, Exit
  <2>4. EffectInv'
    BY <1>1, <1>10, EffectKept DEF EffectInv, Exit
  <2>5. QED
    BY <2>1, <2>2, <2>3, <2>4 DEF PrepareInv
<1>11. CASE UNCHANGED prepareVars
  BY <1>1, <1>11 DEF prepareVars, taskVars, PrepareInv, PrepareTypeOK, LateInv,
     ProgressInv, EffectInv, InEffect
<1>12. QED
  BY <1>3, <1>4, <1>5, <1>6, <1>7, <1>8, <1>9, <1>10, <1>11 DEF PrepareNext, PrepareStep

(* When a task ends well, what it did last to each of its containers was to start
   it, and that is still in effect.                                           *)
LEMMA PrepareInvOk == PrepareInv => OkMeansNew
<1> SUFFICES ASSUME PrepareInv, NEW t \in Task \ gaveUp, state[t] = "ok",
                    NEW k \in DOMAIN Script(t)
             PROVE  up[Script(t)[k].container] = "new"
  BY DEF OkMeansNew
<1>1. InEffect(t) /\ next[t] = Len(Script(t)) + 1
  BY DEF PrepareInv, EffectInv, ProgressInv
<1>2. DOMAIN Script(t) = 1 .. next[t] - 1 /\ next[t] \in Nat
  BY <1>1, ScriptShape
<1>3. PICK j \in DOMAIN Script(t) :
         /\ Script(t)[j].container = Script(t)[k].container /\ Script(t)[j].op = "run"
         /\ \A i \in DOMAIN Script(t) :
               i > j => Script(t)[i].container # Script(t)[k].container
  BY RunLast
<1>4. up[Script(t)[j].container] = Outcome(Script(t)[j])
  BY <1>1, <1>2, <1>3 DEF InEffect
<1>5. QED
  BY <1>3, <1>4 DEF Outcome

(* OkMeansNew: a task that is ok has left exactly what this preparation wants on its
   node, however many attempts failed and wherever they did.                  *)
THEOREM PreparedNodes == PrepareSpec => []OkMeansNew
<1>1. PrepareInit => PrepareInv
  BY PrepareInitInv
<1>2. PrepareInv /\ [PrepareNext]_prepareVars => PrepareInv'
  BY PrepareStepInv
<1>3. PrepareInv => OkMeansNew
  BY PrepareInvOk
<1>4. QED
  BY <1>1, <1>2, <1>3, PTL DEF PrepareSpec

-----------------------------------------------------------------------------
(* The invariant of a campaign.                                            *)

RunRecord == [status : Unfinished \cup {"DONE"}, saved : 0 .. Steps]

CampaignTypeOK ==
    /\ script \in {"idle", "prepare", "clean", "check", "run", "running", "pull", "plot",
                   "plotted"}
    /\ counts \in Plans \cup {<<>>}
    /\ resume \in BOOLEAN /\ unsure \in BOOLEAN
    /\ started \in Nat /\ idx \in Nat \ {0}
    /\ remote \in [Scale -> RunRecord]
    /\ present \subseteq Scale /\ running \subseteq Scale
    /\ local \in [Scale -> RunRecord \cup {None}]
    /\ plotted \in [Scale -> Int]

\* Where the script is on its way through COUNTS.
Looping == {"check", "run", "running"}
Fetching == {"pull", "plot"}

ScriptInv ==
    /\ script # "prepare" => main = "idle"
    /\ script # "idle" => counts \in Plans
    /\ script \in {"prepare", "clean"} => idx = 1
    /\ script = "check" => idx <= Len(counts) + 1
    /\ script \in {"run", "running"} => idx <= Len(counts)
    /\ script \in Fetching => idx = Len(counts) + 1

\* A DONE run has all its phases, and the counts the script is past are done.  The
\* count it runs may be one of them again: its run was removed.
RemoteInv ==
    /\ \A n \in Scale : remote[n].status = "DONE" => remote[n].saved = Steps
    /\ script \in Looping \cup Fetching =>
          \A k \in 1 .. idx - 1 :
             Done(counts[k]) \/ (script = "running" /\ counts[k] = counts[idx])
    /\ script = "running" => counts[idx] \in present

\* Unless the script resumes, the lb node has runs of its own counts only.
CleanInv == script \in Looping \cup Fetching => resume \/ present \subseteq ToSet(counts)

\* When a script that resumes is sure, the run it starts is no run that is done, nor
\* one that goes on.
SureInv ==
    script = "run" /\ resume /\ ~unsure =>
        ~Done(counts[idx]) /\ counts[idx] \notin running

\* What was fetched.
LocalInv ==
    /\ script \in Looping \cup {"prepare", "clean"} => \A n \in Scale : local[n] = None
    /\ script \in Fetching =>
          \A n \in Scale : local[n] # None =>
             /\ n \in present
             /\ n \in ToSet(counts) => local[n].saved = Steps
    /\ script = "plot" => \A n \in present : local[n] # None

CampaignInv ==
    /\ PrepareInv /\ CampaignTypeOK
    /\ ScriptInv /\ RemoteInv /\ CleanInv /\ SureInv /\ LocalInv /\ PlotComplete

(* The counts of a plan, and the counts before the end of it. *)
LEMMA CountsShape ==
    ASSUME NEW list \in Plans
    PROVE  /\ Len(list) \in Nat /\ ToSet(list) \subseteq Scale
           /\ \A k \in 1 .. Len(list) : list[k] \in ToSet(list) /\ list[k] \in Scale
           /\ \A n \in ToSet(list) : \E k \in 1 .. Len(list) : list[k] = n
<1>1. list \in Seq(Backend)
  BY PlansAssumption
<1>2. Len(list) \in Nat /\ DOMAIN list = 1 .. Len(list)
  BY <1>1
<1>3. ToSet(list) = {list[k] : k \in 1 .. Len(list)}
  BY <1>2 DEF ToSet
<1>4. ToSet(list) \subseteq Scale
  BY DEF Scale
<1>5. QED
  BY <1>2, <1>3, <1>4

(* A run is no empty place. *)
LEMMA RunIsSomething ==
    /\ NewRun \in RunRecord /\ NewRun.status # "DONE" /\ NewRun.saved = 0
    /\ \A r \in RunRecord : r # None
BY PlansAssumption DEF RunRecord, NewRun, None, Unfinished

(* The first script finds the lb node without a run. *)
LEMMA CampaignInitInv == CampaignInit => CampaignInv
<1> SUFFICES ASSUME CampaignInit PROVE CampaignInv
  OBVIOUS
<1>1. PrepareInv
  BY PrepareInitInv DEF CampaignInit
<1>2. CampaignTypeOK
  <2>1. remote \in [Scale -> RunRecord]
    BY RunIsSomething DEF CampaignInit
  <2>2. local \in [Scale -> RunRecord \cup {None}] /\ plotted \in [Scale -> Int]
    BY DEF CampaignInit
  <2>3. resume \in BOOLEAN /\ unsure \in BOOLEAN
    BY DEF CampaignInit
  <2>4. QED
    BY <2>1, <2>2, <2>3 DEF CampaignInit, CampaignTypeOK
<1>3. ScriptInv /\ CleanInv /\ SureInv /\ LocalInv /\ PlotComplete
  BY DEF CampaignInit, ScriptInv, CleanInv, SureInv, LocalInv, PlotComplete, Looping,
     Fetching, PrepareInit
<1>4. RemoteInv
  BY RunIsSomething DEF CampaignInit, RemoteInv, Looping, Fetching
<1>5. QED
  BY <1>1, <1>2, <1>3, <1>4 DEF CampaignInv

(* What does not touch the nodes keeps the invariant of the preparation. *)
LEMMA NodesKept ==
    ASSUME PrepareInv, UNCHANGED prepareVars
    PROVE  PrepareInv' /\ main' = main
BY PrepareStepInv DEF prepareVars

(* The script starts, prepares, and removes what it does not resume. *)
LEMMA BeginningInv ==
    ASSUME CampaignInv,
           \/ \E list \in Plans, again, skip \in BOOLEAN : StartScript(list, again, skip)
           \/ Prepared \/ Preparing \/ Clean
    PROVE  CampaignInv'
<1>1. /\ PrepareInv /\ CampaignTypeOK /\ ScriptInv /\ RemoteInv /\ CleanInv /\ SureInv
      /\ LocalInv /\ PlotComplete
  BY DEF CampaignInv
<1>2. ASSUME NEW list \in Plans, NEW again \in BOOLEAN, NEW skip \in BOOLEAN,
             StartScript(list, again, skip)
      PROVE  CampaignInv'
  <2>1. script' \in {"prepare", "clean"} /\ idx' = 1 /\ local' = [n \in Scale |-> None]
    BY <1>2 DEF StartScript
  <2>2. PrepareInv' /\ main' = "idle"
    BY <1>1, <1>2, NodesKept DEF StartScript, ScriptInv
  <2>3. CampaignTypeOK'
    <3>1. /\ local' \in [Scale -> RunRecord \cup {None}]
          /\ plotted' \in [Scale -> Int]
      BY <1>2 DEF StartScript
    <3>2. resume' \in BOOLEAN /\ unsure' \in BOOLEAN
      BY <1>2 DEF StartScript
    <3>3. /\ remote' \in [Scale -> RunRecord]
          /\ present' \subseteq Scale /\ running' \subseteq Scale
      BY <1>1, <1>2 DEF StartScript, lbVars, CampaignTypeOK
    <3>4. /\ script' \in {"prepare", "clean"} /\ counts' \in Plans
          /\ started' \in Nat /\ idx' \in Nat \ {0}
      BY <1>1, <1>2, <2>1 DEF StartScript, CampaignTypeOK
    <3>5. QED
      BY <3>1, <3>2, <3>3, <3>4 DEF CampaignTypeOK
  <2>4. ScriptInv' /\ CleanInv' /\ SureInv' /\ LocalInv' /\ PlotComplete'
    BY <1>2, <2>1, <2>2 DEF StartScript, ScriptInv, CleanInv, SureInv, LocalInv,
       PlotComplete, Looping, Fetching
  <2>5. RemoteInv'
    BY <1>1, <1>2, <2>1 DEF StartScript, RemoteInv, lbVars, Looping, Fetching
  <2>6. QED
    BY <2>2, <2>3, <2>4, <2>5 DEF CampaignInv
<1>3. ASSUME Prepared PROVE CampaignInv'
  <2>1. script = "prepare" /\ script' \in {"clean", "idle"} /\ main' = "idle"
    BY <1>3 DEF Prepared, Exit
  <2>2. PrepareInv'
    BY <1>1, <1>3, PrepareStepInv DEF Prepared, PrepareNext
  <2>3. CampaignTypeOK'
    BY <1>1, <1>3, <2>1 DEF Prepared, CampaignTypeOK, askedVars, lbVars, resultVars
  <2>4. ScriptInv' /\ CleanInv' /\ SureInv' /\ LocalInv' /\ PlotComplete'
    BY <1>1, <1>3, <2>1 DEF Prepared, ScriptInv, CleanInv, SureInv, LocalInv,
       PlotComplete, Looping, Fetching, askedVars, resultVars
  <2>5. RemoteInv'
    BY <1>1, <1>3, <2>1 DEF Prepared, RemoteInv, lbVars, Looping, Fetching
  <2>6. QED
    BY <2>2, <2>3, <2>4, <2>5 DEF CampaignInv
<1>4. ASSUME Preparing PROVE CampaignInv'
  <2>1. script = "prepare" /\ UNCHANGED <<scriptVars, lbVars, resultVars>>
    BY <1>4 DEF Preparing
  <2>2. PrepareInv'
    BY <1>1, <1>4, PrepareStepInv DEF Preparing, PrepareNext
  <2>3. CampaignTypeOK'
    BY <1>1, <2>1 DEF CampaignTypeOK, scriptVars, askedVars, lbVars, resultVars
  <2>4. ScriptInv' /\ CleanInv' /\ SureInv' /\ LocalInv' /\ PlotComplete'
    BY <1>1, <2>1 DEF ScriptInv, CleanInv, SureInv, LocalInv, PlotComplete,
       Looping, Fetching, scriptVars, askedVars, resultVars
  <2>5. RemoteInv'
    BY <1>1, <2>1 DEF RemoteInv, scriptVars, lbVars, Looping, Fetching
  <2>6. QED
    BY <2>2, <2>3, <2>4, <2>5 DEF CampaignInv
<1>5. ASSUME Clean PROVE CampaignInv'
  <2>1. /\ script = "clean" /\ script' = "check" /\ idx' = 1 /\ idx = 1
        /\ counts' = counts /\ resume' = resume /\ counts \in Plans
    BY <1>1, <1>5 DEF Clean, ScriptInv, askedVars
  <2>2. PrepareInv' /\ main' = main
    BY <1>1, <1>5, NodesKept DEF Clean
  <2>3. CampaignTypeOK'
    BY <1>1, <1>5, <2>1 DEF Clean, CampaignTypeOK, askedVars, resultVars
  <2>4. Len(counts) \in Nat
    BY <2>1, CountsShape
  <2>5. ScriptInv' /\ CleanInv' /\ SureInv' /\ LocalInv' /\ PlotComplete'
    BY <1>1, <1>5, <2>1, <2>2, <2>4 DEF Clean, ScriptInv, CleanInv, SureInv, LocalInv,
       PlotComplete, Looping, Fetching, resultVars
  <2>6. RemoteInv'
    BY <1>1, <1>5, <2>1 DEF Clean, RemoteInv, Looping, Fetching
  <2>7. QED
    BY <2>2, <2>3, <2>5, <2>6 DEF CampaignInv
<1>6. QED
  BY <1>2, <1>3, <1>4, <1>5

(* The loop over COUNTS: what is past idx is done. *)
LEMMA LoopInv ==
    ASSUME CampaignInv,
           Check(TRUE) \/ Check(FALSE) \/ StartRun \/ RunOver \/ AllRun
    PROVE  CampaignInv'
<1>1. /\ PrepareInv /\ CampaignTypeOK /\ ScriptInv /\ RemoteInv /\ CleanInv /\ SureInv
      /\ LocalInv /\ PlotComplete
  BY DEF CampaignInv
<1>2. script \in Looping
  BY DEF Check, StartRun, RunOver, AllRun, Looping
<1>3. counts \in Plans /\ counts' = counts /\ resume' = resume /\ main = "idle"
  BY <1>1, <1>2 DEF Check, StartRun, RunOver, AllRun, Looping, ScriptInv, askedVars
<1>4. /\ Len(counts) \in Nat /\ ToSet(counts) \subseteq Scale
      /\ \A k \in 1 .. Len(counts) : counts[k] \in ToSet(counts) /\ counts[k] \in Scale
  BY <1>3, CountsShape
<1>5. PrepareInv' /\ main' = main
  BY <1>1, NodesKept DEF Check, StartRun, RunOver, AllRun
<1>6. idx \in Nat \ {0} /\ local' = local /\ plotted' = plotted
  BY <1>1 DEF Check, StartRun, RunOver, AllRun, CampaignTypeOK, resultVars
<1>7. ASSUME NEW answers \in BOOLEAN, Check(answers) PROVE CampaignInv'
  <2>1. /\ script = "check" /\ idx <= Len(counts) /\ UNCHANGED lbVars
        /\ \/ idx' = idx + 1 /\ script' = "check" /\ Done(counts[idx])
           \/ /\ idx' = idx /\ script' = "run"
              /\ ~(resume /\ answers /\ Done(counts[idx]))
    BY <1>7 DEF Check
  <2>2. CampaignTypeOK'
    <3>1. unsure' \in BOOLEAN
      BY <1>7 DEF Check
    <3>2. started' = started
      BY <1>7 DEF Check, askedVars
    <3>3. QED
      BY <1>1, <1>3, <1>6, <2>1, <3>1, <3>2 DEF CampaignTypeOK, lbVars
  <2>3. ScriptInv' /\ CleanInv' /\ LocalInv' /\ PlotComplete'
    BY <1>1, <1>3, <1>4, <1>5, <1>6, <2>1 DEF ScriptInv, CleanInv, LocalInv,
       PlotComplete, Looping, Fetching, lbVars
  <2>4. RemoteInv'
    <3>1. \A k \in 1 .. idx - 1 : Done(counts[k])
      BY <1>1, <2>1 DEF RemoteInv, Looping
    <3>2. \A k \in 1 .. idx' - 1 : Done(counts[k])
      BY <1>6, <2>1, <3>1
    <3>3. \A n : Done(n)' <=> Done(n)
      BY <2>1 DEF Done, lbVars
    <3>4. \A k \in 1 .. idx' - 1 : Done(counts[k])'
      BY <1>3, <3>2, <3>3
    <3>5. \A n \in Scale : remote'[n].status = "DONE" => remote'[n].saved = Steps
      BY <1>1, <2>1 DEF RemoteInv, lbVars
    <3>6. script' # "running"
      BY <2>1
    <3>7. QED
      BY <1>3, <3>4, <3>5, <3>6 DEF RemoteInv, Done
  <2>5. SureInv'
    <3>1. unsure' = (~answers \/ counts[idx] \in running)
      BY <1>7 DEF Check
    <3>2. SUFFICES ASSUME script' = "run", resume', ~unsure'
                   PROVE  ~Done(counts[idx])' /\ counts'[idx'] \notin running'
                          /\ idx' = idx /\ counts' = counts
      BY DEF SureInv
    <3>3. answers /\ counts[idx] \notin running /\ resume
      BY <1>3, <3>1, <3>2
    <3>4. idx' = idx /\ ~Done(counts[idx])
      BY <2>1, <3>2, <3>3
    <3>5. QED
      BY <1>3, <2>1, <3>3, <3>4 DEF Done, lbVars
  <2>6. QED
    BY <1>5, <2>2, <2>3, <2>4, <2>5 DEF CampaignInv
<1>8. ASSUME StartRun PROVE CampaignInv'
  <2> DEFINE n == counts[idx]
  <2>1. script = "run" /\ idx \in 1 .. Len(counts) /\ n \in ToSet(counts) /\ n \in Scale
    BY <1>1, <1>4, <1>6, <1>8 DEF StartRun, ScriptInv
  <2>2. /\ present' = present \cup {n} /\ remote' = [remote EXCEPT ![n] = NewRun]
        /\ script' \in {"running", "idle"} /\ running' \subseteq running \cup {n}
        /\ idx' = idx /\ unsure' = unsure /\ started' = started
    BY <1>8 DEF StartRun, askedVars
  <2> HIDE DEF n
  <2>3. CampaignTypeOK'
    BY <1>1, <1>3, <1>6, <2>1, <2>2, RunIsSomething DEF CampaignTypeOK
  <2>4. ScriptInv' /\ CleanInv' /\ SureInv' /\ LocalInv' /\ PlotComplete'
    BY <1>1, <1>3, <1>5, <1>6, <2>1, <2>2 DEF ScriptInv, CleanInv, SureInv, LocalInv,
       PlotComplete, Looping, Fetching
  <2>5. remote'[n] = NewRun /\ \A m \in Scale : m # n => remote'[m] = remote[m]
    BY <1>1, <2>1, <2>2 DEF CampaignTypeOK
  <2>6. RemoteInv'
    <3>1. \A m \in Scale : remote'[m].status = "DONE" => remote'[m].saved = Steps
      BY <1>1, <2>5, RunIsSomething DEF RemoteInv
    <3>2. ASSUME NEW k \in 1 .. idx - 1, counts[k] # n PROVE Done(counts[k])'
      <4>1. Done(counts[k])
        BY <1>1, <2>1 DEF RemoteInv, Looping
      <4>2. counts[k] \in Scale
        BY <1>4, <1>6, <2>1
      <4>3. QED
        BY <1>3, <2>2, <2>5, <3>2, <4>1, <4>2 DEF Done
    <3>3. ASSUME NEW k \in 1 .. idx' - 1, counts'[k] # counts'[idx']
          PROVE  Done(counts[k])' /\ counts' = counts
      BY <1>3, <2>2, <3>2, <3>3 DEF n
    <3>4. script' \in Looping \cup Fetching => script' = "running"
      BY <2>2 DEF Looping, Fetching
    <3>5. counts'[idx'] \in present'
      BY <1>3, <2>2 DEF n
    <3>6. QED
      BY <3>1, <3>3, <3>4, <3>5 DEF RemoteInv, Done
  <2>7. QED
    BY <1>5, <2>3, <2>4, <2>6 DEF CampaignInv
<1>9. ASSUME RunOver PROVE CampaignInv'
  <2>1. /\ script = "running" /\ UNCHANGED lbVars /\ unsure' = unsure
        /\ started' = started
        /\ \/ Done(counts[idx]) /\ script' = "check" /\ idx' = idx + 1
           \/ script' = "idle" /\ idx' = idx
    BY <1>1, <1>9 DEF RunOver, RemoteInv, Done, askedVars
  <2>2. CampaignTypeOK'
    BY <1>1, <1>3, <1>6, <2>1 DEF CampaignTypeOK, lbVars
  <2>3. ScriptInv' /\ CleanInv' /\ SureInv' /\ LocalInv' /\ PlotComplete'
    BY <1>1, <1>3, <1>4, <1>5, <1>6, <2>1 DEF ScriptInv, CleanInv, SureInv, LocalInv,
       PlotComplete, Looping, Fetching, lbVars
  <2>4. RemoteInv'
    <3>1. \A m \in Scale : remote'[m].status = "DONE" => remote'[m].saved = Steps
      BY <1>1, <2>1 DEF RemoteInv, lbVars
    <3>2. ASSUME script' = "check", NEW k \in 1 .. idx' - 1 PROVE Done(counts[k])'
      <4>1. idx' = idx + 1 /\ Done(counts[idx])
        BY <2>1, <3>2
      <4>2. Done(counts[k])
        <5>1. CASE k = idx
          BY <4>1, <5>1
        <5>2. CASE k # idx
          <6>1. k \in 1 .. idx - 1
            BY <1>6, <4>1, <5>2
          <6>2. QED
            BY <1>1, <2>1, <4>1, <6>1 DEF RemoteInv, Looping
        <5>3. QED
          BY <5>1, <5>2
      <4>3. QED
        BY <1>3, <2>1, <4>2 DEF Done, lbVars
    <3>3. QED
      BY <1>3, <2>1, <3>1, <3>2 DEF RemoteInv, Looping, Fetching, Done
  <2>5. QED
    BY <1>5, <2>2, <2>3, <2>4 DEF CampaignInv
<1>10. ASSUME AllRun PROVE CampaignInv'
  <2>1. /\ script = "check" /\ script' = "pull" /\ idx = Len(counts) + 1 /\ idx' = idx
        /\ UNCHANGED lbVars /\ unsure' = unsure /\ started' = started
    BY <1>10 DEF AllRun, askedVars
  <2>2. CampaignTypeOK'
    BY <1>1, <1>3, <1>6, <2>1 DEF CampaignTypeOK, lbVars
  <2>3. ScriptInv' /\ CleanInv' /\ SureInv' /\ LocalInv' /\ PlotComplete'
    BY <1>1, <1>3, <1>4, <1>5, <1>6, <2>1 DEF ScriptInv, CleanInv, SureInv, LocalInv,
       PlotComplete, Looping, Fetching, lbVars
  <2>4. RemoteInv'
    BY <1>1, <1>3, <2>1 DEF RemoteInv, Looping, Fetching, Done, lbVars
  <2>5. QED
    BY <1>5, <2>2, <2>3, <2>4 DEF CampaignInv
<1>11. QED
  BY <1>7, <1>8, <1>9, <1>10

(* What is fetched and plotted.  When everything there was has been fetched, the
   counts asked for are among it, and done.                                   *)
LEMMA FetchInv ==
    ASSUME CampaignInv,
           \/ \E n \in Scale : Pull(n)
           \/ Pulled \/ Plot \/ Finish \/ ScriptEnds
    PROVE  CampaignInv'
<1>1. /\ PrepareInv /\ CampaignTypeOK /\ ScriptInv /\ RemoteInv /\ CleanInv /\ SureInv
      /\ LocalInv /\ PlotComplete
  BY DEF CampaignInv
<1>2. /\ script \notin {"idle", "prepare"} /\ UNCHANGED prepareVars
      /\ UNCHANGED <<askedVars, idx, unsure, lbVars>>
  BY DEF Pull, Pulled, Plot, Finish, ScriptEnds, scriptVars
<1>3. counts \in Plans /\ main = "idle"
  BY <1>1, <1>2 DEF ScriptInv
<1>4. /\ Len(counts) \in Nat /\ ToSet(counts) \subseteq Scale
      /\ \A n \in ToSet(counts) : \E k \in 1 .. Len(counts) : counts[k] = n
  BY <1>3, CountsShape
<1>5. PrepareInv' /\ main' = main
  BY <1>1, <1>2, NodesKept
<1>6. script \in Fetching => \A n \in ToSet(counts) : Done(n)
  BY <1>1, <1>4 DEF ScriptInv, RemoteInv, Fetching
<1>7. \A n \in Scale : Done(n) => n \in present /\ remote[n].saved = Steps
  BY <1>1 DEF RemoteInv, Done
<1>8. ASSUME NEW n \in Scale, Pull(n) PROVE CampaignInv'
  <2>1. /\ script = "pull" /\ script' = "pull" /\ n \in present /\ plotted' = plotted
        /\ local' = [local EXCEPT ![n] = remote[n]]
    BY <1>8 DEF Pull, scriptVars
  <2>2. remote[n] \in RunRecord
    BY <1>1 DEF CampaignTypeOK
  <2>3. /\ local' \in [Scale -> RunRecord \cup {None}] /\ local'[n] = remote[n]
        /\ \A m \in Scale : m # n => local'[m] = local[m]
    BY <1>1, <2>1, <2>2 DEF CampaignTypeOK
  <2>4. CampaignTypeOK'
    BY <1>1, <1>2, <2>1, <2>3 DEF CampaignTypeOK, askedVars, lbVars
  <2>5. LocalInv'
    <3>1. n \in ToSet(counts) => local'[n].saved = Steps
      BY <1>6, <1>7, <2>1, <2>3 DEF Fetching
    <3>2. QED
      BY <1>1, <1>2, <2>1, <2>3, <3>1 DEF LocalInv, Looping, Fetching, askedVars, lbVars
  <2>6. ScriptInv' /\ CleanInv' /\ SureInv' /\ PlotComplete'
    BY <1>1, <1>2, <1>3, <1>5, <2>1 DEF ScriptInv, CleanInv, SureInv, PlotComplete,
       Looping, Fetching, askedVars, lbVars
  <2>7. RemoteInv'
    BY <1>1, <1>2, <2>1 DEF RemoteInv, Looping, Fetching, Done, askedVars, lbVars
  <2>8. QED
    BY <1>5, <2>4, <2>5, <2>6, <2>7 DEF CampaignInv
<1>9. ASSUME Pulled PROVE CampaignInv'
  <2>1. /\ script = "pull" /\ script' = "plot" /\ UNCHANGED resultVars
        /\ \A n \in present : local[n] # None
    BY <1>9 DEF Pulled
  <2>2. CampaignTypeOK'
    BY <1>1, <1>2, <2>1 DEF CampaignTypeOK, askedVars, lbVars, resultVars
  <2>3. ScriptInv' /\ CleanInv' /\ SureInv' /\ LocalInv' /\ PlotComplete'
    BY <1>1, <1>2, <1>3, <1>5, <2>1 DEF ScriptInv, CleanInv, SureInv, LocalInv,
       PlotComplete, Looping, Fetching, askedVars, lbVars, resultVars
  <2>4. RemoteInv'
    BY <1>1, <1>2, <2>1 DEF RemoteInv, Looping, Fetching, Done, askedVars, lbVars
  <2>5. QED
    BY <1>5, <2>2, <2>3, <2>4 DEF CampaignInv
<1>10. ASSUME Plot PROVE CampaignInv'
  <2>1. /\ script = "plot" /\ local' = local
        /\ \/ script' = "idle" /\ plotted' = plotted
           \/ /\ script' = "plotted"
              /\ plotted' = [n \in Scale |->
                                IF n \in LatestRuns THEN local[n].saved ELSE -1]
    BY <1>10 DEF Plot
  <2>2. \A n \in LatestRuns : n \in Scale /\ local[n].saved \in 0 .. Steps
    BY <1>1 DEF LatestRuns, CampaignTypeOK, RunRecord
  <2>3. plotted' \in [Scale -> Int]
    BY <1>1, <2>1, <2>2, PlansAssumption DEF CampaignTypeOK
  <2>4. CampaignTypeOK'
    BY <1>1, <1>2, <2>1, <2>3 DEF CampaignTypeOK, askedVars, lbVars
  <2>5. ScriptInv' /\ CleanInv' /\ SureInv' /\ LocalInv'
    BY <1>1, <1>2, <1>3, <1>5, <2>1 DEF ScriptInv, CleanInv, SureInv, LocalInv,
       Looping, Fetching, askedVars, lbVars
  <2>6. RemoteInv'
    BY <1>1, <1>2, <2>1 DEF RemoteInv, Looping, Fetching, askedVars, lbVars
  <2>7. PlotComplete'
    <3>1. ASSUME script' = "plotted", NEW n \in ToSet(counts) PROVE plotted'[n] = Steps
      <4>1. n \in Scale /\ n \in present
        BY <1>4, <1>6, <1>7, <2>1 DEF Fetching
      <4>2. local[n] # None /\ local[n].saved = Steps
        BY <1>1, <2>1, <4>1 DEF LocalInv, Fetching
      <4>3. n \in LatestRuns
        BY <4>1, <4>2, PlansAssumption DEF LatestRuns
      <4>4. QED
        BY <2>1, <3>1, <4>1, <4>2, <4>3
    <3>2. ASSUME script' = "plotted", NEW n \in Scale \ ToSet(counts), ~resume
          PROVE  plotted'[n] = -1
      <4>1. n \notin present
        BY <1>1, <2>1, <3>2 DEF CleanInv, Fetching
      <4>2. n \notin LatestRuns
        BY <1>1, <2>1, <4>1 DEF LocalInv, Fetching, LatestRuns
      <4>3. QED
        BY <2>1, <3>2, <4>2
    <3>3. counts' = counts /\ resume' = resume
      BY <1>2 DEF askedVars
    <3>4. QED
      BY <3>1, <3>2, <3>3 DEF PlotComplete
  <2>8. QED
    BY <1>5, <2>4, <2>5, <2>6, <2>7 DEF CampaignInv
<1>11. ASSUME Finish \/ ScriptEnds PROVE CampaignInv'
  <2>1. script' = "idle" /\ UNCHANGED resultVars
    BY <1>11 DEF Finish, ScriptEnds
  <2>2. CampaignTypeOK'
    BY <1>1, <1>2, <2>1 DEF CampaignTypeOK, askedVars, lbVars, resultVars
  <2>3. ScriptInv' /\ CleanInv' /\ SureInv' /\ LocalInv' /\ PlotComplete'
    BY <1>1, <1>3, <1>5, <2>1 DEF ScriptInv, CleanInv, SureInv, LocalInv,
       PlotComplete, Looping, Fetching
  <2>4. RemoteInv'
    BY <1>1, <1>2, <2>1 DEF RemoteInv, Looping, Fetching, lbVars
  <2>5. QED
    BY <1>5, <2>2, <2>3, <2>4 DEF CampaignInv
<1>12. QED
  BY <1>8, <1>9, <1>10, <1>11

(* An experiment reports, saves and ends at any time, that of an earlier script too:
   it never takes DONE back, and starts no run.  Where it stops a load balancer no
   preparation is under way.                                                  *)
LEMMA ExperimentInv ==
    ASSUME CampaignInv, NEW n \in Scale,
           RunReports(n) \/ RunSaves(n) \/ RunDone(n) \/ RunExits(n)
    PROVE  CampaignInv'
<1>1. /\ PrepareInv /\ CampaignTypeOK /\ ScriptInv /\ RemoteInv /\ CleanInv /\ SureInv
      /\ LocalInv /\ PlotComplete
  BY DEF CampaignInv
<1>2. RunUnchanged /\ n \in running /\ running' \subseteq running
  BY DEF RunReports, RunSaves, RunDone, RunExits
<1>3. remote' \in [Scale -> RunRecord]
  <2>1. remote \in [Scale -> RunRecord]
    BY <1>1 DEF CampaignTypeOK
  <2>2. PICK r \in RunRecord : remote' = [remote EXCEPT ![n] = r]
    <3>1. remote[n] \in RunRecord /\ Steps \in 0 .. Steps
      BY <2>1, PlansAssumption
    <3>2. CASE RunReports(n)
      <4>1. PICK s \in Unfinished : remote' = [remote EXCEPT ![n].status = s]
        BY <3>2 DEF RunReports
      <4>2. [remote[n] EXCEPT !.status = s] \in RunRecord
        BY <3>1 DEF RunRecord
      <4>3. QED
        BY <4>1, <4>2
    <3>3. CASE RunSaves(n)
      <4>1. PICK k \in 0 .. Steps : remote' = [remote EXCEPT ![n].saved = k]
        BY <3>3 DEF RunSaves
      <4>2. [remote[n] EXCEPT !.saved = k] \in RunRecord
        BY <3>1 DEF RunRecord
      <4>3. QED
        BY <4>1, <4>2
    <3>4. CASE RunDone(n)
      <4>1. [remote[n] EXCEPT !.status = "DONE"] \in RunRecord
        BY <3>1 DEF RunRecord
      <4>2. QED
        BY <3>4, <4>1 DEF RunDone
    <3>5. CASE RunExits(n)
      <4>1. remote' = [remote EXCEPT ![n] = remote[n]]
        BY <2>1, <3>5 DEF RunExits
      <4>2. QED
        BY <3>1, <4>1
    <3>6. QED
      BY <3>2, <3>3, <3>4, <3>5
  <2>3. QED
    BY <2>1, <2>2
<1>4. /\ \A m \in Scale : m # n => remote'[m] = remote[m]
      /\ remote[n].status = "DONE" => remote'[n] = remote[n] \/ RunDone(n)
      /\ remote'[n].status = "DONE" => remote'[n].saved = Steps
      /\ remote[n].status = "DONE" => remote'[n].status = "DONE"
  <2>1. remote[n].status = "DONE" => remote[n].saved = Steps
    BY <1>1 DEF RemoteInv
  <2>2. CASE RunReports(n)
    BY <1>1, <2>2 DEF RunReports, CampaignTypeOK, Unfinished, RunRecord
  <2>3. CASE RunSaves(n)
    BY <1>1, <2>3 DEF RunSaves, CampaignTypeOK, Unfinished, RunRecord
  <2>4. CASE RunDone(n)
    BY <1>1, <2>4 DEF RunDone, CampaignTypeOK, RunRecord
  <2>5. CASE RunExits(n)
    BY <2>1, <2>5 DEF RunExits
  <2>6. QED
    BY <2>2, <2>3, <2>4, <2>5
<1>5. PrepareInv'
  <2>1. CASE up' = up
    <3>1. UNCHANGED prepareVars
      BY <1>2, <2>1 DEF RunUnchanged, prepareVars
    <3>2. QED
      BY <1>1, <3>1, NodesKept
  <2>2. CASE up' # up
    <3>1. PICK c \in {LBPrequal, LBWeightedRR} :
             script = "running" /\ up' = [up EXCEPT ![c] = "gone"]
      BY <2>2 DEF RunReports, RunSaves, RunDone, RunExits
    <3>2. main = "idle" /\ UNCHANGED <<main, taskVars>>
      BY <1>1, <1>2, <3>1 DEF ScriptInv, RunUnchanged
    <3>3. \A t \in Task : next[t] = 1
      BY <1>1, <3>2 DEF PrepareInv, ProgressInv
    <3>4. PrepareTypeOK'
      BY <1>1, <3>1, <3>2 DEF PrepareInv, PrepareTypeOK, taskVars
    <3>5. LateInv' /\ ProgressInv'
      BY <1>1, <3>2 DEF PrepareInv, LateInv, ProgressInv, taskVars
    <3>6. EffectInv'
      BY <1>1, <3>2, <3>3, EffectKept DEF PrepareInv, EffectInv, taskVars
    <3>7. QED
      BY <3>4, <3>5, <3>6 DEF PrepareInv
  <2>3. QED
    BY <2>1, <2>2
<1>6. CampaignTypeOK'
  BY <1>1, <1>2, <1>3 DEF CampaignTypeOK, RunUnchanged, scriptVars, askedVars, resultVars
<1>7. ScriptInv' /\ CleanInv' /\ LocalInv' /\ PlotComplete'
  BY <1>1, <1>2 DEF RunUnchanged, scriptVars, askedVars, resultVars, ScriptInv, CleanInv,
     LocalInv, PlotComplete, Looping, Fetching
<1>8. script \notin {"idle", "prepare"} =>
         \A k \in 1 .. Len(counts) : counts[k] \in Scale
  BY <1>1, CountsShape DEF ScriptInv
<1>9. SureInv'
  <2>1. SUFFICES ASSUME script = "run", resume, ~unsure
                 PROVE  ~Done(counts[idx])' /\ counts[idx] \notin running'
    BY <1>2 DEF SureInv, RunUnchanged, scriptVars, askedVars
  <2>2. ~Done(counts[idx]) /\ counts[idx] \notin running
    BY <1>1, <2>1 DEF SureInv
  <2>3. counts[idx] \in Scale /\ counts[idx] # n
    BY <1>1, <1>2, <1>8, <2>1, <2>2, CountsShape DEF ScriptInv, CampaignTypeOK
  <2>4. QED
    BY <1>2, <1>4, <2>2, <2>3 DEF Done, RunUnchanged, scriptVars, askedVars
<1>10. RemoteInv'
  <2>1. \A m \in Scale : remote'[m].status = "DONE" => remote'[m].saved = Steps
    BY <1>1, <1>4 DEF RemoteInv
  <2>2. \A m \in Scale : Done(m) => Done(m)'
    BY <1>2, <1>4 DEF Done, RunUnchanged
  <2>3. present \subseteq Scale
    BY <1>1 DEF CampaignTypeOK
  <2>4. \A m : Done(m) => m \in Scale
    BY <2>3 DEF Done
  <2>5. /\ script' = script /\ counts' = counts /\ idx' = idx /\ present' = present
    BY <1>2 DEF RunUnchanged, scriptVars, askedVars
  <2>6. ASSUME script \in Looping \cup Fetching, NEW k \in 1 .. idx - 1
        PROVE  Done(counts[k])' \/ (script = "running" /\ counts[k] = counts[idx])
    <3>1. Done(counts[k]) \/ (script = "running" /\ counts[k] = counts[idx])
      BY <1>1, <2>6 DEF RemoteInv
    <3>2. QED
      BY <3>1, <2>2, <2>4, <2>5 DEF Done
  <2>7. QED
    BY <1>1, <2>1, <2>5, <2>6 DEF RemoteInv, Done
<1>11. QED
  BY <1>5, <1>6, <1>7, <1>9, <1>10 DEF CampaignInv

(* Every step of a campaign keeps its invariant. *)
LEMMA CampaignStepInv ==
    ASSUME CampaignInv, [CampaignNext]_campaignVars
    PROVE  CampaignInv'
<1>1. CASE UNCHANGED campaignVars
  <2>1. PrepareInv'
    BY <1>1, NodesKept DEF CampaignInv, campaignVars
  <2>2. QED
    BY <1>1, <2>1 DEF campaignVars, prepareVars, scriptVars, askedVars, lbVars, resultVars,
       CampaignInv, CampaignTypeOK, ScriptInv, RemoteInv, CleanInv, SureInv, LocalInv,
       PlotComplete, Looping, Fetching, Done
<1>2. CASE CampaignNext
  BY <1>1, <1>2, BeginningInv, LoopInv, FetchInv, ExperimentInv
     DEF CampaignNext, ScriptStep, Terminating
<1>3. QED
  BY <1>1, <1>2

(* The invariant of a campaign, with the types of its variables. *)
THEOREM CampaignInvariant == CampaignSpec => []CampaignInv
BY CampaignInitInv, CampaignStepInv, PTL DEF CampaignSpec

(* OkMeansNew in a campaign: no experiment, of this script or an earlier one, breaks
   what the preparation set up before it is over.                             *)
THEOREM CampaignNodes == CampaignSpec => []OkMeansNew
<1>1. CampaignInv => OkMeansNew
  BY PrepareInvOk DEF CampaignInv
<1>2. QED
  BY <1>1, CampaignInvariant, PTL

(* AddressesDistinct: no two backends that run fight for a port. *)
THEOREM CampaignAddresses == CampaignSpec => []AddressesDistinct
<1>1. AddressesDistinct
  BY AddressUnique DEF AddressesDistinct
<1>2. QED
  BY <1>1, PTL

(* PlotComplete: what is plotted has every phase of every count asked for. *)
THEOREM CampaignPlot == CampaignSpec => []PlotComplete
<1>1. CampaignInv => PlotComplete
  BY DEF CampaignInv
<1>2. QED
  BY <1>1, CampaignInvariant, PTL

(* DoneKept: a script that resumes and is sure removes no run that is DONE. *)
THEOREM CampaignResumes == CampaignSpec => DoneKept
<1>1. ASSUME CampaignInv, [CampaignNext]_campaignVars, NEW n \in Scale,
             resume, Done(n), ~Done(n)'
      PROVE  unsure
  <2>1. n \in present /\ remote[n].status = "DONE" /\ remote \in [Scale -> RunRecord]
    BY <1>1 DEF Done, CampaignInv, CampaignTypeOK
  <2>2. ~(present' = present /\ remote' = remote)
    BY <1>1 DEF Done
  <2>3. ~Clean
    BY <1>1, <2>2 DEF Clean
  <2>4. \A m \in Scale : ~(RunReports(m) \/ RunSaves(m) \/ RunDone(m) \/ RunExits(m))
    <3>1. SUFFICES ASSUME NEW m \in Scale,
                          RunReports(m) \/ RunSaves(m) \/ RunDone(m) \/ RunExits(m)
                   PROVE  Done(n)'
      BY <1>1
    <3>2. present' = present
      BY <3>1 DEF RunReports, RunSaves, RunDone, RunExits, RunUnchanged
    <3>3. remote'[n].status = "DONE"
      BY <2>1, <3>1 DEF RunReports, RunSaves, RunDone, RunExits, Unfinished, RunRecord
    <3>4. QED
      BY <2>1, <3>2, <3>3 DEF Done
  <2>5. StartRun
    BY <1>1, <2>2, <2>3, <2>4 DEF CampaignNext, ScriptStep, StartScript, Prepared,
       Preparing, Check, RunOver, AllRun, Pull, Pulled, Plot, Finish, ScriptEnds,
       Terminating, campaignVars, lbVars
  <2>6. n = counts[idx]
    BY <1>1, <2>1, <2>5 DEF StartRun, Done
  <2>7. QED
    BY <1>1, <2>5, <2>6 DEF StartRun, CampaignInv, SureInv
<1>2. CampaignInv /\ [CampaignNext]_campaignVars
         => [\A n \in Scale : resume /\ Done(n) /\ ~Done(n)' => unsure]_campaignVars
  BY <1>1
<1>3. QED
  BY <1>2, CampaignInvariant, PTL DEF CampaignSpec, DoneKept
=============================================================================
