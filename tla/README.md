# A TLA+ model of loadbalancer-prequal

This directory holds TLA+ modules that model the load balancer of this repository, TLC
configurations that check them on small instances, and proofs, checked by TLAPS, of what holds
for every instance. `PROJECT.json` lists components, runs, findings, hazards and theorems, and
maps each definition to the lines of source it stands for.

## 1. The system

One process (`cmd/balancer`) accepts HTTP requests, selects a backend replica by one of six
policies, and forwards the request with `httputil.ReverseProxy`. Replicas (`backend`) do
synthetic work with a limited concurrency and report their load in response headers. Python and
shell drivers (`experiments`) deploy both, generate load and post-process the results.

| Component | State | Operations | Talks to |
| --- | --- | --- | --- |
| Probe pool, `types.go` | slice of `*ProbeEntry` under `pp.mu` | `Add`, `Fresh`, `MarkUsed`, `RemoveWorst`, `Len` | called by selections, probe goroutines, the remover |
| Prequal selection, `balancer.go:390` | none of its own: a copy of the fresh entries | `SelectServer` | pool, `IsHealthy`, `selectRandom` |
| Probing, `balancer.go:124-283` | `Server.IsHealthy`, `ServerRIF`, `LatencyMs` under `lb.mu` | periodic batch, per-request batch, apply, deposit | replicas (`/health`), pool |
| Probe remover, `balancer.go:285` | `removeToggle` | one removal per half probe interval | pool |
| Other policies, `balancer.go:440-544` | `rrIdx`, `Weight`, `EWMALatency`, `ClientRIF` | `SelectServer` | probing (WRR), request handling (least loaded) |
| Request handling, `balancer.go:546-605` | `ClientRIF`, `stats`, gauges | `ServeHTTP`, `forwardRequest` | selection, replicas |
| Reports, `balancer.go:640-665`, `main.go:96` | none | `/healthz`, `/info`, `/metrics` | counters |
| Life of the process, `cmd/balancer/main.go` | serving, draining, exited | register, start, shut down | everything |
| Backend, `backend/main.go` | `serverRIF`, queue and concurrency channels, latency buckets | `/`, `/health` | probes, requests |
| Load generator, `cmd/bgload` | duty cycle | busy loops | none |
| Experiments, `common.py`, `experiment1.py`, `experiment2.py` | the containers of the load balancers, run directory, sampler thread | recreate, measure phase by phase, save, restore | balancers over HTTP, docker and ssh |
| Preparation, `prepare.py` | containers on the nodes | a thread pool of scripts with retries | nodes over ssh |
| Scaling, `experiment1_scaling.sh`, `experiment1_scaling_plot.py` | run directories on the lb node and fetched | prepare, run, resume, fetch, plot | the two above |
| Post-processing, `postprocess_*.py` | none: files in, files out | percentiles, bins, deadline, rolling averages | the files of a run |

What is hard here:

* **Nothing is locked for long.** `selectPrequal` copies pointers under `pp.mu`, reads
  `IsHealthy` of one server after another with no lock at all, and comes back to `MarkUsed`.
  Meanwhile entries expire, are evicted, removed and used up by others.
* **Probes are fire and forget.** Any number is in flight, they end in any order, up to two
  seconds after they were sent, and the last one to take `lb.mu` decides `IsHealthy`. Probes sent
  on behalf of a request never report a failure.
* **Observations outlive their occasion.** An entry is stamped when its probe is *sent*; a late
  answer is born stale. A failed probe deposits an observation as well.
* **Counters are atomic one by one.** The gauge is written from a value loaded earlier;
  `/healthz` reads three counters in three steps; a request may end by answer, proxy error, bad
  address or panic.
* **Shutdown** is a goroutine that nobody waits for.
* **The other policies** list the healthy servers under `lb.mu` and then read weights, loads and
  the turn one by one while others change them; `rrIdx` wraps.
* **An experiment is killed anywhere.** Files are truncated and rewritten, containers removed and
  created in two commands, the sampler is a daemon thread that `join` may give up waiting for, and
  the next run starts from the containers it finds.
* **Preparation retries.** A script that took too long is sent again while a docker command of the
  first attempt may still take place, and a lost ssh connection ends the scaling script but not the
  experiment it was waiting for.

What makes each component correct is stated as a property of its module (section 4); the hazards
in `PROJECT.json` name the line where each could go wrong.

## 2. The modules

| Module | Models | Builds on |
| --- | --- | --- |
| `HotCold` | the decisions as pure operators on sets: `rifQuantile`, hot/cold rule, worst entry, `computeBreuse` | |
| `Signals` | what a probe can report, and ages | |
| `ProbePool` | the pool: one action per method, entries as objects with identity, callers that hold copies | `HotCold`, `Signals` |
| `Sorting` | what the sorting of a library returns | |
| `PoolSlice` | the pool as written: slices and loops; implements `ProbePool` | `ProbePool` (INSTANCE), `Sorting` |
| `Prober` | probe goroutines from dispatch to deposit | `Signals` |
| `HealthCheck` | probing of servers that go down and come up | `Prober` |
| `Selection` | the abstract promise of `SelectServer` | |
| `Prequal` | selection, probing and removal together; implements `Selection` and `ProbePool` | `ProbePool`, `Prober` |
| `Balancer` | `ServeHTTP`, `forwardRequest`, counters, `/healthz`, shutdown | |
| `LatencyBuckets` | `record` and `medianAtRIF` as operators on the contents of the buckets, and what the estimate should be | |
| `Backend` | the `/` handler of a replica, its channels, RIF and buckets | `LatencyBuckets` |
| `Policies` | the other five policies, the weight updater, and the loads of forwarded requests; implements `Selection` | |
| `PhaseStats` | the parsers of a phase, percentiles, deadline mapping, rolling averages and totals, as pure operators | `Sorting` |
| `PhaseReport` | a file written line by line and what is reported of it, phase after phase | `PhaseStats` |
| `RunDirectory` | the abstract promise of a run directory to whoever reads it | |
| `Sampler` | the sampler thread: `HostCPUSampler`, `RIFSampler` | |
| `Experiment` | the main programs of the three drivers, with sampler, containers and files; implements `RunDirectory` | `Sampler` |
| `Prepare` | `prepare.py`: its thread pool, scripts, retries and late commands | |
| `Campaign` | the scaling script over preparation and experiments, resumption, and what is plotted | `Prepare` |
| `OrderLemmas` | lemmas on finite sets, recursive functions, sorting and ranks that the proofs share | |
| `*Proofs` | theorems about the module named, and their proofs (`HotCold`, `ProbePool` and `HealthCheck` in `PrequalProofs`, `Backend` and `PoolSlice` in `SignalProofs`, `Prepare` in `CampaignProofs`) | that module, `OrderLemmas` |
| `MC*` | instances for TLC (symmetry sets; constants are in the `.cfg`) | that module |

How state and actions correspond to the code:

**ProbePool.** `pool` is `pp.entries`; `heap` gives every reachable `ProbeEntry` object its
record; `snap[c]` is the slice `Fresh` returned to goroutine `c`; `chosen[c]` the entry it used.
Each method runs under `pp.mu` and is one action. An object nobody reaches is garbage and its
identifier is free to be allocated again, which is what the Go runtime does and what keeps the
state finite. Time is the age of an entry (`time.Now() - Timestamp`) in ticks and stops at
`MaxAge`; `AgeLimit` is the age window. Where the code takes the first of several equal
candidates, `ProbePool` takes any of them. `maxUses` of a deposit is free in `Budgets`, and is
`Breuse(n)` in `Prequal`.

**PoolSlice.** The same with sequences. `OldestLoop`, `WorstLoop`, `QuantileLoop`, `ChooseLoop`
are the loops of `removeOldestLocked`, `RemoveWorst`, `rifQuantile` and `selectPrequal`,
position by position: all of them are `Scan`, which moves on to each later entry that beats the
best so far, and differ in what beats what. `FreshLoop` and `RemoveEntry` are the loops of `Fresh`
and `removeEntryLocked`. `SortInts` is `sort.Slice`, of which only the order of its result is
used: it is given by what stands at each position (that this sorts is `SortIntsSorts`). `Use` runs
the choice over any set of servers seen healthy. `Abs` is `ProbePool` with slices read as sets.

**Prober.** A goroutine is `flying` after `firedAt` was stamped, `back` when `probeServer`
returned, `applied` when the critical section under `lb.mu` is left. `FireAsync` gives a batch
distinct servers. `Dropped` is the early return of `triggerAsyncProbes`. In `Prober` alone the
result of a probe is free; `HealthCheck` ties it to `responsive[s]` at the moment the probe ends.

**Prequal.** `pc[c]` is where a request goroutine is; `todo[c]`/`seen[c]` split its copy the way
the loop at `balancer.go:402` does, one unlocked read of `IsHealthy` per step (`Look`). The
threshold is the quantile of the whole copy, as in the code, and the choice is among the entries
seen healthy (`Choose`). `owed` counts `triggerAsyncProbes` goroutines that have not started.
`RemoverReads` and `RemoverRemoves` are the two halves of a tick of `runProbeRemover`, which
takes `pp.mu` twice. `eligible[c]` is a history variable: the servers that were healthy at some
moment of the call. Nothing in the code reads it and no action depends on it.

**Balancer.** One step per access to shared memory: increment of `ClientRIF`, its load, the set
of the gauge, the three loads of `Stats`. `activeRequests` is changed in the step of the load of
`ClientRIF`, `requestErrors` in the step of `FailedRequests`: no action reads either, so nothing
can tell the difference. `Malformed` are servers whose address `url.Parse` refuses. `Abort` is
the panic with which `ReverseProxy` gives up in the middle of an answer (external).
`MainReturns` freezes the handlers: the process is gone. `aborted` and `backlog` are history
variables.

**Backend.** `pc[h]` follows a handler of `/` to its last deferred call; the deferred calls are
separate steps in the reverse order of their registration, since other handlers run between them.
`concSem` and `concQueue` are the numbers of tokens in the channels. A full queue and a timeout
leave the path early, and `TimeOut` may happen although a slot is free: `select` takes either case
when both are ready. The slots are not handed out in any order. `setRIFHeaders` and `/health` only
read, so that what they report is a function of the state: `serverRIF`, and
`MedianAtRIF(buckets, rif)` for an RIF loaded earlier. `Record` and `MedianAtRIF` hold the mutex
of the buckets throughout and are one step.

**Policies.** `phase[c]` is the line at which goroutine `c` is between two accesses to shared
memory, `call[c]` its local variables: `candidates` what `healthyServersLocked` returned, `left`
what the loop has not come to, `sum`, `pick`, `best` and `load` as in the code. Each load of a
`ClientRIF` and of a `Weight` is a step. `Advanced` is `AddUint32` modulo `Wrap`; `updater` is the
place of the weight updater in its loop, during which it holds `lb.mu`, so that nobody lists
servers or applies a probe meanwhile, while the unlocked passes of weighted round robin go on. A
weight is any of `Weights`: the smoothed latencies behind it are not modelled, which covers every
history of them. `eligible`, `moved`, `lighter` and `lap` are history variables; `moved` stops at
the number of clients, since `HerdIsBounded` needs no more of it.

**PhaseStats, PhaseReport.** A line of the file of `hey` is its latency, status and offset, each of
which may be missing: the header, a line cut short. A latency is an integer: only the order of
latencies matters to the code. `ReadFile` is the loop over the lines that all parsers share, a
recursive function of the number of lines read; `latencies[k]` is what a parser keeps of line `k`, in
which they differ. `Rank` is the ceiling in per mille. A rolling average is the set of rows it
averages; the place of a row in its group is the number of rows before it, in the order of the
list (`ByIndex`) or sorted by bin (`ByBin`). `PhaseReport` writes a file line by line and
closes it at any moment. The post-processors change nothing they read and are operators on the
state.

**Sampler, Experiment.** Every access of the thread to the shared phase, rows and event is a step,
and the sample lies between two of them. `pc` is the place of `main`; its header says which part
of the scripts each value stands for. The three drivers share one machine, since they are copies
of each other: `program` selects what differs. A container is `[servers, rate]` or `Missing`;
`docker rm` and `docker run` are two steps, and every container is created from the environment
captured before. A file is written in two steps, `Open` (it is truncated, any part of
the new content may be there) and `Fill`; `todo` is what `main` writes before it goes on, in that
order. `Interrupt` is every exception of the place it is at, and goes through the `finally` clause where
there is one (`Guarded`); `Kill` does not. `filter_healthy` keeps those that answer, any set, in
the order of the list.

**Prepare, Campaign.** A script is its docker commands in order; all else in it may fail and changes
no container. `AttemptTimesOut` leaves the command it waited for in `late`, and `LateCommand` lets
it take place at any later moment, also in the next preparation. `Campaign` composes the
preparation with experiments that are what `RunDirectory` promises (proved of `Experiment`): they
report, save, finish and die at any moment. `Check` is the search for `DONE` over ssh, where no
answer looks like no run; `unsure` is a history variable.

## 3. The runs and their bounds

| Run | Checks | Bounds, and why they are enough |
| --- | --- | --- |
| `pool` | `SizeBound`, `LiveBudget`, `OveruseBound`, `NeverReturns` | pool of 2, 4 entry objects, 2 callers, budgets 1 and 2, ages 0 and 1 (fresh, stale): both callers can hold the same entry while it is used up, evicted and replaced |
| `pool_slice` | `QuantileAgrees`, `ChoiceAgrees`, `ImplementsPool`, `StaleLeaves` | a pool of 2, 3 objects, one caller, 3 values of RIF, 2 latencies and ages: every order and tie of what a slice or a copy can hold |
| `health` | `NoFalseAlarm`, `StatusSettles` | 2 servers, 2 probes in flight: two results of one server can overtake each other, or one of each server. Ages play no part (`MaxAge = 0`) |
| `prequal` | `KeepsPromise` | 2 servers, 1 selection, 1 probe goroutine at a time, 3 objects in a pool of 2, no ageing |
| `prequal_live` | `SelectionAnswered`, `UsesPool` | 1 server, 2 objects, 2 ages: the copy is smaller than the pool; no symmetry |
| `balancer` | `InFlightExact`, `Accounted`, `ReportAccountsForDone`, `GaugeBounded` | 2 handlers, 3 requests, a good and a malformed server, one `/healthz` |
| `balancer_drain` | `NoneDropped` (violated) | the same |
| `backend` | `BackendTypeOK`, `SlotsExact`, `EstimateAgrees`, `RefusedUnderPressure` | 3 handlers, 1 slot, 2 places (the code has 3 per slot): one works, one waits, one is refused. 3 buckets of up to 3 samples with 2 latencies: ties between a lower and an upper bucket, odd and even medians, trimming |
| `policies` | `RoundRobinFair`, `HerdBounded`, `RunsPastOnlyWhenLighter`, `KeepsPromise` | 3 servers, 2 clients, weights 1 and 2, `Wrap = 4`, which 3 does not divide, as 2^32: turns before, at and after the wrap |
| `phase_report` | `PercentilesExact`, `EveryResponseCounted`, `DeadlineNeverFlatters`, `SmoothingStaysInPhase`, `AggregateFaithful` | every sequence of up to 3 lines in two phases: header, a line cut short, successes faster than and as slow as the deadline, fast failures, each in the first bin, in the last one, or too late; two policies, or one twice |
| `experiment` | `DoneMeansComplete`, `MeasuresWhatItSays`, `RateRestored`, `OnlyFirstRowReachesBack`, `KeepsDirectory`, `RunEnds` | 2 runs of any of the programs, 2 phases, 2 backends, 3 rows: the second run meets whatever the first left behind, and a phase can have two rows after one of another |
| `campaign` | `OkMeansNew`, `AddressesDistinct`, `PlotComplete`, `DoneKept` | 2 hosts with 3 backends, 2 threads, 2 attempts and 2 faults, the script started twice over one preparation, counts 1, 2 or 2 only: a finished, a dead and an orphaned experiment can be there when the second one looks |

The types of the variables are proved, not checked, where a module has proofs (`PoolTypeOK`,
`PrequalTypeOK`, `BalancerTypeOK`, `PoliciesTypeOK`, `ExperimentTypeOK`); `BackendTypeOK`, which
holds the buckets to their size, is both. Of `PhaseReport` they are part of `ReportInv`.

The bounds on the runs, by name: `Entry`, `Probe` (objects and goroutines alive at once),
`MaxAge`, `MaxOwed` (batches requested and not started), `MaxRequests`, `MaxSamples`, a state
constraint of `backend` on the samples in all buckets together, `MaxLines`, one of
`phase_report` on the lines of all files together, `Alone` (weighted round robin serves one
request at a time in `Policies`: its selections write nothing another could read), `MaxRuns`,
`MaxRows`, `MaxFaults`, `MaxScripts`, `MaxPreparations`, one late command for each task of a
preparation (`gaveUp`), and that the scaling script is not interrupted while `prepare.py` runs. The
composed runs have one selecting goroutine; that a second one does not break the pool is what `pool`
checks with two callers and what the proofs show for any number, since `Prequal` is proved to use
the pool by its specification. Symmetry is used only where every property is a safety property.
The balancer may stop (`MainReturns`), the last phase is the end of a report, and after the last run
the experiments are over: the configurations of these three turn the deadlock check off; all others
leave it on.

Every property of a passing run has a mutant of the code that violates it (`PROJECT.json`,
"mutants"); the mutants are the operators marked `Mutant` in the modules, used by no action.

**Fairness.** `HealthCheck`: weak fairness of each probe goroutine, since `probeServer` ends
within `ProbeTimeout` and nothing else in it blocks for ever; strong fairness of the periodic
probe of each server, since the ticker never stops and a goroutine is always to be had, while the
model may have all its `Probe` slots busy at a tick. `Prequal`: weak fairness of each selection,
of each probe and of the remover. `PoolSlice`: weak fairness of the removal of the oldest entry,
which happens at every other tick of the remover. `Experiment`: weak fairness of `main`, because
whatever it waits for has a timeout (`hey -z`, docker and curl through `subprocess` with a timeout,
the `join` of the sampler); nothing is assumed of the sampler. No fairness of requests, of time, of
servers coming back, or of anything in `Policies`, `Prepare` and `Campaign` is assumed.

## 4. What the checks and proofs show

* **The pool.** It never exceeds its size, never holds a spent entry, and an entry that left it
  stays out, for any number of callers and any order of calls (proved, and checked). A budget can
  be overrun, but by fewer uses than there are concurrent callers (proved): the price of letting
  `pp.mu` go between `Fresh` and `MarkUsed`. The slice and its loops implement this pool
  (proved, and checked), and no expired entry stays for ever while the remover runs (checked).
* **The decisions.** For every finite set of entries the quantile has its rank, the rule chooses
  something, and the reuse budget is at least one (proved). The loops over the
  slice and the index into the sorted values compute the same (proved, and checked).
  The quantile never leaves the whole copy hot: as long as the servers of the copy are healthy
  the rule routes by a cold entry, and the branch for hot entries (`balancer.go:422`, "If every
  replica is hot") runs only if every cold entry belongs to an unhealthy server (proved as
  `SomethingIsCold`).
* **Selection.** Prequal implements `Selection`: a server it returns was healthy at some moment of
  the call, and it refuses a request only at a moment when no server is healthy (proved, and
  checked). Every selection ends (checked).
* **The other policies.** All five implement `Selection` too (proved, and checked). Least loaded
  and power of two choices answer a server that had, at worst, as many more requests as others
  changed meanwhile: requests that select at the same moment do herd, by no more than that
  (proved, and checked). Weighted round robin falls through to the last server only if a weight fell
  between its two passes (proved, and checked). Round robin gives every healthy server a turn
  before it gives one a second, except where `rrIdx` wraps and while servers come and go
  (proved, and checked).
* **Health.** A server that always answers is never out of rotation (proved, and checked). A
  failure that lasts and a recovery that lasts are detected, for good, although results overtake
  each other (checked).
* **Counters.** `ClientRIF` and `activeRequests` are exact, every request is accounted for once,
  and a report of `/healthz` misses only what was unfinished or aborted when it began (proved, and
  checked).

* **A replica.** Slots, places and RIF count exactly the requests that hold them, on every way out,
  and a request is refused only while RIF exceeds the whole backlog (proved, and checked). The
  estimate is the median of the nearest bucket with samples (proved, and checked).
* **Reports.** Percentiles are quantiles of the successful responses and no parser loses or
  doubles a response; the deadline mapping never flatters as long as no success is slower than the deadline;
  averages stay within their phase, in `timeseries.csv` only if no policy runs twice under one
  load; the totals of the policies add up to those of the phases, and the error rate of a policy
  lies between those of its phases (proved, and checked). Every phase has one summary and one row
  for each bin, and both are of its own file (proved).
* **Experiments.** DONE is final and written over complete results, with at most one sample
  missing; a phase measures the configuration it says it does; `experiment2.py` leaves the probe rate as prepared
  after every failure and interrupt (proved, and checked). Every run ends even if the sampler does
  not (checked).
* **Scaling.** A preparation task that is ok left exactly its containers on the node, unless an
  attempt took too long; no two backends get one address; the plot is complete although
  it never looks at `STATUS.json`; resuming never throws a finished run away, unless the lb node did not answer or
  an experiment of an earlier script was still at it (proved, and checked).

One run is expected to fail, `balancer_drain`: `cmd/balancer/main.go:119` says that container stop
signals are handled "without dropping in-flight proxy requests", but `Shutdown` makes
`ListenAndServe` return at once, and `main` returns with it and drops them.

Modelling brought up other things a reader of the code should know, each visible in the modules:

* A 502 is counted as failed and as successful (`types.go:202`, `balancer.go:571`); `Accounted` says
  how the counters add up.
* The gauge of requests in flight can stay off its value with nothing in flight, but by less than the
  number of handlers (`GaugeBounded`, proved).
* A probe without a RIF leaves -1 "so callers can skip stale values" (`balancer.go:222`); the pool
  takes it, and it makes the entry cold.
* `updateWRRAfterRequest` is called from nowhere.
* The first CPU row of a phase is a difference from a snapshot of the phase before
  (`OnlyFirstRowReachesBack` is about the others).
* `prepare.py` exits with 0 although tasks failed, as long as an lb-prequal, of whatever age, and one
  backend answer. An `experiment2.py` that is killed leaves its probe rate behind.
* In the code a percentile rank is the ceiling of a float product, which may come out one too high
  where `q/100*n` is an integer; the model computes exactly.
* Resuming a scaling run with other `LOADS` counts the old runs as done.

### The proofs

`OrderLemmas`. The prover has no induction over data with which to unfold a recursive definition, but it
needs none: from the well-foundedness of strict inclusion between finite sets follow the largest and the
smallest of finitely many integers, from these that whatever holds at 0 and carries over to the next
number holds up to any number (`CountingUp`), and from that the existence of a function given by its first
value and its steps (`Iteration`). A `LET`-recursive function of a model is then the function its
equation says, and a property of its last value is shown round by round. The second half is about sorting:
a sequence of integers can be sorted (`SortExists`), and what stands at index `k` of the sorted sequence has
rank `k` among the values (`SortedRank`), since a permutation of the positions keeps every count. Only one
value has a rank (`OneOfARank`), so that `SortInts`, given by ranks, is that sequence (`SortIntsSorts`).

`PrequalProofs` has four parts. First the decisions of `HotCold`: existence of the value with a given rank, as the
least value that enough entries do not exceed, and of an entry for every rule.
Then the pool: `PoolInv`, which is `PoolTypeOK /\ SizeBound /\ LiveBudget /\ OveruseBound`. The
overuse bound alone is not inductive: a caller may start to hold an entry at any time. With
`LiveBudget` it is, since `Fresh` hands out only entries of the pool, which have a use left, so
that uses made plus callers holding it stay below `maxUses + |Client|`. Assumptions: finite
`Client`, positive budgets, `MaxSize > 0`.

Then the prober: that a responsive server is healthy is not inductive, a failure might be on
its way; it is once no result on its way (`back`) is a failure of that server. Last the composition:
`PrequalInv` adds to the types what a selection relies on between its steps: an
entry in `seen[c]` belongs to a server in `eligible[c]`. Refinement of `Selection` has one step
per action; `UsesPool` maps every action to one of the pool or to a stutter, and gives
`PrequalPoolBounds` from the theorems on the pool.

`SignalProofs` has two parts, which share no state. One is a replica: `BackendInv` is the type of
everything but the counters, and `SlotsExact`: that a counter stays within its type follows from what it counts. One lemma, `Moves`, says what the move
of a handler does to the number of handlers at any set of places; three instances of it carry every
action. For the estimate, the rounds of the insertion sort keep the samples read so far sorted, the sample in
the middle has the middle rank (`SortedRank`), and the search has met only empty buckets before the one it
ends at, which is therefore a nearest one, and the lower of two.

The other part is the slice. First the loops, for any slice: `Scan` ends at an element that no other beats, because
"beats" is a strict order (for `RemoveWorst` a lexicographic one, hot before cold), and so at an oldest, a
worst, a fastest or a calmest entry; the value at the quantile index of the sorted slice has the rank
`RifQuantile` asks for, and only one value has it; cutting, appending and copying change the set of entries
as they should. Counting entries by positions, and removing one by its pointer, is right only if no
slice repeats an entry: that, and that every entry in reach has its record, is `SliceInv`. The
refinement has one lemma per action.

`BalancerProofs`. `BalancerInv` adds `FailuresByReason`, `ReportSoFar`, what each load of a
report leaves for the next one, and `GaugeSoFar`. `GaugeBounded` speaks of moments with nothing in flight;
what holds at every moment is that the gauge of a server is below the number of handlers, or some
handler of that server has its last `Set` still before it, and that what a handler on its way out has
loaded is below that number, since it counts itself no more. The counting
lemmas say how a move of one handler changes the cardinality of the sets the counters count.
`GaugeBounded` needs a handler to exist (`HandlerAssumption`).

`PoliciesProofs`. `PoliciesInv` has five parts. `ChoiceInv` and `AnswerInv`: what a
goroutine may still answer was healthy during its call, which gives `KeepsPromise`. `RIFInv`:
`ClientRIF` of a server is the number of requests with it. `ScanInv`: while no weight fell, the
partial sum of the second pass plus what is left is at least the sum of the first, so that the
pick is met before the candidates end; the partial sums are some function that exists, given by
its steps, so that no recursion is needed. `HerdInv`: the load of the best so far exceeds that of
every candidate it was compared with by at most `moved[c]`. That `moved` stops at the number of clients
costs nothing, because by `RIFInv` no `ClientRIF` exceeds it either.
`RoundRobinFair` has an invariant of its own, `LapInv`: the servers of the lap are those at the places
from some first one up to that of `rrIdx`, around the end of the list if need be. It needs that
`Candidates`, a set of lists, has one member at most: the ascending list of a finite set is unique. And
it needs that the turn after `rrIdx % n` is the next place: quotient and remainder are unique.

`PhaseReportProofs`. What a parser holds after `k` lines is first said without a loop: `TallyUpto` counts,
among the first `k` lines, those it is about, and lists what they added. `ReadFileIs` shows, line by line, that
the recursion holds just this, for the whole phase and for each bin that a line fell into; a bin without
a line is one that counts nothing. From there a row and the summary are the same kind of thing, a
`Line` about a set of lines, and need one lemma each for counts (`LineCounts`) and quantiles
(`LineQuantiles`: what is listed are the values of the lines, each once, and what stands at the ceiling
in the sorted list is their quantile). That the rows and the late responses add up to all follows by
counting up the bins. That the deadline never flatters is a comparison of two counts: were the mapped
quantile below the measured one, then all responses up to it would be successes faster than
the measured one, which are too few. `ReportInv` says what the state has to do with files: the summary and the rows of each phase
are those of its file, and the rows stand in the order of their bins, none missing, which is
what makes the place of a row in its group its bin, and the two ways of sorting the same. Sums of phases
are sums over sets of places (`TotalOfUnion`); that a ratio of sums lies between the ratios is
`TotalsBalance`, without a division. Assumptions: columns hold integers or `NoNumber`, which is none,
a duration and a positive bin width, windows in `Nat`, and phases that are an algo and a load.

`ExperimentProofs`. `ExperimentInv` is the type and seven parts, one for each thing that spans
several steps: which program may be where (`ControlInv`), what is left to write at each place
(`TodoInv`) and what is complete by then (`FileInv`), what the thread may still append (`SampleInv`:
once told to stop, at most the row it is taking), who holds the probe rate that has to come back
(`RateInv`), which containers were recreated (`RigInv`), and that the phases the thread copied never
run ahead (`RowInv`). Each property is one of these parts or follows from two. The refinement of
`RunDirectory` needs that DONE is only met where nothing is left to write. Assumptions:
`Steps > 0`, and the types of `Backends`, `ProbeRates` and `PreparedRate`.

`CampaignProofs`. Of the scripts of `prepare.py` three facts are used: they are commands on containers,
no two tasks share a container (`ScriptsApart`), and the last command a script gives on a container
starts it (`RunLast`). They hold for any number of hosts and backends because what the `i`-th host is
given is every `Len(Hosts)`-th backend from the `i`-th on. `OkMeansNew` looks at tasks that are over only;
`PrepareInv` says what an attempt has done at every moment (`EffectInv`): the commands before `next` are
in effect, but for those a later one overrode, unless the task left a command behind, which can
disturb only the task itself (`LateInv`). `CampaignInv` adds what the order of the shell script is worth:
the counts before `idx` are done, although the count that is run may be one of them again (`RemoteInv`);
what is on the lb node is what was asked for, unless the script resumed (`CleanInv`); a script that
is sure replaces no run that is done or goes on (`SureInv`, which gives `DoneKept`); what was fetched
was complete when it was (`LocalInv`). An experiment stops a load balancer only while no preparation
is under way, so that it does not disturb `EffectInv`. `AddressesDistinct` is a fact about constants:
on one host the ports ascend. Assumptions: the hosts ascend and there is one, positive numbers of
backends, attempts and steps, and no count above the number of backends.

Only model-checked: liveness (`SelectionAnswered`, `StaleLeaves`, `StatusSettles`, `RunEnds`), which the
prover does not do. Every safety property of a passing run is proved.

## 5. Abstractions, and what is not modelled

* The wall clock is an age in ticks; `ProbeTimeout` and the intervals are not numbers. A probe
  may take arbitrarily long, which includes the two seconds of the code and more.
* QRIF and the rates are percentages and `Breuse`, `QuantileIndex` use integer arithmetic where
  the code uses floats and truncates. The two agree except where a float product falls just short
  of an integer.
* A replica that answers a probe sends `X-RIF` with status 200, as the backend of this repository
  does. Other fields of a probe result (CPU load, `ServerRIF`, `LastProbeAt`) do not influence
  Prequal and are left out.
* The unlocked reads of `IsHealthy` are data races in the sense of the Go memory model; they are
  modelled as reads of the current value, at any moment.
* `AddServer` runs only before `StartBackground`, so the set of servers is constant.
* Logging, histograms, `/info` and the texts of answers are left out.
* The synthetic work and delays of a replica are the time between `Acquire` and `Respond`. Nothing
  cancels a handler whose client has gone away, in the code as in the model.
* A weight is any value of a set, and so are the outcomes of probes; `EWMALatency`, which smooths
  the latency of failed probes as well, is not modelled.
* Times of the experiments (`step-seconds`, cool-downs, timeouts) are not numbers: any of them may
  take as long as it likes, and an interrupt, a kill or a failure may come first.
* `cooldowns.json`, `metadata.json` and the files of plots are left out, and so is what the self-test
  and the warm-up send. `--per-host` is parsed and not used. The fraction of contended backends is
  given as the step it is rounded to.
* Two experiments that reconfigure the same load balancers at the same time, after a lost connection
  and an early resumption, are not modelled: `Campaign` lets both run, each with its own directory, but
  does not follow the containers through both.
* CPU is sampled on all hosts of the cluster, not only those that serve; the model is about one host.
* Not modelled at all: construction of metrics, the load generator, plots, argument and environment
  parsing, `docker-compose.yml`, `setup.sh`, `compare.sh` and the CloudLab profile. They keep no state that
  the rest of the system reads, or only configure it (`PROJECT.json`, "components").

## 6. Plan

Done, in this order: `HotCold`, `ProbePool` and its proofs; `PoolSlice` and its proofs; `Prober`, `HealthCheck`;
`Selection`, `Prequal` and its proofs; `Balancer` and its proofs; `LatencyBuckets`, `Backend` and
its proofs; `Policies` and its proofs; `PhaseStats`, `PhaseReport` and its proofs; `RunDirectory`, `Sampler`,
`Experiment` and its proofs; `Prepare`, `Campaign` and their proofs.

What is left:

1. Least loaded composed with the handlers of `Balancer`, instead of the requests of `Policies`.
2. The smoothed latencies behind the weights, with the latencies of failed probes in them.
3. `Campaign` over the containers of `Experiment`, with two experiments at once.
