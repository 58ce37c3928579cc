-------------------------- MODULE ExperimentProofs --------------------------
(***************************************************************************)
(* Proofs about the experiments, for any number of phases, backends, runs  *)
(* and rows, and for every moment of a failure, an interrupt or a kill.    *)
(*                                                                         *)
(* The invariant has a part for each thing that spans several steps:       *)
(*   ControlInv  which program may be where, and that there are as many    *)
(*               healthy backends as the run asked for.                    *)
(*   TodoInv     the files still to write, for each place of main.         *)
(*   FileInv     which of them are complete by then.                       *)
(*   SampleInv   what the thread may still append: nothing without phase   *)
(*               and, once stopped, the row it is about to take.           *)
(*   RateInv     who holds the probe rate that has to come back.           *)
(*   RigInv      the containers already recreated are as they should be.   *)
(*   RowInv      the phases the thread copied never run ahead of main.     *)
(***************************************************************************)
EXTENDS Experiment, FiniteSetTheorems, SequenceTheorems, TLAPS

\* The files left to write, from the first to the last of a group.
AllFiles   == <<"ts", "phases", "samples">>
BothFiles  == <<"ts", "phases">>
LaterFiles == <<"phases", "samples">>
LastTwo    == <<"samples", "status">>
Only(f)    == <<f>>

Finally == {"stopping", "joining", "restoring", "restarting"}

\* Only the programs with a sampler have a finally clause, and only experiment2.py
\* restores in it; an exception is remembered nowhere else.
ControlInv ==
    /\ pc \in Finally => Sampled
    /\ pc \in {"restoring", "restarting"} => program = "experiment2" /\ restore
    /\ pc \in {"cooling", "cooled"} => ~Sampled
    /\ failed => pc \in Finally
    /\ pc # "idle" => servers \in 1 .. Len(full)

\* What is left to write is a rest of the group that belongs to this place.
TodoInv ==
    /\ todo = <<>> => ~opened
    /\ pc \notin {"begin", "save", "cooling", "cooled", "finish"} => todo = <<>>
    /\ pc \in {"begin", "cooling"} => todo \in {Only("status"), <<>>}
    /\ pc = "cooled" => todo \in {Only("ts"), <<>>}
    /\ pc = "save" => todo \in IF Sampled THEN {AllFiles, LaterFiles, Only("samples"), <<>>}
                                         ELSE {BothFiles, Only("phases"), <<>>}
    /\ pc = "finish" => todo \in IF Sampled THEN {LastTwo, Only("status"), <<>>}
                                           ELSE {Only("status"), <<>>}

\* The heads and tails of the groups of files, and what tells them apart.
LEMMA TodoFacts ==
    /\ Head(AllFiles) = "ts" /\ Tail(AllFiles) = LaterFiles /\ AllFiles # <<>>
    /\ Head(BothFiles) = "ts" /\ Tail(BothFiles) = Only("phases") /\ BothFiles # <<>>
    /\ Head(LaterFiles) = "phases" /\ Tail(LaterFiles) = Only("samples") /\ LaterFiles # <<>>
    /\ Head(LastTwo) = "samples" /\ Tail(LastTwo) = Only("status") /\ LastTwo # <<>>
    /\ \A f : Head(Only(f)) = f /\ Tail(Only(f)) = <<>> /\ Only(f) # <<>>
    /\ \A f : Only(f) \notin {AllFiles, BothFiles, LaterFiles, LastTwo}
BY DEF AllFiles, BothFiles, LaterFiles, LastTwo, Only

Row == [tag : 1 .. Steps, since : 1 .. Steps]

\* Some run is launched, whichever.
Launching ==
    \E p \in Program, c \in LB, n \in 1 .. Len(Backends), given, keep \in BOOLEAN,
       up \in SUBSET Backend : Launch(p, c, n, given, keep, up)

\* The rows of the sampler are a sequence, so it has a length.
LEMMA RowsType == ExperimentTypeOK => rows \in Seq(Row) /\ Len(rows) \in Nat
BY DEF ExperimentTypeOK, Row

\* filter_healthy returns a list of backends: as many places as there are healthy
\* ones in a finite list.
LEMMA HealthyType ==
    ASSUME ExperimentTypeOK, Launching
    PROVE  full' \in Seq(Backend)
<1>1. PICK list \in Seq(Backend), up \in SUBSET Backend : full' \in FilterHealthy(list, up)
  <2>1. GetFullServers \in Seq(Backend)
    BY DEF GetFullServers, ExperimentTypeOK, LB
  <2>. QED BY <2>1, BackendsAssumption DEF Launching, Launch
<1>. DEFINE kept == {i \in DOMAIN list : list[i] \in up}
<1>2. Cardinality(kept) \in Nat
  <2>1. IsFiniteSet(DOMAIN list) /\ kept \in SUBSET DOMAIN list
    <3>1. DOMAIN list = 1 .. Len(list) /\ Len(list) \in Nat
      OBVIOUS
    <3>. QED BY <3>1, FS_Interval
  <2>. QED BY <2>1, FS_Subset, FS_CardinalityType
<1>3. PICK at \in [1 .. Cardinality(kept) -> kept] : full' = [j \in DOMAIN at |-> list[at[j]]]
  BY <1>1 DEF FilterHealthy
<1>4. PICK n \in Nat : n = Cardinality(kept)
  BY <1>2
<1>5. full' \in [1 .. n -> Backend]
  BY <1>3, <1>4
<1>. QED BY <1>5, SeqDef

\* No step leaves files to write that main does not get to.
LEMMA TodoStep ==
    ASSUME ExperimentTypeOK, ControlInv, TodoInv, [ExperimentNext]_experimentVars
    PROVE  TodoInv'
<1>1. CASE Launching
  BY <1>1 DEF Launching, Launch, TodoInv
<1>2. CASE RemoveLB \/ Create \/ StopSampler \/ RestoreRemoves
  BY <1>2 DEF RemoveLB, Create, StopSampler, RestoreRemoves, TodoInv, fileVars,
              configVars
<1>3. CASE SelfTest
  BY <1>3 DEF SelfTest, TodoInv, Only
<1>4. CASE Open
  BY <1>4 DEF Open, TodoInv, mainVars, configVars, Sampled
<1>5. CASE Fill
  <2>1. /\ UNCHANGED <<pc, program>> /\ ~opened' /\ todo' = Tail(todo) /\ todo # <<>>
    BY <1>5 DEF Fill, TodoInv, mainVars, configVars
  <2>2. CASE pc = "save"
    BY <2>1, <2>2, TodoFacts, ZenonT(60) DEF TodoInv, Sampled
  <2>3. CASE pc = "finish"
    BY <2>1, <2>3, TodoFacts DEF TodoInv, Sampled
  <2>4. CASE pc \notin {"save", "finish"}
    BY <2>1, <2>4, TodoFacts DEF TodoInv
  <2>. QED BY <2>2, <2>3, <2>4
<1>6. CASE StartPhase
  BY <1>6 DEF StartPhase, TodoInv, fileVars
<1>7. CASE EndPhase
  BY <1>7 DEF EndPhase, TodoInv, configVars, Sampled, AllFiles, BothFiles
<1>8. CASE CoolDown \/ NextPhase
  BY <1>8 DEF CoolDown, NextPhase, TodoInv, Only
<1>9. CASE LastPhaseOver
  BY <1>9 DEF LastPhaseOver, TodoInv, configVars, Sampled, LastFiles, LastTwo, Only
<1>10. CASE Join \/ \E works \in BOOLEAN : RestoreCreates(works)
  BY <1>10 DEF Join, RestoreCreates, AfterFinally, Exit, TodoInv, ControlInv,
               Finally, configVars, Sampled, LastFiles, LastTwo, Only
<1>11. CASE Finish \/ Kill \/ Interrupt
  BY <1>11 DEF Finish, Kill, Interrupt, Fail, Exit, TodoInv
<1>12. CASE Sample \/ UNCHANGED experimentVars
  BY <1>12 DEF Sample, TodoInv, mainVars, fileVars, configVars, experimentVars,
               Sampled
<1>. QED BY <1>1, <1>2, <1>3, <1>4, <1>5, <1>6, <1>7, <1>8, <1>9, <1>10, <1>11, <1>12
         DEF ExperimentNext, Launching, Main

\* Launch gives up where there are too few backends, and an exception is raised only
\* inside a try clause: both are what ControlInv needs.
LEMMA ControlStep ==
    ASSUME ExperimentTypeOK, ControlInv, [ExperimentNext]_experimentVars
    PROVE  ControlInv'
<1>1. CASE Launching
  <2>1. PICK n \in 1 .. Len(Backends) :
          /\ pc = "idle" /\ servers' = n
          /\ pc' = IF Len(full') < n THEN "idle" ELSE "checked"
          /\ UNCHANGED failed
    BY <1>1 DEF Launching, Launch
  <2>2. Len(full') \in Nat
    <3>1. full' \in Seq(Backend)
      BY <1>1, HealthyType
    <3>. QED BY <3>1
  <2>3. Len(Backends) \in Nat /\ ~failed
    BY <2>1, BackendsAssumption DEF ControlInv, Finally
  <2>. QED BY <2>1, <2>2, <2>3 DEF ControlInv, Finally
<1>2. CASE RemoveLB \/ Create \/ SelfTest \/ StartPhase \/ EndPhase
  BY <1>2 DEF RemoveLB, Create, SelfTest, StartPhase, EndPhase, ControlInv,
              Finally, configVars, Sampled
<1>3. CASE Open \/ Fill \/ Sample \/ UNCHANGED experimentVars
  BY <1>3 DEF Open, Fill, Sample, experimentVars, mainVars, configVars, ControlInv,
              Finally, Sampled
<1>4. CASE CoolDown \/ NextPhase
  BY <1>4 DEF CoolDown, NextPhase, ControlInv, Finally, configVars, Sampled
<1>5. CASE LastPhaseOver \/ StopSampler \/ RestoreRemoves
  BY <1>5 DEF LastPhaseOver, StopSampler, RestoreRemoves, ControlInv, Finally,
              configVars, Sampled
<1>6. CASE Join \/ \E works \in BOOLEAN : RestoreCreates(works)
  BY <1>6 DEF Join, RestoreCreates, AfterFinally, Exit, ControlInv, Finally,
              configVars, Sampled
<1>7. CASE Finish \/ Kill \/ Interrupt
  BY <1>7 DEF Finish, Kill, Interrupt, Fail, Guarded, Exit, ControlInv, Finally,
              configVars, Sampled
<1>. QED BY <1>1, <1>2, <1>3, <1>4, <1>5, <1>6, <1>7
   DEF ExperimentNext, Launching, Main

\* A group of files is written in its order, so that what is no longer left to write
\* is complete; DONE comes last of all.
FileInv ==
    /\ status = "DONE" => /\ pc = "idle" \/ (pc = "finish" /\ todo = <<>>)
                          /\ ts = Steps /\ phases = Steps
    /\ pc = "save" => /\ todo \notin {AllFiles, BothFiles} => ts = k
                      /\ todo \in {Only("samples"), <<>>} => phases = k
    /\ (pc \in Finally /\ ~failed) \/ pc = "finish" => k = Steps /\ ts = k /\ phases = k

\* A file that is complete stays so until its next group is begun, and DONE until the
\* next run.
LEMMA FileStep ==
    ASSUME ExperimentTypeOK, ControlInv, TodoInv, FileInv, [ExperimentNext]_experimentVars
    PROVE  FileInv'
<1>1. CASE Launching
  BY <1>1 DEF Launching, Launch, FileInv, Finally
<1>2. CASE RemoveLB \/ Create \/ SelfTest \/ StartPhase
  BY <1>2 DEF RemoveLB, Create, SelfTest, StartPhase, fileVars, resultVars,
              FileInv, Finally
<1>3. CASE EndPhase
  BY <1>3, TodoFacts DEF EndPhase, resultVars, FileInv, Finally, AllFiles, BothFiles
<1>4. CASE Open
  <2>1. CASE pc = "save"
    BY <1>4, <2>1, TodoFacts DEF Open, mainVars, configVars, FileInv, TodoInv,
                                 Finally
  <2>2. CASE pc = "finish"
    BY <1>4, <2>2, TodoFacts DEF Open, mainVars, configVars, FileInv, TodoInv,
                                 Finally
  <2>3. CASE pc \notin {"save", "finish"}
    BY <1>4, <2>3, TodoFacts DEF Open, mainVars, configVars, FileInv, TodoInv,
                                 Finally
  <2>. QED BY <2>1, <2>2, <2>3
<1>5. CASE Fill
  <2>1. CASE pc = "save"
    BY <1>5, <2>1, TodoFacts DEF Fill, mainVars, configVars, FileInv, TodoInv,
                                 Finally, State
  <2>2. CASE pc = "finish"
    BY <1>5, <2>2, TodoFacts DEF Fill, mainVars, configVars, FileInv, TodoInv,
                                 Finally, State
  <2>3. CASE pc \notin {"save", "finish"}
    BY <1>5, <2>3, TodoFacts DEF Fill, mainVars, configVars, FileInv, TodoInv,
                                 Finally, State
  <2>. QED BY <2>1, <2>2, <2>3
<1>6. CASE CoolDown \/ NextPhase
  BY <1>6 DEF CoolDown, NextPhase, resultVars, FileInv, Finally
<1>7. CASE LastPhaseOver
  BY <1>7, TodoFacts DEF LastPhaseOver, resultVars, FileInv, Finally
<1>8. CASE StopSampler \/ RestoreRemoves
  BY <1>8 DEF StopSampler, RestoreRemoves, fileVars, resultVars, FileInv, Finally
<1>9. CASE Join \/ \E works \in BOOLEAN : RestoreCreates(works)
  BY <1>9 DEF Join, RestoreCreates, AfterFinally, Exit, resultVars, FileInv, Finally
<1>10. CASE Finish \/ Kill
  BY <1>10 DEF Finish, Kill, Exit, resultVars, FileInv, Finally
<1>12. CASE Interrupt
  BY <1>12 DEF Interrupt, Fail, Guarded, Exit, resultVars, FileInv, Finally
<1>11. CASE Sample \/ UNCHANGED experimentVars
  BY <1>11 DEF Sample, mainVars, fileVars, resultVars, experimentVars, FileInv,
               Finally
<1>. QED BY <1>1, <1>2, <1>3, <1>4, <1>5, <1>6, <1>7, <1>8, <1>9, <1>10, <1>11, <1>12
         DEF ExperimentNext, Launching, Main

\* At most the row the thread was about to append is missing among the first n.
AllButLast(n) ==
    /\ n >= Len(rows) - 1
    /\ thread \in {"checked", "sampling"} => n >= Len(rows)

\* By the time the samples are written for the last time the thread was told to stop.
SampleInv ==
    /\ program = "common" => rows = <<>>
    /\ program = "common" \/ pc = "idle" => thread = "none"
    /\ pc \in {"joining", "restoring", "restarting"} => stopped
    /\ pc = "finish" /\ Sampled => stopped
    /\ pc = "finish" /\ Sampled /\ todo = LastTwo /\ opened => AllButLast(got)
    /\ pc = "finish" /\ Sampled /\ todo # LastTwo => AllButLast(samples)
    /\ status = "DONE" => samples >= Len(rows) - 1

\* Once it was told to stop the thread completes the sample it is taking, if any, and
\* takes no other: no count of rows falls behind by a second one.
LEMMA SamplerSteps ==
    ASSUME ExperimentTypeOK, SampleInv, Sample
    PROVE  /\ Sampled /\ pc # "idle" /\ UNCHANGED <<mainVars, fileVars, lb, drifted, stopped>>
           /\ \A n \in Nat : stopped /\ AllButLast(n) => AllButLast(n)'
<1>1. rows \in Seq([tag : 1 .. Steps, since : 1 .. Steps]) /\ Len(rows) \in Nat
  BY RowsType DEF ExperimentTypeOK, Row
<1>2. thread # "none" /\ UNCHANGED <<mainVars, fileVars, lb, drifted, stopped>>
  BY DEF Sample, CheckStop, CopyPhase, SampleFails, AppendCPURow, AppendRIFRow
<1>3. ASSUME NEW n \in Nat, stopped, AllButLast(n) PROVE AllButLast(n)'
  <2>1. CASE CheckStop \/ CopyPhase \/ SampleFails
    BY <1>3, <2>1 DEF CheckStop, CopyPhase, SampleFails, AllButLast
  <2>2. CASE AppendCPURow \/ AppendRIFRow
    <3>1. rows' = rows \/ Len(rows') = Len(rows) + 1
      BY <1>1, <2>2 DEF AppendCPURow, AppendRIFRow
    <3>2. n >= Len(rows) /\ thread' = "loop"
      BY <1>3, <2>2 DEF AppendCPURow, AppendRIFRow, AllButLast
    <3>. QED BY <1>1, <3>1, <3>2 DEF AllButLast
  <2>. QED BY <2>1, <2>2 DEF Sample
<1>. QED BY <1>2, <1>3 DEF SampleInv, Sampled

\* Main stops the thread before it takes the rows, and reports DONE after.
LEMMA SampleStep ==
    ASSUME ExperimentTypeOK, ControlInv, TodoInv, FileInv, SampleInv,
           [ExperimentNext]_experimentVars
    PROVE  SampleInv'
<1>0. /\ got \in Nat /\ samples \in Nat /\ Len(rows) \in Nat
  BY RowsType DEF ExperimentTypeOK, Row
<1>1. CASE Launching
  BY <1>1 DEF Launching, Launch, SampleInv, Sampled
<1>2. CASE RemoveLB \/ Create \/ StartPhase \/ EndPhase
  BY <1>2 DEF RemoveLB, Create, StartPhase, EndPhase, samplerVars, configVars,
              fileVars, resultVars, SampleInv, Sampled
<1>3. CASE SelfTest
  BY <1>3 DEF SelfTest, configVars, resultVars, SampleInv, Sampled, FileInv
<1>4. CASE Open
  <2>1. CASE pc = "finish"
    <3>1. /\ UNCHANGED <<rows, thread, stopped, program, pc, todo>> /\ opened'
          /\ Head(todo) = "samples" => got' = Len(rows)
          /\ Head(todo) # "samples" => samples' = samples
          /\ status' = "DONE" => status = "DONE" /\ Head(todo) # "status"
      BY <1>4 DEF Open, samplerVars, mainVars, configVars
    <3>2. CASE todo = LastTwo
      <4>1. got' = Len(rows) /\ status # "DONE"
        BY <2>1, <3>1, <3>2, TodoFacts DEF FileInv
      <4>2. AllButLast(got)'
        BY <1>0, <3>1, <4>1 DEF AllButLast
      <4>. QED BY <2>1, <3>1, <3>2, <4>1, <4>2 DEF SampleInv, Sampled
    <3>3. CASE todo # LastTwo
      <4>1. Head(todo) = "status"
        BY <1>4, <2>1, <3>3, TodoFacts DEF Open, TodoInv
      <4>. QED BY <2>1, <3>1, <3>3, <4>1 DEF SampleInv, Sampled, AllButLast
    <3>. QED BY <3>2, <3>3
  <2>2. CASE pc # "finish"
    BY <1>4, <2>2, TodoFacts DEF Open, samplerVars, mainVars, configVars,
                                 SampleInv, TodoInv, Sampled, FileInv
  <2>. QED BY <2>1, <2>2
<1>5. CASE Fill
  <2>1. CASE pc = "finish"
    BY <1>0, <1>5, <2>1, TodoFacts DEF Fill, samplerVars, mainVars, configVars,
                                       SampleInv, TodoInv, Sampled, AllButLast,
                                       State
  <2>2. CASE pc # "finish"
    BY <1>5, <2>2, TodoFacts DEF Fill, samplerVars, mainVars, configVars,
                                 SampleInv, TodoInv, Sampled, FileInv, State
  <2>. QED BY <2>1, <2>2
<1>6. CASE CoolDown \/ NextPhase
  BY <1>6 DEF CoolDown, NextPhase, samplerVars, configVars, resultVars, SampleInv,
              Sampled
<1>7. CASE LastPhaseOver
  BY <1>7, TodoFacts DEF LastPhaseOver, samplerVars, configVars, resultVars,
                         SampleInv, Sampled
<1>8. CASE StopSampler \/ RestoreRemoves
  BY <1>8 DEF StopSampler, RestoreRemoves, samplerVars, configVars, fileVars,
              resultVars, SampleInv, Sampled
<1>9. CASE Join \/ \E works \in BOOLEAN : RestoreCreates(works)
  <2>1. /\ UNCHANGED <<program, stopped, rows, samples, status>> /\ stopped /\ Sampled /\ ~opened
        /\ pc' \in {"restoring", "idle", "finish"}
        /\ pc' = "idle" => thread' = "none"
        /\ pc' = "finish" => todo' = LastTwo /\ ~opened'
    BY <1>9 DEF Join, RestoreCreates, AfterFinally, Exit, configVars, resultVars,
                SampleInv, Sampled, ControlInv, TodoInv, Finally, LastFiles, LastTwo
  <2>. QED BY <2>1 DEF SampleInv, Sampled
<1>10. CASE Finish \/ Kill \/ Interrupt
  BY <1>10 DEF Finish, Kill, Interrupt, Fail, Guarded, Exit, configVars,
               resultVars, SampleInv, Sampled
<1>11. CASE Sample
  <2>1. /\ Sampled /\ pc # "idle"
        /\ UNCHANGED <<program, pc, stopped, todo, opened, got, samples, status>>
        /\ stopped /\ AllButLast(got) => AllButLast(got)'
        /\ stopped /\ AllButLast(samples) => AllButLast(samples)'
    BY <1>0, <1>11, SamplerSteps DEF mainVars, configVars, fileVars, resultVars,
                                     AllButLast
  <2>2. status = "DONE" => stopped /\ AllButLast(samples)
    BY <2>1, TodoFacts DEF FileInv, SampleInv
  <2>. QED BY <2>1, <2>2 DEF SampleInv, Sampled, AllButLast
<1>12. CASE UNCHANGED experimentVars
  BY <1>12 DEF samplerVars, mainVars, configVars, fileVars, resultVars,
               experimentVars, SampleInv, Sampled, AllButLast
<1>. QED BY <1>1, <1>2, <1>3, <1>4, <1>5, <1>6, <1>7, <1>8, <1>9, <1>10, <1>11, <1>12
         DEF ExperimentNext, Launching, Main

\* lb-prequal has the rate it was prepared with, or is away.
AsPrepared == lb[Prequal] = Missing \/ lb[Prequal].rate = PreparedRate

\* Unless an earlier run left a rate of its own: where lb-prequal does not have the
\* prepared rate some experiment2.py still runs, found it, and will put it back.
RateInv ==
    ~drifted =>
        /\ pc \in {"idle", "finish"} \/ program # "experiment2" => AsPrepared
        /\ pc # "idle" /\ program # "common" => found = PreparedRate
        /\ pc \in {"checked", "removed"} /\ Head(pending) = Prequal => found = PreparedRate
        /\ pc # "idle" /\ program = "experiment2" => restore
        /\ pc = "restarting" => lb[Prequal] = Missing

\* All load balancers were recreated.
Ready == {"created", "begin", "hey", "save", "cooling", "cooled"}

\* lb-prequal was recreated.
PrequalSet == lb[Prequal] = [servers |-> Subset,
                             rate |-> IF program = "experiment2" THEN ProbeRates[k] ELSE found]

\* The containers no longer pending were recreated for this run and phase.
RigInv ==
    /\ pc \in {"checked", "removed"} =>
          \/ program = "experiment1" /\ pending = <<Prequal, WRR>>
          \/ program = "experiment1" /\ pending = <<WRR>> /\ PrequalSet
          \/ program = "experiment2" /\ pending = <<Prequal>>
          \/ program = "common" /\ pending \in {<<Prequal>>, <<WRR>>}
    /\ pc \in Ready =>
          \/ program = "experiment1" /\ PrequalSet /\ lb[WRR].servers = Subset
          \/ program = "experiment2" /\ PrequalSet
          \/ program = "common" /\ \E c \in LB : lb[c].servers = Subset

\* The load balancers that can be pending, one after the other.
LEMMA PendingFacts ==
    /\ Prequal # WRR /\ LB = {Prequal, WRR}
    /\ Head(<<Prequal, WRR>>) = Prequal /\ Tail(<<Prequal, WRR>>) = <<WRR>>
    /\ Len(<<Prequal, WRR>>) = 2
    /\ \A c : Head(<<c>>) = c /\ Tail(<<c>>) = <<>> /\ Len(<<c>>) = 1
    /\ ToSet(<<Prequal, WRR>>) = LB /\ \A c : ToSet(<<c>>) = {c}
BY DEF Prequal, WRR, LB, ToSet

\* Tuples are sequences of whatever they hold.
LEMMA ShortSequences ==
    /\ \A S : <<>> \in Seq(S)
    /\ \A S : \A a \in S : <<a>> \in Seq(S)
    /\ \A S : \A a, b \in S : <<a, b>> \in Seq(S)
    /\ \A S : \A a, b, c \in S : <<a, b, c>> \in Seq(S)
OBVIOUS

\* The load balancers each program starts with.
LEMMA LaunchPending ==
    ASSUME NEW p \in Program, NEW c \in LB
    PROVE  /\ p = "experiment1" => Targets(p, c) = <<Prequal, WRR>>
           /\ p = "experiment2" => Targets(p, c) = <<Prequal>>
           /\ p = "common" => Targets(p, c) \in {<<Prequal>>, <<WRR>>}
BY DEF Targets, Program, LB

\* A container recreated stays as it is until the next phase that recreates it: of the
\* two of experiment1.py the second leaves the first alone.
LEMMA RigStep ==
    ASSUME ExperimentTypeOK, ControlInv, RigInv, [ExperimentNext]_experimentVars
    PROVE  RigInv'
<1>0. lb = [c \in LB |-> lb[c]]
  BY DEF ExperimentTypeOK
<1>1. CASE Launching
  <2>1. PICK p \in Program, c \in LB :
          pc' \in {"idle", "checked"} /\ program' = p /\ pending' = Targets(p, c)
    BY <1>1 DEF Launching, Launch
  <2>. QED BY <2>1, LaunchPending DEF RigInv, Ready, Program
<1>2. CASE RemoveLB
  BY <1>0, <1>2, PendingFacts DEF RemoveLB, RigInv, PrequalSet, Subset, Ready,
                                  configVars
<1>3. CASE Create
  <2>1. /\ UNCHANGED <<program, servers, full, found, k>> /\ UNCHANGED Subset /\ pc = "removed"
        /\ lb' = [lb EXCEPT ![Head(pending)] = NewConfig(Head(pending))]
        /\ pending' = Tail(pending)
        /\ pc' = IF Len(pending) = 1 THEN "created" ELSE "checked"
    BY <1>3 DEF Create, Subset, configVars
  <2>2. CASE program = "experiment1" /\ pending = <<Prequal, WRR>>
    <3>1. PrequalSet'
      BY <1>0, <2>1, <2>2, PendingFacts DEF PrequalSet, NewConfig
    <3>2. pending' = <<WRR>> /\ pc' = "checked"
      BY <2>1, <2>2, PendingFacts
    <3>. QED BY <2>1, <2>2, <3>1, <3>2 DEF RigInv, Ready
  <2>3. CASE program = "experiment1" /\ pending = <<WRR>> /\ PrequalSet
    <3>1. lb'[WRR].servers = Subset' /\ lb'[Prequal] = lb[Prequal]
      BY <1>0, <2>1, <2>3, PendingFacts DEF NewConfig
    <3>2. PrequalSet'
      BY <2>1, <2>3, <3>1 DEF PrequalSet
    <3>3. pc' = "created"
      BY <2>1, <2>3, PendingFacts
    <3>. QED BY <2>1, <2>3, <3>1, <3>2, <3>3 DEF RigInv, Ready
  <2>4. CASE program = "experiment2" /\ pending = <<Prequal>>
    <3>1. PrequalSet'
      BY <1>0, <2>1, <2>4, PendingFacts DEF PrequalSet, NewConfig
    <3>3. pc' = "created"
      BY <2>1, <2>4, PendingFacts
    <3>. QED BY <2>1, <2>4, <3>1, <3>3 DEF RigInv, Ready
  <2>5. CASE program = "common" /\ pending \in {<<Prequal>>, <<WRR>>}
    <3>1. PICK c \in LB : pending = <<c>>
      BY <2>5, PendingFacts
    <3>2. lb'[c].servers = Subset'
      BY <1>0, <2>1, <3>1, PendingFacts DEF NewConfig
    <3>3. pc' = "created"
      BY <2>1, <3>1, PendingFacts
    <3>. QED BY <2>1, <2>5, <3>2, <3>3 DEF RigInv, Ready
  <2>. QED BY <2>1, <2>2, <2>3, <2>4, <2>5 DEF RigInv
<1>4. CASE SelfTest \/ StartPhase \/ EndPhase \/ StopSampler
  BY <1>4 DEF SelfTest, StartPhase, EndPhase, StopSampler, RigInv, PrequalSet,
              Subset, Ready, configVars
<1>5. CASE Open \/ Fill \/ Sample \/ UNCHANGED experimentVars
  BY <1>5 DEF Open, Fill, Sample, experimentVars, mainVars, configVars, RigInv,
              PrequalSet, Subset, Ready
<1>6. CASE CoolDown \/ LastPhaseOver
  BY <1>6 DEF CoolDown, LastPhaseOver, RigInv, PrequalSet, Subset, Ready, configVars
<1>7. CASE NextPhase
  BY <1>7 DEF NextPhase, RigInv, PrequalSet, Subset, Ready, configVars
<1>8. CASE Join \/ RestoreRemoves \/ \E works \in BOOLEAN : RestoreCreates(works)
  BY <1>8 DEF Join, RestoreRemoves, RestoreCreates, AfterFinally, Exit, RigInv,
              Ready
<1>9. CASE Finish \/ Kill \/ Interrupt
  BY <1>9 DEF Finish, Kill, Interrupt, Fail, Exit, RigInv, Ready
<1>. QED BY <1>1, <1>2, <1>3, <1>4, <1>5, <1>6, <1>7, <1>8, <1>9
   DEF ExperimentNext, Launching, Main

\* Every way out of experiment2.py but a kill goes through the finally clause, which
\* puts the rate back or leaves no container.
LEMMA RateStep ==
    ASSUME ExperimentTypeOK, ControlInv, RigInv, RateInv, [ExperimentNext]_experimentVars
    PROVE  RateInv'
<1>0. lb = [c \in LB |-> lb[c]]
  BY DEF ExperimentTypeOK
<1>1. CASE Launching
  <2>1. PICK p \in Program, c \in LB, keep \in BOOLEAN :
          /\ pc = "idle" /\ pc' \in {"idle", "checked"} /\ program' = p
          /\ pending' = Targets(p, c) /\ found' = lb[Prequal].rate /\ lb' = lb
          /\ \A needed \in ToSet(Targets(p, c)) : lb[needed] # Missing
          /\ drifted' = (drifted \/ (p = "experiment2" /\ keep)) /\ restore' = ~keep
    BY <1>1 DEF Launching, Launch
  <2>2. p # "common" \/ Head(pending') = Prequal => lb[Prequal] # Missing
    BY <2>1, LaunchPending, PendingFacts DEF Program
  <2>. QED BY <2>1, <2>2 DEF RateInv, AsPrepared
<1>2. CASE RemoveLB
  BY <1>0, <1>2, PendingFacts DEF RemoveLB, RateInv, RigInv, AsPrepared, configVars
<1>3. CASE Create
  BY <1>0, <1>3, PendingFacts DEF Create, NewConfig, RateInv, RigInv, AsPrepared,
                                  configVars
<1>4. CASE SelfTest \/ StartPhase \/ EndPhase \/ StopSampler
  BY <1>4 DEF SelfTest, StartPhase, EndPhase, StopSampler, RateInv, AsPrepared,
              configVars
<1>5. CASE Open \/ Fill \/ Sample \/ UNCHANGED experimentVars
  BY <1>5 DEF Open, Fill, Sample, experimentVars, mainVars, configVars, RateInv,
              AsPrepared
<1>6. CASE CoolDown \/ LastPhaseOver
  BY <1>6 DEF CoolDown, LastPhaseOver, RateInv, AsPrepared, configVars, Sampled
<1>7. CASE NextPhase
  BY <1>7 DEF NextPhase, RateInv, AsPrepared, configVars
<1>8. CASE Join
  BY <1>8 DEF Join, AfterFinally, Exit, RateInv, AsPrepared, configVars
<1>9. CASE RestoreRemoves
  BY <1>0, <1>9, PendingFacts DEF RestoreRemoves, RateInv, AsPrepared, configVars
<1>10. CASE \E works \in BOOLEAN : RestoreCreates(works)
  BY <1>0, <1>10, PendingFacts DEF RestoreCreates, AfterFinally, Exit, RateInv,
                                   ControlInv, AsPrepared, configVars
<1>11. CASE Finish \/ Kill
  BY <1>11 DEF Finish, Kill, Exit, RateInv, AsPrepared, configVars
<1>12. CASE Interrupt
  BY <1>12 DEF Interrupt, Fail, Guarded, Exit, RateInv, AsPrepared, configVars,
               ExperimentTypeOK, Program, ControlInv, Sampled
<1>. QED BY <1>1, <1>2, <1>3, <1>4, <1>5, <1>6, <1>7, <1>8, <1>9, <1>10, <1>11, <1>12
         DEF ExperimentNext, Launching, Main

\* The phases go up: the thread holds one that main has reached, and the snapshot it
\* compares with is no later than the one it takes.
RowInv ==
    /\ phase \in {0, k}
    /\ pc \notin {"hey", "finish", "idle"} \cup Finally => phase = 0
    /\ tag <= k /\ previous <= k
    /\ pc = "idle" => tag = 0
    /\ thread = "sampling" => 1 <= tag /\ previous <= tag
    /\ program = "experiment1" => \A i \in DOMAIN rows : rows[i].tag <= previous
    /\ program = "experiment2" => \A i \in DOMAIN rows : rows[i].since = rows[i].tag
    /\ OnlyFirstRowReachesBack

\* A second row of a phase follows a snapshot of that phase.
LEMMA RowStep ==
    ASSUME ExperimentTypeOK, ControlInv, SampleInv, RowInv, [ExperimentNext]_experimentVars
    PROVE  RowInv'
<1>0. /\ k \in 1 .. Steps /\ tag \in Nat /\ previous \in Nat /\ Steps \in Nat
  BY StepsAssumption DEF ExperimentTypeOK
<1>1. CASE Launching
  <2>1. /\ pc = "idle" /\ phase' = 0 /\ previous' = 0 /\ rows' = <<>> /\ k' = 1
        /\ tag' = tag /\ thread' \in {"none", "loop"}
    BY <1>1 DEF Launching, Launch
  <2>2. tag = 0
    BY <2>1 DEF RowInv
  <2>. QED BY <2>1, <2>2 DEF RowInv, OnlyFirstRowReachesBack
<1>2. CASE RemoveLB \/ Create \/ Open \/ Fill \/ CoolDown \/ LastPhaseOver \/ RestoreRemoves
  BY <1>2 DEF RemoveLB, Create, Open, Fill, CoolDown, LastPhaseOver,
              RestoreRemoves, samplerVars, mainVars, configVars, RowInv,
              OnlyFirstRowReachesBack, Finally
<1>3. CASE SelfTest
  BY <1>3 DEF SelfTest, configVars, RowInv, OnlyFirstRowReachesBack, Finally
<1>4. CASE StartPhase \/ EndPhase \/ StopSampler
  BY <1>4 DEF StartPhase, EndPhase, StopSampler, configVars, RowInv,
              OnlyFirstRowReachesBack, Finally
<1>5. CASE NextPhase
  <2>1. /\ k' = k + 1 /\ phase = 0 /\ pc' \in {"checked", "begin"}
        /\ UNCHANGED <<phase, thread, tag, previous, rows, program>>
    BY <1>5 DEF NextPhase, samplerVars, configVars, RowInv, Finally
  <2>. QED BY <1>0, <2>1 DEF RowInv, OnlyFirstRowReachesBack
<1>6. CASE Join \/ \E works \in BOOLEAN : RestoreCreates(works)
  BY <1>0, <1>6 DEF Join, RestoreCreates, AfterFinally, Exit, configVars, RowInv,
                    OnlyFirstRowReachesBack, Finally
<1>7. CASE Finish \/ Kill \/ Interrupt
  BY <1>0, <1>7 DEF Finish, Kill, Interrupt, Fail, Guarded, Exit, configVars,
                    RowInv, OnlyFirstRowReachesBack, Finally
<1>8. CASE Sample
  <2>1. UNCHANGED <<program, pc, k, phase>>
    BY <1>8 DEF Sample, mainVars, configVars, CheckStop, CopyPhase, SampleFails,
                AppendCPURow, AppendRIFRow
  <2>2. CASE CheckStop \/ CopyPhase \/ SampleFails
    <3>1. /\ UNCHANGED <<previous, rows>>
          /\ tag' \in {tag, phase, 0} /\ (thread' = "sampling" => tag' = k)
      BY <2>2 DEF CheckStop, CopyPhase, SampleFails, RowInv
    <3>2. pc # "idle"
      BY <1>8, SamplerSteps
    <3>. QED BY <1>0, <2>1, <3>1, <3>2 DEF RowInv, OnlyFirstRowReachesBack
  <2>3. CASE rows' # rows
    <3>1. rows \in Seq(Row) /\ Len(rows) \in Nat
      BY RowsType
    <3>2. PICK row \in Row :
            /\ rows' = Append(rows, row) /\ thread = "sampling" /\ thread' = "loop"
            /\ row.tag = tag /\ tag' = 0
            /\ \/ program = "experiment1" /\ row.since = previous /\ previous' = tag
               \/ program = "experiment2" /\ row.since = tag /\ previous' = previous
      <4>1. CASE program = "experiment1" /\ AppendCPURow
        <5>1. [tag |-> tag, since |-> previous] \in Row
          BY <2>3, <4>1 DEF AppendCPURow, RowInv, ExperimentTypeOK, Row
        <5>. QED BY <2>3, <4>1, <5>1 DEF AppendCPURow
      <4>2. CASE program = "experiment2" /\ AppendRIFRow
        <5>1. [tag |-> tag, since |-> tag] \in Row
          BY <2>3, <4>2 DEF AppendRIFRow, RowInv, ExperimentTypeOK, Row
        <5>. QED BY <2>3, <4>2, <5>1 DEF AppendRIFRow
      <4>. QED BY <1>8, <2>3, <4>1, <4>2 DEF Sample, CheckStop, CopyPhase,
                                             SampleFails
    <3>3. PICK n \in Nat : n = Len(rows) /\ DOMAIN rows = 1 .. n /\ DOMAIN rows' = 1 .. n + 1
      BY <3>1, <3>2
    <3>4. /\ \A i \in 1 .. n : rows'[i] = rows[i] /\ rows[i] \in Row
          /\ rows'[n + 1] = row
      BY <3>1, <3>2, <3>3
    <3>5. previous <= tag /\ tag <= k
      BY <3>2 DEF RowInv
    <3>6. OnlyFirstRowReachesBack'
      <4>1. ASSUME NEW i \in 1 .. n + 1, NEW j \in 1 .. n + 1, i < j,
                   rows'[i].tag = rows'[j].tag
            PROVE  rows'[j].since = rows'[j].tag
        <5>1. i \in 1 .. n
          BY <4>1
        <5>2. CASE j \in 1 .. n
          BY <3>3, <3>4, <4>1, <5>1, <5>2 DEF RowInv, OnlyFirstRowReachesBack
        <5>3. CASE j = n + 1
          <6>1. rows[i].tag = tag /\ rows'[j] = row
            BY <3>2, <3>4, <4>1, <5>1, <5>3
          <6>2. program = "experiment1" => tag <= previous
            BY <3>3, <5>1, <6>1 DEF RowInv
          <6>. QED BY <1>0, <3>2, <3>5, <6>1, <6>2
        <5>. QED BY <4>1, <5>2, <5>3
      <4>. QED BY <3>3, <4>1 DEF OnlyFirstRowReachesBack
    <3>7. program = "experiment1" => \A i \in DOMAIN rows' : rows'[i].tag <= previous'
      <4>1. ASSUME program = "experiment1", NEW i \in 1 .. n + 1 PROVE rows'[i].tag <= tag
        <5>1. CASE i \in 1 .. n
          <6>1. rows[i].tag <= previous /\ rows[i].tag \in Nat
            BY <3>3, <3>4, <4>1, <5>1 DEF RowInv, Row
          <6>2. PICK m \in Nat : m = rows[i].tag
            BY <6>1
          <6>3. m <= tag
            BY <1>0, <3>5, <6>1, <6>2
          <6>. QED BY <3>4, <5>1, <6>2, <6>3
        <5>2. CASE i = n + 1
          <6>1. rows'[i].tag = tag
            BY <3>2, <3>4, <5>2
          <6>2. tag <= tag
            BY <1>0
          <6>. QED BY <6>1, <6>2
        <5>. QED BY <5>1, <5>2
      <4>. QED BY <3>2, <3>3, <4>1
    <3>8. program = "experiment2" => \A i \in DOMAIN rows' : rows'[i].since = rows'[i].tag
      BY <3>2, <3>3, <3>4 DEF RowInv
    <3>. QED BY <1>0, <2>1, <3>2, <3>5, <3>6, <3>7, <3>8 DEF RowInv
  <2>4. CASE (AppendCPURow \/ AppendRIFRow) /\ rows' = rows
    <3>1. /\ thread = "sampling" /\ thread' = "loop" /\ tag' = 0 /\ previous' \in {previous, tag}
      BY <2>4 DEF AppendCPURow, AppendRIFRow
    <3>2. previous <= tag /\ tag <= k
      BY <3>1 DEF RowInv
    <3>3. program = "experiment1" => \A i \in DOMAIN rows : rows[i].tag <= previous'
      <4>1. ASSUME NEW i \in DOMAIN rows PROVE rows[i].tag \in Nat
        <5>1. rows[i] \in Row
          BY RowsType
        <5>. QED BY <5>1 DEF Row
      <4>2. ASSUME NEW i \in DOMAIN rows, program = "experiment1"
            PROVE  rows[i].tag <= previous'
        <5>1. rows[i].tag <= previous
          BY <4>2 DEF RowInv
        <5>. QED BY <1>0, <3>1, <3>2, <4>1, <5>1
      <4>. QED BY <4>2
    <3>. QED BY <1>0, <2>1, <2>4, <3>1, <3>2, <3>3
       DEF RowInv, OnlyFirstRowReachesBack
  <2>. QED BY <1>8, <2>2, <2>3, <2>4 DEF Sample
<1>9. CASE UNCHANGED experimentVars
  BY <1>9 DEF experimentVars, mainVars, configVars, samplerVars, RowInv,
              OnlyFirstRowReachesBack, Finally
<1>. QED BY <1>1, <1>2, <1>3, <1>4, <1>5, <1>6, <1>7, <1>8, <1>9
   DEF ExperimentNext, Launching, Main

\* The configuration of a container, as far as it matters here.
Config == [servers : Seq(Backend), rate : Nat]

\* The types of the containers.
RigType ==
    /\ lb \in [LB -> Config] /\ pending \in Seq(LB)
    /\ full \in Seq(Backend) /\ found \in Nat

\* The first of the healthy backends are as many as the run asked for.
LEMMA SubsetFacts ==
    ASSUME full \in Seq(Backend), servers \in 1 .. Len(full)
    PROVE  Subset \in Seq(Backend) /\ Len(Subset) = servers /\ Subset # <<>>
<1>1. /\ Subset \in Seq(Backend)
      /\ Len(Subset) = servers
  BY SubSeqProperties DEF Subset
<1>. QED BY <1>1

\* What is created is a configuration, and what is pending a load balancer.
LEMMA RigTypeStep ==
    ASSUME ExperimentTypeOK, ControlInv, RigInv, [ExperimentNext]_experimentVars
    PROVE  RigType'
<1>0. /\ lb \in [LB -> Config] /\ pending \in Seq(LB) /\ full \in Seq(Backend) /\ found \in Nat
      /\ k \in 1 .. Steps
  BY DEF ExperimentTypeOK, Config
<1>1. CASE Launching
  <2>1. PICK p \in Program, c \in LB :
          lb' = lb /\ found' = lb[Prequal].rate /\ pending' = Targets(p, c)
    BY <1>1 DEF Launching, Launch
  <2>2. Targets(p, c) \in Seq(LB)
    <3>1. Prequal \in LB /\ WRR \in LB
      BY PendingFacts
    <3>. QED BY <3>1, ShortSequences DEF Targets
  <2>3. lb[Prequal].rate \in Nat
    BY <1>0, PendingFacts DEF Config
  <2>4. full' \in Seq(Backend)
    BY <1>1, HealthyType
  <2>. QED BY <1>0, <2>1, <2>2, <2>3, <2>4 DEF RigType
<1>2. Missing \in Config
  BY DEF Missing, Config
<1>3. CASE RemoveLB \/ RestoreRemoves
  BY <1>0, <1>2, <1>3 DEF RemoveLB, RestoreRemoves, RigType, configVars
<1>4. ASSUME pc # "idle", NEW r \in Nat PROVE [servers |-> Subset, rate |-> r] \in Config
  <2>1. Subset \in Seq(Backend)
    BY <1>0, <1>4, SubsetFacts DEF ControlInv
  <2>. QED BY <1>4, <2>1 DEF Config
<1>5. CASE Create
  <2>1. /\ pc = "removed" /\ UNCHANGED <<full, found>> /\ pending' = Tail(pending)
        /\ lb' = [lb EXCEPT ![Head(pending)] = NewConfig(Head(pending))]
    BY <1>5 DEF Create, configVars
  <2>2. pending # <<>>
    BY <2>1 DEF RigInv
  <2>3. pending' \in Seq(LB)
    BY <1>0, <2>1, <2>2
  <2>4. ProbeRates[k] \in Nat
    BY <1>0, RatesAssumption
  <2>5. PICK r \in Nat : NewConfig(Head(pending)) = [servers |-> Subset, rate |-> r]
    BY <1>0, <2>4 DEF NewConfig
  <2>6. NewConfig(Head(pending)) \in Config
    BY <1>4, <2>1, <2>5
  <2>. QED BY <1>0, <2>1, <2>3, <2>6 DEF RigType
<1>6. CASE \E works \in BOOLEAN : RestoreCreates(works)
  <2>1. /\ UNCHANGED <<full, found, pending>> /\ pc = "restarting"
        /\ \/ lb' = lb
           \/ lb' = [lb EXCEPT ![Prequal] = [servers |-> Subset, rate |-> found]]
    BY <1>6 DEF RestoreCreates, configVars
  <2>2. [servers |-> Subset, rate |-> found] \in Config
    BY <1>0, <1>4, <2>1
  <2>. QED BY <1>0, <2>1, <2>2 DEF RigType
<1>7. CASE NextPhase
  <2>1. UNCHANGED <<lb, full, found>> /\ pending' \in {<<Prequal>>, <<>>}
    BY <1>7 DEF NextPhase, configVars
  <2>2. pending' \in Seq(LB)
    BY <2>1, PendingFacts, ShortSequences
  <2>. QED BY <1>0, <2>1, <2>2 DEF RigType
<1>8. CASE SelfTest \/ StartPhase \/ EndPhase \/ StopSampler \/ CoolDown \/ LastPhaseOver
  BY <1>0, <1>8 DEF SelfTest, StartPhase, EndPhase, StopSampler, CoolDown,
                    LastPhaseOver, configVars, RigType
<1>9. CASE Open \/ Fill \/ Sample \/ UNCHANGED experimentVars
  BY <1>0, <1>9 DEF Open, Fill, Sample, experimentVars, mainVars, configVars,
                    RigType
<1>10. CASE Join \/ Finish \/ Kill \/ Interrupt
  BY <1>0, <1>10 DEF Join, Finish, Kill, Interrupt, configVars, RigType
<1>. QED BY <1>1, <1>3, <1>5, <1>6, <1>7, <1>8, <1>9, <1>10
   DEF ExperimentNext, Launching, Main

\* The types of the sampler.
SamplerType ==
    /\ phase \in 0 .. Steps /\ tag \in 0 .. Steps /\ previous \in 0 .. Steps
    /\ stopped \in BOOLEAN /\ thread \in Places /\ rows \in Seq(Row)

\* A row is only taken for a phase, so its tags are phases.
LEMMA SamplerTypeStep ==
    ASSUME ExperimentTypeOK, RowInv, [ExperimentNext]_experimentVars
    PROVE  SamplerType'
<1>0. SamplerType /\ k \in 1 .. Steps /\ Steps \in Nat
  BY StepsAssumption DEF ExperimentTypeOK, SamplerType, Row
<1>1. CASE Launching
  <2>0. stopped' = FALSE
    BY <1>1 DEF Launching, Launch
  <2>1. /\ phase' = 0 /\ tag' = tag /\ previous' = 0
        /\ thread' \in {"none", "loop"} /\ rows' = <<>>
    BY <1>1 DEF Launching, Launch
  <2>3. stopped' \in BOOLEAN
    BY <2>0
  <2>2. rows' \in Seq(Row)
    BY <2>1, ShortSequences
  <2>. QED BY <1>0, <2>1, <2>2, <2>3 DEF SamplerType, Places
<1>2. CASE RemoveLB \/ Create \/ Open \/ Fill \/ CoolDown \/ NextPhase \/ LastPhaseOver
           \/ RestoreRemoves
  BY <1>0, <1>2 DEF RemoveLB, Create, Open, Fill, CoolDown, NextPhase,
                    LastPhaseOver, RestoreRemoves, samplerVars, SamplerType
<1>3. CASE SelfTest \/ StartPhase \/ EndPhase \/ StopSampler
  <2>1. /\ phase' \in {phase, k, 0} /\ thread' \in {thread, "loop"}
        /\ stopped' \in BOOLEAN /\ UNCHANGED <<tag, previous, rows>>
    BY <1>0, <1>3 DEF SamplerType,  SelfTest, StartPhase, EndPhase, StopSampler
  <2>. QED BY <1>0, <2>1 DEF SamplerType, Places
<1>4. CASE Join \/ \E works \in BOOLEAN : RestoreCreates(works)
  BY <1>0, <1>4 DEF Join, RestoreCreates, AfterFinally, Exit, SamplerType, Places
<1>5. CASE Finish \/ Kill \/ Interrupt
  BY <1>0, <1>5 DEF Finish, Kill, Interrupt, Fail, Exit, SamplerType, Places
<1>6. CASE Sample
  <2>1. CASE CheckStop \/ CopyPhase \/ SampleFails
    BY <1>0, <2>1 DEF CheckStop, CopyPhase, SampleFails, SamplerType, Places
  <2>2. CASE AppendCPURow \/ AppendRIFRow
    <3>1. /\ thread = "sampling" /\ thread' = "loop" /\ tag' = 0
          /\ UNCHANGED <<phase, stopped>> /\ previous' \in {previous, tag}
          /\ \/ rows' = rows
             \/ previous # 0 /\ rows' = Append(rows, [tag |-> tag, since |-> previous])
             \/ rows' = Append(rows, [tag |-> tag, since |-> tag])
      BY <2>2 DEF AppendCPURow, AppendRIFRow
    <3>2. tag \in 1 .. Steps /\ (previous # 0 => previous \in 1 .. Steps)
      <4>1. 1 <= tag
        BY <3>1 DEF RowInv
      <4>. QED BY <1>0, <4>1 DEF SamplerType
    <3>3. \A s \in 1 .. Steps : [tag |-> tag, since |-> s] \in Row
      BY <3>2 DEF Row
    <3>4. rows' \in Seq(Row)
      <4>1. \A row \in Row : Append(rows, row) \in Seq(Row)
        BY <1>0 DEF SamplerType
      <4>. QED BY <1>0, <3>1, <3>2, <3>3, <4>1 DEF SamplerType
    <3>. QED BY <1>0, <3>1, <3>4 DEF SamplerType, Places
  <2>. QED BY <1>6, <2>1, <2>2 DEF Sample
<1>7. CASE UNCHANGED experimentVars
  BY <1>0, <1>7 DEF experimentVars, samplerVars, SamplerType
<1>. QED BY <1>1, <1>2, <1>3, <1>4, <1>5, <1>6, <1>7
   DEF ExperimentNext, Launching, Main

\* The types of the main thread and of the files.
MainType ==
    /\ pc \in {"idle", "checked", "removed", "created", "begin", "hey", "save",
               "cooling", "cooled", "stopping", "joining", "restoring", "restarting",
               "finish"}
    /\ runs \in Nat /\ program \in Program /\ servers \in Nat /\ k \in 1 .. Steps
    /\ {restore, failed, opened, drifted} \subseteq BOOLEAN
    /\ status \in Unfinished \cup {"DONE"}

\* The files main writes.
File == {"ts", "phases", "samples", "status"}

\* The groups of files are sequences of files.
LEMMA TodoTypeStep ==
    ASSUME TodoInv'
    PROVE  todo' \in Seq(File)
<1>1. todo' \in {AllFiles, BothFiles, LaterFiles, LastTwo, Only("ts"), Only("phases"),
                 Only("samples"), Only("status"), <<>>}
  BY DEF TodoInv
<1>2. {"ts", "phases", "samples", "status"} = File
  BY DEF File
<1>3. /\ AllFiles \in Seq(File) /\ BothFiles \in Seq(File) /\ LaterFiles \in Seq(File)
      /\ LastTwo \in Seq(File) /\ <<>> \in Seq(File)
      /\ \A f \in File : Only(f) \in Seq(File)
  BY <1>2, ShortSequences DEF AllFiles, BothFiles, LaterFiles, LastTwo, Only
<1>. QED BY <1>1, <1>2, <1>3

\* Main goes from place to place and phase to phase, and to no other.
LEMMA MainTypeStep ==
    ASSUME ExperimentTypeOK, [ExperimentNext]_experimentVars
    PROVE  MainType'
<1>0. MainType /\ Steps \in Nat \ {0}
  BY StepsAssumption DEF ExperimentTypeOK, MainType
<1>1. CASE Launching
  <2>1. PICK p \in Program, n \in 1 .. Len(Backends), keep \in BOOLEAN :
          /\ pc' \in {"idle", "checked"} /\ runs' = runs + 1 /\ program' = p
          /\ servers' = n /\ k' = 1 /\ restore' = ~keep
          /\ drifted' = (drifted \/ (p = "experiment2" /\ keep))
          /\ status' = "unreadable" /\ UNCHANGED <<failed, opened>>
    BY <1>1 DEF Launching, Launch
  <2>2. Len(Backends) \in Nat
    BY BackendsAssumption
  <2>. QED BY <1>0, <2>1, <2>2 DEF MainType, Unfinished
<1>2. CASE RemoveLB \/ Create \/ StopSampler \/ RestoreRemoves
  BY <1>0, <1>2 DEF RemoveLB, Create, StopSampler, RestoreRemoves, configVars,
                    fileVars, resultVars, MainType
<1>3. CASE SelfTest \/ StartPhase \/ EndPhase
  BY <1>0, <1>3 DEF SelfTest, StartPhase, EndPhase, configVars, fileVars,
                    resultVars, MainType
<1>4. CASE Open
  BY <1>0, <1>4 DEF Open, mainVars, configVars, MainType, Unfinished
<1>5. CASE Fill
  BY <1>0, <1>5 DEF Fill, mainVars, configVars, MainType, Unfinished, State
<1>6. CASE CoolDown \/ LastPhaseOver
  BY <1>0, <1>6 DEF CoolDown, LastPhaseOver, LastFiles, configVars, resultVars,
                    MainType
<1>7. CASE NextPhase
  BY <1>0, <1>7 DEF NextPhase, configVars, resultVars, MainType
<1>8. CASE Join \/ \E works \in BOOLEAN : RestoreCreates(works)
  BY <1>0, <1>8 DEF Join, RestoreCreates, AfterFinally, Exit, LastFiles,
                    configVars, resultVars, MainType
<1>9. CASE Finish \/ Interrupt
  BY <1>0, <1>9 DEF Finish, Interrupt, Fail, Exit, configVars, resultVars, MainType
<1>10. CASE Kill
  BY <1>0, <1>10 DEF Kill, Exit, configVars, resultVars, MainType
<1>11. CASE Sample \/ UNCHANGED experimentVars
  BY <1>0, <1>11 DEF Sample, experimentVars, mainVars, fileVars, configVars,
                     resultVars, MainType
<1>. QED BY <1>1, <1>2, <1>3, <1>4, <1>5, <1>6, <1>7, <1>8, <1>9, <1>10, <1>11
         DEF ExperimentNext, Launching, Main

\* The types of the contents of the files.
ContentType ==
    /\ ts \in 0 .. Steps /\ phases \in 0 .. Steps
    /\ got \in 0 .. Len(rows) /\ samples \in 0 .. Len(rows)

\* The rows only grow while the thread runs.
LEMMA RowsGrow ==
    ASSUME ExperimentTypeOK, Sample
    PROVE  Len(rows) \in Nat /\ Len(rows') \in Nat /\ Len(rows) <= Len(rows')
<1>1. rows \in Seq(Row) /\ Len(rows) \in Nat
  BY RowsType
<1>2. CASE rows' = rows
  BY <1>1, <1>2
<1>3. ASSUME NEW row, rows' = Append(rows, row) PROVE Len(rows') = Len(rows) + 1
  BY <1>1, <1>3
<1>. QED BY <1>1, <1>2, <1>3
         DEF Sample, CheckStop, CopyPhase, SampleFails, AppendCPURow, AppendRIFRow

\* A file never holds more phases, or more rows, than there are.
LEMMA ContentTypeStep ==
    ASSUME ExperimentTypeOK, [ExperimentNext]_experimentVars
    PROVE  ContentType'
<1>0. ContentType /\ k \in 1 .. Steps /\ Len(rows) \in Nat /\ Steps \in Nat
  BY RowsType, StepsAssumption DEF ExperimentTypeOK, ContentType
<1>1. CASE Launching
  <2>1. ts' = 0 /\ phases' = 0 /\ got' = 0 /\ samples' = 0 /\ rows' = <<>>
    BY <1>1 DEF Launching, Launch
  <2>. QED BY <1>0, <2>1 DEF ContentType
<1>2. CASE Sample
  <2>1. UNCHANGED <<ts, phases, got, samples>>
    BY <1>2 DEF Sample, fileVars, resultVars
  <2>2. PICK m \in Nat, n \in Nat : m = Len(rows) /\ n = Len(rows') /\ m <= n
    BY <1>2, RowsGrow
  <2>. QED BY <1>0, <2>1, <2>2 DEF ContentType
<1>3. CASE Open
  <2>1. /\ UNCHANGED rows
        /\ got' \in {got, Len(rows)} /\ samples' \in {samples} \cup 0 .. Len(rows)
        /\ ts' \in {ts} \cup 0 .. k /\ phases' \in {phases} \cup 0 .. k
    BY <1>3 DEF Open, samplerVars
  <2>. QED BY <1>0, <2>1 DEF ContentType
<1>4. CASE Fill
  BY <1>0, <1>4 DEF Fill, samplerVars, ContentType
<1>5. CASE RemoveLB \/ Create \/ StopSampler \/ RestoreRemoves \/ StartPhase
  BY <1>0, <1>5 DEF RemoveLB, Create, StopSampler, RestoreRemoves, StartPhase,
                    fileVars, resultVars, samplerVars, ContentType
<1>6. CASE SelfTest \/ EndPhase \/ CoolDown \/ NextPhase \/ LastPhaseOver
  BY <1>0, <1>6 DEF SelfTest, EndPhase, CoolDown, NextPhase, LastPhaseOver,
                    resultVars, samplerVars, ContentType
<1>7. CASE Join \/ Finish \/ Kill \/ Interrupt \/ \E works \in BOOLEAN : RestoreCreates(works)
  BY <1>0, <1>7 DEF Join, Finish, Kill, Interrupt, RestoreCreates, resultVars,
                    ContentType
<1>8. CASE UNCHANGED experimentVars
  BY <1>0, <1>8 DEF experimentVars, fileVars, resultVars, samplerVars, ContentType
<1>. QED BY <1>1, <1>2, <1>3, <1>4, <1>5, <1>6, <1>7, <1>8
   DEF ExperimentNext, Launching, Main

-----------------------------------------------------------------------------

\* The inductive invariant.
ExperimentInv ==
    /\ ExperimentTypeOK /\ ControlInv /\ TodoInv /\ FileInv
    /\ SampleInv /\ RateInv /\ RigInv /\ RowInv

\* It holds before the first run.
LEMMA InitInv == ExperimentInit => ExperimentInv
<1>. SUFFICES ASSUME ExperimentInit PROVE ExperimentInv
  OBVIOUS
<1>1. /\ pc = "idle" /\ thread = "none" /\ rows = <<>> /\ phase = 0 /\ tag = 0
      /\ previous = 0 /\ program = "common" /\ ~failed /\ todo = <<>> /\ ~opened
      /\ status = "unreadable" /\ ~drifted /\ k = 1 /\ ~stopped
  BY DEF ExperimentInit, SamplerInit
<1>2. ControlInv /\ TodoInv /\ FileInv
  BY <1>1 DEF ControlInv, TodoInv, FileInv, Finally
<1>3. SampleInv
  <2>1. status # "DONE"
    BY <1>1
  <2>. QED BY <1>1, <2>1 DEF SampleInv, Sampled
<1>4. RateInv
  <2>1. lb[Prequal].rate = PreparedRate
    BY PendingFacts DEF ExperimentInit
  <2>. QED BY <1>1, <2>1 DEF RateInv, AsPrepared
<1>5. RigInv
  BY <1>1 DEF RigInv, Ready
<1>6. RowInv
  BY <1>1 DEF RowInv, OnlyFirstRowReachesBack, Finally
<1>7. ExperimentTypeOK
  <2>1. lb \in [LB -> [servers : Seq(Backend), rate : Nat]]
    BY BackendsAssumption, RatesAssumption DEF ExperimentInit
  <2>2. /\ runs = 0 /\ servers = 0 /\ full = <<>> /\ restore = TRUE /\ found = 0
        /\ pending = <<>> /\ got = 0 /\ ts = 0 /\ phases = 0 /\ samples = 0
        /\ failed = FALSE /\ opened = FALSE /\ drifted = FALSE /\ stopped = FALSE
    BY DEF ExperimentInit, SamplerInit
  <2>3. /\ full \in Seq(Backend) /\ pending \in Seq(LB)
        /\ todo \in Seq({"ts", "phases", "samples", "status"})
        /\ rows \in Seq([tag : 1 .. Steps, since : 1 .. Steps]) /\ Len(rows) = 0
    BY <1>1, <2>2, ShortSequences
  <2>4. {restore, failed, opened, drifted, stopped} \subseteq BOOLEAN
    BY <1>1, <2>2
  <2>. QED BY <1>1, <2>1, <2>2, <2>3, <2>4, StepsAssumption
           DEF ExperimentTypeOK, Program, Unfinished, Places
<1>. QED BY <1>2, <1>3, <1>4, <1>5, <1>6, <1>7 DEF ExperimentInv

\* Every step keeps it: the parts from the lemmas above, the types from their own.
LEMMA StepInv == ExperimentInv /\ [ExperimentNext]_experimentVars => ExperimentInv'
<1>. SUFFICES ASSUME ExperimentInv, [ExperimentNext]_experimentVars PROVE ExperimentInv'
  OBVIOUS
<1>1. /\ ExperimentTypeOK /\ ControlInv /\ TodoInv /\ FileInv
      /\ SampleInv /\ RateInv /\ RigInv /\ RowInv
  BY DEF ExperimentInv
<1>2. ControlInv' /\ TodoInv' /\ FileInv' /\ SampleInv'
  BY <1>1, ControlStep, TodoStep, FileStep, SampleStep
<1>3. RateInv' /\ RigInv' /\ RowInv'
  BY <1>1, RateStep, RigStep, RowStep
<1>4. ExperimentTypeOK'
  <2>1. RigType' /\ SamplerType' /\ MainType' /\ ContentType'
    BY <1>1, RigTypeStep, SamplerTypeStep, MainTypeStep, ContentTypeStep
  <2>2. todo' \in Seq(File)
    BY <1>2, TodoTypeStep
  <2>. QED BY <2>1, <2>2 DEF RigType, SamplerType, MainType, ContentType, Config,
                             Row, File, ExperimentTypeOK
<1>. QED BY <1>2, <1>3, <1>4 DEF ExperimentInv

\* The parts above hold in every state of every execution.
THEOREM ExperimentInvariant == ExperimentSpec => []ExperimentInv
BY InitInv, StepInv, PTL DEF ExperimentSpec

\* The variables have their types, the containers always the configuration of a load
\* balancer or none.
THEOREM ExperimentTypes == ExperimentSpec => []ExperimentTypeOK
<1>1. ExperimentInv => ExperimentTypeOK
  BY DEF ExperimentInv
<1>. QED BY <1>1, ExperimentInvariant, PTL

\* STATUS.json says DONE only over complete results, with at most the last sample
\* missing, whatever the thread was doing when main stopped waiting for it.
THEOREM DoneIsComplete == ExperimentSpec => []DoneMeansComplete
<1>1. ExperimentInv => DoneMeansComplete
  BY DEF ExperimentInv, FileInv, SampleInv, DoneMeansComplete
<1>. QED BY <1>1, ExperimentInvariant, PTL

\* experiment2.py puts the probe rate back, or leaves no lb-prequal, through every
\* failure and interrupt; only a kill and --no-restore are excepted.
THEOREM RateComesBack == ExperimentSpec => []RateRestored
<1>1. ExperimentInv => RateRestored
  BY DEF ExperimentInv, RateInv, RateRestored, AsPrepared
<1>. QED BY <1>1, ExperimentInvariant, PTL

\* All rows of a phase but the first compare two moments of that phase, however late
\* the thread appends them.
THEOREM RowsStayInTheirPhase == ExperimentSpec => []OnlyFirstRowReachesBack
<1>1. ExperimentInv => OnlyFirstRowReachesBack
  BY DEF ExperimentInv, RowInv
<1>. QED BY <1>1, ExperimentInvariant, PTL

\* While hey runs the load balancers have the backends and the rate that the phase is
\* about, whatever earlier runs left behind.
THEOREM PhaseMeasuresItsRig == ExperimentSpec => []MeasuresWhatItSays
<1>1. ExperimentInv => MeasuresWhatItSays
  <2>. SUFFICES ASSUME ExperimentInv, pc = "hey" PROVE MeasuresWhatItSays
    BY DEF MeasuresWhatItSays
  <2>1. Len(Subset) = servers /\ Subset # <<>>
    BY SubsetFacts DEF ExperimentInv, ExperimentTypeOK, ControlInv
  <2>2. CASE program = "experiment1"
    <3>1. /\ lb[Prequal] = [servers |-> Subset, rate |-> found]
          /\ lb[WRR].servers = Subset
      BY <2>2 DEF ExperimentInv, RigInv, Ready, PrequalSet
    <3>2. lb[Prequal] # Missing
      BY <2>1, <3>1 DEF Missing
    <3>. QED BY <2>1, <2>2, <3>1, <3>2 DEF MeasuresWhatItSays
  <2>3. CASE program = "experiment2"
    <3>1. lb[Prequal] = [servers |-> Subset, rate |-> ProbeRates[k]]
      BY <2>3 DEF ExperimentInv, RigInv, Ready, PrequalSet
    <3>. QED BY <2>1, <2>3, <3>1 DEF MeasuresWhatItSays
  <2>4. CASE program = "common"
    <3>1. \E c \in LB : lb[c].servers = Subset
      BY <2>4 DEF ExperimentInv, RigInv, Ready
    <3>. QED BY <2>1, <2>4, <3>1 DEF MeasuresWhatItSays
  <2>. QED BY <2>2, <2>3, <2>4 DEF ExperimentInv, ExperimentTypeOK, Program
<1>. QED BY <1>1, ExperimentInvariant, PTL

\* The experiments implement the run directory: a status that is DONE is final, and
\* says that every phase is there.
THEOREM ExperimentKeepsDirectory == ExperimentSpec => KeepsDirectory
<1>1. ExperimentInit => Directory!DirectoryInit
  BY DEF ExperimentInit, Directory!DirectoryInit
<1>2. ExperimentInv /\ [ExperimentNext]_experimentVars
      => [Directory!DirectoryNext]_Directory!directoryVars
  <2>. SUFFICES ASSUME ExperimentInv, [ExperimentNext]_experimentVars
                PROVE  Directory!DirectoryNext \/ UNCHANGED <<status, phases>>
    BY DEF Directory!directoryVars
  <2>. USE DEF Directory!DirectoryNext, Directory!NewDirectory,
               Directory!ReportProgress, Directory!SavePhases,
               Directory!ReportDone, Directory!Unfinished
  <2>0. /\ status = "DONE" => pc \in {"idle", "finish"} /\ (pc = "finish" => todo = <<>>)
        /\ pc = "finish" => phases = Steps
        /\ status \in Unfinished \cup {"DONE"}
        /\ k \in 1 .. Steps /\ Steps \in Nat
        /\ todo = <<>> => ~opened
        /\ pc = "idle" => todo = <<>>
    BY StepsAssumption DEF ExperimentInv, FileInv, ExperimentTypeOK, TodoInv
  <2>1. CASE Launching
    BY <2>1 DEF Launching, Launch
  <2>2. CASE Open
    <3>1. /\ status \in Unfinished
          /\ status' \in {status, "unreadable"} /\ phases' \in {phases} \cup 0 .. k
          /\ phases' = phases \/ status' = status
      BY <2>0, <2>2 DEF Open
    <3>. QED BY <2>0, <3>1 DEF Unfinished
  <2>3. CASE Fill
    <3>1. /\ status \in Unfinished
          /\ status' \in {status, State} /\ phases' \in {phases, k}
          /\ phases' = phases \/ status' = status
      BY <2>0, <2>3 DEF Fill
    <3>2. State \in Unfinished \/ (State = "DONE" /\ pc = "finish")
      BY DEF State, Unfinished
    <3>. QED BY <2>0, <3>1, <3>2 DEF Unfinished
  <2>4. CASE RemoveLB \/ Create \/ StopSampler \/ RestoreRemoves \/ StartPhase \/ SelfTest
             \/ EndPhase \/ CoolDown \/ NextPhase \/ LastPhaseOver
    BY <2>4 DEF RemoveLB, Create, StopSampler, RestoreRemoves, StartPhase,
                SelfTest, EndPhase, CoolDown, NextPhase, LastPhaseOver, fileVars,
                resultVars
  <2>5. CASE \/ Join \/ Finish \/ Kill \/ Interrupt \/ Sample \/ UNCHANGED experimentVars
             \/ \E works \in BOOLEAN : RestoreCreates(works)
    BY <2>5 DEF Join, Finish, Kill, Interrupt, Sample, RestoreCreates, fileVars,
                resultVars, experimentVars
  <2>. QED BY <2>1, <2>2, <2>3, <2>4, <2>5 DEF ExperimentNext, Launching, Main
<1>. QED BY <1>1, <1>2, ExperimentInvariant, PTL
         DEF ExperimentSpec, KeepsDirectory, Directory!DirectorySpec
=============================================================================
