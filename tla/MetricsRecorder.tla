-------------------------- MODULE MetricsRecorder --------------------------
(***************************************************************************)
(* The metrics recorder of src/instrumentation.go and its use by main      *)
(* (src/main.go): the main goroutine runs phases, the sampling goroutine   *)
(* appends samples and writes checkpoints beside it, both under rec.mu;    *)
(* main's own writes of meta.json and of the final files take no lock.     *)
(* Main can panic (it then records the crash and finalizes) and the        *)
(* process can be killed at any moment: the disk is then all that is left. *)
(*                                                                         *)
(* Four files stand for the eight: meta.json; phases.csv; samples.csv (and *)
(* cpu.csv and summary.json, written from the samples); ops.csv (and       *)
(* components.csv and objects.csv, lists main appends to under the lock).  *)
(* A file is created, which truncates it, in one step and filled in a      *)
(* later one.                                                              *)
(***************************************************************************)
EXTENDS Integers, Sequences, FiniteSets

CONSTANTS
    NPhases,      \* StartPhase/Stop pairs main performs
    SetupPhase,   \* the one in whose body the BGV parameters are set
    MaxSamples    \* bound on the ticks of the sampler

ASSUME BoundsAssumption ==
    NPhases \in Nat /\ SetupPhase \in 1 .. NPhases /\ MaxSamples \in Nat

Files == {"meta", "phases", "samples", "ops"}
FinalOrder == <<"meta", "phases", "samples", "ops">>   \* FinalizeMetrics

Phase == 1 .. NPhases
init == 0    \* currentPhase before the first StartPhase

VARIABLES
    alive,       \* the process is running
    fate,        \* how it ended: "running", "exited", "killed", "faulted"
    mu,          \* holder of rec.mu across steps: "none", "main", "sampler"
    pc,          \* where main is
    spc,         \* where the sampler is; "returned" once rec.done is closed
    stopped,     \* rec.stop is closed
    meta,        \* rec.meta: 0 at start, 1 with the BGV parameters, 2 with ParameterID
    phase,       \* rec.currentPhase
    phases,      \* rec.phases: the window of samples each record took its peaks from
    startSamp,   \* of the running Phase
    samples,     \* rec.samples: label, and history: the phases started and
                 \* completed when the memory was measured
    sample,      \* the sample the sampler is making
    ops,         \* phases with an entry in rec.opCounts
    disk,        \* the files
    todo,        \* files the checkpoint of main or of the sampler has yet to write
    open,        \* the file each of them has created and not yet filled
    crash        \* crash.json: active phase and number of completed phases

sharedVars == <<meta, phase, phases, startSamp, samples, ops>>
samplerVars == <<spc, sample>>
vars == <<alive, fate, mu, pc, samplerVars, stopped, sharedVars, disk, todo, open, crash>>

Actor == {"main", "sampler"}
NoFile == "none"

(* What writing a file puts into it: the recorder's state of that moment.  *)
Memory(f) ==
    CASE f = "meta" -> meta
      [] f = "phases" -> Len(phases)
      [] f = "samples" -> {samples[i].label : i \in DOMAIN samples}
      [] f = "ops" -> ops

Sample == [label : Phase \cup {init}, started : Phase \cup {init}, completed : 0 .. NPhases]

TypeOK ==
    /\ alive \in BOOLEAN /\ stopped \in BOOLEAN
    /\ fate \in {"running", "exited", "killed", "faulted"}
    /\ mu \in Actor \cup {"none"}
    /\ meta \in 0 .. 2 /\ phase \in Phase \cup {init}
    /\ phases \in Seq(Nat \X Nat) /\ Len(phases) <= NPhases
    /\ samples \in Seq(Sample) /\ Len(samples) <= MaxSamples
    /\ startSamp \in 0 .. Len(samples) /\ sample \in Sample
    /\ ops \subseteq Phase \cup {init}
    /\ todo \in [Actor -> SUBSET Files] /\ open \in [Actor -> Files \cup {NoFile}]
    /\ \A f \in Files : disk[f].state \in {"absent", "partial", "whole"}

NoSample == [label |-> init, started |-> init, completed |-> 0]

(* InitMetrics: meta.json is written before the sampler exists.            *)
Init ==
    /\ alive = TRUE /\ fate = "running" /\ mu = "none"
    /\ pc = "between" /\ spc = "select" /\ stopped = FALSE
    /\ meta = 0 /\ phase = init /\ phases = <<>> /\ startSamp = 0
    /\ samples = <<>> /\ sample = NoSample /\ ops = {}
    /\ disk = [f \in Files |-> [state |-> IF f = "meta" THEN "whole" ELSE "absent",
                                data |-> Memory(f)]]
    /\ todo = [a \in Actor |-> {}] /\ open = [a \in Actor |-> NoFile]
    /\ crash = [written |-> FALSE, active |-> init, completed |-> 0]

----------------------------------------------------------------------------
(* Writing files.                                                          *)

(* os.Create                                                               *)
Create(a, f) ==
    /\ open[a] = NoFile
    /\ open' = [open EXCEPT ![a] = f]
    /\ disk' = [disk EXCEPT ![f].state = "partial"]

(* The encoder or CSV writer, to the end.                                  *)
Fill(a) ==
    /\ open[a] # NoFile
    /\ open' = [open EXCEPT ![a] = NoFile]
    /\ LET f == open[a]
           shared == \E b \in Actor \ {a} : open[b] = f
       IN  disk' = [disk EXCEPT ![f] =
                       [state |-> IF shared THEN "partial" ELSE "whole", data |-> Memory(f)]]

(* A slip: the checkpoint takes no lock.                                   *)
UnlockedBegin(a) == todo' = [todo EXCEPT ![a] = Files] /\ UNCHANGED mu

(* flushCheckpoint takes the lock for all its files, in any order: it      *)
(* ranges over a map.                                                      *)
BeginFlush(a) ==
    /\ mu = "none" /\ mu' = a
    /\ todo' = [todo EXCEPT ![a] = Files]

FlushCreate(a) ==
    /\ open[a] = NoFile
    /\ \E f \in todo[a] : Create(a, f) /\ todo' = [todo EXCEPT ![a] = @ \ {f}]
    /\ UNCHANGED mu

FlushFill(a) == Fill(a) /\ UNCHANGED <<todo, mu>>

(* A slip: a return that leaves the lock taken.                            *)
LeavesLocked == mu' = mu

Unlock == mu' = "none"

EndFlush(a) ==
    /\ todo[a] = {} /\ open[a] = NoFile
    /\ Unlock
    /\ UNCHANGED <<todo, disk, open>>

----------------------------------------------------------------------------
(* The main goroutine.                                                     *)

mainRest == <<alive, fate, samplerVars>>

At(from, to) == alive /\ pc = from /\ pc' = to

InSetup == phase = SetupPhase /\ meta = 0

(* SetBGVParams, under the lock.                                           *)
SetBGVParams ==
    /\ At("body", "parameterID") /\ InSetup /\ mu = "none"
    /\ meta' = 1
    /\ UNCHANGED <<mainRest, mu, stopped, phase, phases, startSamp, samples, ops,
                   disk, todo, open, crash>>

(* rec.meta.ParameterID = ..., and must(writeMeta()), without the lock.    *)
SetParameterID ==
    /\ At("parameterID", "createMeta")
    /\ meta' = 2
    /\ UNCHANGED <<mainRest, mu, stopped, phase, phases, startSamp, samples, ops,
                   disk, todo, open, crash>>

WriteMeta ==
    /\ \/ At("createMeta", "fillMeta") /\ Create("main", "meta")
       \/ At("fillMeta", "body") /\ Fill("main")
    /\ UNCHANGED <<mainRest, mu, stopped, sharedVars, todo, crash>>

(* StartPhase: currentPhase.Store, then the sample count under the lock,   *)
(* then a checkpoint.                                                      *)
StartPhase ==
    /\ At("between", "starting") /\ Len(phases) < NPhases
    /\ phase' = Len(phases) + 1
    /\ UNCHANGED <<mainRest, mu, stopped, meta, phases, startSamp, samples, ops,
                   disk, todo, open, crash>>

CountSamples ==
    /\ At("starting", "started") /\ mu = "none"
    /\ startSamp' = Len(samples)
    /\ UNCHANGED <<mainRest, mu, stopped, meta, phase, phases, samples, ops,
                   disk, todo, open, crash>>

(* CountOp, and with it every list main appends to within a phase.         *)
CountOp ==
    /\ At("body", "body") /\ mu = "none"
    /\ ops' = ops \cup {phase}
    /\ UNCHANGED <<mainRest, mu, stopped, meta, phase, phases, startSamp, samples,
                   disk, todo, open, crash>>

(* A slip: the peaks are taken from the first sample on.                   *)
WholeRun == <<1, Len(samples)>>

Window == <<startSamp + 1, Len(samples)>>

(* Stop: the record with the peaks of the samples since startSamp, then    *)
(* the lock is given up for a checkpoint and taken again.                  *)
Stop ==
    /\ At("body", "recorded") /\ ~InSetup /\ mu = "none"
    /\ phases' = Append(phases, Window)
    /\ UNCHANGED <<mainRest, mu, stopped, meta, phase, startSamp, samples, ops,
                   disk, todo, open, crash>>

Relock ==
    /\ At("relock", "between") /\ mu = "none"
    /\ UNCHANGED <<mainRest, mu, stopped, sharedVars, disk, todo, open, crash>>

(* The checkpoints of StartPhase and of Stop.                              *)
MainFlush ==
    /\ \/ At("started", "flushStart") /\ BeginFlush("main") /\ UNCHANGED <<disk, open>>
       \/ At("recorded", "flushStop") /\ BeginFlush("main") /\ UNCHANGED <<disk, open>>
       \/ /\ pc \in {"flushStart", "flushStop"} /\ At(pc, pc)
          /\ FlushCreate("main") \/ FlushFill("main")
       \/ At("flushStart", "body") /\ EndFlush("main")
       \/ At("flushStop", "relock") /\ EndFlush("main")
    /\ UNCHANGED <<mainRest, stopped, sharedVars, crash>>

(* A panic in main's own work; the recorder's code does not panic.         *)
Panic ==
    /\ alive /\ pc \in {"parameterID", "between", "body"}
    /\ pc' = "crashed"
    /\ UNCHANGED <<mainRest, mu, stopped, sharedVars, disk, todo, open, crash>>

RecordCrash ==
    /\ At("crashed", "ended") /\ mu = "none"
    /\ crash' = [written |-> TRUE, active |-> phase, completed |-> Len(phases)]
    /\ UNCHANGED <<mainRest, mu, stopped, sharedVars, disk, todo, open>>

MainReturns ==
    /\ At("between", "ended") /\ Len(phases) = NPhases
    /\ UNCHANGED <<mainRest, mu, stopped, sharedVars, disk, todo, open, crash>>

(* FinalizeMetrics: stop the sampler, wait for it, write every file.       *)
CloseStop ==
    /\ At("ended", "waiting")
    /\ stopped' = TRUE
    /\ UNCHANGED <<mainRest, mu, sharedVars, disk, todo, open, crash>>

(* A slip: nobody waits for the sampler.                                   *)
GoesOnAtOnce == TRUE

SamplerIsDone == spc = "returned"

AwaitDone ==
    /\ At("waiting", "final") /\ SamplerIsDone
    /\ todo' = [todo EXCEPT !["main"] = Files]
    /\ UNCHANGED <<mainRest, mu, stopped, sharedVars, disk, open, crash>>

FirstOf(set) == FinalOrder[CHOOSE i \in 1 .. 4 :
                               /\ FinalOrder[i] \in set
                               /\ \A j \in 1 .. i - 1 : FinalOrder[j] \notin set]

FinalWrites ==
    /\ At("final", "final")
    /\ \/ /\ open["main"] = NoFile /\ todo["main"] # {}
          /\ Create("main", FirstOf(todo["main"]))
          /\ todo' = [todo EXCEPT !["main"] = @ \ {FirstOf(@)}]
       \/ Fill("main") /\ UNCHANGED todo
    /\ UNCHANGED <<mainRest, mu, stopped, sharedVars, crash>>

Exit ==
    /\ At("final", "exited")
    /\ todo["main"] = {} /\ open["main"] = NoFile
    /\ alive' = FALSE /\ fate' = "exited"
    /\ UNCHANGED <<mu, samplerVars, stopped, sharedVars, disk, todo, open, crash>>

Main ==
    \/ SetBGVParams \/ SetParameterID \/ WriteMeta
    \/ StartPhase \/ CountSamples \/ Stop \/ Relock \/ MainFlush
    \/ RecordCrash \/ MainReturns \/ CloseStop \/ AwaitDone \/ FinalWrites \/ Exit

----------------------------------------------------------------------------
(* The sampling goroutine.                                                 *)

samplerRest == <<alive, fate, pc, stopped, meta, phase, phases, startSamp, ops, crash>>

SAt(from, to) == alive /\ spc = from /\ spc' = to

(* A tick: the memory is measured, then the phase is loaded ...            *)
Measure ==
    /\ SAt("select", "measured") /\ Len(samples) < MaxSamples
    /\ sample' = [label |-> init, started |-> phase, completed |-> Len(phases)]
    /\ UNCHANGED <<samplerRest, mu, samples, disk, todo, open>>

LoadPhase ==
    /\ SAt("measured", "labelled")
    /\ sample' = [sample EXCEPT !.label = phase]
    /\ UNCHANGED <<samplerRest, mu, samples, disk, todo, open>>

(* ... and, some time later, the sample is appended under the lock.        *)
AppendSample ==
    /\ SAt("labelled", "appended") /\ mu = "none"
    /\ samples' = Append(samples, sample)
    /\ UNCHANGED <<samplerRest, mu, sample, disk, todo, open>>

(* Every two seconds a tick ends with a checkpoint.                        *)
NoFlush ==
    /\ SAt("appended", "select")
    /\ UNCHANGED <<samplerRest, mu, samples, sample, disk, todo, open>>

SamplerFlush ==
    /\ \/ SAt("appended", "flushing") /\ BeginFlush("sampler") /\ UNCHANGED <<disk, open>>
       \/ SAt("flushing", "flushing") /\ (FlushCreate("sampler") \/ FlushFill("sampler"))
       \/ SAt("flushing", "select") /\ EndFlush("sampler")
    /\ UNCHANGED <<samplerRest, samples, sample>>

(* The process is gone with its memory; the files stay as they are.        *)
Gone ==
    /\ alive' = FALSE /\ mu' = "none" /\ pc' = "gone" /\ spc' = "gone"
    /\ stopped' = FALSE /\ sample' = NoSample
    /\ meta' = 0 /\ phase' = init /\ phases' = <<>> /\ startSamp' = 0
    /\ samples' = <<>> /\ ops' = {}
    /\ todo' = [a \in Actor |-> {}] /\ open' = [a \in Actor |-> NoFile]
    /\ UNCHANGED <<disk, crash>>

(* main's assignment to rec.meta.ParameterID races with the encoder when   *)
(* the sampler is between creating and filling meta.json: it may read a    *)
(* string whose length is set and whose data is not, and fault, which no   *)
(* recover of main catches. (Two writers of meta.json also mix their       *)
(* bytes: the file counts as partial until the last of them has filled it.)*)
TornRead ==
    /\ alive /\ pc = "createMeta" /\ open["sampler"] = "meta"
    /\ fate' = "faulted" /\ Gone

Return ==
    /\ SAt("select", "returned") /\ stopped
    /\ UNCHANGED <<samplerRest, mu, samples, sample, disk, todo, open>>

Sampler == Measure \/ LoadPhase \/ AppendSample \/ NoFlush \/ SamplerFlush \/ Return

----------------------------------------------------------------------------

(* SIGKILL, the OOM killer, the campaign runner's timeout; and, from main, *)
(* the log.Fatal of check(), which runs no deferred function.              *)
Kill ==
    /\ alive
    /\ fate' = "killed" /\ Gone

Next == Main \/ CountOp \/ Panic \/ Sampler \/ TornRead \/ Kill

(* Both goroutines are scheduled fairly. A select that finds stop closed   *)
(* and a tick waiting picks at random, which the bound on ticks stands for.*)
Spec == Init /\ [][Next]_vars /\ WF_vars(Main) /\ WF_vars(Sampler)

----------------------------------------------------------------------------

(* A run that ends by itself, also after a panic, leaves every file whole  *)
(* and up to date: the sampler neither records nor writes anything once    *)
(* FinalizeMetrics has begun to write.                                     *)
FinalFilesAreComplete ==
    /\ TypeOK
    /\ fate = "exited" =>
          \A f \in Files : disk[f] = [state |-> "whole", data |-> Memory(f)]

(* A phase's peaks are its own: of the samples Stop takes them from, at    *)
(* most the first was measured before the phase started.                   *)
PeaksAreThePhasesOwn ==
    \A p \in DOMAIN phases : \A i \in phases[p][1] + 1 .. phases[p][2] :
        samples[i].started = p /\ samples[i].completed = p - 1

(* Phases whose Stop has returned.                                         *)
Returned ==
    IF pc \in {"recorded", "flushStop", "relock"} THEN Len(phases) - 1 ELSE Len(phases)

(* Outside the file being written, a checkpoint never loses a phase that   *)
(* Stop has checkpointed, and apart from meta.json only one file is being  *)
(* written at a time.                                                      *)
AtMostOneFileIsLost ==
    /\ disk["phases"].state # "partial" => disk["phases"].data >= Returned
    /\ Cardinality({f \in Files \ {"meta"} : disk[f].state = "partial"}) <= 1

(* The process ends: no goroutine waits for ever for the lock or for the   *)
(* other, whatever main was doing when it panicked.                        *)
Terminates == <>(~alive)

----------------------------------------------------------------------------
(* What comments of src/instrumentation.go say of the recorder.            *)

(* "checkpointing must not panic and must not interfere with the main run" *)
CheckpointNeverFaults == fate # "faulted"
=============================================================================
