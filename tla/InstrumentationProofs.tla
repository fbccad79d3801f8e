------------------------ MODULE InstrumentationProofs ------------------------
(***************************************************************************)
(* Proofs about what the program reports of itself, for all constants:     *)
(*                                                                         *)
(*   - the metrics recorder: what a run that ends by itself leaves on      *)
(*     disk, what a checkpoint can lose, and which samples a phase takes   *)
(*     its peaks from;                                                     *)
(*   - the progress display: what may be painted and when it is closed;    *)
(*   - the campaign runner: which runs pass, overlap and are summarized.   *)
(***************************************************************************)
EXTENDS MetricsRecorder, Progress, Campaign, FiniteSetTheorems, ArithmeticLemmas, TLAPS

InPhase == {"starting", "started", "flushStart", "body", "parameterID", "createMeta", "fillMeta"}
Flushing == {"flushStart", "flushStop"}
Ending == {"crashed", "ended", "waiting", "final", "exited", "gone"}

(* Who holds the lock, and who may have a file open.                       *)
Control ==
    /\ pc \in InPhase \cup Flushing \cup Ending \cup {"between", "recorded", "relock"}
    /\ spc \in {"select", "measured", "labelled", "appended", "flushing", "returned", "gone"}
    /\ (mu = "main") <=> (pc \in Flushing)
    /\ (mu = "sampler") <=> (spc = "flushing")
    /\ pc = "final" => spc = "returned"
    /\ spc # "flushing" => todo["sampler"] = {} /\ open["sampler"] = NoFile
    /\ pc \notin Flushing \cup {"final"} => todo["main"] = {}
    /\ pc \notin Flushing \cup {"final", "fillMeta"} => open["main"] = NoFile
    /\ pc = "fillMeta" => open["main"] = "meta"
    /\ alive <=> fate = "running"
    /\ pc \in InPhase => phase = Len(phases) + 1
    /\ spc \in {"measured", "labelled"} => Len(samples) < MaxSamples

(* What a file can hold.                                                   *)
Data == Nat \cup SUBSET Nat

DiskTyped ==
    /\ disk \in [Files -> [state : {"absent", "partial", "whole"}, data : Data]]
    /\ disk["phases"].data \in Nat

(* The final files, written so far or all of them.                         *)
Final ==
    /\ pc = "final" => \A f \in Files \ todo["main"] :
           f = open["main"] \/ disk[f] = [state |-> "whole", data |-> Memory(f)]
    /\ fate = "exited" => \A f \in Files : disk[f] = [state |-> "whole", data |-> Memory(f)]

LEMMA MemoryTyped ==
    ASSUME TypeOK, NEW f \in Files
    PROVE  Memory(f) \in Data /\ Memory("phases") \in Nat
<1>1. meta \in Nat /\ Len(phases) \in Nat
    BY DEF TypeOK
<1>2. ops \in SUBSET Nat
    BY BoundsAssumption DEF TypeOK, Phase, init
<1>3. {samples[i].label : i \in DOMAIN samples} \in SUBSET Nat
    <2>1. \A i \in DOMAIN samples : samples[i] \in Sample
        BY DEF TypeOK
    <2> QED
        BY <2>1, BoundsAssumption DEF Sample, Phase, init
<1> QED
    BY <1>1, <1>2, <1>3 DEF Memory, Data, Files

(* Writing a file keeps the disk and the bookkeeping of the writers.       *)
LEMMA CreateKeeps ==
    ASSUME TypeOK, DiskTyped, NEW a \in Actor, NEW f \in Files, Create(a, f)
    PROVE  /\ DiskTyped'
           /\ open' \in [Actor -> Files \cup {NoFile}] /\ open'[a] = f
           /\ \A b \in Actor \ {a} : open'[b] = open[b]
           /\ \A g \in Files : disk'[g].data = disk[g].data
           /\ disk'[f].state = "partial"
           /\ \A g \in Files \ {f} : disk'[g] = disk[g]
<1>1. open' = [open EXCEPT ![a] = f] /\ disk' = [disk EXCEPT ![f].state = "partial"]
    BY DEF Create
<1>2. \A g \in Files \ {f} : disk'[g] = disk[g]
    BY <1>1 DEF DiskTyped
<1>3. /\ disk'[f] \in [state : {"absent", "partial", "whole"}, data : Data]
      /\ disk'[f].state = "partial" /\ disk'[f].data = disk[f].data
    BY <1>1 DEF DiskTyped
<1>4. disk' \in [Files -> [state : {"absent", "partial", "whole"}, data : Data]]
    BY <1>1, <1>3 DEF DiskTyped
<1>5. disk'["phases"].data \in Nat
    BY <1>2, <1>3 DEF DiskTyped, Files
<1>6. open' \in [Actor -> Files \cup {NoFile}] /\ open'[a] = f
      /\ \A b \in Actor \ {a} : open'[b] = open[b]
    BY <1>1 DEF TypeOK
<1> QED
    BY <1>2, <1>3, <1>4, <1>5, <1>6 DEF DiskTyped

LEMMA FillKeeps ==
    ASSUME TypeOK, DiskTyped, NEW a \in Actor, Fill(a)
    PROVE  /\ DiskTyped'
           /\ open' \in [Actor -> Files \cup {NoFile}] /\ open'[a] = NoFile
           /\ \A b \in Actor \ {a} : open'[b] = open[b]
           /\ open[a] \in Files
           /\ disk'[open[a]].data = Memory(open[a])
           /\ disk'[open[a]].state \in {"partial", "whole"}
           /\ (\A b \in Actor \ {a} : open[b] # open[a]) =>
                  disk'[open[a]] = [state |-> "whole", data |-> Memory(open[a])]
           /\ disk'[open[a]].state = "partial" => \E b \in Actor \ {a} : open[b] = open[a]
           /\ \A g \in Files \ {open[a]} : disk'[g] = disk[g]
<1> DEFINE f == open[a]
           state == IF \E b \in Actor \ {a} : open[b] = f THEN "partial" ELSE "whole"
<1>1. f \in Files
    BY DEF TypeOK, Fill
<1>2. open' = [open EXCEPT ![a] = NoFile]
      /\ disk' = [disk EXCEPT ![f] = [state |-> state, data |-> Memory(f)]]
    BY DEF Fill
<1>3. state \in {"partial", "whole"} /\ Memory(f) \in Data /\ Memory("phases") \in Nat
    BY <1>1, MemoryTyped
<1>4. disk'[f] = [state |-> state, data |-> Memory(f)] /\ \A g \in Files \ {f} : disk'[g] = disk[g]
    BY <1>1, <1>2 DEF DiskTyped
<1>5. disk' \in [Files -> [state : {"absent", "partial", "whole"}, data : Data]]
    BY <1>1, <1>2, <1>3 DEF DiskTyped
<1>6. disk'["phases"].data \in Nat
    BY <1>3, <1>4 DEF DiskTyped, Files
<1>7. open' \in [Actor -> Files \cup {NoFile}] /\ open'[a] = NoFile
      /\ \A b \in Actor \ {a} : open'[b] = open[b]
    BY <1>2 DEF TypeOK
<1> QED
    BY <1>1, <1>3, <1>4, <1>5, <1>6, <1>7 DEF DiskTyped

LEMMA FirstOfIsMember ==
    ASSUME NEW set, set \subseteq Files, set # {}
    PROVE  FirstOf(set) \in set
<1> DEFINE P(i) == FinalOrder[i] \in set /\ \A j \in 1 .. i - 1 : FinalOrder[j] \notin set
<1>1. FinalOrder[1] = "meta" /\ FinalOrder[2] = "phases"
      /\ FinalOrder[3] = "samples" /\ FinalOrder[4] = "ops"
    BY DEF FinalOrder
<1>2. \E i \in 1 .. 4 : P(i)
    <2>1. CASE FinalOrder[1] \in set
        BY <2>1
    <2>2. CASE FinalOrder[1] \notin set /\ FinalOrder[2] \in set
        <3>1. \A j \in 1 .. 2 - 1 : FinalOrder[j] \notin set
            BY <2>2
        <3> QED
            BY <2>2, <3>1
    <2>3. CASE FinalOrder[1] \notin set /\ FinalOrder[2] \notin set /\ FinalOrder[3] \in set
        <3>1. \A j \in 1 .. 3 - 1 : j = 1 \/ j = 2
            OBVIOUS
        <3>2. P(3)
            BY <2>3, <3>1
        <3> QED
            BY <3>2
    <2>4. CASE FinalOrder[1] \notin set /\ FinalOrder[2] \notin set /\ FinalOrder[3] \notin set
        <3>1. \A j \in 1 .. 4 - 1 : j = 1 \/ j = 2 \/ j = 3
            OBVIOUS
        <3>2. FinalOrder[4] \in set
            BY <1>1, <2>4 DEF Files
        <3>3. P(4)
            BY <2>4, <3>1, <3>2
        <3> QED
            BY <3>3
    <2> QED
        BY <2>1, <2>2, <2>3, <2>4
<1> DEFINE k == CHOOSE i \in 1 .. 4 : P(i)
<1>3. P(k)
    BY <1>2
<1>4. FirstOf(set) = FinalOrder[k]
    BY DEF FirstOf
<1> QED
    BY <1>3, <1>4

LEMMA InitTyped == Init => TypeOK /\ DiskTyped /\ Control /\ Final
<1> SUFFICES ASSUME Init
             PROVE  TypeOK /\ DiskTyped /\ Control /\ Final
    OBVIOUS
<1>1. /\ alive = TRUE /\ fate = "running" /\ mu = "none" /\ pc = "between" /\ spc = "select"
      /\ stopped = FALSE /\ meta = 0 /\ phase = 0 /\ phases = <<>> /\ startSamp = 0
      /\ samples = <<>> /\ ops = {}
    BY DEF Init, init
<1>2. sample \in Sample
    BY BoundsAssumption DEF Init, NoSample, Sample, init
<1>3. todo = [a \in Actor |-> {}] /\ open = [a \in Actor |-> NoFile]
    BY DEF Init
<1>4. disk = [f \in Files |-> [state |-> IF f = "meta" THEN "whole" ELSE "absent",
                               data |-> Memory(f)]]
    BY DEF Init
<1>5. /\ Memory("meta") = 0 /\ Memory("phases") = 0 /\ Memory("ops") = {}
      /\ Memory("samples") = {}
    <2>1. {samples[i].label : i \in DOMAIN samples} = {}
        BY <1>1
    <2> QED
        BY <1>1, <2>1 DEF Memory
<1>6. \A f \in Files : Memory(f) \in Data
    BY <1>5 DEF Files, Data
<1>7. DiskTyped
    BY <1>4, <1>5, <1>6 DEF DiskTyped, Files
<1>8. \A f \in Files : disk[f].state \in {"absent", "partial", "whole"}
    BY <1>4
<1>9. TypeOK
    <2>1. /\ phases \in Seq(Nat \X Nat) /\ Len(phases) = 0
          /\ samples \in Seq(Sample) /\ Len(samples) = 0
        BY <1>1
    <2>2. /\ todo \in [Actor -> SUBSET Files] /\ open \in [Actor -> Files \cup {NoFile}]
        BY <1>3
    <2>3. mu \in Actor \cup {"none"} /\ phase \in Phase \cup {init} /\ Len(phases) <= NPhases
          /\ Len(samples) <= MaxSamples
        BY <1>1, <2>1, BoundsAssumption DEF init
    <2>4. startSamp \in 0 .. Len(samples) /\ ops \subseteq Phase \cup {init} /\ meta \in 0 .. 2
        BY <1>1, <2>1
    <2>5. /\ alive \in BOOLEAN /\ stopped \in BOOLEAN
          /\ fate \in {"running", "exited", "killed", "faulted"}
        BY <1>1
    <2> QED
        BY <1>2, <1>8, <2>1, <2>2, <2>3, <2>4, <2>5 DEF TypeOK
<1>10. Control
    BY <1>1, <1>3 DEF Control, InPhase, Flushing, Ending, Actor
<1>11. Final
    BY <1>1 DEF Final
<1> QED
    BY <1>7, <1>9, <1>10, <1>11

LEMMA StepTyped ==
    ASSUME TypeOK, DiskTyped, Control, [Next]_vars
    PROVE  TypeOK' /\ DiskTyped' /\ Control'
<1>1. CASE UNCHANGED vars
    <2>1. UNCHANGED <<alive, fate, mu, pc, spc, sample, stopped, meta, phase, phases, startSamp,
                      samples, ops, disk, todo, open, crash>>
        BY <1>1 DEF vars, samplerVars, sharedVars
    <2>2. TypeOK'
        BY <2>1 DEF TypeOK
    <2> QED
        BY <2>1, <2>2 DEF DiskTyped, Control
<1>2. CASE SetBGVParams
    <2> USE <1>2, BoundsAssumption DEF SetBGVParams, At, mainRest, samplerVars, sharedVars, Phase, init
    <2>1. TypeOK'
        BY DEF TypeOK, SamplerIsDone, Actor, Files
    <2>2. DiskTyped'
        BY DEF DiskTyped
    <2>3. Control'
        BY DEF Control, TypeOK, InPhase, Flushing, Ending, SamplerIsDone, Actor
    <2> QED
        BY <2>1, <2>2, <2>3
<1>3. CASE SetParameterID
    <2> USE <1>3, BoundsAssumption DEF SetParameterID, At, mainRest, samplerVars, sharedVars, Phase, init
    <2>1. TypeOK'
        BY DEF TypeOK, SamplerIsDone, Actor, Files
    <2>2. DiskTyped'
        BY DEF DiskTyped
    <2>3. Control'
        BY DEF Control, TypeOK, InPhase, Flushing, Ending, SamplerIsDone, Actor
    <2> QED
        BY <2>1, <2>2, <2>3
<1>4. CASE StartPhase
    <2> USE <1>4, BoundsAssumption DEF StartPhase, At, mainRest, samplerVars, sharedVars, Phase, init
    <2>1. TypeOK'
        BY DEF TypeOK, SamplerIsDone, Actor, Files
    <2>2. DiskTyped'
        BY DEF DiskTyped
    <2>3. Control'
        BY DEF Control, TypeOK, InPhase, Flushing, Ending, SamplerIsDone, Actor
    <2> QED
        BY <2>1, <2>2, <2>3
<1>5. CASE CountSamples
    <2> USE <1>5, BoundsAssumption DEF CountSamples, At, mainRest, samplerVars, sharedVars, Phase, init
    <2>1. TypeOK'
        <3>1. startSamp' = Len(samples) /\ Len(samples) \in Nat /\ samples' = samples
            BY DEF TypeOK
        <3>2. startSamp' \in 0 .. Len(samples')
            BY <3>1
        <3> QED
            BY <3>2 DEF TypeOK
    <2>2. DiskTyped'
        BY DEF DiskTyped
    <2>3. Control'
        BY DEF Control, TypeOK, InPhase, Flushing, Ending, SamplerIsDone, Actor
    <2> QED
        BY <2>1, <2>2, <2>3
<1>6. CASE Stop
    <2> USE <1>6, BoundsAssumption DEF Stop, At, InSetup, Window, mainRest, samplerVars, sharedVars, Phase, init
    <2>1. TypeOK'
        <3>1. Window \in Nat \X Nat /\ Len(phases) + 1 <= NPhases
            BY DEF TypeOK, Control, InPhase
        <3> HIDE DEF Window
        <3>2. phases' \in Seq(Nat \X Nat) /\ Len(phases') = Len(phases) + 1
            BY <3>1 DEF TypeOK
        <3>3. UNCHANGED <<alive, fate, mu, stopped, meta, phase, samples, startSamp, sample, ops,
                          disk, todo, open>>
            OBVIOUS
        <3> QED
            BY <3>1, <3>2, <3>3 DEF TypeOK
    <2>2. DiskTyped'
        BY DEF DiskTyped
    <2>3. Control'
        BY DEF Control, TypeOK, InPhase, Flushing, Ending, SamplerIsDone, Actor
    <2> QED
        BY <2>1, <2>2, <2>3
<1>7. CASE Relock
    <2> USE <1>7, BoundsAssumption DEF Relock, At, mainRest, samplerVars, sharedVars, Phase, init
    <2>1. TypeOK'
        BY DEF TypeOK, SamplerIsDone, Actor, Files
    <2>2. DiskTyped'
        BY DEF DiskTyped
    <2>3. Control'
        BY DEF Control, TypeOK, InPhase, Flushing, Ending, SamplerIsDone, Actor
    <2> QED
        BY <2>1, <2>2, <2>3
<1>8. CASE RecordCrash
    <2> USE <1>8, BoundsAssumption DEF RecordCrash, At, mainRest, samplerVars, sharedVars, Phase, init
    <2>1. TypeOK'
        BY DEF TypeOK, SamplerIsDone, Actor, Files
    <2>2. DiskTyped'
        BY DEF DiskTyped
    <2>3. Control'
        BY DEF Control, TypeOK, InPhase, Flushing, Ending, SamplerIsDone, Actor
    <2> QED
        BY <2>1, <2>2, <2>3
<1>9. CASE MainReturns
    <2> USE <1>9, BoundsAssumption DEF MainReturns, At, mainRest, samplerVars, sharedVars, Phase, init
    <2>1. TypeOK'
        BY DEF TypeOK, SamplerIsDone, Actor, Files
    <2>2. DiskTyped'
        BY DEF DiskTyped
    <2>3. Control'
        BY DEF Control, TypeOK, InPhase, Flushing, Ending, SamplerIsDone, Actor
    <2> QED
        BY <2>1, <2>2, <2>3
<1>10. CASE CloseStop
    <2> USE <1>10, BoundsAssumption DEF CloseStop, At, mainRest, samplerVars, sharedVars, Phase, init
    <2>1. TypeOK'
        BY DEF TypeOK, SamplerIsDone, Actor, Files
    <2>2. DiskTyped'
        BY DEF DiskTyped
    <2>3. Control'
        BY DEF Control, TypeOK, InPhase, Flushing, Ending, SamplerIsDone, Actor
    <2> QED
        BY <2>1, <2>2, <2>3
<1>11. CASE AwaitDone
    <2> USE <1>11, BoundsAssumption DEF AwaitDone, At, mainRest, samplerVars, sharedVars, Phase, init
    <2>1. TypeOK'
        BY DEF TypeOK, SamplerIsDone, Actor, Files
    <2>2. DiskTyped'
        BY DEF DiskTyped
    <2>3. Control'
        BY DEF Control, TypeOK, InPhase, Flushing, Ending, SamplerIsDone, Actor
    <2> QED
        BY <2>1, <2>2, <2>3
<1>12. CASE Exit
    <2> USE <1>12, BoundsAssumption DEF Exit, At, mainRest, samplerVars, sharedVars, Phase, init
    <2>1. TypeOK'
        BY DEF TypeOK, SamplerIsDone, Actor, Files
    <2>2. DiskTyped'
        BY DEF DiskTyped
    <2>3. Control'
        BY DEF Control, TypeOK, InPhase, Flushing, Ending, SamplerIsDone, Actor
    <2> QED
        BY <2>1, <2>2, <2>3
<1>13. CASE CountOp
    <2> USE <1>13, BoundsAssumption DEF CountOp, At, mainRest, samplerVars, sharedVars, Phase, init
    <2>1. TypeOK'
        BY DEF TypeOK, SamplerIsDone, Actor, Files
    <2>2. DiskTyped'
        BY DEF DiskTyped
    <2>3. Control'
        BY DEF Control, TypeOK, InPhase, Flushing, Ending, SamplerIsDone, Actor
    <2> QED
        BY <2>1, <2>2, <2>3
<1>14. CASE Panic
    <2> USE <1>14, BoundsAssumption DEF Panic, mainRest, samplerVars, sharedVars, Phase, init
    <2>1. TypeOK'
        BY DEF TypeOK, SamplerIsDone, Actor, Files
    <2>2. DiskTyped'
        BY DEF DiskTyped
    <2>3. Control'
        BY DEF Control, TypeOK, InPhase, Flushing, Ending, SamplerIsDone, Actor
    <2> QED
        BY <2>1, <2>2, <2>3
<1>15. CASE Measure
    <2> USE <1>15, BoundsAssumption DEF Measure, SAt, Sample, samplerRest, Phase, init
    <2>1. TypeOK'
        BY DEF TypeOK, SamplerIsDone, Actor, Files
    <2>2. DiskTyped'
        BY DEF DiskTyped
    <2>3. Control'
        BY DEF Control, TypeOK, InPhase, Flushing, Ending, SamplerIsDone, Actor
    <2> QED
        BY <2>1, <2>2, <2>3
<1>16. CASE LoadPhase
    <2> USE <1>16, BoundsAssumption DEF LoadPhase, SAt, Sample, samplerRest, Phase, init
    <2>1. TypeOK'
        <3>1. /\ sample.started \in Phase \cup {init} /\ sample.completed \in 0 .. NPhases
              /\ phase \in Phase \cup {init}
              /\ sample' = [label |-> phase, started |-> sample.started,
                             completed |-> sample.completed]
            BY DEF TypeOK
        <3>2. sample' \in Sample
            BY <3>1
        <3> QED
            BY <3>2 DEF TypeOK
    <2>2. DiskTyped'
        BY DEF DiskTyped
    <2>3. Control'
        BY DEF Control, TypeOK, InPhase, Flushing, Ending, SamplerIsDone, Actor
    <2> QED
        BY <2>1, <2>2, <2>3
<1>17. CASE AppendSample
    <2> USE <1>17, BoundsAssumption DEF AppendSample, SAt, samplerRest, Phase, init
    <2>1. TypeOK'
        <3>1. sample \in Sample /\ samples \in Seq(Sample) /\ samples' = Append(samples, sample)
              /\ Len(samples) < MaxSamples
            BY DEF TypeOK, Control
        <3> HIDE DEF Sample
        <3>2. samples' \in Seq(Sample) /\ Len(samples') = Len(samples) + 1
            BY <3>1
        <3> QED
            BY <3>1, <3>2 DEF TypeOK
    <2>2. DiskTyped'
        BY DEF DiskTyped
    <2>3. Control'
        BY DEF Control, TypeOK, InPhase, Flushing, Ending, SamplerIsDone, Actor
    <2> QED
        BY <2>1, <2>2, <2>3
<1>18. CASE NoFlush
    <2> USE <1>18, BoundsAssumption DEF NoFlush, SAt, samplerRest, Phase, init
    <2>1. TypeOK'
        BY DEF TypeOK, SamplerIsDone, Actor, Files
    <2>2. DiskTyped'
        BY DEF DiskTyped
    <2>3. Control'
        BY DEF Control, TypeOK, InPhase, Flushing, Ending, SamplerIsDone, Actor
    <2> QED
        BY <2>1, <2>2, <2>3
<1>19. CASE Return
    <2> USE <1>19, BoundsAssumption DEF Return, SAt, samplerRest, Phase, init
    <2>1. TypeOK'
        BY DEF TypeOK, SamplerIsDone, Actor, Files
    <2>2. DiskTyped'
        BY DEF DiskTyped
    <2>3. Control'
        BY DEF Control, TypeOK, InPhase, Flushing, Ending, SamplerIsDone, Actor
    <2> QED
        BY <2>1, <2>2, <2>3
<1>20. CASE WriteMeta
    <2>1. /\ UNCHANGED <<alive, fate, mu, spc, sample, stopped, meta, phase, phases, startSamp,
                         samples, ops, todo, crash>>
          /\ \/ pc = "createMeta" /\ pc' = "fillMeta" /\ Create("main", "meta")
             \/ pc = "fillMeta" /\ pc' = "body" /\ Fill("main")
        BY <1>20 DEF WriteMeta, At, mainRest, samplerVars, sharedVars
    <2>2. /\ DiskTyped' /\ open' \in [Actor -> Files \cup {NoFile}]
          /\ open'["sampler"] = open["sampler"]
          /\ pc' = "fillMeta" => open'["main"] = "meta"
          /\ pc' = "body" => open'["main"] = NoFile
        BY <2>1, CreateKeeps, FillKeeps DEF Actor, Files
    <2>3. TypeOK'
        BY <2>1, <2>2 DEF TypeOK, DiskTyped
    <2>4. Control'
        BY <2>1, <2>2 DEF Control, InPhase, Flushing, Ending
    <2> QED
        BY <2>2, <2>3, <2>4
<1>21. CASE MainFlush
    <2>1. /\ UNCHANGED <<alive, fate, spc, sample, stopped, meta, phase, phases, startSamp,
                         samples, ops, crash>>
          /\ \/ /\ \/ pc = "started" /\ pc' = "flushStart"
                   \/ pc = "recorded" /\ pc' = "flushStop"
                /\ BeginFlush("main") /\ UNCHANGED <<disk, open>>
             \/ pc \in Flushing /\ pc' = pc /\ FlushCreate("main")
             \/ pc \in Flushing /\ pc' = pc /\ FlushFill("main")
             \/ /\ \/ pc = "flushStart" /\ pc' = "body"
                   \/ pc = "flushStop" /\ pc' = "relock"
                /\ EndFlush("main")
        <3>1. UNCHANGED <<alive, fate, spc, sample, stopped, meta, phase, phases, startSamp,
                          samples, ops, crash>>
            BY <1>21 DEF MainFlush, mainRest, samplerVars, sharedVars
        <3>2. CASE pc \in Flushing /\ At(pc, pc) /\ (FlushCreate("main") \/ FlushFill("main"))
            BY <3>1, <3>2 DEF At
        <3>3. CASE At("started", "flushStart") /\ BeginFlush("main") /\ UNCHANGED <<disk, open>>
            BY <3>1, <3>3 DEF At
        <3>4. CASE At("recorded", "flushStop") /\ BeginFlush("main") /\ UNCHANGED <<disk, open>>
            BY <3>1, <3>4 DEF At
        <3>5. CASE \/ At("flushStart", "body") /\ EndFlush("main")
                   \/ At("flushStop", "relock") /\ EndFlush("main")
            BY <3>1, <3>5 DEF At
        <3> QED
            BY <1>21, <3>2, <3>3, <3>4, <3>5 DEF MainFlush, Flushing
    <2>2. CASE BeginFlush("main") /\ UNCHANGED <<disk, open>>
        <3>1. /\ mu = "none" /\ mu' = "main" /\ todo' = [todo EXCEPT !["main"] = Files]
              /\ pc' \in Flushing
              /\ \/ pc = "started" /\ pc' = "flushStart"
                 \/ pc = "recorded" /\ pc' = "flushStop"
            BY <2>1, <2>2 DEF BeginFlush, FlushCreate, FlushFill, EndFlush, Flushing, Control,
                Unlock
        <3>2. TypeOK'
            BY <2>1, <2>2, <3>1 DEF TypeOK, Actor
        <3>3. Control'
            BY <2>1, <2>2, <3>1 DEF Control, TypeOK, InPhase, Flushing, Ending, Actor
        <3> QED
            BY <2>2, <3>2, <3>3 DEF DiskTyped
    <2>3. CASE pc \in Flushing /\ pc' = pc /\ FlushCreate("main")
        <3>1. PICK f \in todo["main"] :
                  Create("main", f) /\ todo' = [todo EXCEPT !["main"] = @ \ {f}]
            BY <2>3 DEF FlushCreate
        <3>2. f \in Files /\ UNCHANGED mu
            BY <2>3 DEF FlushCreate, TypeOK, Actor
        <3>3. /\ DiskTyped' /\ open' \in [Actor -> Files \cup {NoFile}]
              /\ open'["sampler"] = open["sampler"]
            BY <3>1, <3>2, CreateKeeps DEF Actor
        <3>4. TypeOK'
            BY <2>1, <3>1, <3>2, <3>3 DEF TypeOK, DiskTyped, Actor
        <3>5. Control'
            BY <2>1, <2>3, <3>1, <3>2, <3>3 DEF Control, TypeOK, InPhase, Flushing, Ending,
                Actor
        <3> QED
            BY <3>3, <3>4, <3>5
    <2>4. CASE pc \in Flushing /\ pc' = pc /\ FlushFill("main")
        <3>1. UNCHANGED <<todo, mu>> /\ Fill("main")
            BY <2>4 DEF FlushFill
        <3>2. /\ DiskTyped' /\ open' \in [Actor -> Files \cup {NoFile}]
              /\ open'["sampler"] = open["sampler"]
            BY <3>1, FillKeeps DEF Actor
        <3>3. TypeOK'
            BY <2>1, <3>1, <3>2 DEF TypeOK, DiskTyped
        <3>4. Control'
            BY <2>1, <2>4, <3>1, <3>2 DEF Control, InPhase, Flushing, Ending
        <3> QED
            BY <3>2, <3>3, <3>4
    <2>5. CASE /\ \/ pc = "flushStart" /\ pc' = "body"
                  \/ pc = "flushStop" /\ pc' = "relock"
               /\ EndFlush("main")
        <3>1. /\ todo["main"] = {} /\ open["main"] = NoFile /\ mu' = "none"
              /\ UNCHANGED <<todo, disk, open>>
            BY <2>5 DEF EndFlush, Unlock
        <3>2. TypeOK'
            BY <2>1, <2>5, <3>1 DEF TypeOK
        <3>3. Control'
            BY <2>1, <2>5, <3>1 DEF Control, InPhase, Flushing, Ending
        <3> QED
            BY <3>1, <3>2, <3>3 DEF DiskTyped
    <2> QED
        BY <2>1, <2>2, <2>3, <2>4, <2>5
<1>22. CASE SamplerFlush
    <2>1. /\ UNCHANGED <<alive, fate, pc, stopped, meta, phase, phases, startSamp, ops, crash,
                         samples, sample>>
          /\ \/ /\ spc = "appended" /\ spc' = "flushing"
                /\ BeginFlush("sampler") /\ UNCHANGED <<disk, open>>
             \/ spc = "flushing" /\ spc' = spc /\ FlushCreate("sampler")
             \/ spc = "flushing" /\ spc' = spc /\ FlushFill("sampler")
             \/ spc = "flushing" /\ spc' = "select" /\ EndFlush("sampler")
        BY <1>22 DEF SamplerFlush, SAt, samplerRest
    <2>2. CASE /\ spc = "appended" /\ spc' = "flushing"
               /\ BeginFlush("sampler") /\ UNCHANGED <<disk, open>>
        <3>1. mu = "none" /\ mu' = "sampler" /\ todo' = [todo EXCEPT !["sampler"] = Files]
            BY <2>2 DEF BeginFlush
        <3>2. TypeOK'
            BY <2>1, <2>2, <3>1 DEF TypeOK, Actor
        <3>3. Control'
            BY <2>1, <2>2, <3>1 DEF Control, TypeOK, InPhase, Flushing, Ending, Actor
        <3> QED
            BY <2>2, <3>2, <3>3 DEF DiskTyped
    <2>3. CASE spc = "flushing" /\ spc' = spc /\ FlushCreate("sampler")
        <3>1. PICK f \in todo["sampler"] :
                  Create("sampler", f) /\ todo' = [todo EXCEPT !["sampler"] = @ \ {f}]
            BY <2>3 DEF FlushCreate
        <3>2. f \in Files /\ UNCHANGED mu
            BY <2>3 DEF FlushCreate, TypeOK, Actor
        <3>3. /\ DiskTyped' /\ open' \in [Actor -> Files \cup {NoFile}]
              /\ open'["main"] = open["main"]
            BY <3>1, <3>2, CreateKeeps DEF Actor
        <3>4. TypeOK'
            BY <2>1, <2>3, <3>1, <3>2, <3>3 DEF TypeOK, DiskTyped, Actor
        <3>5. Control'
            BY <2>1, <2>3, <3>1, <3>2, <3>3 DEF Control, TypeOK, InPhase, Flushing, Ending,
                Actor
        <3> QED
            BY <3>3, <3>4, <3>5
    <2>4. CASE spc = "flushing" /\ spc' = spc /\ FlushFill("sampler")
        <3>1. UNCHANGED <<todo, mu>> /\ Fill("sampler")
            BY <2>4 DEF FlushFill
        <3>2. /\ DiskTyped' /\ open' \in [Actor -> Files \cup {NoFile}]
              /\ open'["main"] = open["main"]
            BY <3>1, FillKeeps DEF Actor
        <3>3. TypeOK'
            BY <2>1, <2>4, <3>1, <3>2 DEF TypeOK, DiskTyped
        <3>4. Control'
            BY <2>1, <2>4, <3>1, <3>2 DEF Control, InPhase, Flushing, Ending
        <3> QED
            BY <3>2, <3>3, <3>4
    <2>5. CASE spc = "flushing" /\ spc' = "select" /\ EndFlush("sampler")
        <3>1. /\ todo["sampler"] = {} /\ open["sampler"] = NoFile /\ mu' = "none"
              /\ UNCHANGED <<todo, disk, open>>
            BY <2>5 DEF EndFlush, Unlock
        <3>2. TypeOK'
            BY <2>1, <2>5, <3>1 DEF TypeOK
        <3>3. Control'
            BY <2>1, <2>5, <3>1 DEF Control, InPhase, Flushing, Ending
        <3> QED
            BY <3>1, <3>2, <3>3 DEF DiskTyped
    <2> QED
        BY <2>1, <2>2, <2>3, <2>4, <2>5
<1>23. CASE FinalWrites
    <2>1. /\ UNCHANGED <<alive, fate, mu, spc, sample, stopped, meta, phase, phases, startSamp,
                         samples, ops, crash>>
          /\ pc = "final" /\ pc' = "final"
          /\ \/ /\ todo["main"] # {} /\ Create("main", FirstOf(todo["main"]))
                /\ todo' = [todo EXCEPT !["main"] = @ \ {FirstOf(@)}]
             \/ Fill("main") /\ UNCHANGED todo
        BY <1>23 DEF FinalWrites, At, mainRest, samplerVars, sharedVars
    <2>2. /\ DiskTyped' /\ open' \in [Actor -> Files \cup {NoFile}]
          /\ open'["sampler"] = open["sampler"]
        <3>1. todo["main"] \subseteq Files
            BY DEF TypeOK, Actor
        <3> QED
            BY <2>1, <3>1, FirstOfIsMember, CreateKeeps, FillKeeps DEF Actor
    <2>3. /\ todo' \in [Actor -> SUBSET Files] /\ todo'["sampler"] = todo["sampler"]
        BY <2>1 DEF TypeOK, Actor
    <2>4. TypeOK'
        BY <2>1, <2>2, <2>3 DEF TypeOK, DiskTyped
    <2>5. Control'
        BY <2>1, <2>2, <2>3 DEF Control, InPhase, Flushing, Ending
    <2> QED
        BY <2>2, <2>4, <2>5
<1>24. CASE TornRead \/ Kill
    <2>1. /\ alive' = FALSE /\ fate' \in {"killed", "faulted"} /\ mu' = "none" /\ pc' = "gone"
          /\ spc' = "gone" /\ stopped' = FALSE /\ sample' = NoSample /\ meta' = 0 /\ phase' = 0
          /\ phases' = <<>> /\ startSamp' = 0 /\ samples' = <<>> /\ ops' = {}
          /\ todo' = [a \in Actor |-> {}] /\ open' = [a \in Actor |-> NoFile]
          /\ UNCHANGED <<disk, crash>>
        BY <1>24 DEF TornRead, Kill, Gone, init
    <2>2. NoSample \in Sample
        BY BoundsAssumption DEF NoSample, Sample, init
    <2>3. TypeOK'
        <3>1. /\ phases' \in Seq(Nat \X Nat) /\ Len(phases') = 0
              /\ samples' \in Seq(Sample) /\ Len(samples') = 0
            BY <2>1
        <3>2. todo' \in [Actor -> SUBSET Files] /\ open' \in [Actor -> Files \cup {NoFile}]
            BY <2>1
        <3>3. /\ mu' \in Actor \cup {"none"} /\ phase' \in Phase \cup {init}
              /\ Len(phases') <= NPhases /\ Len(samples') <= MaxSamples
            BY <2>1, <3>1, BoundsAssumption DEF init
        <3>4. /\ startSamp' \in 0 .. Len(samples') /\ ops' \subseteq Phase \cup {init}
              /\ meta' \in 0 .. 2
            BY <2>1, <3>1
        <3>5. /\ alive' \in BOOLEAN /\ stopped' \in BOOLEAN
              /\ fate' \in {"running", "exited", "killed", "faulted"}
              /\ sample' \in Sample /\ disk' = disk
            BY <2>1, <2>2
        <3> QED
            BY <3>1, <3>2, <3>3, <3>4, <3>5 DEF TypeOK
    <2>4. Control'
        BY <2>1 DEF Control, InPhase, Flushing, Ending, Actor
    <2> QED
        BY <2>1, <2>3, <2>4 DEF DiskTyped
<1> QED
    BY <1>1, <1>2, <1>3, <1>4, <1>5, <1>6, <1>7, <1>8, <1>9, <1>10, <1>11, <1>12, <1>13,
        <1>14, <1>15, <1>16, <1>17, <1>18, <1>19, <1>20, <1>21, <1>22, <1>23, <1>24
    DEF Next, Main, Sampler

(* Nothing happens once the process has ended.                             *)
LEMMA NothingAfterwards ==
    ASSUME Control, [Next]_vars, ~alive
    PROVE  UNCHANGED vars
BY DEF Next, Main, Sampler, SetBGVParams, SetParameterID, WriteMeta, StartPhase, CountSamples,
    Stop, Relock, MainFlush, RecordCrash, MainReturns, CloseStop, AwaitDone, FinalWrites, Exit,
    CountOp, Panic, Measure, LoadPhase, AppendSample, NoFlush, SamplerFlush, Return, TornRead,
    Kill, At, SAt

LEMMA MemoryKept ==
    ASSUME UNCHANGED <<meta, phases, samples, ops>>, NEW f
    PROVE  Memory(f)' = Memory(f)
BY DEF Memory

LEMMA StepFinal ==
    ASSUME TypeOK, DiskTyped, Control, Final, [Next]_vars
    PROVE  Final'
<1>1. CASE UNCHANGED vars
    <2>1. UNCHANGED <<pc, fate, todo, open, disk, meta, phases, samples, ops>>
        BY <1>1 DEF vars, sharedVars
    <2> QED
        BY <2>1, MemoryKept DEF Final
<1>2. CASE AwaitDone
    BY <1>2 DEF AwaitDone, At, mainRest, Final, TypeOK, Control, Actor
<1>3. CASE FinalWrites
    <2>1. /\ pc = "final" /\ pc' = "final" /\ fate' = fate /\ alive
          /\ UNCHANGED <<meta, phases, samples, ops>> /\ open["sampler"] = NoFile
        BY <1>3 DEF FinalWrites, At, mainRest, sharedVars, Control
    <2>2. fate' # "exited"
        BY <2>1 DEF Control
    <2>3. CASE /\ todo["main"] # {} /\ Create("main", FirstOf(todo["main"]))
               /\ todo' = [todo EXCEPT !["main"] = @ \ {FirstOf(@)}]
        <3> DEFINE g == FirstOf(todo["main"])
        <3>1. g \in todo["main"] /\ g \in Files /\ open["main"] = NoFile
            BY <2>3, FirstOfIsMember DEF TypeOK, Actor, Create
        <3>2. todo'["main"] = todo["main"] \ {g}
            BY <2>3 DEF TypeOK, Actor
        <3>3. Create("main", g)
            BY <2>3
        <3> HIDE DEF g
        <3>4. open'["main"] = g /\ \A f \in Files \ {g} : disk'[f] = disk[f]
            BY <3>1, <3>3, CreateKeeps DEF Actor
        <3>5. NoFile \notin Files
            BY DEF NoFile, Files
        <3>6. ASSUME NEW f \in Files \ todo'["main"]
              PROVE  f = open'["main"] \/ disk'[f] = [state |-> "whole", data |-> Memory(f)']
            <4>1. CASE f = g
                BY <3>4, <4>1
            <4>2. CASE f # g
                BY <2>1, <3>1, <3>2, <3>4, <3>5, <4>2, MemoryKept DEF Final
            <4> QED
                BY <4>1, <4>2
        <3> QED
            BY <2>2, <3>6 DEF Final
    <2>4. CASE Fill("main") /\ UNCHANGED todo
        <3>1. /\ open["main"] \in Files
              /\ disk'[open["main"]] = [state |-> "whole", data |-> Memory(open["main"])]
              /\ \A f \in Files \ {open["main"]} : disk'[f] = disk[f]
            <4>1. \A b \in Actor \ {"main"} : open[b] # open["main"]
                BY <2>1, <2>4 DEF Actor, Fill
            <4> QED
                BY <2>4, <4>1, FillKeeps DEF Actor
        <3>2. ASSUME NEW f \in Files \ todo'["main"]
              PROVE  disk'[f] = [state |-> "whole", data |-> Memory(f)']
            <4>1. CASE f = open["main"]
                BY <2>1, <3>1, <4>1, MemoryKept
            <4>2. CASE f # open["main"]
                BY <2>1, <2>4, <3>1, <4>2, MemoryKept DEF Final
            <4> QED
                BY <4>1, <4>2
        <3> QED
            BY <2>2, <3>2 DEF Final
    <2> QED
        BY <1>3, <2>3, <2>4 DEF FinalWrites
<1>4. CASE Exit
    <2>1. /\ pc = "final" /\ pc' = "exited" /\ todo["main"] = {} /\ open["main"] = NoFile
          /\ UNCHANGED <<disk, meta, phases, samples, ops>>
        BY <1>4 DEF Exit, At, sharedVars
    <2>2. \A f \in Files : disk[f] = [state |-> "whole", data |-> Memory(f)]
        BY <2>1 DEF Final, Files, NoFile
    <2> QED
        BY <2>1, <2>2, MemoryKept DEF Final
<1>5. CASE Sampler
    <2>1. alive /\ UNCHANGED <<pc, fate>> /\ spc # "returned"
        BY <1>5 DEF Sampler, Measure, LoadPhase, AppendSample, NoFlush, SamplerFlush, Return,
            SAt,
            samplerRest
    <2> QED
        BY <2>1 DEF Final, Control
<1>6. CASE /\ ~AwaitDone /\ ~FinalWrites /\ ~Exit /\ ~Sampler /\ ~(UNCHANGED vars)
    <2>1. pc' # "final" /\ (fate' # "exited" \/ (fate' = fate /\ alive))
        BY <1>6 DEF Next, Main, SetBGVParams, SetParameterID, WriteMeta, StartPhase,
            CountSamples,
            Stop, Relock, MainFlush, RecordCrash, MainReturns, CloseStop, CountOp, Panic, TornRead,
            Kill, Gone, At, mainRest
    <2> QED
        BY <2>1 DEF Final, Control
<1> QED
    BY <1>1, <1>2, <1>3, <1>4, <1>5, <1>6

----------------------------------------------------------------------------

(* What a checkpoint has saved of the completed phases.                    *)
Saved ==
    /\ disk["phases"].data >= Returned
    /\ pc = "flushStop" /\ "phases" \notin todo["main"] /\ open["main"] # "phases" =>
           disk["phases"].data >= Len(phases)
    /\ pc = "relock" => disk["phases"].data >= Len(phases)

(* A file is partial while someone has it open.                            *)
Writing ==
    alive => \A f \in Files \ {"meta"} :
        disk[f].state = "partial" => f = open["main"] \/ f = open["sampler"]

OnePartial ==
    \A f, g \in Files \ {"meta"} :
        disk[f].state = "partial" /\ disk[g].state = "partial" => f = g

(* The actions that write no file ...                                      *)
Idle ==
    /\ UNCHANGED disk
    /\ \/ UNCHANGED open
       \/ ~alive'

LEMMA DiskSteps ==
    ASSUME TypeOK, [Next]_vars
    PROVE  \/ Idle
           \/ /\ UNCHANGED <<phases, samples>> /\ alive /\ alive'
              /\ \E a \in Actor : Fill(a) \/ \E f \in Files : Create(a, f)
<1>1. CASE UNCHANGED vars
    BY <1>1 DEF vars, Idle
<1>2. CASE WriteMeta
    BY <1>2 DEF WriteMeta, At, mainRest, sharedVars, Actor, Files
<1>3. CASE MainFlush
    <2>1. UNCHANGED <<alive, phases, samples>> /\ alive
        BY <1>3 DEF MainFlush, At, mainRest, sharedVars
    <2>2. CASE UNCHANGED <<disk, open>>
        BY <2>2 DEF Idle
    <2>3. CASE ~(UNCHANGED <<disk, open>>)
        <3>1. FlushCreate("main") \/ FlushFill("main")
            BY <1>3, <2>3 DEF MainFlush, BeginFlush, EndFlush
        <3> QED
            BY <2>1, <3>1 DEF FlushCreate, FlushFill, Actor, TypeOK
    <2> QED
        BY <2>2, <2>3
<1>4. CASE SamplerFlush
    <2>1. UNCHANGED <<alive, phases, samples>> /\ alive
        BY <1>4 DEF SamplerFlush, SAt, samplerRest
    <2>2. CASE UNCHANGED <<disk, open>>
        BY <2>2 DEF Idle
    <2>3. CASE ~(UNCHANGED <<disk, open>>)
        <3>1. FlushCreate("sampler") \/ FlushFill("sampler")
            BY <1>4, <2>3 DEF SamplerFlush, BeginFlush, EndFlush
        <3> QED
            BY <2>1, <3>1 DEF FlushCreate, FlushFill, Actor, TypeOK
    <2> QED
        BY <2>2, <2>3
<1>5. CASE FinalWrites
    BY <1>5, FirstOfIsMember DEF FinalWrites, At, mainRest, sharedVars, Actor, TypeOK
<1>6. CASE TornRead \/ Kill
    BY <1>6 DEF TornRead, Kill, Gone, Idle
<1>7. CASE /\ ~WriteMeta /\ ~MainFlush /\ ~SamplerFlush /\ ~FinalWrites /\ ~TornRead /\ ~Kill
           /\ ~(UNCHANGED vars)
    BY <1>7 DEF Next, Main, Sampler, SetBGVParams, SetParameterID, StartPhase, CountSamples,
        Stop, Relock, RecordCrash, MainReturns, CloseStop, AwaitDone, Exit, CountOp, Panic,
        Measure, LoadPhase, AppendSample, NoFlush, Return, Idle, samplerRest, mainRest
<1> QED
    BY <1>1, <1>2, <1>3, <1>4, <1>5, <1>6, <1>7

LEMMA StepWriting ==
    ASSUME TypeOK, DiskTyped, Control, Writing, OnePartial, TypeOK', DiskTyped', Control',
           [Next]_vars
    PROVE  Writing' /\ OnePartial'
<1>1. CASE Idle
    <2>1. OnePartial'
        BY <1>1 DEF Idle, OnePartial
    <2>2. CASE ~alive'
        BY <2>1, <2>2 DEF Writing
    <2>3. CASE alive' /\ UNCHANGED open
        <3>1. alive
            BY <2>3, NothingAfterwards DEF vars
        <3> QED
            BY <1>1, <2>1, <2>3, <3>1 DEF Writing, Idle
    <2> QED
        BY <1>1, <2>2, <2>3 DEF Idle
<1>2. CASE alive /\ alive' /\ \E a \in Actor : Fill(a) \/ \E f \in Files : Create(a, f)
    <2>1. PICK a \in Actor : Fill(a) \/ \E f \in Files : Create(a, f)
        BY <1>2
    <2>2. NoFile \notin Files
        BY DEF NoFile, Files
    <2>3. ASSUME NEW g \in Files \ {"meta"}, disk'[g].state = "partial"
          PROVE  \E b \in Actor : open'[b] = g
        <3>1. CASE Fill(a)
            <4>1. /\ disk'[open[a]].state = "partial" => \E b \in Actor \ {a} : open[b] = open[a]
                  /\ \A b \in Actor \ {a} : open'[b] = open[b]
                  /\ \A h \in Files \ {open[a]} : disk'[h] = disk[h]
                BY <3>1, FillKeeps
            <4>2. CASE g = open[a]
                BY <2>3, <4>1, <4>2
            <4>3. CASE g # open[a]
                <5>1. \E b \in Actor : open[b] = g
                    BY <1>2, <2>3, <4>1, <4>3 DEF Writing, Actor
                <5> QED
                    BY <4>1, <4>3, <5>1
            <4> QED
                BY <4>2, <4>3
        <3>2. CASE \E f \in Files : Create(a, f)
            <4>1. PICK f \in Files : Create(a, f)
                BY <3>2
            <4>2. /\ open'[a] = f
                  /\ \A b \in Actor \ {a} : open'[b] = open[b]
                  /\ \A h \in Files \ {f} : disk'[h] = disk[h]
                BY <4>1, CreateKeeps
            <4>3. CASE g = f
                BY <4>2, <4>3
            <4>4. CASE g # f
                <5>1. PICK b \in Actor : open[b] = g
                    BY <1>2, <2>3, <4>2, <4>4 DEF Writing, Actor
                <5>2. open[a] = NoFile
                    BY <4>1 DEF Create
                <5>3. b # a
                    BY <2>2, <5>1, <5>2
                <5> QED
                    BY <4>2, <5>1, <5>3
            <4> QED
                BY <4>3, <4>4
        <3> QED
            BY <2>1, <3>1, <3>2
    <2>4. \A g \in Files \ {"meta"} :
              disk'[g].state = "partial" => g = open'["main"] \/ g = open'["sampler"]
        BY <2>3 DEF Actor
    <2>5. Writing'
        BY <2>4 DEF Writing
    <2>6. alive'
        BY <1>2
    <2>7. OnePartial'
        <3>1. open'["main"] \in {NoFile, "meta"} \/ open'["sampler"] = NoFile
            BY DEF Control, Flushing
        <3>2. NoFile \notin Files
            BY DEF NoFile, Files
        <3> QED
            BY <2>5, <2>6, <3>1, <3>2 DEF Writing, OnePartial
    <2> QED
        BY <2>5, <2>7
<1> QED
    BY <1>1, <1>2, DiskSteps

LEMMA StepSaved ==
    ASSUME TypeOK, DiskTyped, Control, Saved, TypeOK', DiskTyped', [Next]_vars
    PROVE  Saved'
<1> DEFINE saved == disk["phases"].data
<1>1. saved \in Nat /\ saved' \in Nat /\ Len(phases) \in Nat /\ Len(phases') \in Nat
    BY DEF DiskTyped, TypeOK
<1>2. \/ saved' = saved
      \/ saved' = Len(phases) /\ UNCHANGED phases
    <2>1. CASE Idle
        BY <2>1 DEF Idle
    <2>2. CASE /\ UNCHANGED phases
               /\ \E a \in Actor : Fill(a) \/ \E f \in Files : Create(a, f)
        <3>1. PICK a \in Actor : Fill(a) \/ \E f \in Files : Create(a, f)
            BY <2>2
        <3>2. CASE Fill(a)
            <4>1. CASE open[a] = "phases"
                BY <2>2, <3>2, <4>1, FillKeeps DEF Memory
            <4>2. CASE open[a] # "phases"
                BY <3>2, <4>2, FillKeeps DEF Files
            <4> QED
                BY <4>1, <4>2
        <3>3. CASE \E f \in Files : Create(a, f)
            BY <3>3, CreateKeeps DEF Files
        <3> QED
            BY <3>1, <3>2, <3>3
    <2> QED
        BY <2>1, <2>2, DiskSteps
<1> USE <1>1, <1>2 DEF Saved
<1>3. CASE UNCHANGED vars
    BY <1>3 DEF vars, sharedVars, Returned
<1>4. CASE TornRead \/ Kill
    BY <1>4 DEF TornRead, Kill, Gone, Returned
<1>5. CASE MainFlush
    <2>1. UNCHANGED phases
        BY <1>5 DEF MainFlush, sharedVars
    <2>2. CASE At("started", "flushStart") /\ BeginFlush("main")
        BY <2>1, <2>2 DEF At, Returned
    <2>3. CASE At("recorded", "flushStop") /\ BeginFlush("main")
        BY <2>1, <2>3 DEF At, Returned, BeginFlush, Files, TypeOK, Actor
    <2>4. CASE At("flushStart", "body") /\ EndFlush("main")
        BY <2>1, <2>4 DEF At, Returned
    <2>5. CASE At("flushStop", "relock") /\ EndFlush("main")
        BY <2>1, <2>5 DEF At, Returned, EndFlush, NoFile
    <2>6. CASE pc \in {"flushStart", "flushStop"} /\ At(pc, pc) /\ FlushCreate("main")
        <3>1. PICK f \in todo["main"] :
                  Create("main", f) /\ todo' = [todo EXCEPT !["main"] = @ \ {f}]
            BY <2>6 DEF FlushCreate
        <3>2. f \in Files /\ open["main"] = NoFile
            BY <3>1 DEF TypeOK, Actor, Create
        <3>3. open'["main"] = f /\ saved' = saved
            BY <3>1, <3>2, CreateKeeps DEF Actor, Files
        <3>4. todo'["main"] = todo["main"] \ {f}
            BY <3>1 DEF TypeOK, Actor
        <3> QED
            BY <2>1, <2>6, <3>2, <3>3, <3>4 DEF At, Returned, NoFile
    <2>7. CASE pc \in {"flushStart", "flushStop"} /\ At(pc, pc) /\ FlushFill("main")
        <3>1. UNCHANGED todo /\ Fill("main")
            BY <2>7 DEF FlushFill
        <3>2. open["main"] = "phases" => saved' = Len(phases)
            BY <3>1, FillKeeps DEF Memory, Actor
        <3> QED
            BY <2>1, <2>7, <3>1, <3>2 DEF At, Returned
    <2> QED
        BY <1>5, <2>2, <2>3, <2>4, <2>5, <2>6, <2>7 DEF MainFlush
<1>6. CASE Sampler
    <2>1. UNCHANGED <<pc, phases>>
        BY <1>6 DEF Sampler, Measure, LoadPhase, AppendSample, NoFlush, SamplerFlush, Return,
            samplerRest
    <2>2. pc = "flushStop" => UNCHANGED <<todo, open>>
        BY <1>6 DEF Sampler, Measure, LoadPhase, AppendSample, NoFlush, SamplerFlush, Return,
            SAt, BeginFlush, Control, Flushing
    <2> QED
        BY <2>1, <2>2 DEF Returned
<1>7. CASE Stop \/ Panic
    BY <1>7 DEF Stop, Panic, At, Returned, sharedVars, TypeOK
<1>8. CASE WriteMeta
    BY <1>8 DEF WriteMeta, At, Returned, sharedVars
<1>9. CASE FinalWrites
    BY <1>9 DEF FinalWrites, At, Returned, sharedVars
<1>10. CASE /\ ~MainFlush /\ ~Sampler /\ ~Stop /\ ~Panic /\ ~WriteMeta /\ ~FinalWrites
            /\ ~TornRead /\ ~Kill /\ ~(UNCHANGED vars)
    <2>1. UNCHANGED phases /\ pc' \notin {"recorded", "flushStop", "relock"}
          /\ (pc \in {"recorded", "flushStop", "relock"} => pc = "relock")
        BY <1>10 DEF Next, Main, SetBGVParams, SetParameterID, StartPhase, CountSamples, Relock,
            RecordCrash, MainReturns, CloseStop, AwaitDone, Exit, CountOp, At, sharedVars
    <2> QED
        BY <2>1 DEF Returned
<1> QED
    BY <1>3, <1>4, <1>5, <1>6, <1>7, <1>8, <1>9, <1>10 DEF Next, Main, Sampler

----------------------------------------------------------------------------

Running == InPhase \ {"starting"}

(* Of the samples since the phase began, only the first may have been      *)
(* measured before; the one in the sampler's hands is that first one or    *)
(* was measured since.                                                     *)
Peaks ==
    /\ \A p \in DOMAIN phases :
          /\ phases[p][1] \in Nat /\ phases[p][2] \in 0 .. Len(samples)
          /\ \A n \in phases[p][1] + 1 .. phases[p][2] :
                samples[n].started = p /\ samples[n].completed = p - 1
    /\ pc \in Running => \A n \in startSamp + 2 .. Len(samples) :
          samples[n].started = phase /\ samples[n].completed = Len(phases)
    /\ pc \in Running /\ spc \in {"measured", "labelled"} /\ Len(samples) > startSamp =>
          sample.started = phase /\ sample.completed = Len(phases)

LEMMA StepPeaks ==
    ASSUME TypeOK, Control, Peaks, TypeOK', Control', [Next]_vars
    PROVE  Peaks'
<1>1. CASE UNCHANGED vars
    BY <1>1 DEF vars, samplerVars, sharedVars, Peaks
<1>2. CASE Measure
    BY <1>2 DEF Measure, SAt, samplerRest, Peaks
<1>3. CASE LoadPhase
    <2>1. /\ sample'.started = sample.started /\ sample'.completed = sample.completed
        BY <1>3 DEF LoadPhase, TypeOK, Sample
    <2> QED
        BY <1>3, <2>1 DEF LoadPhase, SAt, samplerRest, Peaks
<1>4. CASE AppendSample
    <2>1. /\ spc = "labelled" /\ spc' = "appended" /\ samples' = Append(samples, sample)
          /\ UNCHANGED <<pc, phase, phases, startSamp>>
        BY <1>4 DEF AppendSample, SAt, samplerRest
    <2>2. /\ Len(samples') = Len(samples) + 1 /\ Len(samples) \in Nat
          /\ samples'[Len(samples) + 1] = sample
          /\ \A n \in 1 .. Len(samples) : samples'[n] = samples[n]
        BY <2>1 DEF TypeOK
    <2>3. ASSUME NEW p \in DOMAIN phases'
          PROVE  /\ phases'[p][1] \in Nat /\ phases'[p][2] \in 0 .. Len(samples')
                 /\ \A n \in phases'[p][1] + 1 .. phases'[p][2] :
                       samples'[n].started = p /\ samples'[n].completed = p - 1
        <3>1. /\ phases[p][1] \in Nat /\ phases[p][2] \in 0 .. Len(samples)
              /\ \A n \in phases[p][1] + 1 .. phases[p][2] :
                    samples[n].started = p /\ samples[n].completed = p - 1
            BY <2>1, <2>3 DEF Peaks
        <3>2. ASSUME NEW n \in phases[p][1] + 1 .. phases[p][2]
              PROVE  n \in 1 .. Len(samples)
            BY <2>2, <3>1
        <3> QED
            BY <2>1, <2>2, <3>1, <3>2
    <2>4. ASSUME pc \in Running, NEW n \in startSamp + 2 .. Len(samples')
          PROVE  samples'[n].started = phase /\ samples'[n].completed = Len(phases)
        <3>1. startSamp \in 0 .. Len(samples)
            BY DEF TypeOK
        <3>2. CASE n = Len(samples) + 1
            BY <2>1, <2>2, <2>4, <3>1, <3>2 DEF Peaks
        <3>3. CASE n # Len(samples) + 1
            <4>1. n \in startSamp + 2 .. Len(samples) /\ n \in 1 .. Len(samples)
                BY <2>2, <2>4, <3>1, <3>3
            <4> QED
                BY <2>2, <2>4, <4>1 DEF Peaks
        <3> QED
            BY <3>2, <3>3
    <2> QED
        BY <2>1, <2>3, <2>4 DEF Peaks
<1>5. CASE NoFlush \/ SamplerFlush \/ Return
    BY <1>5 DEF NoFlush, SamplerFlush, Return, SAt, samplerRest, Peaks
<1>6. CASE CountSamples
    <2>1. /\ startSamp' = Len(samples) /\ UNCHANGED <<phases, samples>> /\ Len(samples) \in Nat
        BY <1>6 DEF CountSamples, sharedVars, TypeOK
    <2> QED
        BY <2>1 DEF Peaks
<1>7. CASE Stop
    <2>1. /\ pc = "body" /\ pc' = "recorded" /\ UNCHANGED samples
          /\ phases' = Append(phases, <<startSamp + 1, Len(samples)>>)
        BY <1>7 DEF Stop, At, Window
    <2>2. /\ startSamp \in Nat /\ Len(samples) \in Nat /\ Len(phases) \in Nat
          /\ phase = Len(phases) + 1
        BY <2>1 DEF TypeOK, Control, InPhase
    <2>3. /\ DOMAIN phases' = 1 .. Len(phases) + 1 /\ DOMAIN phases = 1 .. Len(phases)
          /\ phases'[Len(phases) + 1] = <<startSamp + 1, Len(samples)>>
          /\ \A p \in 1 .. Len(phases) : phases'[p] = phases[p]
        BY <2>1 DEF TypeOK
    <2>4. ASSUME NEW p \in DOMAIN phases'
          PROVE  /\ phases'[p][1] \in Nat /\ phases'[p][2] \in 0 .. Len(samples')
                 /\ \A n \in phases'[p][1] + 1 .. phases'[p][2] :
                       samples'[n].started = p /\ samples'[n].completed = p - 1
        <3>1. CASE p \in 1 .. Len(phases)
            BY <2>1, <2>3, <3>1 DEF Peaks
        <3>2. CASE p = Len(phases) + 1
            <4>1. phases'[p][1] = startSamp + 1 /\ phases'[p][2] = Len(samples)
                BY <2>3, <3>2
            <4>2. \A n \in startSamp + 2 .. Len(samples) :
                      samples[n].started = phase /\ samples[n].completed = Len(phases)
                BY <2>1 DEF Peaks, Running, InPhase
            <4>3. startSamp + 1 + 1 = startSamp + 2
                BY <2>2
            <4> QED
                BY <2>1, <2>2, <3>2, <4>1, <4>2, <4>3
        <3> QED
            BY <2>2, <2>3, <2>4, <3>1, <3>2
    <2> QED
        BY <2>1, <2>4 DEF Peaks, Running, InPhase
<1>8. CASE TornRead \/ Kill
    BY <1>8 DEF TornRead, Kill, Gone, Peaks, Running, InPhase
<1>9. CASE /\ ~Sampler /\ ~CountSamples /\ ~Stop /\ ~TornRead /\ ~Kill /\ ~(UNCHANGED vars)
    <2>1. UNCHANGED <<samples, phases, spc, sample>>
        BY <1>9 DEF Next, Main, SetBGVParams, SetParameterID, WriteMeta, StartPhase, Relock,
            MainFlush, RecordCrash, MainReturns, CloseStop, AwaitDone, FinalWrites, Exit, CountOp,
            Panic, mainRest, samplerVars, sharedVars
    <2>2. pc' \in Running => pc \in Running /\ UNCHANGED <<phase, startSamp>>
        BY <1>9 DEF Next, Main, SetBGVParams, SetParameterID, WriteMeta, StartPhase, Relock,
            MainFlush, RecordCrash, MainReturns, CloseStop, AwaitDone, FinalWrites, Exit, CountOp,
            Panic, At, samplerVars, sharedVars, Running, InPhase
    <2> QED
        BY <2>1, <2>2 DEF Peaks
<1> QED
    BY <1>1, <1>2, <1>3, <1>4, <1>5, <1>6, <1>7, <1>8, <1>9 DEF Sampler

----------------------------------------------------------------------------

IInv == TypeOK /\ DiskTyped /\ Control /\ Final /\ Writing /\ OnePartial /\ Saved /\ Peaks

LEMMA InitIInv == Init => IInv
<1> SUFFICES ASSUME Init
             PROVE  IInv
    OBVIOUS
<1>1. TypeOK /\ DiskTyped /\ Control /\ Final
    BY InitTyped
<1>2. \A f \in Files : disk[f].state # "partial"
    BY DEF Init
<1>3. Saved
    BY <1>1 DEF Saved, DiskTyped, Returned, Init
<1>4. Peaks
    BY DEF Peaks, Init, Running, InPhase
<1> QED
    BY <1>1, <1>2, <1>3, <1>4 DEF IInv, Writing, OnePartial

LEMMA StepIInv == IInv /\ [Next]_vars => IInv'
BY StepTyped, StepFinal, StepWriting, StepSaved, StepPeaks DEF IInv

(* Main and the sampler keep the invariant with every step, as do a panic, *)
(* a torn read and a kill.                                                 *)
THEOREM InductiveInvariant == Spec => []IInv
BY InitIInv, StepIInv, PTL DEF Spec

(* A run that ends by itself leaves every file whole and up to date,       *)
(* however many phases and samples there are.                              *)
THEOREM FinalFilesComplete == Spec => []FinalFilesAreComplete
<1>1. IInv => FinalFilesAreComplete
    BY DEF IInv, Final, FinalFilesAreComplete
<1> QED
    BY <1>1, InductiveInvariant, PTL

(* A phase takes its peaks from samples of its own, but for the first.     *)
THEOREM PeaksAreOwn == Spec => []PeaksAreThePhasesOwn
<1>1. IInv => PeaksAreThePhasesOwn
    BY DEF IInv, Peaks, PeaksAreThePhasesOwn
<1> QED
    BY <1>1, InductiveInvariant, PTL

(* A checkpoint interrupted at any moment loses the file being written and *)
(* no phase that an earlier one had saved elsewhere.                       *)
THEOREM OneFileIsLost == Spec => []AtMostOneFileIsLost
<1>1. IInv => AtMostOneFileIsLost
    <2> SUFFICES ASSUME IInv
                 PROVE  AtMostOneFileIsLost
        OBVIOUS
    <2> DEFINE lost == {f \in Files \ {"meta"} : disk[f].state = "partial"}
    <2>1. \A f, g \in lost : f = g
        BY DEF IInv, OnePartial
    <2>2. Cardinality(lost) <= 1
        <3>1. CASE lost = {}
            BY <3>1, FS_EmptySet
        <3>2. CASE lost # {}
            <4>1. PICK x : lost = {x}
                BY <2>1, <3>2
            <4>2. Cardinality({x}) = 1
                BY FS_Singleton
            <4> QED
                BY <4>1, <4>2
        <3> QED
            BY <3>1, <3>2
    <2> QED
        BY <2>2 DEF IInv, Saved, AtMostOneFileIsLost
<1> QED
    BY <1>1, InductiveInvariant, PTL

----------------------------------------------------------------------------
(* The progress display.                                                   *)

Inside == {"await", "final", "newline"}
Waiting == {"outside", "called"}

(* The channels and the one caller that is inside stopOnce.                *)
DisplayControl ==
    /\ loop = "none" <=> ~Shown
    /\ done <=> loop \in {"none", "ended"}
    /\ once = "free" => \A f \in Finishers : finisher[f] \in Waiting
    /\ once = "running" =>
          \E f \in Finishers :
              finisher[f] \in Inside /\ \A g \in Finishers \ {f} : finisher[g] \in Waiting
    /\ once = "done" => done /\ \A f \in Finishers : finisher[f] \in Waiting \cup {"returned"}
    /\ \A f \in Finishers :
          /\ finisher[f] \in {"final", "newline"} => done
          /\ finisher[f] = "newline" => Shown /\ kind = "bar"
    /\ kind = "spinner" => total = 1
    /\ loaded <= count
    /\ ~tty => line = NoLine

FinalPainted == once = "done" \/ \E f \in Finishers : finisher[f] = "newline"

Increasing(n) ==
    \A i, j \in 1 .. n : i < j =>
        lines[i] <= lines[j] /\ Decile(lines[i]) < Decile(lines[j])

(* Before the final line: a bar shows no more than the goroutine has       *)
(* loaded, and has logged its tenths one after the other.                  *)
Painting ==
    ~FinalPainted =>
        /\ tty \/ kind = "spinner" \/ ~Shown => lines = <<>>
        /\ ~Shown => line = NoLine
        /\ kind = "spinner" => line \in {NoLine, 0}
        /\ kind = "bar" /\ Shown =>
              /\ line # NoLine => line <= Clamped(loaded)
              /\ \A i \in DOMAIN lines :
                    /\ lines[i] \in 0 .. Clamped(loaded)
                    /\ Decile(lines[i]) <= lastPctLogged
              /\ Increasing(Len(lines))

(* Between the final line of a bar and its newline.                        *)
Closing ==
    (\E f \in Finishers : finisher[f] = "newline") =>
        /\ tty => line = total /\ lines = <<>>
        /\ ~tty => /\ lines # <<>> /\ lines[Len(lines)] = total
                   /\ \A i \in DOMAIN lines : lines[i] \in 0 .. total
                   /\ Increasing(Len(lines) - 1)

Closed == once = "done" => FinishedDisplay /\ LogAdvances

DisplayInv == ProgressTypeOK /\ DisplayControl /\ Painting /\ Closing /\ Closed

(* A tenth of a shown amount.                                              *)
LEMMA Deciles ==
    ASSUME total \in Nat, total > 0, NEW c \in 0 .. total
    PROVE  Decile(c) \in 0 .. 10
<1>1. PICK x \in Nat : x = 10 * c /\ x <= 10 * total
    OBVIOUS
<1>2. PICK q \in Nat : q = x \div total
    BY <1>1, Division
<1>3. q * total <= x
    <2>1. x % total \in 0 .. total - 1 /\ x = (x \div total) * total + (x % total)
        BY <1>1, Division
    <2>2. q * total \in Int
        OBVIOUS
    <2> QED
        BY <1>2, <2>1, <2>2
<1>4. q <= 10
    <2> SUFFICES ASSUME 11 <= q PROVE FALSE
        OBVIOUS
    <2>1. 11 * total <= q * total /\ q * total \in Nat
        BY TimesMonotone
    <2> QED
        BY <1>1, <1>3, <2>1
<1> QED
    BY <1>1, <1>2, <1>4 DEF Decile

(* render clamps the count to the total, whatever the count is.            *)
LEMMA ClampedTyped ==
    ASSUME ProgressTypeOK
    PROVE  /\ total \in Nat
           /\ \A cur \in Nat : /\ Clamped(cur) \in 0 .. total
                               /\ Clamped(cur) <= cur
           /\ \A a, b \in Nat : a <= b => Clamped(a) <= Clamped(b)
           /\ Clamped(total) = total
<1>1. total \in Nat
    BY TotalsAssumption DEF ProgressTypeOK
<1> QED
    BY <1>1 DEF Clamped, Smaller

(* NewProgress and NewSpinner establish the invariant.                     *)
LEMMA DisplayInit ==
    ASSUME ProgressInit
    PROVE  DisplayInv
<1>1. total \in Nat /\ total \in Totals \cup {1}
    BY TotalsAssumption DEF ProgressInit
<1>2. stop \in BOOLEAN /\ done \in BOOLEAN
    BY DEF ProgressInit, DoneAtCreation, Shown
<1>3. lines \in Seq(Int) /\ lines = <<>>
    BY DEF ProgressInit
<1>4. ProgressTypeOK
    BY <1>1, <1>2, <1>3 DEF ProgressInit, ProgressTypeOK, NoLine
<1>5. DisplayControl
    <2>1. (loop = "none" <=> ~Shown) /\ (done <=> loop \in {"none", "ended"})
        <3>1. CASE Shown
            BY <3>1 DEF ProgressInit, DoneAtCreation
        <3>2. CASE ~Shown
            BY <3>2 DEF ProgressInit, DoneAtCreation
        <3> QED
            BY <3>1, <3>2
    <2> QED
        BY <2>1 DEF ProgressInit, DisplayControl, Waiting
<1>6. Painting
    BY <1>3 DEF ProgressInit, Painting, Increasing
<1>7. Closing /\ Closed
    BY DEF ProgressInit, Closing, Closed
<1> QED
    BY <1>4, <1>5, <1>6, <1>7 DEF DisplayInv

(* The steps that paint nothing.                                           *)
LEMMA ScreenKept ==
    ASSUME DisplayInv, ProgressTypeOK',
           UNCHANGED <<kind, tty, enabled, total, lastPctLogged, line, lines>>,
           loaded <= loaded',
           FinalPainted' <=> FinalPainted,
           once' = "done" => once = "done",
           \A f \in Finishers : finisher'[f] = "newline" => finisher[f] = "newline"
    PROVE  Painting' /\ Closing' /\ Closed'
<1>1. total \in Nat /\ loaded \in Nat /\ loaded' \in Nat
      /\ Clamped(loaded) \in 0 .. total
      /\ Clamped(loaded') \in 0 .. total
      /\ Clamped(loaded) <= Clamped(loaded')
    BY ClampedTyped DEF DisplayInv, ProgressTypeOK
<1>2. /\ Shown' <=> Shown
      /\ Clamped(loaded)' = Clamped(loaded')
      /\ \A cur : Decile(cur)' = Decile(cur)
    BY DEF Shown, Clamped, Smaller, Decile
<1>3. \A n : Increasing(n) => Increasing(n)'
    BY DEF Increasing, Decile
<1>4. Painting'
    <2> SUFFICES ASSUME ~FinalPainted PROVE Painting'
        BY DEF Painting
    <2>1. /\ tty \/ kind = "spinner" \/ ~Shown => lines = <<>>
          /\ ~Shown => line = NoLine
          /\ kind = "spinner" => line \in {NoLine, 0}
        BY DEF DisplayInv, Painting
    <2>2. kind = "bar" /\ Shown =>
              /\ line # NoLine => line <= Clamped(loaded)
              /\ \A i \in DOMAIN lines :
                    /\ lines[i] \in 0 .. Clamped(loaded)
                    /\ Decile(lines[i]) <= lastPctLogged
              /\ Increasing(Len(lines))
        BY DEF DisplayInv, Painting
    <2>3. kind = "bar" /\ Shown =>
              /\ line # NoLine => line <= Clamped(loaded')
              /\ \A i \in DOMAIN lines :
                    /\ lines[i] \in 0 .. Clamped(loaded')
                    /\ Decile(lines[i]) <= lastPctLogged
        <3>1. line \in Nat \cup {NoLine}
            BY DEF DisplayInv, ProgressTypeOK
        <3> QED
            BY <1>1, <2>2, <3>1 DEF NoLine
    <2>4. (tty \/ kind = "spinner" \/ ~Shown)' => lines' = <<>>
        BY <1>2, <2>1
    <2>5. (~Shown)' => line' = NoLine
        BY <1>2, <2>1
    <2> QED
        BY <1>2, <1>3, <2>1, <2>2, <2>3, <2>4, <2>5 DEF Painting, NoLine
<1>5. Closing'
    <2> SUFFICES ASSUME \E f \in Finishers : finisher[f] = "newline" PROVE Closing'
        BY DEF Closing
    <2>1. /\ tty => line = total /\ lines = <<>>
          /\ ~tty => /\ lines # <<>> /\ lines[Len(lines)] = total
                     /\ \A i \in DOMAIN lines : lines[i] \in 0 .. total
                     /\ Increasing(Len(lines) - 1)
        BY DEF DisplayInv, Closing
    <2> QED
        BY <1>3, <2>1 DEF Closing
<1>6. Closed'
    BY <1>2 DEF DisplayInv, Closed, FinishedDisplay, LogAdvances, Logged,
        NoLine, BlankLine
<1> QED
    BY <1>4, <1>5, <1>6

(* The workers, the ticker, the end of the goroutine and the steps of      *)
(* Finish around the painting.                                             *)
LEMMA QuietSteps ==
    ASSUME DisplayInv,
           \/ \E n \in Steps : Add(n)
           \/ Tick \/ LoopReturns
           \/ \E f \in Finishers :
                 \/ Call(f) \/ StopLoop(f) \/ AwaitLoop(f)
                 \/ ReturnAtOnce(f)
    PROVE  DisplayInv'
<1>1. CASE \E n \in Steps : Add(n)
    <2>1. PICK n \in Steps : Add(n)
        BY <1>1
    <2>2. count \in Nat /\ n \in Nat /\ count' = count + n
          /\ UNCHANGED <<kind, tty, enabled, total, lastPctLogged, stop, done, loop, loaded,
                         once, finisher, line, lines>>
        BY <2>1, StepsAssumption DEF Add, display, screen, DisplayInv, ProgressTypeOK
    <2>3. ProgressTypeOK'
        BY <2>2 DEF DisplayInv, ProgressTypeOK
    <2>4. DisplayControl'
        <3>1. loaded \in Nat /\ loaded <= count /\ (Shown' <=> Shown)
            BY <2>2 DEF DisplayInv, ProgressTypeOK, DisplayControl, Shown
        <3> QED
            BY <2>2, <3>1 DEF DisplayInv, DisplayControl, NoLine
    <2>5. loaded <= loaded' /\ (FinalPainted' <=> FinalPainted)
        BY <2>2 DEF DisplayInv, ProgressTypeOK, FinalPainted
    <2> QED
        BY <2>2, <2>3, <2>4, <2>5, ScreenKept DEF DisplayInv
<1>2. CASE Tick
    <2>1. /\ loop = "select" /\ loop' = "loaded" /\ loaded' = count
          /\ UNCHANGED <<kind, tty, enabled, total, count, lastPctLogged, stop, done,
                         once, finisher, line, lines>>
        BY <1>2 DEF Tick, LoopTo, display, screen
    <2>2. count \in Nat /\ loaded \in Nat /\ loaded <= count
          /\ (Shown' <=> Shown)
        BY <2>1 DEF DisplayInv, ProgressTypeOK, DisplayControl, Shown
    <2>3. ProgressTypeOK'
        BY <2>1, <2>2 DEF DisplayInv, ProgressTypeOK
    <2>4. DisplayControl'
        BY <2>1, <2>2 DEF DisplayInv, DisplayControl, NoLine
    <2>5. FinalPainted' <=> FinalPainted
        BY <2>1 DEF FinalPainted
    <2> QED
        BY <2>1, <2>2, <2>3, <2>4, <2>5, ScreenKept DEF DisplayInv
<1>3. CASE LoopReturns
    <2>1. /\ loop = "select" /\ loop' = "ended" /\ done' = TRUE
          /\ UNCHANGED <<kind, tty, enabled, total, count, lastPctLogged, stop, loaded,
                         once, finisher, line, lines>>
        BY <1>3 DEF LoopReturns, LoopTo, display, screen
    <2>2. loaded \in Nat /\ (Shown' <=> Shown)
        BY <2>1 DEF DisplayInv, ProgressTypeOK, Shown
    <2>3. ProgressTypeOK'
        <3>1. done' \in BOOLEAN
            BY <2>1
        <3> QED
            BY <2>1, <3>1 DEF DisplayInv, ProgressTypeOK
    <2>4. DisplayControl'
        BY <2>1, <2>2 DEF DisplayInv, DisplayControl, NoLine
    <2>5. FinalPainted' <=> FinalPainted
        BY <2>1 DEF FinalPainted
    <2> QED
        BY <2>1, <2>2, <2>3, <2>4, <2>5, ScreenKept DEF DisplayInv
<1>4. ASSUME NEW f \in Finishers,
             \/ Call(f) \/ StopLoop(f) \/ AwaitLoop(f)
             \/ ReturnAtOnce(f)
      PROVE  DisplayInv'
    <2>1. /\ UNCHANGED <<kind, tty, enabled, total, count, lastPctLogged, done, loop, loaded,
                         line, lines>>
          /\ \E from, to \in {"outside", "called", "await", "final", "returned"} :
                finisher[f] = from /\ finisher' = [finisher EXCEPT ![f] = to]
        BY <1>4 DEF Call, StopLoop, AwaitLoop, ReturnAtOnce,
            FinisherTo, display, screen
    <2>2. /\ finisher \in [Finishers -> Waiting \cup Inside \cup {"returned"}]
          /\ finisher' \in [Finishers -> Waiting \cup Inside \cup {"returned"}]
          /\ \A g \in Finishers \ {f} : finisher'[g] = finisher[g]
          /\ finisher[f] # "newline" /\ finisher'[f] # "newline"
        BY <2>1 DEF DisplayInv, ProgressTypeOK, Waiting, Inside
    <2>3. loaded \in Nat /\ (Shown' <=> Shown)
        BY <2>1 DEF DisplayInv, ProgressTypeOK, Shown
    <2>4. once' = "done" <=> once = "done"
        BY <1>4 DEF Call, StopLoop, AwaitLoop, ReturnAtOnce
    <2>5. stop' \in BOOLEAN /\ once' \in {"free", "running", "done"}
        <3>1. stop' \in {stop, TRUE} /\ once' \in {once, "running"}
            BY <1>4 DEF Call, StopLoop, AwaitLoop, ReturnAtOnce
        <3> QED
            BY <3>1 DEF DisplayInv, ProgressTypeOK
    <2>6. ProgressTypeOK'
        BY <2>1, <2>2, <2>5 DEF DisplayInv, ProgressTypeOK, Waiting, Inside
    <2>7. DisplayControl'
        <3>1. /\ once' = "free" => \A g \in Finishers : finisher'[g] \in Waiting
              /\ once' = "running" =>
                    \E h \in Finishers : finisher'[h] \in Inside
                        /\ \A g \in Finishers \ {h} : finisher'[g] \in Waiting
              /\ once' = "done" =>
                    done' /\ \A g \in Finishers : finisher'[g] \in Waiting \cup {"returned"}
            <4> USE DEF Waiting, Inside
            <4>1. CASE Call(f)
                <5>1. finisher[f] = "outside" /\ finisher'[f] = "called" /\ once' = once
                    BY <2>2, <4>1 DEF Call, FinisherTo, DisplayInv, ProgressTypeOK
                <5> QED
                    BY <2>1, <2>2, <5>1 DEF DisplayInv, DisplayControl
            <4>2. CASE StopLoop(f)
                <5>1. finisher[f] = "called" /\ finisher'[f] = "await"
                      /\ once = "free" /\ once' = "running"
                    BY <2>2, <4>2 DEF StopLoop, FinisherTo, DisplayInv, ProgressTypeOK
                <5> QED
                    BY <2>1, <2>2, <5>1 DEF DisplayInv, DisplayControl
            <4>3. CASE AwaitLoop(f)
                <5>1. finisher[f] = "await" /\ finisher'[f] = "final" /\ once' = once
                    BY <2>2, <4>3 DEF AwaitLoop, FinisherTo, DisplayInv, ProgressTypeOK
                <5>2. once \in {"free", "running", "done"}
                    BY DEF DisplayInv, ProgressTypeOK
                <5>3. once = "running"
                    BY <5>1, <5>2 DEF DisplayInv, DisplayControl
                <5>4. \A g \in Finishers \ {f} : finisher[g] \in Waiting
                    BY <5>1, <5>3 DEF DisplayInv, DisplayControl
                <5> QED
                    BY <2>2, <5>1, <5>3, <5>4
            <4>4. CASE ReturnAtOnce(f)
                <5>1. finisher[f] = "called" /\ finisher'[f] = "returned"
                      /\ once = "done" /\ once' = once
                    BY <2>2, <4>4 DEF ReturnAtOnce, FirstHasReturned, FinisherTo,
                        DisplayInv, ProgressTypeOK
                <5> QED
                    BY <2>1, <2>2, <5>1 DEF DisplayInv, DisplayControl
            <4> QED
                BY <1>4, <4>1, <4>2, <4>3, <4>4
        <3>2. finisher'[f] = "final" => done
            BY <1>4, <2>2 DEF Call, StopLoop, AwaitLoop, FinisherTo,
                ReturnAtOnce, LoopHasEnded, DisplayInv, ProgressTypeOK
        <3>3. \A g \in Finishers :
                  /\ finisher'[g] \in {"final", "newline"} => done'
                  /\ finisher'[g] = "newline" => Shown /\ kind = "bar"
            BY <2>1, <2>2, <3>2 DEF DisplayInv, DisplayControl
        <3>4. /\ loop' = "none" <=> ~Shown'
              /\ done' <=> loop' \in {"none", "ended"}
            BY <2>1, <2>3 DEF DisplayInv, DisplayControl
        <3>5. /\ kind' = "spinner" => total' = 1
              /\ loaded' <= count'
              /\ ~tty' => line' = NoLine
            BY <2>1 DEF DisplayInv, DisplayControl
        <3> QED
            BY <2>1, <2>3, <3>1, <3>3, <3>4, <3>5 DEF DisplayControl, NoLine
    <2>8. \A g \in Finishers : finisher'[g] = "newline" <=> finisher[g] = "newline"
        BY <2>2
    <2>9. FinalPainted' <=> FinalPainted
        BY <2>4, <2>8 DEF FinalPainted
    <2> QED
        BY <2>1, <2>2, <2>3, <2>4, <2>6, <2>7, <2>8, <2>9, ScreenKept DEF DisplayInv
<1> QED
    BY <1>1, <1>2, <1>3, <1>4

(* Whoever is past its wait within stopOnce is there alone.                *)
LEMMA AloneInside ==
    ASSUME DisplayInv, NEW f \in Finishers, finisher[f] \in {"final", "newline"}
    PROVE  /\ once = "running" /\ done
           /\ \A g \in Finishers \ {f} : finisher[g] \in Waiting
<1>1. once \in {"free", "running", "done"}
    BY DEF DisplayInv, ProgressTypeOK
<1>2. once # "free" /\ once # "done"
    BY DEF DisplayInv, DisplayControl, Waiting
<1> QED
    BY <1>1, <1>2 DEF DisplayInv, DisplayControl, Waiting

(* A line put below the others.                                            *)
LEMMA LineAppended ==
    ASSUME lines \in Seq(Int), NEW c \in Int, lines' = Append(lines, c)
    PROVE  /\ lines' \in Seq(Int) /\ Len(lines') = Len(lines) + 1 /\ Len(lines) \in Nat
           /\ lines'[Len(lines) + 1] = c
           /\ DOMAIN lines = 1 .. Len(lines) /\ DOMAIN lines' = 1 .. Len(lines) + 1
           /\ \A i \in 1 .. Len(lines) : lines'[i] = lines[i] /\ lines[i] \in Int
OBVIOUS

(* A tick paints a count loaded earlier; no finisher is past its wait      *)
(* then.                                                                   *)
LEMMA PaintTickStep ==
    ASSUME DisplayInv, PaintTick
    PROVE  DisplayInv'
<1> DEFINE c == Clamped(loaded)
<1>1. /\ loop = "loaded" /\ loop' = "select"
      /\ UNCHANGED <<kind, tty, enabled, total, count, stop, done, loaded, once, finisher>>
    BY DEF PaintTick, LoopTo, display
<1>2. Shown /\ ~done /\ Shown'
    BY <1>1 DEF DisplayInv, DisplayControl, Shown
<1>3. ~FinalPainted /\ ~FinalPainted' /\ once # "done"
    BY <1>1, <1>2 DEF DisplayInv, DisplayControl, FinalPainted
<1>4. /\ total \in Nat /\ total > 0 /\ loaded \in Nat /\ c \in 0 .. total
      /\ Decile(c) \in 0 .. 10
    BY <1>2, ClampedTyped, Deciles DEF DisplayInv, ProgressTypeOK, Shown
<1>5. /\ Clamped(loaded)' = c
      /\ \A cur : Decile(cur)' = Decile(cur)
    BY <1>1 DEF Clamped, Smaller, Decile
<1>6. /\ lines \in Seq(Int) /\ line \in Nat \cup {-1} /\ lastPctLogged \in -1 .. 10
      /\ kind \in {"bar", "spinner"}
    BY DEF DisplayInv, ProgressTypeOK, NoLine
<1>7. /\ tty \/ kind = "spinner" => lines = <<>>
      /\ kind = "spinner" => line \in {-1, 0}
      /\ kind = "bar" =>
            /\ line # -1 => line <= c
            /\ \A i \in DOMAIN lines :
                  /\ lines[i] \in 0 .. c
                  /\ Decile(lines[i]) <= lastPctLogged
            /\ Increasing(Len(lines))
    BY <1>2, <1>3 DEF DisplayInv, Painting, NoLine
<1>8. ~tty => line = -1
    BY DEF DisplayInv, DisplayControl, NoLine
(* What a tick may do to the screen.                                       *)
<1>9. \/ UNCHANGED <<line, lines, lastPctLogged>>
      \/ tty /\ kind = "bar" /\ line' = c /\ UNCHANGED <<lines, lastPctLogged>>
      \/ tty /\ kind = "spinner" /\ line' = 0 /\ UNCHANGED <<lines, lastPctLogged>>
      \/ /\ ~tty /\ kind = "bar" /\ Decile(c) > lastPctLogged
         /\ line' = -1 /\ lines' = Append(lines, c) /\ lastPctLogged' = Decile(c)
    <2>1. CASE kind = "bar"
        <3>1. render(loaded, FALSE)
            BY <2>1 DEF PaintTick
        <3>2. /\ IF tty \/ NewDecile(c) THEN Paint(c)
                                                ELSE UNCHANGED screen
              /\ lastPctLogged' = IF ~tty /\ NewDecile(c) THEN Decile(c)
                                                                  ELSE lastPctLogged
            BY <3>1 DEF render
        <3> QED
            BY <2>1, <3>2 DEF Paint, NewDecile, screen, NoLine
    <2>2. CASE kind # "bar"
        <3>1. kind = "spinner"
            BY <1>6, <2>2
        <3>2. /\ IF tty THEN Paint(0) ELSE UNCHANGED screen
              /\ UNCHANGED lastPctLogged
            BY <2>2 DEF PaintTick
        <3> QED
            BY <3>1, <3>2 DEF Paint, screen
    <2> QED
        BY <2>1, <2>2
<1>10. /\ line' \in Nat \cup {-1} /\ lines' \in Seq(Int) /\ lastPctLogged' \in -1 .. 10
       /\ ~tty => line' = -1
    <2>1. lines' = lines \/ lines' = Append(lines, c)
        BY <1>9
    <2>2. lines' \in Seq(Int)
        BY <1>4, <1>6, <2>1, LineAppended
    <2>3. line' \in {line, c, 0, -1} /\ (~tty => line' \in {line, -1})
        BY <1>9
    <2>4. lastPctLogged' \in -1 .. 10
        BY <1>4, <1>6, <1>9
    <2> QED
        BY <1>4, <1>6, <1>8, <2>2, <2>3, <2>4
<1>11. ProgressTypeOK'
    BY <1>1, <1>10 DEF DisplayInv, ProgressTypeOK, NoLine
<1>12. DisplayControl'
    <2>1. /\ loop' = "none" <=> ~Shown'
          /\ done' <=> loop' \in {"none", "ended"}
        BY <1>1, <1>2
    <2>2. /\ once' = "free" => \A f \in Finishers : finisher'[f] \in Waiting
          /\ once' = "running" =>
                \E f \in Finishers :
                    finisher'[f] \in Inside /\ \A g \in Finishers \ {f} : finisher'[g] \in Waiting
          /\ once' # "done"
          /\ \A f \in Finishers :
                /\ finisher'[f] \in {"final", "newline"} => done'
                /\ finisher'[f] = "newline" => Shown' /\ kind' = "bar"
        BY <1>1, <1>2, <1>3 DEF DisplayInv, DisplayControl
    <2>3. /\ kind' = "spinner" => total' = 1
          /\ loaded' <= count'
        BY <1>1 DEF DisplayInv, DisplayControl
    <2> QED
        BY <1>1, <1>10, <2>1, <2>2, <2>3 DEF DisplayControl, NoLine
<1>13. Painting'
    <2>1. (tty \/ kind = "spinner") => lines' = <<>>
        BY <1>7, <1>9
    <2>2. kind = "spinner" => line' \in {-1, 0}
        BY <1>7, <1>9
    <2>3. kind = "bar" =>
              /\ line' # -1 => line' <= c
              /\ \A i \in DOMAIN lines' :
                    /\ lines'[i] \in 0 .. c
                    /\ Decile(lines'[i]) <= lastPctLogged'
              /\ \A i, j \in 1 .. Len(lines') : i < j =>
                    /\ lines'[i] <= lines'[j]
                    /\ Decile(lines'[i]) < Decile(lines'[j])
        <3> SUFFICES ASSUME kind = "bar"
                     PROVE  /\ line' # -1 => line' <= c
                            /\ \A i \in DOMAIN lines' :
                                  /\ lines'[i] \in 0 .. c
                                  /\ Decile(lines'[i]) <= lastPctLogged'
                            /\ \A i, j \in 1 .. Len(lines') : i < j =>
                                  /\ lines'[i] <= lines'[j]
                                  /\ Decile(lines'[i]) < Decile(lines'[j])
            OBVIOUS
        <3>1. \A i, j \in 1 .. Len(lines) : i < j =>
                  lines[i] <= lines[j] /\ Decile(lines[i]) < Decile(lines[j])
            BY <1>7 DEF Increasing
        <3>2. CASE lines' = lines /\ lastPctLogged' = lastPctLogged
            BY <1>4, <1>7, <1>9, <3>1, <3>2
        <3>3. CASE /\ Decile(c) > lastPctLogged /\ line' = -1
                   /\ lines' = Append(lines, c) /\ lastPctLogged' = Decile(c)
            <4>1. \A i \in 1 .. Len(lines) :
                      /\ lines[i] \in 0 .. total /\ lines[i] <= c
                      /\ Decile(lines[i]) <= lastPctLogged
                      /\ Decile(lines[i]) \in 0 .. 10
                <5>1. \A i \in 1 .. Len(lines) :
                          lines[i] \in 0 .. c /\ Decile(lines[i]) <= lastPctLogged
                    BY <1>6, <1>7
                <5> QED
                    BY <1>4, <5>1, Deciles
            <4>2. /\ Len(lines') = Len(lines) + 1 /\ Len(lines) \in Nat
                  /\ lines'[Len(lines) + 1] = c
                  /\ DOMAIN lines' = 1 .. Len(lines) + 1
                  /\ \A i \in 1 .. Len(lines) : lines'[i] = lines[i]
                BY <1>4, <1>6, <3>3, LineAppended
            <4>3. \A i \in DOMAIN lines' :
                      /\ lines'[i] \in 0 .. c
                      /\ Decile(lines'[i]) <= lastPctLogged'
                <5> SUFFICES ASSUME NEW i \in 1 .. Len(lines) + 1
                             PROVE  /\ lines'[i] \in 0 .. c
                                    /\ Decile(lines'[i]) <= lastPctLogged'
                    BY <4>2
                <5>1. CASE i = Len(lines) + 1
                    BY <1>4, <3>3, <4>2, <5>1
                <5>2. CASE i \in 1 .. Len(lines)
                    <6>1. /\ lines'[i] = lines[i] /\ lines[i] \in 0 .. c
                          /\ Decile(lines[i]) <= lastPctLogged
                        BY <1>4, <4>1, <4>2, <5>2
                    <6>2. Decile(lines[i]) \in 0 .. 10
                        BY <4>1, <5>2
                    <6>3. Decile(lines'[i]) = Decile(lines[i])
                        BY <6>1
                    <6>4. Decile(c) \in Int /\ lastPctLogged \in Int
                        BY <1>4, <1>6
                    <6> QED
                        BY <3>3, <6>1, <6>2, <6>3, <6>4
                <5> QED
                    BY <4>2, <5>1, <5>2
            <4>4. ASSUME NEW i \in 1 .. Len(lines'), NEW j \in 1 .. Len(lines'), i < j
                  PROVE  /\ lines'[i] <= lines'[j]
                         /\ Decile(lines'[i]) < Decile(lines'[j])
                <5>1. i \in 1 .. Len(lines) /\ lines'[i] = lines[i]
                    BY <4>2, <4>4
                <5>2. CASE j = Len(lines) + 1
                    <6>1. /\ lines'[j] = c /\ lines[i] \in 0 .. c
                          /\ Decile(lines[i]) <= lastPctLogged
                        BY <1>4, <4>1, <4>2, <5>1, <5>2
                    <6>2. Decile(lines[i]) \in 0 .. 10
                        BY <4>1, <5>1
                    <6>3. /\ Decile(lines'[i]) = Decile(lines[i])
                          /\ Decile(lines'[j]) = Decile(c)
                        BY <5>1, <6>1
                    <6>4. /\ Decile(c) \in Int /\ lastPctLogged \in Int
                          /\ c \in Int
                        BY <1>4, <1>6
                    <6> QED
                        BY <3>3, <5>1, <6>1, <6>2, <6>3, <6>4
                <5>3. CASE j \in 1 .. Len(lines)
                    BY <3>1, <4>2, <4>4, <5>1, <5>3
                <5> QED
                    BY <4>2, <5>2, <5>3
            <4> QED
                BY <3>3, <4>3, <4>4
        <3> QED
            BY <1>9, <3>2, <3>3
    <2>4. Increasing(Len(lines))' <=>
              \A i, j \in 1 .. Len(lines') : i < j =>
                  lines'[i] <= lines'[j] /\ Decile(lines'[i]) < Decile(lines'[j])
        BY <1>5 DEF Increasing
    <2> QED
        BY <1>1, <1>2, <1>5, <2>1, <2>2, <2>3, <2>4 DEF Painting, NoLine
<1>14. Closing' /\ Closed'
    BY <1>1, <1>3 DEF Closing, Closed, FinalPainted
<1> QED
    BY <1>11, <1>12, <1>13, <1>14 DEF DisplayInv

(* The 100% of a bar: its goroutine has ended.                             *)
LEMMA FinalRenderStep ==
    ASSUME DisplayInv, NEW f \in Finishers, FinalRender(f)
    PROVE  DisplayInv'
<1>1. /\ finisher[f] = "final" /\ finisher' = [finisher EXCEPT ![f] = "newline"]
      /\ Shown /\ kind = "bar" /\ render(total, TRUE)
      /\ UNCHANGED <<kind, tty, enabled, total, count, stop, done, loop, loaded, once>>
    BY DEF FinalRender, FinisherTo, display
<1>2. /\ once = "running" /\ done
      /\ \A g \in Finishers \ {f} : finisher[g] \in Waiting
    BY <1>1, AloneInside
<1>3. /\ finisher'[f] = "newline" /\ \A g \in Finishers \ {f} : finisher'[g] = finisher[g]
      /\ finisher' \in [Finishers -> {"outside", "called", "await", "final", "newline",
                                      "returned"}]
    BY <1>1 DEF DisplayInv, ProgressTypeOK
<1>4. ~FinalPainted /\ FinalPainted'
    BY <1>1, <1>2, <1>3 DEF FinalPainted, Waiting
<1>5. /\ total \in Nat /\ total > 0 /\ loaded \in Nat /\ Clamped(loaded) \in 0 .. total
      /\ Clamped(total) = total /\ Decile(total) \in 0 .. 10
    <2>1. total \in Nat /\ total > 0
        BY <1>1, ClampedTyped DEF DisplayInv, Shown
    <2> QED
        BY <2>1, ClampedTyped, Deciles DEF DisplayInv, ProgressTypeOK
<1>6. /\ lines \in Seq(Int) /\ lastPctLogged \in -1 .. 10
    BY DEF DisplayInv, ProgressTypeOK
<1>7. \/ tty /\ line' = total /\ lines' = lines /\ lastPctLogged' = lastPctLogged
      \/ /\ ~tty /\ line' = -1 /\ lines' = Append(lines, total)
         /\ lastPctLogged' = Decile(total)
    BY <1>1, <1>5 DEF render, Paint, NoLine
<1>8. /\ line' \in Nat \cup {-1} /\ lines' \in Seq(Int) /\ lastPctLogged' \in -1 .. 10
      /\ ~tty => line' = -1
    <2>2. CASE tty /\ line' = total /\ lines' = lines /\ lastPctLogged' = lastPctLogged
        BY <1>5, <1>6, <2>2
    <2>3. CASE /\ ~tty /\ line' = -1 /\ lines' = Append(lines, total)
               /\ lastPctLogged' = Decile(total)
        BY <1>5, <1>6, <2>3, LineAppended
    <2> QED
        BY <1>7, <2>2, <2>3
<1>9. /\ tty => lines = <<>>
      /\ \A i \in DOMAIN lines : lines[i] \in 0 .. Clamped(loaded)
      /\ Increasing(Len(lines))
    BY <1>1, <1>4 DEF DisplayInv, Painting
<1>10. ProgressTypeOK'
    BY <1>1, <1>3, <1>8 DEF DisplayInv, ProgressTypeOK, NoLine
<1>11. DisplayControl'
    <2>1. /\ loop' = "none" <=> ~Shown'
          /\ done' <=> loop' \in {"none", "ended"}
        BY <1>1 DEF DisplayInv, DisplayControl, Shown
    <2>2. /\ once' = "running" /\ done'
          /\ finisher'[f] \in Inside
          /\ \A g \in Finishers \ {f} : finisher'[g] \in Waiting
          /\ Shown' /\ kind' = "bar"
        BY <1>1, <1>2, <1>3 DEF Inside, Shown
    <2>3. loaded' <= count'
        BY <1>1 DEF DisplayInv, DisplayControl
    <2> QED
        BY <1>1, <1>8, <2>1, <2>2, <2>3 DEF DisplayControl, NoLine, Waiting
<1>12. Painting'
    BY <1>4 DEF Painting
<1>13. Closing'
    <2>1. CASE tty
        BY <1>1, <1>7, <1>9, <2>1 DEF Closing
    <2>2. CASE ~tty
        <3>1. /\ Len(lines') = Len(lines) + 1 /\ Len(lines) \in Nat
              /\ lines'[Len(lines) + 1] = total
              /\ DOMAIN lines' = 1 .. Len(lines) + 1 /\ DOMAIN lines = 1 .. Len(lines)
              /\ \A i \in 1 .. Len(lines) : lines'[i] = lines[i]
            BY <1>5, <1>6, <1>7, <2>2, LineAppended
        <3>2. \A i \in DOMAIN lines' : lines'[i] \in 0 .. total
            BY <1>5, <1>9, <3>1
        <3>3. \A i, j \in 1 .. Len(lines) : i < j =>
                  /\ lines'[i] <= lines'[j]
                  /\ Decile(lines'[i]) < Decile(lines'[j])
            BY <1>9, <3>1 DEF Increasing
        <3>4. Increasing(Len(lines) - 1)'
            BY <1>1, <3>1, <3>3 DEF Increasing, Decile
        <3>5. lines' # <<>> /\ lines'[Len(lines')] = total'
            BY <1>1, <3>1
        <3> QED
            BY <1>1, <2>2, <3>2, <3>4, <3>5 DEF Closing
    <2> QED
        BY <2>1, <2>2
<1>14. Closed'
    BY <1>1, <1>2 DEF Closed
<1> QED
    BY <1>10, <1>11, <1>12, <1>13, <1>14 DEF DisplayInv

(* The first caller returns: everyone else is still before stopOnce.       *)
LEMMA FirstReturns ==
    ASSUME DisplayInv, NEW f \in Finishers,
           finisher[f] \in {"final", "newline"},
           finisher' = [finisher EXCEPT ![f] = "returned"], once' = "done",
           UNCHANGED <<kind, tty, enabled, total, count, stop, done, loop, loaded>>,
           lastPctLogged' = lastPctLogged, lines' \in Seq(Int), line' = NoLine,
           FinishedDisplay', LogAdvances'
    PROVE  DisplayInv'
<1>1. once = "running" /\ done /\ \A g \in Finishers \ {f} : finisher[g] \in Waiting
    BY AloneInside
<1>2. /\ finisher'[f] = "returned" /\ \A g \in Finishers \ {f} : finisher'[g] = finisher[g]
      /\ finisher' \in [Finishers -> {"outside", "called", "await", "final", "newline",
                                      "returned"}]
    BY DEF DisplayInv, ProgressTypeOK
<1>3. ProgressTypeOK'
    BY <1>2 DEF DisplayInv, ProgressTypeOK
<1>4. DisplayControl'
    <2>1. /\ loop' = "none" <=> ~Shown'
          /\ done' <=> loop' \in {"none", "ended"}
          /\ loaded' <= count'
          /\ kind' = "spinner" => total' = 1
        BY DEF DisplayInv, DisplayControl, Shown
    <2>2. done' /\ \A g \in Finishers : finisher'[g] \in Waiting \cup {"returned"}
        BY <1>1, <1>2
    <2> QED
        BY <2>1, <2>2 DEF DisplayControl, Waiting
<1>5. Painting' /\ Closing'
    BY <1>1, <1>2 DEF Painting, Closing, FinalPainted, Waiting
<1> QED
    BY <1>3, <1>4, <1>5 DEF DisplayInv, Closed

(* The newline that closes a bar: at the end of the line on a terminal, a  *)
(* blank line in a log.                                                    *)
LEMMA FinalNewlineStep ==
    ASSUME DisplayInv, NEW f \in Finishers, FinalNewline(f)
    PROVE  DisplayInv'
<1>1. /\ finisher[f] = "newline" /\ finisher' = [finisher EXCEPT ![f] = "returned"]
      /\ once' = "done" /\ line' = -1
      /\ lines' = Append(lines, IF line = -1 THEN -2 ELSE line)
      /\ UNCHANGED <<kind, tty, enabled, total, count, lastPctLogged, stop, done, loop, loaded>>
    BY DEF FinalNewline, FinisherTo, display, Newline, NoLine,
        BlankLine
<1>2. total \in Nat /\ lines \in Seq(Int) /\ Shown
    BY <1>1, ClampedTyped DEF DisplayInv, ProgressTypeOK, DisplayControl
<1>3. /\ tty => line = total /\ lines = <<>>
      /\ ~tty => /\ line = -1
                 /\ lines # <<>> /\ lines[Len(lines)] = total
                 /\ \A i \in DOMAIN lines : lines[i] \in 0 .. total
                 /\ Increasing(Len(lines) - 1)
    BY <1>1 DEF DisplayInv, Closing, DisplayControl, NoLine
<1> DEFINE last == IF line = -1 THEN -2 ELSE line
<1>4. last \in Int /\ (tty => last = total) /\ (~tty => last = -2)
    BY <1>2, <1>3
<1>5. /\ lines' \in Seq(Int) /\ Len(lines') = Len(lines) + 1 /\ Len(lines) \in Nat
      /\ lines'[Len(lines) + 1] = last
      /\ DOMAIN lines = 1 .. Len(lines) /\ DOMAIN lines' = 1 .. Len(lines) + 1
      /\ \A i \in 1 .. Len(lines) : lines'[i] = lines[i] /\ lines[i] \in Int
    BY <1>1, <1>2, <1>4, LineAppended
<1>6. FinishedDisplay'
    <2>1. CASE tty
        <3>1. lines'[Len(lines')] = total' /\ Len(lines') > 0
            BY <1>1, <1>4, <1>5, <2>1
        <3> QED
            BY <1>1, <3>1 DEF FinishedDisplay, NoLine
    <2>2. CASE ~tty
        <3>2. Len(lines) \in 1 .. Len(lines)
            BY <1>2, <1>3, <2>2
        <3>1. Len(lines) > 0 /\ lines'[Len(lines)] = total' /\ Len(lines) = Len(lines') - 1
            BY <1>1, <1>3, <1>5, <2>2, <3>2
        <3> QED
            BY <1>1, <3>1 DEF FinishedDisplay, NoLine
    <2> QED
        BY <2>1, <2>2
<1>7. LogAdvances'
    <2>1. CASE tty
        <3>1. \A i, j \in DOMAIN lines' : ~(i < j)
            BY <1>3, <1>5, <2>1
        <3> QED
            BY <3>1 DEF LogAdvances, Logged
    <2>2. CASE ~tty
        <3>1. \A i \in Logged' : i \in 1 .. Len(lines) /\ lines'[i] = lines[i]
            BY <1>4, <1>5, <2>2 DEF Logged, BlankLine
        <3>2. \A i, j \in 1 .. Len(lines) - 1 : i < j =>
                  lines[i] <= lines[j] /\ Decile(lines[i]) < Decile(lines[j])
            BY <1>3, <2>2 DEF Increasing
        <3>3. ASSUME NEW i \in Logged', NEW j \in Logged', i < j
              PROVE  /\ lines'[i] <= lines'[j]
                     /\ (\E k \in Logged' : j < k) =>
                           Decile(lines[i]) < Decile(lines[j])
            <4>1. i \in 1 .. Len(lines) - 1 /\ j \in 1 .. Len(lines)
                BY <1>5, <3>1, <3>3
            <4>2. CASE j = Len(lines)
                <5>1. ~\E k \in Logged' : j < k
                    BY <1>5, <3>1, <4>2
                <5>2. lines[i] \in 0 .. total /\ lines[j] = total
                    BY <1>3, <1>5, <2>2, <4>1, <4>2
                <5> QED
                    BY <1>2, <3>1, <3>3, <5>1, <5>2
            <4>3. CASE j # Len(lines)
                <5>1. Len(lines) \in Nat /\ j \in 1 .. Len(lines)
                    BY <1>5, <4>1
                <5>3. j \in 1 .. Len(lines) - 1
                    BY <4>3, <5>1
                <5> QED
                    BY <3>1, <3>2, <3>3, <4>1, <5>3
            <4> QED
                BY <4>2, <4>3
        <3>4. \A i \in Logged' : Decile(lines[i])' = Decile(lines[i])
            BY <1>1, <3>1 DEF Decile
        <3> QED
            BY <3>3, <3>4 DEF LogAdvances
    <2> QED
        BY <2>1, <2>2
<1> QED
    BY <1>1, <1>5, <1>6, <1>7, FirstReturns DEF NoLine

(* The last line of a spinner, or nothing.                                 *)
LEMMA FinalLineStep ==
    ASSUME DisplayInv, NEW f \in Finishers, FinalLine(f)
    PROVE  DisplayInv'
<1>1. /\ finisher[f] = "final" /\ finisher' = [finisher EXCEPT ![f] = "returned"]
      /\ ~(Shown /\ kind = "bar") /\ once' = "done"
      /\ UNCHANGED <<kind, tty, enabled, total, count, lastPctLogged, stop, done, loop, loaded>>
      /\ IF Shown THEN Newline(total) ELSE UNCHANGED <<line, lines>>
    BY DEF FinalLine, FinisherTo, display, screen
<1>2. ~FinalPainted
    <2>1. once # "done" /\ \A g \in Finishers \ {f} : finisher[g] \in Waiting
        BY <1>1, AloneInside
    <2> QED
        BY <1>1, <2>1 DEF FinalPainted, Waiting
<1>3. total \in Nat /\ lines \in Seq(Int) /\ kind \in {"bar", "spinner"}
    BY ClampedTyped DEF DisplayInv, ProgressTypeOK
<1>4. lines = <<>> /\ (~Shown => line = -1)
    BY <1>1, <1>2, <1>3 DEF DisplayInv, Painting, NoLine
<1>5. CASE Shown
    <2>1. line' = -1 /\ lines' = Append(lines, total)
        BY <1>1, <1>3, <1>5 DEF Newline, NoLine
    <2>2. lines' \in Seq(Int) /\ Len(lines') = 1 /\ lines'[1] = total
          /\ DOMAIN lines' = {1}
        BY <1>3, <1>4, <2>1
    <2>3. FinishedDisplay'
        BY <1>1, <2>1, <2>2 DEF FinishedDisplay, NoLine
    <2>4. LogAdvances'
        BY <2>2 DEF LogAdvances, Logged
    <2> QED
        BY <1>1, <2>1, <2>2, <2>3, <2>4, FirstReturns DEF NoLine
<1>6. CASE ~Shown
    <2>1. line' = -1 /\ lines' = <<>> /\ lines' \in Seq(Int) /\ ~Shown'
        BY <1>1, <1>3, <1>4, <1>6 DEF Shown
    <2>2. FinishedDisplay'
        BY <2>1 DEF FinishedDisplay, NoLine
    <2>3. LogAdvances'
        BY <2>1 DEF LogAdvances, Logged
    <2> QED
        BY <1>1, <2>1, <2>2, <2>3, FirstReturns DEF NoLine
<1> QED
    BY <1>5, <1>6

(* Every step keeps the invariant.                                         *)
LEMMA DisplayStep ==
    ASSUME DisplayInv, [ProgressNext]_progressVars
    PROVE  DisplayInv'
<1>1. CASE ProgressNext
    BY <1>1, QuietSteps, PaintTickStep, FinalRenderStep, FinalNewlineStep, FinalLineStep
    DEF ProgressNext, Finish
<1>2. CASE UNCHANGED progressVars
    <2>1. UNCHANGED <<kind, tty, enabled, total, count, lastPctLogged, stop, done, loop, loaded,
                      once, finisher, line, lines>>
        BY <1>2 DEF progressVars, display, screen
    <2>2. ProgressTypeOK' /\ loaded <= loaded'
        BY <2>1 DEF DisplayInv, ProgressTypeOK
    <2>3. DisplayControl'
        BY <2>1 DEF DisplayInv, DisplayControl, Shown
    <2>4. FinalPainted' <=> FinalPainted
        BY <2>1 DEF FinalPainted
    <2> QED
        BY <2>1, <2>2, <2>3, <2>4, ScreenKept DEF DisplayInv
<1> QED
    BY <1>1, <1>2

(* Before the display is closed its log already advances.                  *)
LEMMA InvLogAdvances ==
    ASSUME DisplayInv
    PROVE  LogAdvances
<1>1. lines \in Seq(Int) /\ total \in Nat /\ kind \in {"bar", "spinner"}
      /\ Len(lines) \in Nat /\ DOMAIN lines = 1 .. Len(lines)
    BY ClampedTyped DEF DisplayInv, ProgressTypeOK
<1>2. CASE once = "done"
    BY <1>2 DEF DisplayInv, Closed
<1>3. CASE lines = <<>>
    BY <1>3 DEF LogAdvances, Logged
<1>4. CASE Increasing(Len(lines))
    BY <1>1, <1>4 DEF Increasing, LogAdvances, Logged
<1>5. CASE /\ lines # <<>> /\ lines[Len(lines)] = total
           /\ \A i \in DOMAIN lines : lines[i] \in 0 .. total
           /\ Increasing(Len(lines) - 1)
    <2>1. ASSUME NEW i \in Logged, NEW j \in Logged, i < j
          PROVE  /\ lines[i] <= lines[j]
                 /\ (\E k \in Logged : j < k) =>
                       Decile(lines[i]) < Decile(lines[j])
        <3>1. i \in 1 .. Len(lines) - 1 /\ j \in 1 .. Len(lines)
            BY <1>1, <2>1 DEF Logged
        <3>2. CASE j = Len(lines)
            <4>1. ~\E k \in Logged : j < k
                BY <1>1, <3>2 DEF Logged
            <4>2. lines[i] \in 0 .. total /\ lines[j] = total
                BY <1>1, <1>5, <3>1, <3>2
            <4> QED
                BY <1>1, <4>1, <4>2
        <3>3. CASE j # Len(lines)
            <4>1. Len(lines) \in Nat /\ j \in 1 .. Len(lines)
                BY <1>1, <3>1
            <4>2. j \in 1 .. Len(lines) - 1
                BY <3>3, <4>1
            <4> QED
                BY <1>5, <2>1, <3>1, <4>2 DEF Increasing
        <3> QED
            BY <3>2, <3>3
    <2> QED
        BY <2>1 DEF LogAdvances
<1>6. CASE \E f \in Finishers : finisher[f] = "newline"
    BY <1>3, <1>5, <1>6 DEF DisplayInv, Closing
<1>7. CASE ~FinalPainted
    BY <1>1, <1>3, <1>4, <1>7 DEF DisplayInv, Painting
<1> QED
    BY <1>2, <1>6, <1>7 DEF FinalPainted

(* The display keeps its invariant with every step of its workers, of its  *)
(* goroutine and of any number of concurrent calls of Finish.              *)
THEOREM DisplayInvariant == ProgressSpec => []DisplayInv
<1>1. ProgressInit => DisplayInv
    BY DisplayInit
<1>2. DisplayInv /\ [ProgressNext]_progressVars => DisplayInv'
    BY DisplayStep
<1> QED
    BY <1>1, <1>2, PTL DEF ProgressSpec

(* Once any call of Finish has returned, whichever of them closed the      *)
(* display, the current line is empty and the display ends with its total, *)
(* for any number of callers and any total.                                *)
THEOREM FinishCloses == ProgressSpec => []FinishClosesTheDisplay
<1>1. DisplayInv => FinishClosesTheDisplay
    <2> SUFFICES ASSUME DisplayInv, NEW f \in Finishers, finisher[f] = "returned"
                 PROVE  FinishedDisplay
        BY DEF DisplayInv, FinishClosesTheDisplay
    <2>1. once \in {"free", "running", "done"}
        BY DEF DisplayInv, ProgressTypeOK
    <2>2. once = "done"
        BY <2>1 DEF DisplayInv, DisplayControl, Waiting, Inside
    <2> QED
        BY <2>2 DEF DisplayInv, Closed
<1> QED
    BY <1>1, DisplayInvariant, PTL

(* Off a terminal a log never takes an amount back and names a tenth at    *)
(* most once before its final line, however late a count is painted, for   *)
(* any total and any amounts added.                                        *)
THEOREM DisplayLogAdvances == ProgressSpec => []LogAdvances
<1>1. DisplayInv => LogAdvances
    BY InvLogAdvances
<1> QED
    BY <1>1, DisplayInvariant, PTL

(* What one step may paint.                                                *)
InOrder ==
    /\ line' # NoLine => line' <= total /\ (line # NoLine => line <= line')
    /\ (\E f \in Finishers : finisher[f] = "returned") => UNCHANGED screen

(* What stands on the current line, and when a call of Finish has          *)
(* returned.                                                               *)
LEMMA LineWithinTotal ==
    ASSUME DisplayInv
    PROVE  /\ line \in Nat \cup {-1} /\ total \in Nat
           /\ line # -1 => line <= total
           /\ (\E f \in Finishers : finisher[f] = "returned") => once = "done"
<1>1. /\ line \in Nat \cup {-1} /\ total \in Nat /\ loaded \in Nat
      /\ Clamped(loaded) \in 0 .. total
    BY ClampedTyped DEF DisplayInv, ProgressTypeOK, NoLine
<1>2. /\ once \in {"free", "running", "done"} /\ kind \in {"bar", "spinner"}
      /\ tty \in BOOLEAN
    BY DEF DisplayInv, ProgressTypeOK
<1>3. (\E f \in Finishers : finisher[f] = "returned") => once = "done"
    BY <1>2 DEF DisplayInv, DisplayControl, Waiting, Inside
<1>4. line # -1 => line <= total
    <2>1. CASE once = "done"
        BY <2>1 DEF DisplayInv, Closed, FinishedDisplay, NoLine
    <2>2. CASE \E f \in Finishers : finisher[f] = "newline"
        <3>1. (tty => line = total) /\ (~tty => line = -1)
            BY <2>2 DEF DisplayInv, Closing, DisplayControl, NoLine
        <3> QED
            BY <1>1, <3>1
    <2>3. CASE ~FinalPainted
        <3>1. \/ line = -1 \/ line = 0 \/ line <= Clamped(loaded)
            BY <1>2, <2>3 DEF DisplayInv, Painting, NoLine
        <3> QED
            BY <1>1, <3>1
    <2> QED
        BY <2>1, <2>2, <2>3 DEF FinalPainted
<1> QED
    BY <1>1, <1>3, <1>4

(* Every step paints in order.                                             *)
LEMMA StepPaintsInOrder ==
    ASSUME DisplayInv, ProgressNext
    PROVE  InOrder
<1>1. CASE UNCHANGED <<line, lines>>
    BY <1>1, LineWithinTotal DEF InOrder, screen, NoLine
<1>2. CASE PaintTick
    <2>1. loop = "loaded"
        BY <1>2 DEF PaintTick, LoopTo
    <2>2. ~done /\ once # "done" /\ Shown /\ ~FinalPainted
        BY <2>1 DEF DisplayInv, DisplayControl, FinalPainted
    <2>3. ~\E f \in Finishers : finisher[f] = "returned"
        BY <2>2, LineWithinTotal
    <2>4. loaded \in Nat /\ Clamped(loaded) \in 0 .. total
          /\ line \in Nat \cup {-1} /\ total \in Nat
        BY ClampedTyped, LineWithinTotal DEF DisplayInv, ProgressTypeOK
    <2>5. CASE kind = "bar"
        <3>1. line # -1 => line <= Clamped(loaded)
            BY <2>2, <2>5 DEF DisplayInv, Painting, NoLine
        <3>2. line' = line \/ line' = -1 \/ line' = Clamped(loaded)
            BY <1>2, <2>5 DEF PaintTick, render, Paint, screen,
                NoLine
        <3> QED
            BY <2>3, <2>4, <3>1, <3>2, LineWithinTotal DEF InOrder, NoLine
    <2>6. CASE kind # "bar"
        <3>1. line \in {-1, 0}
            <4>1. kind = "spinner"
                BY <2>6 DEF DisplayInv, ProgressTypeOK
            <4> QED
                BY <2>2, <4>1 DEF DisplayInv, Painting, NoLine
        <3>2. line' = line \/ line' = -1 \/ line' = 0
            BY <1>2, <2>6 DEF PaintTick, Paint, screen, NoLine
        <3> QED
            BY <2>3, <2>4, <3>1, <3>2 DEF InOrder, NoLine
    <2> QED
        BY <2>5, <2>6
<1>3. ASSUME NEW f \in Finishers,
             FinalRender(f) \/ FinalNewline(f) \/ FinalLine(f)
      PROVE  InOrder
    <2>1. finisher[f] \in {"final", "newline"}
        BY <1>3 DEF FinalRender, FinalNewline, FinalLine, FinisherTo
    <2>2. ~\E g \in Finishers : finisher[g] = "returned"
        BY <2>1, AloneInside, LineWithinTotal
    <2>3. CASE line' = -1
        BY <2>2, <2>3 DEF InOrder, NoLine
    <2>4. CASE line' = line
        BY <2>2, <2>4, LineWithinTotal DEF InOrder, NoLine
    <2>5. CASE line' = total
        BY <2>2, <2>5, LineWithinTotal DEF InOrder, NoLine
    <2>6. line' \in {-1, line, total}
        <3>1. CASE FinalRender(f)
            <4>1. Clamped(total) = total
                BY ClampedTyped DEF DisplayInv
            <4> QED
                BY <3>1, <4>1 DEF FinalRender, render, Paint,
                    screen, NoLine
        <3>2. CASE FinalNewline(f)
            BY <3>2 DEF FinalNewline, Newline, NoLine
        <3>3. CASE FinalLine(f)
            BY <3>3 DEF FinalLine, Newline, screen, NoLine
        <3> QED
            BY <1>3, <3>1, <3>2, <3>3
    <2> QED
        BY <2>3, <2>4, <2>5, <2>6
<1>4. \/ UNCHANGED <<line, lines>> \/ PaintTick
      \/ \E f \in Finishers :
            FinalRender(f) \/ FinalNewline(f) \/ FinalLine(f)
    BY DEF ProgressNext, Finish, Add, Tick, LoopReturns,
        Call, StopLoop, AwaitLoop, ReturnAtOnce, screen
<1> QED
    BY <1>1, <1>2, <1>3, <1>4

(* What is painted never exceeds the total, never goes back on a terminal, *)
(* and stays as it is once a call of Finish has returned.                  *)
THEOREM DisplayPaintsInOrder == ProgressSpec => PaintsInOrder
<1>1. DisplayInv /\ [ProgressNext]_progressVars => [InOrder]_progressVars
    BY StepPaintsInOrder
<1>2. ProgressSpec => [][InOrder]_progressVars
    BY <1>1, DisplayInvariant, PTL DEF ProgressSpec
<1> QED
    BY <1>2, PTL DEF PaintsInOrder, InOrder

----------------------------------------------------------------------------
(* The campaign runner.                                                    *)

Total == Rows * (Warmups + Repeats)

Row == [execution : Execution,
        status : {"passed", "failed", "timeout", "interrupted", "incomplete"},
        code : {-1, 0, 1, 2}, meta : Content, summary : Content]

Live == {"waiting", "stop", "terminating", "killing", "judge"}

(* Who may be running, and at which execution the runner is.               *)
RunnerControl ==
    /\ running => at \in (Live \ {"judge"}) \cup {"dead"}
    /\ at = "dead" => aborted
    /\ orphan => aborted
    /\ at \in Live => next \in Execution
    /\ at \in {"spawn", "waiting"} => status = "passed"
    /\ at # "completed" => sampled = {}

(* A process that exits with 0 by itself has written everything.           *)
Ended ==
    at \in Live /\ ~running /\ code = 0 =>
        progress = Finalizing /\ \A f \in File : files[f] = Finalizing

(* The rows so far, one for each execution before the next.                *)
RowsSoFar ==
    /\ rows \in Seq(Row)
    /\ \A r \in DOMAIN rows :
          /\ rows[r].execution = r
          /\ r < Len(rows) \/ at # "stopped" => rows[r].status = "passed"
          /\ rows[r].status = "passed" =>
                /\ rows[r].code = 0
                /\ rows[r].meta = Finalizing /\ rows[r].summary = Finalizing
    /\ next = IF at = "stopped" THEN Len(rows) ELSE Len(rows) + 1
    /\ at = "completed" =>
          /\ Len(rows) = Total
          /\ sampled = {e \in Execution : Kind(e) = "measured"}

RunsInv == CampaignTypeOK /\ RunnerControl /\ Ended /\ RowsSoFar

LEMMA TotalExecutions == Total \in Nat \ {0} /\ Execution = 1 .. Total
<1>1. Rows \in Nat \ {0} /\ Warmups + Repeats \in Nat \ {0}
    BY CountsAssumption
<1>2. Rows * (Warmups + Repeats) \in Nat \ {0}
    BY <1>1
<1> QED
    BY <1>2 DEF Total, Execution

LEMMA RunsInit ==
    ASSUME CampaignInit
    PROVE  RunsInv
<1>1. Total \in Nat \ {0} /\ Execution = 1 .. Total
    BY TotalExecutions
<1>2. MaxCampaigns \in Nat \ {0}
    BY CountsAssumption
<1>3. CampaignTypeOK
    <2>1. next \in 1 .. Rows * (Warmups + Repeats) + 1
        BY <1>1 DEF CampaignInit, Total
    <2>2. files \in [File -> Content]
        BY DEF CampaignInit, Content, Absent
    <2>3. timeout \in BOOLEAN /\ running \in BOOLEAN /\ panicking \in BOOLEAN
          /\ orphan \in BOOLEAN /\ aborted \in BOOLEAN
        BY DEF CampaignInit
    <2> QED
        BY <1>2, <2>1, <2>2, <2>3 DEF CampaignInit, CampaignTypeOK, Started, Finalizing
<1>4. RunnerControl /\ Ended
    BY DEF RunnerControl, Ended, Live, CampaignInit
<1>5. RowsSoFar
    BY DEF RowsSoFar, CampaignInit
<1> QED
    BY <1>3, <1>4, <1>5 DEF RunsInv

(* What the process does: no step of it changes the runner.                *)
LEMMA ProcessStep ==
    ASSUME RunsInv, Process
    PROVE  RunsInv'
<1>1. UNCHANGED <<timeout, runner>> /\ running
    BY DEF Process, Advance, BeginWrite, EndWrite, ProcessExits, ProcessPanics,
        Fails, DiesOf, Ends
<1>2. UNCHANGED <<timeout, campaign, at, next, status, rows, sampled, signal, orphan, aborted>>
    BY <1>1 DEF runner
<1> USE DEF Finalizing, Started, Absent, Partial, Asserted, File, Content
<1>3. running' \in BOOLEAN /\ panicking' \in BOOLEAN
    <2>1. running' \in {running, FALSE} /\ panicking' \in {panicking, TRUE}
        BY DEF Process, Advance, BeginWrite, EndWrite, ProcessExits, ProcessPanics,
            Fails, DiesOf, Ends
    <2> QED
        BY <2>1 DEF RunsInv, CampaignTypeOK
<1>4. /\ progress' \in 0 .. 3 /\ code' \in {-1, 0, 1, 2}
      /\ files' \in [File -> Content] /\ writing' \in File \cup {"none"}
      /\ ~running' /\ code' = 0 => progress' = 3 /\ \A f \in File : files'[f] = 3
    <2>1. /\ progress \in 0 .. 3 /\ code \in {-1, 0, 1, 2}
          /\ files \in [File -> Content] /\ writing \in File \cup {"none"}
        BY DEF RunsInv, CampaignTypeOK
    <2>2. CASE Advance
        BY <1>1, <2>1, <2>2 DEF Advance
    <2>3. CASE EndWrite
        BY <1>1, <2>1, <2>3 DEF EndWrite
    <2>4. CASE ProcessExits
        <3>1. UNCHANGED <<progress, panicking, files, writing>>
              /\ code' = IF panicking THEN 2 ELSE 0
            BY <2>4 DEF ProcessExits, Ends
        <3>2. (progress = 3 \/ panicking) /\ \A f \in File : files[f] = progress
            BY <2>4 DEF ProcessExits
        <3> QED
            BY <2>1, <3>1, <3>2
    <2>5. CASE ProcessPanics
        BY <1>1, <2>1, <2>5 DEF ProcessPanics
    <2>6. CASE Fails \/ DiesOf("SIGTERM") \/ DiesOf("SIGKILL")
        <3>1. UNCHANGED <<progress, files, writing>> /\ code' \in {-1, 1}
            BY <2>6 DEF Fails, DiesOf, Ends
        <3> QED
            BY <2>1, <3>1
    <2>7. ASSUME NEW f \in File, BeginWrite(f)
          PROVE  <1>4
        BY <1>1, <2>1, <2>7 DEF BeginWrite
    <2> QED
        BY <2>2, <2>3, <2>4, <2>5, <2>6, <2>7 DEF Process
<1>5. CampaignTypeOK'
    BY <1>2, <1>3, <1>4 DEF RunsInv, CampaignTypeOK
<1>6. RunnerControl' /\ Ended'
    BY <1>1, <1>2, <1>4 DEF RunsInv, RunnerControl, Ended, Live
<1>7. RowsSoFar'
    BY <1>2 DEF RunsInv, RowsSoFar
<1> QED
    BY <1>5, <1>6, <1>7 DEF RunsInv

(* A run is judged to have passed only if it left its final files.         *)
LEMMA PassedIsComplete ==
    ASSUME RunsInv, at = "judge", Judged = "passed"
    PROVE  code = 0 /\ \A f \in File : files[f] = Finalizing
<1>1. code = 0 /\ ~running
    BY DEF Judged, Failed, RunsInv, RunnerControl, Live
<1> QED
    BY <1>1 DEF RunsInv, Ended, Live

LEMMA RecordStep ==
    ASSUME RunsInv, Record
    PROVE  RunsInv'
<1> DEFINE row == [execution |-> next, status |-> Judged, code |-> code,
                   meta |-> files["meta"], summary |-> files["summary"]]
           passed == Judged = "passed"
<1>1. /\ at = "judge" /\ rows' = Append(rows, row)
      /\ UNCHANGED <<timeout, campaign, status, sampled, signal, orphan, aborted>>
      /\ UNCHANGED <<running, progress, panicking, files, writing, code>>
      /\ IF passed THEN at' = "spawn" /\ next' = next + 1
                   ELSE at' = "stopped" /\ next' = next
    BY DEF Record, process, MayGoOn
<1>2. /\ next \in Execution /\ ~running /\ sampled = {}
      /\ rows \in Seq(Row) /\ next = Len(rows) + 1 /\ Len(rows) \in Nat
    BY <1>1 DEF RunsInv, RunnerControl, Live, RowsSoFar
<1>3. Judged \in {"passed", "failed", "timeout", "interrupted", "incomplete"}
    BY DEF Judged, RunsInv, CampaignTypeOK
<1>4. row \in Row
    BY <1>2, <1>3 DEF Row, RunsInv, CampaignTypeOK, File
<1>5. passed => code = 0 /\ files["meta"] = Finalizing /\ files["summary"] = Finalizing
    BY <1>1, PassedIsComplete DEF File
<1>6. /\ rows' \in Seq(Row) /\ Len(rows') = Len(rows) + 1 /\ DOMAIN rows' = 1 .. Len(rows) + 1
      /\ \A r \in DOMAIN rows : r \in 1 .. Len(rows) /\ rows'[r] = rows[r]
      /\ rows'[Len(rows) + 1] = row
    BY <1>1, <1>2, <1>4
<1>7. RowsSoFar'
    <2>1. /\ row.execution = next /\ row.status = Judged /\ row.code = code
          /\ row.meta = files["meta"] /\ row.summary = files["summary"]
        OBVIOUS
    <2> HIDE DEF row
    <2>2. \A r \in DOMAIN rows : rows[r].status = "passed"
        BY <1>1 DEF RunsInv, RowsSoFar
    <2>3. \A r \in DOMAIN rows' :
             /\ rows'[r].execution = r
             /\ r < Len(rows') \/ at' # "stopped" => rows'[r].status = "passed"
             /\ rows'[r].status = "passed" =>
                   /\ rows'[r].code = 0
                   /\ rows'[r].meta = Finalizing /\ rows'[r].summary = Finalizing
        <3> SUFFICES ASSUME NEW r \in 1 .. Len(rows) + 1
                     PROVE  <2>3!(r)
            BY <1>6
        <3>1. CASE r \in DOMAIN rows
            BY <1>6, <2>2, <3>1 DEF RunsInv, RowsSoFar
        <3>2. CASE r = Len(rows) + 1
            BY <1>1, <1>2, <1>5, <1>6, <2>1, <3>2
        <3> QED
            BY <1>2, <3>1, <3>2
    <2>4. next' = IF at' = "stopped" THEN Len(rows') ELSE Len(rows') + 1
        BY <1>1, <1>2, <1>6
    <2> QED
        BY <1>1, <1>6, <2>3, <2>4 DEF RowsSoFar
<1>8. CampaignTypeOK'
    <2>1. \A r \in DOMAIN rows' : rows'[r] \in Row
        BY <1>6
    <2>2. next' \in 1 .. Rows * (Warmups + Repeats) + 1 /\ at' \in {"spawn", "stopped"}
        BY <1>1, <1>2, TotalExecutions DEF Total
    <2> QED
        BY <1>1, <2>1, <2>2 DEF RunsInv, CampaignTypeOK, Over, Row
<1>9. RunnerControl' /\ Ended'
    <2>1. at' \in {"spawn", "stopped"} /\ (at' = "spawn" => status = "passed")
        BY <1>1 DEF Judged
    <2> QED
        BY <1>1, <1>2, <2>1 DEF RunsInv, RunnerControl, Ended, Live
<1> QED
    BY <1>7, <1>8, <1>9 DEF RunsInv

LEMMA SummarizeStep ==
    ASSUME RunsInv, Summarize
    PROVE  RunsInv'
<1> DEFINE measured == {e \in Execution : Kind(e) = "measured"}
<1>1. /\ at = "spawn" /\ at' = "completed" /\ next \notin Execution
      /\ sampled' = {rows[r].execution : r \in MeasuredRows}
      /\ UNCHANGED <<timeout, campaign, next, status, rows, signal, orphan, aborted>>
      /\ UNCHANGED <<running, progress, panicking, files, writing, code>>
    BY DEF Summarize, RunnerTo, Remains, process
<1>2. Len(rows) \in Nat /\ DOMAIN rows = 1 .. Len(rows) /\ next = Len(rows) + 1
      /\ \A r \in DOMAIN rows : rows[r].execution = r /\ rows[r].status = "passed"
    BY <1>1 DEF RunsInv, RowsSoFar
<1>3. Len(rows) = Total /\ Total \in Nat /\ Execution = 1 .. Total
    <2>1. next \in 1 .. Total + 1
        BY DEF RunsInv, CampaignTypeOK, Total
    <2>2. Total \in Nat /\ Execution = 1 .. Total
        BY TotalExecutions
    <2>3. next \notin 1 .. Total /\ Len(rows) \in Nat /\ next = Len(rows) + 1
        BY <1>1, <1>2, <2>2
    <2> QED
        BY <2>1, <2>2, <2>3
<1>4. MeasuredRows = measured
    BY <1>2, <1>3 DEF MeasuredRows
<1>5. sampled' = measured
    BY <1>1, <1>2, <1>3, <1>4
<1>6. Execution' = Execution /\ measured' = measured
    BY DEF Execution, Kind
<1> HIDE DEF measured
<1>7. CampaignTypeOK'
    <2>1. measured \subseteq Execution
        BY DEF measured
    <2> QED
        BY <1>1, <1>5, <2>1 DEF RunsInv, CampaignTypeOK, Over
<1>8. RunnerControl' /\ Ended'
    BY <1>1 DEF RunsInv, RunnerControl, Ended, Live
<1>9. RowsSoFar'
    BY <1>1, <1>2, <1>3, <1>5, <1>6 DEF RunsInv, RowsSoFar, measured
<1> QED
    BY <1>7, <1>8, <1>9 DEF RunsInv

(* Starting, waiting for and stopping a process.                           *)
LEMMA WaitingStep ==
    ASSUME RunsInv,
           \/ Spawn \/ Waited \/ Terminate \/ KillIt \/ Stopped
           \/ GivesUp
    PROVE  RunsInv'
<1>1. /\ UNCHANGED <<timeout, campaign, next, rows, sampled, orphan, aborted>>
      /\ at' \in Live /\ at \notin {"completed", "stopped", "dead", "judge"}
    BY DEF Spawn, Waited, Terminate, KillIt, Stopped, GivesUp,
        RunnerTo, runnerRest, Live
<1>2. RowsSoFar'
    BY <1>1 DEF RunsInv, RowsSoFar, Live
<1> USE DEF Finalizing, Started, Absent, Partial, File, Content, Over
<1>3. CASE Spawn
    <2>1. CampaignTypeOK'
        <3>1. /\ timeout' \in BOOLEAN /\ running' \in BOOLEAN /\ panicking' \in BOOLEAN
              /\ orphan' \in BOOLEAN /\ aborted' \in BOOLEAN
            BY <1>3 DEF RunsInv, CampaignTypeOK, Spawn
        <3>2. files' \in [File -> Content]
            BY <1>3 DEF Spawn
        <3> QED
            BY <1>1, <1>3, <3>1, <3>2 DEF RunsInv, CampaignTypeOK, Spawn, RunnerTo
    <2>2. RunnerControl' /\ Ended'
        BY <1>1, <1>3 DEF RunsInv, RunnerControl, Ended, Live, Spawn, RunnerTo, Remains
    <2> QED
        BY <1>2, <2>1, <2>2 DEF RunsInv
<1>4. CASE Waited \/ Terminate \/ KillIt \/ Stopped \/ GivesUp
    <2>1. /\ UNCHANGED <<running, progress, panicking, files, writing, code>>
          /\ at \in Live /\ at' # "waiting"
          /\ at' = "judge" => ~running
          /\ status' \in {"passed", "timeout", "interrupted"}
          /\ signal' \in {"none", "SIGTERM", "SIGKILL"}
        BY <1>4 DEF Waited, Terminate, KillIt, Stopped, GivesUp,
            RunnerTo, runnerRest, process, Live, Reaped, LastResort, RunsInv,
            CampaignTypeOK
    <2>2. CampaignTypeOK'
        BY <1>1, <2>1 DEF RunsInv, CampaignTypeOK, Live
    <2>3. RunnerControl' /\ Ended'
        BY <1>1, <2>1 DEF RunsInv, RunnerControl, Ended, Live
    <2> QED
        BY <1>2, <2>2, <2>3 DEF RunsInv
<1> QED
    BY <1>3, <1>4

(* The ends and beginnings of a runner.                                    *)
LEMMA RunnerEndsStep ==
    ASSUME RunsInv, Abort \/ Restart \/ OrphanEnds
    PROVE  RunsInv'
<1>1. Total \in Nat \ {0} /\ Execution = 1 .. Total
    BY TotalExecutions
<1>2. CASE Abort
    <2>1. /\ at \notin {"completed", "stopped", "dead"} /\ at' = "dead" /\ aborted' = TRUE
          /\ UNCHANGED <<timeout, campaign, next, status, rows, sampled, signal, orphan>>
          /\ UNCHANGED <<running, progress, panicking, files, writing, code>>
        BY <1>2 DEF Abort, process, Over
    <2>2. CampaignTypeOK'
        BY <2>1 DEF RunsInv, CampaignTypeOK, Over
    <2>3. RunnerControl' /\ Ended'
        BY <2>1 DEF RunsInv, RunnerControl, Ended, Live
    <2>4. RowsSoFar'
        BY <2>1 DEF RunsInv, RowsSoFar
    <2> QED
        BY <2>2, <2>3, <2>4 DEF RunsInv
<1>3. CASE Restart
    <2>1. CampaignTypeOK'
        <3>1. /\ timeout' \in BOOLEAN /\ running' \in BOOLEAN /\ panicking' \in BOOLEAN
              /\ orphan' \in BOOLEAN /\ aborted' \in BOOLEAN
            BY <1>3 DEF RunsInv, CampaignTypeOK, Restart
        <3>2. next' \in 1 .. Rows * (Warmups + Repeats) + 1
            BY <1>1, <1>3 DEF Restart, Total
        <3>3. campaign' \in 1 .. MaxCampaigns
            BY <1>3, CountsAssumption DEF RunsInv, CampaignTypeOK, Restart
        <3> QED
            BY <1>3, <3>1, <3>2, <3>3 DEF Restart, RunsInv, CampaignTypeOK
    <2>2. RunnerControl' /\ Ended'
        BY <1>3 DEF Restart, RunsInv, RunnerControl, Ended, Live, Over
    <2>3. RowsSoFar'
        BY <1>3 DEF Restart, RowsSoFar
    <2> QED
        BY <2>1, <2>2, <2>3 DEF RunsInv
<1>4. CASE OrphanEnds
    <2>1. /\ orphan' = FALSE
          /\ UNCHANGED <<timeout, campaign, at, next, status, rows, sampled, signal, aborted>>
          /\ UNCHANGED <<running, progress, panicking, files, writing, code>>
        BY <1>4 DEF OrphanEnds, process
    <2>2. CampaignTypeOK'
        <3>1. orphan' \in BOOLEAN
            BY <2>1
        <3> QED
            BY <2>1, <3>1 DEF RunsInv, CampaignTypeOK
    <2>3. RunnerControl' /\ Ended' /\ RowsSoFar'
        BY <2>1 DEF RunsInv, RunnerControl, Ended, RowsSoFar
    <2> QED
        BY <2>2, <2>3 DEF RunsInv
<1> QED
    BY <1>2, <1>3, <1>4

LEMMA RunsStep ==
    ASSUME RunsInv, [CampaignNext]_campaignVars
    PROVE  RunsInv'
<1>1. CASE UNCHANGED campaignVars
    <2>1. UNCHANGED <<timeout, campaign, at, next, status, rows, sampled, signal, orphan, aborted>>
          /\ UNCHANGED <<running, progress, panicking, files, writing, code>>
        BY <1>1 DEF campaignVars, runner, process
    <2>2. CampaignTypeOK' /\ RunnerControl' /\ Ended' /\ RowsSoFar'
        BY <2>1 DEF RunsInv, CampaignTypeOK, RunnerControl, Ended, RowsSoFar
    <2> QED
        BY <2>2 DEF RunsInv
<1> QED
    BY <1>1, ProcessStep, RecordStep, SummarizeStep, WaitingStep, RunnerEndsStep
    DEF CampaignNext, Runner

(* The runner, its process and whoever interrupts them keep the invariant. *)
THEOREM RunsInvariant == CampaignSpec => []RunsInv
<1>1. CampaignInit => RunsInv
    BY RunsInit
<1>2. RunsInv /\ [CampaignNext]_campaignVars => RunsInv'
    BY RunsStep
<1> QED
    BY <1>1, <1>2, PTL DEF CampaignSpec

(* A row with status passed is a process that exited with 0 by itself and  *)
(* left the complete files, for any numbers of configurations, warm-ups,   *)
(* repetitions and restarts of the runner.                                 *)
THEOREM PassedRunsComplete == CampaignSpec => []PassedRunsAreComplete
<1>1. RunsInv => PassedRunsAreComplete
    BY DEF RunsInv, RowsSoFar, PassedRunsAreComplete
<1> QED
    BY <1>1, RunsInvariant, PTL

(* A process is alive only while its runner waits for it, stops it or has  *)
(* been killed itself; no runner leaves one behind otherwise.              *)
THEOREM RunsDoNotOverlap == CampaignSpec => []OneAtATime
<1>1. RunsInv => OneAtATime
    BY DEF RunsInv, RunnerControl, Live, OneAtATime
<1> QED
    BY <1>1, RunsInvariant, PTL

(* The rows follow the order planned, nothing follows one that has not     *)
(* passed, and a completed campaign summarizes each measured execution and *)
(* no warm-up.                                                             *)
THEOREM SummaryIsComplete == CampaignSpec => []SummaryIsOfMeasuredRuns
<1>1. RunsInv => SummaryIsOfMeasuredRuns
    BY DEF RunsInv, RowsSoFar, SummaryIsOfMeasuredRuns, RowsFollowTheOrder
<1> QED
    BY <1>1, RunsInvariant, PTL
==============================================================================
