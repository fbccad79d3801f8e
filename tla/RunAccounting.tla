--------------------------- MODULE RunAccounting ---------------------------
(***************************************************************************)
(* What a run reports of where its time went and what it did in which      *)
(* phase: timeMultiparty, the multiparty columns of StartPhase and Stop,   *)
(* the rows of ops.csv (src/instrumentation.go), and the server time that  *)
(* src/experiments/scripts/summarize.py takes from them.  All of it is     *)
(* called from main's goroutine; the recorder's lock is in MetricsRecorder.*)
(*                                                                         *)
(* Phase names are numbers in the order of their strings.  Time is a tick  *)
(* for each piece of work; CPU time is accounted for as wall time is.      *)
(***************************************************************************)
EXTENDS Integers, Sequences, FiniteSets, FiniteSetsExt, Functions, TLC

CONSTANTS
    DecryptPhase,    \* 5-threshold-decrypt-verify
    TallyPhases,     \* the names that start with 4.2- to 4.7-
    MaxPhases        \* bound on the phases of a run

init == 0
NoPhase == [name |-> init, startWall |-> 0, startMultipartyWall |-> 0]
NoProtocol == [name |-> "none", wallStart |-> 0]

VARIABLES
    clock,
    currentPhase,      \* rec.currentPhase
    phase,             \* the Phase StartPhase returned, until its Stop
    protocol,          \* what timeMultiparty closed over, until its function runs
    multipartyWall,    \* rec.multipartyWall
    components,        \* rec.components of the protocols: wall time by name
    phases,            \* rec.phases
    opCounts,          \* phases with an entry in rec.opCounts
    crashed,           \* main has panicked
    started,           \* history: names in the order of their first StartPhase
    server             \* history: time of the open phase outside any protocol

vars == <<clock, currentPhase, phase, protocol, multipartyWall, components, phases,
          opCounts, crashed, started, server>>

Init ==
    /\ clock = 0 /\ currentPhase = init /\ phase = NoPhase /\ protocol = NoProtocol
    /\ multipartyWall = 0 /\ components = <<>> /\ phases = <<>> /\ opCounts = {}
    /\ crashed = FALSE /\ started = <<>> /\ server = 0

(* A slip: the counter at the start of a phase is not remembered.          *)
FromTheBeginning == 0

ProtocolTimeSoFar == multipartyWall

StartPhase(name) ==
    /\ ~crashed /\ phase = NoPhase /\ protocol = NoProtocol /\ Len(phases) < MaxPhases
    /\ currentPhase' = name
    /\ phase' = [name |-> name, startWall |-> clock, startMultipartyWall |-> ProtocolTimeSoFar]
    /\ started' = IF name \in Range(started) THEN started ELSE Append(started, name)
    /\ server' = 0
    /\ UNCHANGED <<clock, protocol, multipartyWall, components, phases, opCounts, crashed>>

Stop ==
    /\ ~crashed /\ phase # NoPhase /\ protocol = NoProtocol
    /\ phases' = Append(phases, [name |-> phase.name,
                                 wall |-> clock - phase.startWall,
                                 multipartyWall |-> multipartyWall - phase.startMultipartyWall,
                                 server |-> server])
    /\ phase' = NoPhase
    /\ UNCHANGED <<clock, currentPhase, protocol, multipartyWall, components, opCounts,
                   crashed, started, server>>

(* A piece of work, which may count an operation.                          *)
Work(counts) ==
    /\ ~crashed
    /\ clock' = clock + 1
    /\ server' = IF phase # NoPhase /\ protocol = NoProtocol THEN server + 1 ELSE server
    /\ opCounts' = IF counts THEN opCounts \cup {currentPhase} ELSE opCounts
    /\ UNCHANGED <<currentPhase, phase, protocol, multipartyWall, components, phases,
                   crashed, started>>

(* A decryption of the run's result is told from one that checks an        *)
(* intermediate value by the phase it happens in.                          *)
Label(name) ==
    IF name = "threshold-decryption" /\ currentPhase # DecryptPhase
    THEN "diagnostic-threshold-decryption" ELSE name

timeMultiparty(name) ==
    /\ ~crashed /\ protocol = NoProtocol
    /\ protocol' = [name |-> Label(name), wallStart |-> clock]
    /\ UNCHANGED <<clock, currentPhase, phase, multipartyWall, components, phases,
                   opCounts, crashed, started, server>>

(* A slip: a protocol run again replaces its component.                    *)
Replaces(name, wall) == [n \in {name} |-> wall] @@ components

AddsTo(name, wall) ==
    [n \in DOMAIN components \cup {name} |->
        (IF n \in DOMAIN components THEN components[n] ELSE 0)
            + (IF n = name THEN wall ELSE 0)]

(* The deferred function.                                                  *)
Timed ==
    LET wall == clock - protocol.wallStart
    IN  /\ multipartyWall' = multipartyWall + wall
        /\ components' = AddsTo(protocol.name, wall)
        /\ protocol' = NoProtocol

EndOfProtocol ==
    /\ ~crashed /\ protocol # NoProtocol
    /\ Timed
    /\ UNCHANGED <<clock, currentPhase, phase, phases, opCounts, crashed, started, server>>

(* A panic runs the deferred function of a protocol and ends main.         *)
Panic ==
    /\ ~crashed /\ crashed' = TRUE
    /\ IF protocol # NoProtocol THEN Timed ELSE UNCHANGED <<multipartyWall, components, protocol>>
    /\ UNCHANGED <<clock, currentPhase, phase, phases, opCounts, started, server>>

----------------------------------------------------------------------------
(* What is made of it.                                                     *)

(* The members of a finite set of numbers in ascending order.              *)
Ascending(S) ==
    [i \in 1 .. Cardinality(S) |->
        CHOOSE x \in S : Cardinality({y \in S : y <= x}) = i]

(* A slip: a phase that runs every period gets a row for every period.     *)
EveryRecord == {k \in DOMAIN phases : phases[k].name \in opCounts}

(* The first records of the phases with operations: not yet seen.          *)
FirstRecords ==
    {k \in DOMAIN phases :
        /\ phases[k].name \in opCounts
        /\ \A j \in 1 .. k - 1 : phases[j].name # phases[k].name}

(* Phases with operations and no record.                                   *)
leftover == opCounts \ {phases[k].name : k \in FirstRecords}

(* writeOps: the phases with operations, in the order of their records,    *)
(* then the others by name.                                                *)
opsRows ==
    LET inOrder == Ascending(FirstRecords)
    IN  [i \in DOMAIN inOrder |-> phases[inOrder[i]].name] \o Ascending(leftover)

(* A slip: every recorded phase is taken for the tally's.                  *)
AllRecords == DOMAIN phases

TallyRecords == {k \in DOMAIN phases : phases[k].name \in TallyPhases}

Larger(m, n) == IF m < n THEN n ELSE m

(* server_downstream of summarize.py.                                      *)
serverDownstream ==
    LET wall == MapThenSumSet(LAMBDA k : phases[k].wall, TallyRecords)
        multiparty == MapThenSumSet(LAMBDA k : phases[k].multipartyWall, TallyRecords)
    IN  Larger(0, wall - multiparty)

----------------------------------------------------------------------------

(* The server's own time in the tally is what the summary says it is: the  *)
(* time of the phases 4.2 to 4.7 outside the protocols run within them,    *)
(* and the floor at zero never hides a wrong difference.                   *)
ServerTimeIsSeparated ==
    serverDownstream =
        MapThenSumSet(LAMBDA k : phases[k].server,
                      {k \in DOMAIN phases : phases[k].name \in TallyPhases})

(* All the protocols' time is in the components and nothing else is, also  *)
(* when a protocol ends in a panic; and a phase claims no protocol time    *)
(* that another phase claims too.                                          *)
ProtocolTimeIsAttributed ==
    /\ MapThenSumSet(LAMBDA n : components[n], DOMAIN components) = multipartyWall
    /\ MapThenSumSet(LAMBDA k : phases[k].multipartyWall, DOMAIN phases) <= multipartyWall

(* Phase m started for the first time before phase n did.                  *)
Before(m, n) ==
    \E k \in DOMAIN started : \E j \in 1 .. k - 1 : started[j] = m /\ started[k] = n

(* ops.csv has one row group for every phase with operations and follows   *)
(* the timeline: phases appear in the order in which they first started.   *)
OpsFollowTheTimeline ==
    /\ Range(opsRows) = opCounts
    /\ \A k \in DOMAIN opsRows : \A j \in 1 .. k - 1 : Before(opsRows[j], opsRows[k])

(* What the files report agrees with the run: the protocols' components    *)
(* with the time they took, and the operations with the timeline.          *)
ReportFollowsTheRun == ProtocolTimeIsAttributed /\ OpsFollowTheTimeline
=============================================================================
