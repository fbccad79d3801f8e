------------------------------ MODULE Campaign ------------------------------
(***************************************************************************)
(* A measurement campaign: src/experiments/scripts/run_campaign.py starts  *)
(* one process of the program for every configuration, warm-up and         *)
(* repetition, one after the other, judges it by its exit code, its log    *)
(* and its files, and stops at the first that has not passed;              *)
(* summarize.py then takes the measured ones.  A process runs in a session *)
(* of its own, may hang, crash or be killed at any time, and writes its    *)
(* files as MetricsRecorder describes.  The runner itself may be killed,   *)
(* or interrupted where it does not expect it, and started again.          *)
(***************************************************************************)
EXTENDS Integers, Sequences, FiniteSets

CONSTANTS
    Rows,                \* configurations
    Warmups, Repeats,    \* runs of each kind for each of them
    MaxCampaigns         \* bound on the times a runner is started

ASSUME CountsAssumption ==
    /\ Rows \in Nat \ {0} /\ Warmups \in Nat \ {0} /\ Repeats \in Nat \ {0}
    /\ MaxCampaigns \in Nat \ {0}

(* The executions in their order.                                          *)
Execution == 1 .. Rows * (Warmups + Repeats)
Kind(e) == IF (e - 1) % (Warmups + Repeats) < Warmups THEN "warmup" ELSE "measured"

(* How far a process has come; a file holds the progress it was written at.*)
Started == 0   HasParameters == 1   Asserted == 2   Finalizing == 3
File == {"meta", "summary"}
Absent == -2    Partial == -1

VARIABLES
    timeout,          \* a time limit is given
    campaign,         \* how many runners have been started
    at, next,         \* the runner, and the execution it is at
    status,           \* of that execution, as judged so far
    rows,             \* executions.csv
    sampled,          \* executions in measurements-summary.csv
    running,          \* the process is alive
    progress,         \* how far it is
    panicking,        \* it is on the panic path
    files, writing,   \* its files, and the one being written
    code,             \* its exit code
    signal,           \* the signal sent to it
    orphan,           \* a process of an earlier runner is alive
    aborted           \* history: a runner was killed

process == <<running, progress, panicking, files, writing, code>>
runner == <<campaign, at, next, status, rows, sampled, signal, orphan, aborted>>
campaignVars == <<timeout, runner, process>>

CampaignInit ==
    /\ timeout \in BOOLEAN /\ campaign = 1
    /\ at = "spawn" /\ next = 1 /\ status = "passed"
    /\ rows = <<>> /\ sampled = {}
    /\ running = FALSE /\ progress = Started /\ panicking = FALSE
    /\ files = [f \in File |-> Absent] /\ writing = "none" /\ code = 0
    /\ signal = "none" /\ orphan = FALSE /\ aborted = FALSE

----------------------------------------------------------------------------
(* The process.                                                            *)

Advance ==
    /\ running /\ ~panicking /\ progress < Finalizing
    /\ progress + 1 = Finalizing => writing = "none"    \* the sampler has been awaited
    /\ progress' = progress + 1
    /\ UNCHANGED <<timeout, runner, running, panicking, files, writing, code>>

(* Checkpoints, and at the end meta.json and then summary.json.            *)
BeginWrite(f) ==
    /\ running /\ writing = "none"
    /\ progress = Finalizing \/ panicking =>
          files[f] # progress /\ (f = "summary" => files["meta"] = progress)
    /\ writing' = f /\ files' = [files EXCEPT ![f] = Partial]
    /\ UNCHANGED <<timeout, runner, running, progress, panicking, code>>

EndWrite ==
    /\ running /\ writing # "none"
    /\ writing' = "none" /\ files' = [files EXCEPT ![writing] = progress]
    /\ UNCHANGED <<timeout, runner, running, progress, panicking, code>>

Ends(with) ==
    /\ running /\ running' = FALSE /\ code' = with
    /\ UNCHANGED <<timeout, runner, progress, panicking, files, writing>>

(* main returns, or re-raises its panic, once everything is written.       *)
ProcessExits ==
    /\ progress = Finalizing \/ panicking
    /\ writing = "none" /\ \A f \in File : files[f] = progress
    /\ Ends(IF panicking THEN 2 ELSE 0)

(* A panic before the result was verified: crash.json, and finalization.   *)
ProcessPanics ==
    /\ running /\ ~panicking /\ progress < Asserted
    /\ panicking' = TRUE
    /\ UNCHANGED <<timeout, runner, running, progress, files, writing, code>>

(* log.Fatal, a full disk, a fault or the OOM killer.                      *)
Fails == Ends(1)

DiesOf(s) == signal = s /\ Ends(-1)

Process ==
    \/ Advance \/ EndWrite \/ ProcessExits \/ ProcessPanics \/ Fails
    \/ \E f \in File : BeginWrite(f)
    \/ DiesOf("SIGTERM") \/ DiesOf("SIGKILL")

----------------------------------------------------------------------------
(* The runner.                                                             *)

RunnerTo(from, to) == at = from /\ at' = to

Remains == next \in Execution

Spawn ==
    /\ RunnerTo("spawn", "waiting") /\ Remains
    /\ status' = "passed" /\ signal' = "none"
    /\ running' = TRUE /\ progress' = Started /\ panicking' = FALSE
    /\ files' = [f \in File |-> Absent] /\ writing' = "none" /\ code' = 0
    /\ UNCHANGED <<timeout, campaign, next, rows, sampled, orphan, aborted>>

runnerRest == <<timeout, campaign, next, rows, sampled, orphan, aborted, process>>

(* process.wait returns the exit code ...                                  *)
Waited ==
    /\ RunnerTo("waiting", "judge") /\ ~running
    /\ UNCHANGED <<runnerRest, status, signal>>

(* ... or the time is over, or there is a KeyboardInterrupt.               *)
GivesUp ==
    /\ RunnerTo("waiting", "stop")
    /\ status' \in {"interrupted"} \cup IF timeout THEN {"timeout"} ELSE {}
    /\ UNCHANGED <<runnerRest, signal>>

TimesOut == GivesUp /\ status' = "timeout"

(* A slip: nobody waits for a process that was told to stop.               *)
GoesOn == TRUE

Reaped == ~running

(* stop_process: SIGTERM to a process that has not ended, and SIGKILL to   *)
(* one that has not ended 10 seconds later.                                *)
Terminate ==
    /\ RunnerTo("stop", "terminating") /\ running
    /\ signal' = "SIGTERM"
    /\ UNCHANGED <<runnerRest, status>>

(* A slip: the process is only asked again.                                *)
AsksAgain == "SIGTERM"

LastResort == "SIGKILL"

KillIt ==
    /\ RunnerTo("terminating", "killing")
    /\ signal' = LastResort
    /\ UNCHANGED <<runnerRest, status>>

Stopped ==
    /\ \/ RunnerTo("stop", "judge") /\ ~running
       \/ RunnerTo("terminating", "judge") /\ Reaped
       \/ RunnerTo("killing", "judge") /\ Reaped
    /\ UNCHANGED <<runnerRest, status, signal>>

(* The JSON of its files is sound, and its log has the verified result.    *)
LeftItsResult ==
    /\ \A f \in File : files[f] # Partial
    /\ files["summary"] # Absent /\ progress >= Asserted

(* A slip: the exit code is not looked at.                                 *)
NeverFailed == FALSE

Failed == code # 0

Judged ==
    IF status # "passed" THEN status
    ELSE IF Failed THEN "failed"
    ELSE IF LeftItsResult THEN "passed" ELSE "incomplete"

(* A slip: the campaign goes on after a failure.                           *)
AlwaysOn(s) == TRUE

MayGoOn(s) == s = "passed"

(* The row is written and flushed, and a run that has not passed is the    *)
(* last one.                                                               *)
Record ==
    /\ at = "judge"
    /\ rows' = Append(rows, [execution |-> next, status |-> Judged, code |-> code,
                             meta |-> files["meta"], summary |-> files["summary"]])
    /\ IF MayGoOn(Judged) THEN at' = "spawn" /\ next' = next + 1
                          ELSE at' = "stopped" /\ next' = next
    /\ UNCHANGED <<timeout, campaign, status, sampled, signal, orphan, aborted, process>>

(* A slip: warm-ups are summarized too.                                    *)
EveryRow == DOMAIN rows

MeasuredRows ==
    {r \in DOMAIN rows : Kind(rows[r].execution) = "measured" /\ rows[r].status = "passed"}

(* summarize.py.                                                           *)
Summarize ==
    /\ RunnerTo("spawn", "completed") /\ ~Remains
    /\ sampled' = {rows[r].execution : r \in MeasuredRows}
    /\ UNCHANGED <<timeout, campaign, next, status, rows, signal, orphan, aborted, process>>

Runner ==
    \/ Spawn \/ Waited \/ Terminate \/ KillIt \/ Stopped \/ Record \/ Summarize

Over == {"completed", "stopped", "dead"}

(* SIGKILL, or a KeyboardInterrupt anywhere but in process.wait: the       *)
(* process is left to itself.                                              *)
Abort ==
    /\ at \notin Over /\ at' = "dead" /\ aborted' = TRUE
    /\ UNCHANGED <<timeout, campaign, next, status, rows, sampled, signal, orphan, process>>

(* Another campaign, in a directory of its own.                            *)
Restart ==
    /\ at \in Over /\ campaign < MaxCampaigns
    /\ campaign' = campaign + 1
    /\ at' = "spawn" /\ next' = 1 /\ status' = "passed" /\ rows' = <<>> /\ sampled' = {}
    /\ orphan' = (orphan \/ running) /\ signal' = "none"
    /\ running' = FALSE /\ writing' = "none"
    /\ UNCHANGED <<timeout, aborted, progress, panicking, files, code>>

OrphanEnds ==
    /\ orphan /\ orphan' = FALSE
    /\ UNCHANGED <<timeout, campaign, at, next, status, rows, sampled, signal, aborted, process>>

CampaignNext == Process \/ Runner \/ GivesUp \/ Abort \/ Restart \/ OrphanEnds

(* The runner goes on, its timer fires, and a process that is sent SIGKILL *)
(* dies.  Nothing is assumed of the process otherwise: it may hang.        *)
CampaignSpec ==
    /\ CampaignInit /\ [][CampaignNext]_campaignVars
    /\ WF_campaignVars(Runner) /\ WF_campaignVars(TimesOut)
    /\ WF_campaignVars(DiesOf("SIGKILL"))

----------------------------------------------------------------------------

Content == {Absent, Partial} \cup Started .. Finalizing

CampaignTypeOK ==
    /\ timeout \in BOOLEAN /\ campaign \in 1 .. MaxCampaigns
    /\ at \in {"spawn", "waiting", "stop", "terminating", "killing", "judge"} \cup Over
    /\ next \in 1 .. Rows * (Warmups + Repeats) + 1
    /\ status \in {"passed", "timeout", "interrupted"}
    /\ \A r \in DOMAIN rows :
          rows[r] \in [execution : Execution,
                       status : {"passed", "failed", "timeout", "interrupted", "incomplete"},
                       code : {-1, 0, 1, 2}, meta : Content, summary : Content]
    /\ sampled \subseteq Execution
    /\ running \in BOOLEAN /\ progress \in Started .. Finalizing /\ panicking \in BOOLEAN
    /\ files \in [File -> Content] /\ writing \in File \cup {"none"}
    /\ code \in {-1, 0, 1, 2} /\ signal \in {"none", "SIGTERM", "SIGKILL"}
    /\ orphan \in BOOLEAN /\ aborted \in BOOLEAN

(* A row says "passed" of a run that ended by itself, verified its result  *)
(* and left final files with its parameters: never of one that was killed, *)
(* crashed or ran out of time after printing its result, whose files may   *)
(* be those of a checkpoint.                                               *)
PassedRunsAreComplete ==
    /\ CampaignTypeOK
    /\ \A r \in DOMAIN rows : rows[r].status = "passed" =>
          rows[r].code = 0 /\ rows[r].meta = Finalizing /\ rows[r].summary = Finalizing

(* The rows are the first executions in their order, and nothing follows   *)
(* one that has not passed.                                                *)
RowsFollowTheOrder ==
    \A r \in DOMAIN rows :
        /\ rows[r].execution = r
        /\ r < Len(rows) => rows[r].status = "passed"

(* Measurements never overlap: a process still runs beside the campaign    *)
(* only if the runner that started it was killed, also after time-outs and *)
(* interrupts.                                                             *)
OneAtATime ==
    /\ orphan => aborted
    /\ running => at \in {"waiting", "stop", "terminating", "killing", "dead"}

(* A completed campaign summarizes every measured execution, in the order  *)
(* planned, and no warm-up.                                                *)
SummaryIsOfMeasuredRuns ==
    /\ RowsFollowTheOrder
    /\ at = "completed" => sampled = {e \in Execution : Kind(e) = "measured"}

(* Under a time limit a campaign ends, even if a process hangs for ever.   *)
CampaignEnds == timeout /\ at = "spawn" ~> at \in Over
=============================================================================
