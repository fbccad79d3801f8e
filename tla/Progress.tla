------------------------------ MODULE Progress ------------------------------
(***************************************************************************)
(* The progress display of src/progress.go: a bar over a known amount of   *)
(* work, or a spinner over one long call.  Workers add to an atomic        *)
(* counter, a goroutine repaints on a ticker, and Finish stops it, waits   *)
(* for it and paints the last line; Finish may be called more than once,   *)
(* from any goroutine.                                                     *)
(*                                                                         *)
(* On a terminal a paint replaces the line in place; elsewhere it is a     *)
(* line of its own, and then a bar logs one line per tenth of the work.    *)
(* A bar shows its count; a spinner counts nothing, shows 0 while it runs  *)
(* and 1, its total, when its call is done.  Times are left out.           *)
(***************************************************************************)
EXTENDS Integers, Sequences, FiniteSets

CONSTANTS
    Finishers,    \* goroutines that may call Finish
    Totals,       \* totals to try, 0 included
    Steps,        \* what Add may be called with (Inc is Add(1))
    MaxCount      \* bound on the counter

ASSUME FinishersAssumption == Finishers # {} /\ IsFiniteSet(Finishers)
ASSUME TotalsAssumption == Totals \subseteq Nat
ASSUME StepsAssumption == Steps \subseteq Nat /\ MaxCount \in Nat

NoLine == -1      \* nothing on the current line
BlankLine == -2   \* a line with nothing on it

VARIABLES
    kind, tty, enabled, total,    \* fixed when the display is created
    count,                        \* the atomic counter
    lastPctLogged,                \* the last tenth logged, off a terminal
    stop, done,                   \* the two channels: closed or not
    loop, loaded,                 \* the goroutine, and the count it has loaded
    once,                         \* stopOnce: "free", "running" or "done"
    finisher,                     \* where each finisher is
    line, lines                   \* the current line and those above it

display == <<kind, tty, enabled, total>>
screen == <<line, lines>>
progressVars ==
    <<display, count, lastPctLogged, stop, done, loop, loaded, once, finisher, screen>>

Shown == enabled /\ total > 0

(* A slip: a display nobody paints leaves its done channel open.           *)
NeverClosed == FALSE

(* Without a goroutine to close it, done is closed at once.                *)
DoneAtCreation == ~Shown

(* NewProgress and NewSpinner.                                             *)
ProgressInit ==
    /\ kind \in {"bar", "spinner"} /\ tty \in BOOLEAN /\ enabled \in BOOLEAN
    /\ total \in IF kind = "bar" THEN Totals ELSE {1}
    /\ count = 0 /\ lastPctLogged = -1
    /\ stop = FALSE /\ done = DoneAtCreation
    /\ loop = IF Shown THEN "select" ELSE "none"
    /\ loaded = 0 /\ once = "free"
    /\ finisher = [f \in Finishers |-> "outside"]
    /\ line = NoLine /\ lines = <<>>

----------------------------------------------------------------------------
(* Painting.                                                               *)

Smaller(a, b) == IF a < b THEN a ELSE b

Decile(cur) == (10 * cur) \div total

(* What fmt.Fprintf puts on the screen: in place, or a line of its own.    *)
Paint(cur) ==
    IF tty THEN line' = cur /\ lines' = lines
           ELSE line' = NoLine /\ lines' = Append(lines, cur)

(* A slip: a tenth is logged as often as a tick finds it.                  *)
LogsEveryTick(cur) == TRUE

NewDecile(cur) == Decile(cur) > lastPctLogged

(* A slip: the count is painted as it is.                                  *)
Unclamped(cur) == cur

Clamped(cur) == Smaller(cur, total)

render(cur, final) ==
    LET c == Clamped(cur)
    IN  /\ IF tty \/ final \/ NewDecile(c) THEN Paint(c) ELSE UNCHANGED screen
        /\ lastPctLogged' = IF ~tty /\ (final \/ NewDecile(c)) THEN Decile(c) ELSE lastPctLogged

(* fmt.Fprintln, or the newline at the end of a spinner's last line.       *)
Newline(shown) ==
    /\ lines' = Append(lines, IF shown = NoLine THEN BlankLine ELSE shown)
    /\ line' = NoLine

----------------------------------------------------------------------------
(* The workers.                                                            *)

Add(n) ==
    /\ kind = "bar" /\ count + n <= MaxCount
    /\ count' = count + n
    /\ UNCHANGED <<display, lastPctLogged, stop, done, loop, loaded, once, finisher, screen>>

----------------------------------------------------------------------------
(* renderLoop and spinLoop.                                                *)

LoopTo(from, to) == loop = from /\ loop' = to

(* A tick: the counter is loaded, and painted afterwards.                  *)
Tick ==
    /\ LoopTo("select", "loaded")
    /\ loaded' = count
    /\ UNCHANGED <<display, count, lastPctLogged, stop, done, once, finisher, screen>>

(* Off a terminal a spinner's tick only advances its frame.                *)
PaintTick ==
    /\ LoopTo("loaded", "select")
    /\ IF kind = "bar" THEN render(loaded, FALSE)
       ELSE /\ IF tty THEN Paint(0) ELSE UNCHANGED screen
            /\ UNCHANGED lastPctLogged
    /\ UNCHANGED <<display, count, stop, done, loaded, once, finisher>>

(* The stop case, and the deferred close of done.                          *)
LoopReturns ==
    /\ LoopTo("select", "ended") /\ stop
    /\ done' = TRUE
    /\ UNCHANGED <<display, count, lastPctLogged, stop, loaded, once, finisher, screen>>

----------------------------------------------------------------------------
(* Finish.                                                                 *)

FinisherTo(f, from, to) == finisher[f] = from /\ finisher' = [finisher EXCEPT ![f] = to]

Call(f) ==
    /\ FinisherTo(f, "outside", "called")
    /\ UNCHANGED <<display, count, lastPctLogged, stop, done, loop, loaded, once, screen>>

(* The first caller closes stop within stopOnce.                           *)
StopLoop(f) ==
    /\ FinisherTo(f, "called", "await") /\ once = "free"
    /\ once' = "running" /\ stop' = TRUE
    /\ UNCHANGED <<display, count, lastPctLogged, done, loop, loaded, screen>>

(* A slip: nobody waits for the goroutine.                                 *)
WaitsForNobody == TRUE

LoopHasEnded == done

AwaitLoop(f) ==
    /\ FinisherTo(f, "await", "final") /\ LoopHasEnded
    /\ UNCHANGED <<display, count, lastPctLogged, stop, done, loop, loaded, once, screen>>

(* The 100% of a bar ...                                                   *)
FinalRender(f) ==
    /\ FinisherTo(f, "final", "newline") /\ Shown /\ kind = "bar"
    /\ render(total, TRUE)
    /\ UNCHANGED <<display, count, stop, done, loop, loaded, once>>

FinalNewline(f) ==
    /\ FinisherTo(f, "newline", "returned")
    /\ Newline(line)
    /\ once' = "done"
    /\ UNCHANGED <<display, count, lastPctLogged, stop, done, loop, loaded>>

(* ... or the last line of a spinner, or nothing.                          *)
FinalLine(f) ==
    /\ FinisherTo(f, "final", "returned") /\ ~(Shown /\ kind = "bar")
    /\ IF Shown THEN Newline(total) ELSE UNCHANGED screen
    /\ once' = "done"
    /\ UNCHANGED <<display, count, lastPctLogged, stop, done, loop, loaded>>

(* A slip: a second caller returns while the first is still inside.        *)
SecondNeedNotWait == once # "free"

FirstHasReturned == once = "done"

(* Any other caller waits in stopOnce for the first one and does nothing.  *)
ReturnAtOnce(f) ==
    /\ FinisherTo(f, "called", "returned") /\ FirstHasReturned
    /\ UNCHANGED <<display, count, lastPctLogged, stop, done, loop, loaded, once, screen>>

Finish(f) ==
    \/ StopLoop(f) \/ AwaitLoop(f) \/ FinalRender(f) \/ FinalNewline(f)
    \/ FinalLine(f) \/ ReturnAtOnce(f)

ProgressNext ==
    \/ \E n \in Steps : Add(n)
    \/ Tick \/ PaintTick \/ LoopReturns
    \/ \E f \in Finishers : Call(f) \/ Finish(f)

(* Goroutines are scheduled fairly.  select chooses at random when a tick  *)
(* is waiting as stop is closed, so that it takes the stop case sometime.  *)
ProgressSpec ==
    /\ ProgressInit /\ [][ProgressNext]_progressVars
    /\ WF_progressVars(PaintTick) /\ SF_progressVars(LoopReturns)
    /\ \A f \in Finishers : WF_progressVars(Finish(f))

----------------------------------------------------------------------------

ProgressTypeOK ==
    /\ kind \in {"bar", "spinner"} /\ tty \in BOOLEAN /\ enabled \in BOOLEAN
    /\ total \in Totals \cup {1} /\ count \in Nat /\ loaded \in Nat
    /\ lastPctLogged \in -1 .. 10
    /\ stop \in BOOLEAN /\ done \in BOOLEAN
    /\ loop \in {"none", "select", "loaded", "ended"}
    /\ once \in {"free", "running", "done"}
    /\ finisher \in [Finishers -> {"outside", "called", "await", "final", "newline", "returned"}]
    /\ line \in Nat \cup {NoLine} /\ lines \in Seq(Int)

(* Once any call of Finish has returned, the display is closed: nothing    *)
(* more is written, so that what the program prints next starts on a line  *)
(* of its own, and the display ends with its total.                        *)
FinishedDisplay ==
    /\ line = NoLine
    /\ Shown => \E i \in {Len(lines), Len(lines) - 1} : i > 0 /\ lines[i] = total

FinishClosesTheDisplay ==
    /\ ProgressTypeOK
    /\ (\E f \in Finishers : finisher[f] = "returned") => FinishedDisplay

(* The lines with an amount.                                               *)
Logged == {i \in DOMAIN lines : lines[i] # BlankLine}

(* A log names every tenth at most once on the way to the final line, and  *)
(* never takes an amount back, however late a count is painted.            *)
LogAdvances ==
    \A i, j \in Logged : i < j =>
        /\ lines[i] <= lines[j]
        /\ (\E k \in Logged : j < k) => Decile(lines[i]) < Decile(lines[j])

(* What is painted never exceeds the amount announced, on a terminal never *)
(* goes back, and once a call of Finish has returned nothing is painted.   *)
PaintsInOrder ==
    [][/\ line' # NoLine => line' <= total /\ (line # NoLine => line <= line')
       /\ (\E f \in Finishers : finisher[f] = "returned") => UNCHANGED screen]_progressVars

(* Every call of Finish returns, whether or not anything is displayed.     *)
FinishReturns ==
    \A f \in Finishers : finisher[f] = "called" ~> finisher[f] = "returned"
=============================================================================
