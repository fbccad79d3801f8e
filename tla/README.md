# Verification of the coercion-resistant voting simulation

This directory holds TLA+ modules for the Go program in this repository: an
encrypted, period-streaming tally with a masked echo, run by a simulated set of
parties. Each module is translated from the source. TLC checks it on small
instances and TLAPS proves the central results for all values of the constants.

## The system

| Part | Source | State | Operations | What makes it correct |
|---|---|---|---|---|
| Workload generation | `helpers.go` | drawn counts, the schedule | `randUint64n`, `randomDelegationMatrix`, `randomVotingVector`, `periodicChoicesFromCounts`, `restrictBenchmarkSubmissions` | draws uniform, delegates distinct, every count drained once within T periods and echoed back |
| Submission semantics, plaintext reference | `helpers.go`, `test.go` | standing choice and totals per voter | `submissionMask`, `periodicEchoTotalsPlain`, `selectedChoice` | totals count the latest real submission of every period; one majority at most |
| Incremental balanced tree | `periodic_echo.go` | frontier of completed subtrees | `Push`, `Result` | same grouping as the batch reduction, logarithmic frontier, always completes |
| Periodic echo | `periodic_echo.go`, `main.go` | tree, or running ciphertexts | `ClosePeriod`, `Totals` | both modes compute the echo relation; refreshes bound the depth |
| Packing, streamed ingestion | `helpers.go`, `tally_inputs.go` | period accumulators, reused buffers | `computePackingLayout`, `streamAndAggregatePeriodInputs` | blocks disjoint, no slot left over from another voter |
| Tally pipeline | `main.go` | a chain of ciphertexts | indicator, support, dTilde, Dw, product | equals the plaintext reference, no wraparound |
| Multiparty protocols | `multiparty_helpers.go` | shares per party | CKG, RKG, GKG, refresh, threshold decryption | each party's share exactly once, rounds in order: together they act as a dealer |
| Time and operation accounting | `instrumentation.go`, `summarize.py` | protocol time so far, components, phases, operation counts | `timeMultiparty`, `StartPhase`, `Stop`, `CountOp`, `writeOps` | protocol time is attributed once and separated from the server's |
| Metrics recorder | `instrumentation.go` | samples, phases, files; a mutex; a sampler goroutine | `StartPhase`, `Stop`, `flushCheckpoint`, `FinalizeMetrics`, `RecordCrash` | final files complete, peaks attributed, no deadlock, little lost to a kill |
| Progress and spinner | `progress.go` | atomic counter, render goroutine, two channels | `Inc`, `Add`, `Finish` | finishes once, last line complete, nothing painted after it |
| Noise diagnostics | `experiment_diagnostics.go` | list of measurements | checkpoints | outside a model's reach (real noise) |
| Experiment parameters | `experiment_parameters.go`, `helpers.go` | none | `experimentLiteral`, `pickPlaintextModulus` | the modulus covers all voting power |
| Campaign runner, summarizer | `experiments/scripts` | a child process, `executions.csv` | run, stop, judge, summarize | passed runs are complete, runs never overlap, the campaign ends |

Main drives everything on one goroutine: it generates the workload, sets keys
up with the parties, and for every period streams the submissions into fresh
accumulators and closes the period in two echoes (candidate, delegation); then
it takes the totals, refreshes them and evaluates the tally. The sampler and the
progress renderers are the only other goroutines; the campaign runner is another
process, which starts the program many times and judges what each run left. The
hard behaviours are therefore of four kinds: algebra that has to commute with
packing, grouping, refreshing and sharing a key; boundaries (period counts that
are no power of two, refresh intervals, majorities, word sizes); the recorder and
the displays, where goroutines share state and the process may die at any
instruction; and accounting, where a measurement is attributed to the wrong phase
or run without anything failing. The hazards are listed one by one in
`PROJECT.json`.

## Modules

| Module | Models | Role |
|---|---|---|
| `Submissions` | sentinels, `submissionMask`, `periodPlain` | what a voter may send, shared by the modules below |
| `EchoReference` | `periodicEchoTotalsPlain`, `selectedChoice` | what the echo promises, by voter and choice |
| `IncrementalBalanced` | `incrementalBalanced` | the tree, parameterised by its combine function |
| `EchoEquation` | the relation of `periodicEchoTotalsPlain`'s comment and of `TestEchoGatesAggregatedPayloads` | abstract specification of one echo |
| `PeriodicEcho` | `periodicEchoState`, main's refresh schedule | the encrypted echo; instances `IncrementalBalanced`, refines `EchoEquation` |
| `Packing` | `computePackingLayout`, block arithmetic | where a voter's slots are |
| `PeriodInputs` | `restrictBenchmarkSubmissions`, `streamAndAggregatePeriodInputs` | ingestion of one period with its reused buffers |
| `SubmissionEcho` | main's period loop | two `EchoEquation`s driven by packed submissions with one mask; refines `EchoReference` |
| `Election` | the plaintext tally references of `test.go` | what the tally promises |
| `TallyPipeline` | main from key generation to the result | the tally slot by slot, compared with `Election` |
| `LagrangeIndicator` | `lagrangeIndicatorCoefficients`, `modInverse` | the majority polynomial, loop by loop |
| `ExperimentParameters` | `experimentLiteral`, `pickPlaintextModulus` | the plaintext modulus, for `LagrangeIndicator` |
| `Workload` | phase 1 of main | the schedules that drive `EchoReference` |
| `CollectiveKey` | what the multiparty protocols promise | abstract specification: a dealer who knows the secret |
| `Multiparty` | `multiparty_helpers.go` | the protocols, party by party; refines `CollectiveKey` |
| `RunAccounting` | `timeMultiparty`, phases, `ops.csv`, `summarize.py`'s server time | what a run reports of its time |
| `Progress` | `progress.go` | bar and spinner: goroutine, workers, callers of `Finish` |
| `Campaign` | `run_campaign.py`, `summarize.py`'s selection | runner and child process, faults of both |
| `MetricsRecorder` | `instrumentation.go`, main's crash handler | main and sampler goroutines, files, crash and kill |
| `ArithmeticLemmas` | | for the proofs: arithmetic modulo t, division, induction over finite sets and numbers, sums over finite sets |
| `MC...` | | instances for TLC, with reference definitions the program is compared with (`balancedReduce`, `tree_depth`, the log of all submissions), or compositions (`MCMultiparty`: the protocols in main's phases, timed; `MCEchoReference`: the echo on drawn workloads; `MCLagrangeIndicator`: the polynomial modulo the modulus found) |
| `...Proofs` | | theorems on `EchoReference` with its workload, `PeriodicEcho`, `TallyPipeline`, on (`TreeProofs`) `IncrementalBalanced`, on (`CiphertextProofs`) `PeriodInputs`, `Multiparty` and `RunAccounting`, on (`MajorityProofs`) `SubmissionEcho`, `LagrangeIndicator` and `ExperimentParameters`, and (`InstrumentationProofs`) on `MetricsRecorder`, `Progress` and `Campaign` |

How they compose:

    PeriodInputs --period--> SubmissionEcho --totals--> TallyPipeline --> result
     (Packing)                 |        |                |        |
                       EchoEquation  EchoReference   Election  LagrangeIndicator
                               ^       (promise)     (promise)   (its polynomial)
                         PeriodicEcho       ^                       ^
                               |         Workload          ExperimentParameters
                      IncrementalBalanced

    Multiparty --timed by--> RunAccounting       Progress   (beside main)
        |                                        MetricsRecorder (beside main)
    CollectiveKey (promise)                      Campaign   (around the process)

`PeriodicEcho` implements `EchoEquation`, and two of these with a shared mask
implement `EchoReference`. The hand-over from one module to the next is by what
each has shown: `PeriodInputs` accumulates exactly the packed payloads that
`SubmissionEcho` closes a period with, `SubmissionEcho` leaves totals of the shape
`Election` starts from (Boolean blocks, at most one choice, totals within T), and
`LagrangeIndicator` shows the polynomial to be the threshold that `TallyPipeline`
applies.

Definitions headed "a slip" are not part of a model: they are deliberately wrong
variants, used to confirm that a property notices the mistake.

### EchoReference

`current` and `totals` are the locals of `periodicEchoTotalsPlain`; `ClosePeriod`
is one turn of its period loop for all voters. Main calls the function twice with
the two components exchanged, and both calls read the same schedule, so the two
are one state machine. A client's input is any pair that the assertions let
through.

### IncrementalBalanced

`Push` runs three loops to the end, one after the other, and each is an action:
`Push` appends, `Descend` walks the midpoint path and counts, `Merge` merges.
An index out of range in a merge shows as a tree that never completes. The reference,
`balancedReduce`, is a recursive function on ranges of leaves (`reduceRange`) in
`MCIncrementalBalanced`, and the subtrees it forms are `Nodes`.

### PeriodicEcho

A ciphertext is its plaintext slots (logical ones and padding) and the number of
ciphertext multiplications on the longest path to it. `prefix` is a history
variable: the states the relation passes through between two frontier segments.
The refinement mapping reads the relation's state off the last prefix (tree) or
the running ciphertexts (sequential); walking and merging are stuttering steps.
Refinement alone would let the relation choose another input than the one the
echo was closed with, so `EachInputIsApplied` says of every step that the
relation's step is the one for this very input. `SubmissionEcho` has
`EachSubmissionIsApplied` for the same reason.

### PeriodInputs

One action per turn of the voter loop for each thing it does: skip a voter who
sends nothing, write a component into the plaintext buffer, add the encryption to
the accumulator, clear the buffer. `BlocksAreApart` is about the packing alone,
for each set of sizes; the others are about the accumulators.

### SubmissionEcho

The slots of one component are numbered by voter and offset, as `periodPlain`
does. Echo values modulo t are compared with the reference's natural numbers;
the refinement mapping reads a standing choice off a one-hot block.

### TallyPipeline

One action per phase of main. A ciphertext is its vector of slots; a rotation moves
every slot cyclically within its row, so that what a phase leaves in slots nobody
decodes travels with the rest. `rotations` is a history variable: what keys
the evaluator was asked for. The echo enters with any totals that its own modules
allow, packed; the indicator with its values on 0 .. T.

### LagrangeIndicator

The three nested loops are a machine with one action per turn of each. Words wrap:
`Unsigned` and `Signed` are Go's conversions, and sums, products and the cofactors of
`modInverse` go through them. The modulus is any prime that a word holds. `modMul` is
exact only while the square of the modulus fits (`ProductsFit`, moduli below 2^32 in
the program); the code neither asserts it nor refuses more, and for the next prime
beyond (19, in 8-bit words, as 17 happens to escape) the polynomial is wrong. So the
property about the polynomial says what it holds for, and the one about `modInverse`
reaches further (`ResiduesFit`): its locals never leave the modulus, so signed words
are wide enough for any modulus below half the words. The tally takes the polynomial
for exact, and so do its theorems: they are about moduli whose square fits.

### ExperimentParameters

Parameters are chosen before anything runs, so the module is an initial condition
and `MCLagrangeIndicator` starts the indicator from it: the modulus that a file
offers or the search finds is the one the polynomial is computed with. Words wrap;
the search is the two loops of `pickPlaintextModulus`, and wraps around past the last
suitable prime to a small one. Such electorates are started too, unless the search
never ends; `InReach` says for which there is a prime to find, and the property claims
nothing of a modulus searched for without one.

### Workload

`randUint64n` is the set of outcomes of its rejection loop. What the remaining
units of a row are spread over matters and the order in which they are drawn does
not, so `Spread` draws them at once. Draws, draining and restriction share main's
order. In `MCEchoReference` the schedule is then echoed: what comes out must be
what was drawn, and every voter who sends anything must have a majority.
`DelegatesDrawn` forgets the matrix, which the tally alone needs.

### Multiparty, CollectiveKey

Each loop over the parties is taken party by party. The arithmetic of a share is
lattigo's and is written over an arbitrary commutative ring without noise; that
each formula is the right one for the protocol is thereby checked as well, but it
is external code. What is this repository's own is the order of the rounds, which
aggregate a round starts from, which ephemeral key and which Galois element it
uses, where the refresh's loop begins and at which level its output is. `prefix` and
`ephemPrefix` are history: sums of the first parties' keys, by which
`EachShareOnce` says that after i - 1 turns exactly the first i - 1 parties have been
counted. `CollectiveKey` is the promise: keys, refreshes and decryptions of a
dealer who holds the sum. `GKGAggregate` keeps a quirk of the code: the error of
`AggregateShares` is dropped, so a share refused for its Galois element would
leave the combined share as it was.

### RunAccounting

All calls come from main's goroutine. Time is a tick per piece of work, and
`server` is history: the ticks of the open phase outside any protocol, against
which `summarize.py`'s difference is compared. `MCMultiparty` puts `Multiparty`'s
protocols into the phases of main: setup, echo with its refreshes (a phase that
returns every period), support with diagnostic decryptions in it and before it, and
the decryption of the result. A panic may come anywhere and runs the deferred
accounting of the protocol it interrupts.

### Progress

The module's definitions carry its name (`ProgressInit`, `ProgressSpec`), as those of
`Campaign` do, so that one proof module can extend both beside `MetricsRecorder`.
Loading the counter and painting it are two steps. `Finish` is one action per
statement, since the goroutine may run between them, and `sync.Once` makes a second
caller wait for the first. On a terminal `line` is replaced in place; elsewhere a
bar appends to the log.

### Campaign

The child process is what `MetricsRecorder` describes, reduced to how far it has
come, whether it panicked, and the two files the runner reads. It may end, panic,
fail without a trace, hang or be killed at any step; SIGTERM ends it only if it does
not hang. The runner may itself be killed, or interrupted outside `process.wait`,
and started again in a new directory: the process it leaves behind is the
`orphan`.

### MetricsRecorder

Four files stand for the eight the recorder writes. Creating (truncating) a file
and filling it are separate steps, because a kill can fall between them.
The lock is a variable only across steps; a critical section that touches nothing
but memory is one step guarded by the lock being free. `samples` carries as
history which phase had started, and how many had completed, when the memory was
measured.

## Runs

| Run | Instance | Shows |
|---|---|---|
| `echo_reference` | 3 voters, 3 candidates, 2 delegates, 3 periods, 4-bit words | totals count the latest accepted submissions; one majority; draws uniform, delegates distinct; the draining ends empty and the echo gives the draw back |
| `tree` | 1 to 33 leaves | frontier, grouping, completion |
| `periodic_echo` | t = 3; 1, 3, 5 periods with all inputs, 6 to 9 with one; intervals 1 to 4 | refinement, prefixes, depth bound, completion; depth, multiplications and refreshes as analysed |
| `period_inputs` | 3 voters, two packings, with and without sampling | the accumulators are the packed period |
| `submission_echo` | 2 voters, 2 candidates, 1 delegate, 3 periods | two masked echoes are the reference, submission by submission |
| `tally_pipeline` | 3 packings of up to 5 voters, t = 37, all delegation matrices | every phase and the result are the plaintext reference; rotations have keys |
| `lagrange_indicator` | 16 electorate sizes and powers up to 255, 2N of 2 and 4, all prime moduli below 256, up to 8 periods, 8-bit words | the modulus covers the power; coefficients are the majority indicator while products fit; the inverse exists |
| `multiparty` | 2 parties, 9 ring elements, 2 Galois elements, 2 levels, 5 phases, 38 ticks | shares, keys and decryption; the parties are a dealer; time and operations are attributed |
| `recorder` | 2 phases, 2 samples | final files, peaks, checkpoints, termination |
| `progress` | totals 0, 3 and 11, two callers of `Finish` | honest paints, one final line, nothing after it, `Finish` returns |
| `campaign` | 2 configurations of 1 warm-up and 2 repetitions, 2 runners | passed runs complete, in order, apart; the summary; an end |
| `recorder_race` | 2 phases | a comment the code does not keep (below) |

Bounds. Three periods let a submission be kept, replaced and cleared, and make a
majority (2 of 3) differ from a half. Thirty-three leaves cover every shape
around five powers of two. Five periods is the program's own default and the
smallest with an uneven tree of depth three. Modulo 3 masks need not be Boolean,
as in the repository's test. The packings of `tally_pipeline` have a partly filled
row with spare columns, a partly filled ciphertext, and both; powers are powers of
two, so that every sum tells which voters it is made of, and 37 is a prime barely
above their sum. Two phases and two samples are the least with a sample
that straddles a phase change and one that follows it; the setup phase is the
second, so that a checkpoint can precede the unlocked write. Two parties are the
least whose shares can be forgotten, doubled or exchanged, and the ring has zero
divisors, a true automorphism and no small coincidences among the secrets drawn;
38 ticks let at least two refreshes and two decryptions follow the setup, and
five phases let the echo's return. Words of 4 bits make the rejected remainder
different from zero for two and three outcomes; three voters let the shuffle's swap
matter. The sizes of `lagrange_indicator` have products just below, at and beyond a
word; of the 54 prime moduli that 8 bits hold, six have a square that fits and 31 are
below half the words, so each property is met on both sides of its limit. A total of 11 makes tenths that single and fourfold steps skip, hit
and overshoot. Two runners let one be killed and leave its process to the next;
two configurations put a warm-up after a measured run.

Properties are made of named parts where one question has several answers:
`DrawsAreFair` of `Uniform` and `Distinct`; `TallyIsExact` takes the type invariant
and `PowerIsConserved` along, so that a wrapped or doubled weight shows in the phase
that made it; `EachShareOnce` covers the keys made of the shares (`KeysAreValid`);
`ReportFollowsTheRun` is `ProtocolTimeIsAttributed` and `OpsFollowTheTimeline`;
`SummaryIsOfMeasuredRuns` includes `RowsFollowTheOrder`, `AccumulatesThePeriod`
includes `ReceivesWhatWasAnnounced`, and `IndicatesTheNodesDone` includes
`BasisSeparatesTheNode`. Each module's type invariant is either proved or part of one
of its run's invariants.

Deadlock is not checked where a specification ends: after T periods, after the
totals are taken, or once the process is gone.

Fairness. The tree and the echo are sequential code: weak fairness of the next
step says that the program goes on. In the recorder both goroutines are weakly
fair (the Go scheduler is preemptive and `sync.Mutex` hands over to a starving
waiter); a `select` with both a tick and the closed channel ready chooses at
random, which the bound on ticks stands for. Panics, kills and operation counts
are never forced. In `Progress` the render goroutine and each caller of `Finish` are
weakly fair, and the stop case strongly: `select` chooses at random between it and
a tick. Workers and the decision to call `Finish` are not forced. In `Campaign` the
runner is weakly fair, its timer fires, and a process that was sent SIGKILL dies;
nothing else is assumed of the process, so that it may hang.

## What the checks found

* Main writes `rec.meta.ParameterID` without the lock while the sampler may be
  encoding it (`recorder_race`): a data race, whose torn read can fault the sampler.

Two more statements of the repository do not hold in the models as they are worded;
no run states them. README.md:94-95 gives the tree's multiplication depth as
`ceil(log2(T))`: each leaf is already a product, so it is one more, as EXPERIMENTS.md
and `CostsAsAnalysed` have it. And a checkpoint truncates each file before rewriting
it, so a kill in between can lose phases that an earlier checkpoint had saved;
`AtMostOneFileIsLost` says that it is at most that one file. The comment in
`StartPhase` that the files on disk name the phase that started is not kept either:
they name completed phases, samples and operation counts.

## Proofs

`ArithmeticLemmas` carries what several proofs need. The laws of `+` and `*` modulo t
come from the definition of `%`. Induction over data is by least counterexample: a
set of subsets of a finite set, or of numbers, that is not empty has a smallest
member (`SmallestSubset`, proved from the cardinality of an interval), so
`SetInduction` and `NumberInduction` are stated of a set of sets or numbers, not
of an operator, and can be cited. `MapThenSumSet` chooses its fold; `AddsExists` and
`SumAdds` show by set induction that the fold it chooses from exists, and from that
come the lemmas by which sums are handled: `SumRemove`, `SumSame`, `SumMonotone`,
`SumPlus`, `SumOfOne`; then sums over pairs, in either order (`SumOfPairs`), over an
injective image (`SumInjected`) and reduced modulo t anywhere (`SumReduced`). The last
parts place voters in rows and ciphertexts by division (`Place`, `SlotAddress`,
`CiphertextExists`), for ingestion and tally alike, and collect what the polynomial needs of
divisibility and powers. The polynomial is evaluated with a recursive function for the powers
(`Power`), because the prover has no laws of `^`; `PowersExist` shows that such a function exists.

`EchoReferenceProofs` is about `EchoReference` alone and about `MCEchoReference`, where a
drawn or hand-written schedule is echoed and logged. Alone, the inductive invariant
is `TypeOK /\ TotalsShareThePeriods`. Two choices of one voter are never
echoed in the same period, so their totals add up to at most the closed periods, and
two totals above T div 2 would exceed T. Hence `AtMostOneMajority`, for all voters,
widths and T. With the log, `CurrentIsLatest` and `TotalsAreOfTheLog` are added, which
give `TotalsCountTheLatest`. With the workload, `WorkInv` says of every stage what has
been drawn: the shuffle so far is a permutation that begins with the delegates (`Shuffling`),
the counts still to drain and the units already scheduled add up to the draw
(`Draining`), and the component not yet reached is untouched (`Pending`); and
`LogIsScheduled` ties the log to the schedule. From these follow `EchoReturnsTheDraw`,
`SendersHaveMajorities` and `FairDraws`. Assumed: that widths and T are positive, and of
the drawn workload (`DimensionsAssumption`) that voters are numbered from zero, that
there are fewer delegates than voters, that T is odd, as main asserts, and that a
word exceeds the numbers of voters and of outcomes asked for.

`TreeProofs` is about the tree, for any number of leaves and any combine function.
`FrontierInv` says that there are places to cut the leaves pushed so far such that each
part of the frontier is the batch reduction of the leaves between two cuts, and that at each
cut a node is `Halved`: the part left of it is a left half, and its right half
`Awaits` leaves still to come. While a push walks down (`Walking`), the node it stands
on begins at a cut, and a turn to the right passes the next one (`TurnMeetsCut`), since two nodes of the
midpoint tree are nested or apart (`NodesNest`): so the counter is the number of parts
whose parent the new leaf completes, and while it merges (`Merging`) these are the last ones, in
the right order. Every part above the last is at most half of what is left, hence the
bound by the logarithm (`Room`). Between two pushes no two parts share a parent
that is complete, so the parts are the maximal completed subtrees (`PiecesAreMaximal`, `PiecesAreThose`):
`FrontierAlwaysMatches`. After the last leaf nothing is awaited any more, and one part is
left: `ResultIsTheBatchResult`. `FrontierIsMaximalComplete` alone is not inductive, as it says
nothing of a push under way. `NodesShape` and `ReduceRangeIs` show that the recursive functions exist.

`PeriodicEchoProofs`: `MergeComposes` says that the combine function of the tree
composes the transformations of the running state. With it the invariant (types, and
that every segment maps one prefix to the next) is inductive, and every step maps to
a step of `EchoEquation` or a stutter. The same invariant gives `InputsApplied`. Assumed:
t > 1, period counts and intervals positive, payloads and masks vectors of residues. Not
assumed: Boolean masks.

Its second half is about what the echo costs (`CostsAlwaysAsAnalysed`). The depths of a
segment depend on the depths of what was combined and never on slots, so the depths in the
frontier are a tree of their own: `ByDepth`, an instance of `TreeProofs` whose leaves and
combine function are those of `tree_depth` (`StepKeepsFrontier` and `ResultIsIt` are cited
through it). `ReducedAnywhere` shows that the depth of a reduced range depends on its length
alone, and is `tree_depth` of it; the multiplications follow from the merges done, which
are the leaves closed less the parts of the frontier (`TreeCosts`). In the sequential mode with
refreshes the carried depth counts the periods since the last refresh, the first stretch
being one longer because its first period already costs a multiplication, and nothing is
refreshed after the last period but one (`CollectiveCosts`). `CostsAsAnalysed` alone is not
inductive: it speaks of the end, and of the bound on the way but not of where in the
refresh interval the echo is.

`CiphertextProofs` has three parts, about what ciphertexts hold and what it takes to make
them: reception, protocols, accounting.

Reception: a block lies in one row, blocks are disjoint and no ciphertext
is empty, from the division lemmas, for all sizes for which a block fits into a row.
`PeriodIsAccumulated` rests on `InputsInv`: `InputsBuffers` says that a plaintext buffer is zero when a
part of the period begins to be written, and until it is cleared holds one voter's block;
`InputsAdded` that the accumulators are the packed values of the voters done so far. That
blocks are apart is what lets the second survive the addition of the next voter.

Protocols: for any number of parties, over any commutative ring with additive
automorphisms and for any list of Galois elements. The ring lemmas come first (cancellation, products
with negatives, and what two shares of each protocol add up to). The invariant has
a part for each thing a step relies on: `Stage` (which keys exist while which
protocol runs), `Sums` (the histories are the sums of the first keys), `Shares` (the
share of a party whose turn has come), `Empty` (nothing is aggregated before),
`Growing` (the aggregate is that of the first i - 1 parties) and `Whole` (and of all of
them at the end). `EachShareOnce` alone is not inductive: it says nothing of the
shares that are still to be added. From the invariant follow `EachShareOnce`,
`DecryptsToTheMessage` and, step by step, `ActsAsDealer`. Assumed: the ring laws, that keys
and masks are drawn from the ring, and that the mark for a missing key is not a
ring element.

Accounting, in `MCMultiparty`, whatever the ring and the sizes:
`ServerTimeIsSeparated` speaks of recorded phases only; `Balanced` is what makes it
inductive: the clock of an open phase is its start, the protocol time added since, the
server's ticks, and what the running protocol will still be charged (`Pending`).
`Attributed` adds that the components hold all the protocol time and that the recorded
phases have claimed no more of it than the open one started from. Hence
`ServerTimeIsAlwaysSeparated` and `ProtocolTimeIsAlwaysAttributed`, panics included.
For the rows of `ops.csv`, `Timeline` says that a phase's first record comes in the order of
its first start, with the open phase, if not yet recorded, after all the others; and that a phase
with operations has a record or is the open one. The last needs `RefreshInEcho`: a
refresh, which counts its operations while a protocol runs, is always inside the echo's
phase. `AscendingIs` shows that `Ascending` enumerates a finite set of numbers without gaps.
So at most one phase is left over for the end of the file, and it is the last in the
timeline: `ReportAlwaysFollowsTheRun`.

`MajorityProofs` has two parts. Of `SubmissionEcho` the invariant says of each block that it is all zero or
one-hot at the reference's standing choice, and of each total that it is the
reference's and at most the number of closed periods. The second is why T < t
matters: no total wraps. From it follow `BlocksOneHot`, `RefinesTheReference` and
`SubmissionsApplied`.

The other part is about the polynomial and its modulus. `LagrangeInv` follows the loops.
Between the factors (`Polynomials`, `BasisSeparatesTheNode`) the basis polynomial is zero at the nodes
multiplied in and equals the denominator at the node left out: `NextBasisIs` shows that
a turn multiplies its value at every x by x - j, and `PrimeDividesNoProduct` that the
denominator never becomes zero. In `modInverse` (`Cofactors`) the congruences are not inductive
enough: that the locals stay within the modulus needs that cofactors and remainders
make up the modulus and alternate in sign, and the assertion (the last remainder is
one, `EndsAtOne`) that what divides both remainders divides modulus and denominator. After a node
(`NodesDone`), adding the scaled polynomial changes the result at that node alone
(`AddedIs`, `InverseIs`). `EuclidInv` is the part of this that survives when products wrap:
a denominator is still a residue, and `DivideKeeps` needs no more than `ResiduesFit`.
Hence `IndicatorIsAlwaysExact`, for any word size, any prime whose square fits into a word
and any T below it, and `InverseIsAlwaysFound`, for any prime below half the words.
`ModulusAlwaysCoversThePower` is about every prime modulus below a word: the
overflow check makes the bound the true product, and up to the suitable prime that
`InReach` names no number the search looks at has wrapped. Assumed: `ModuliAssumption`
(a plaintext modulus is a prime and a word), positive sizes and 2N > 1.

`TallyPipelineProofs` has two invariants. For `RotationsHaveKeys`: setup goes through
voters by their global index, phase 4.6 ciphertext by ciphertext; the core is that
`Global(ct, i) % votersPerCiphertext = i`, and the invariant says that after setup the
rotations so far are among the keys.

For `TallyIsAlwaysExact` and `PhasesAlwaysMatch`, `TallyInv` says stage by stage what each
array holds, in the slots nobody decodes too. An array is `Placed(A, width, val)` when
the first `width` slots of every voter's block are the voter's values `val[v]` and all
other slots are zero. `PhasesMatchPlaintext` alone is not inductive: it leaves open what
a rotation brings in from the rest of the row. The proof has four parts.

- Geometry (`VoterPlace`, `Address`, `SlotOwner`): a slot belongs to at most one voter's
  block, at one offset, and to no other ciphertext.
- The evaluator: a sum of rotations, modulo t at every addition, is a sum over blocks
  and rows reduced once (`SumBlocksIs`), in either order of blocks and ciphertexts
  (`BlocksThenCiphertexts` for the support, `CiphertextsThenBlocks` for the product). In the
  leading slots it is the sum over the voters (`GatheredValue`); in every other slot, where
  the values of several offsets may overlap after a wrap around the row, it is at most
  the sum of everything that is packed (`GatheredBound`).
- Power: totals of a voter add up to at most T, so at most one choice has a majority
  (`OneMajority`), and a voter keeps its power or gives all of it to one delegate
  (`KeepsOrGives`). Delegates are distinct voters (`D` is injective), so what is given is
  received once (`ReceivesAre`), and the weights add up to the power of all voters
  (`WeightsAre`). That sum is below t, hence nothing wraps, in any slot.
- The phases, one lemma for what each computes (`BasePlaced`, `SupportComputed`, `SelfPlaced`,
  `DwPlaced`, `SpreadIs`, `ResultIs`) and one for its step. `SelfPlaced` is where the left-overs
  of the inner sum are blanked by the base-slot weights, `MovedIs` where the local index of
  phase 4.6 meets the voter's block, `SpreadIs` where a rotation to the right must find zeros
  in the slots before the base slot of the same block.

Assumed: two rows, and no more candidates or delegates than columns (`SizesAssumption`); T
positive; that a voter's totals share T periods (`TotalsAssumption`, which
`MajorityProofs` and `EchoReferenceProofs` prove of the echo that is taken as given
here); positive powers; and T and the sum of the powers below t (`ModulusAssumption`,
which main asserts).

`InstrumentationProofs` has a part for each of three modules.
For the recorder, with any number of phases and samples, the invariant says in
`Control` who holds the lock and who may have a file open at each point of main and
of the sampler, in `Final` that the files main has finished with are whole and equal to
memory, in `Writing` and `OnePartial` that a cut file is the one some goroutine has open, or
the one open when the process was killed, in `Saved` that the phases on disk never fall behind the last
checkpoint, and in `Peaks` that a running phase counts its samples from its own
start. `Control` is needed by all of them: the final files are written without the
lock, and are safe only because the sampler has returned. Assumed: `BoundsAssumption`.
For the displays, with any totals and callers, `DisplayInv` says which caller is inside
`stopOnce`, what the goroutine has loaded and not yet painted (`Painting`), and how far
closing has come (`Closing`, `Closed`): the last line is painted by a caller only after
the goroutine has returned, so no paint can follow it (`FinishCloses`), and the counter
only grows between a load and its paint (`DisplayLogAdvances`, `DisplayPaintsInOrder`).
For the campaign, with any configurations, `RunsInv` says where the runner is
(`RunnerControl`), what it may conclude of a process that has ended (`Ended`) and that the
rows so far are the order's beginning (`RowsSoFar`); `PassedRunsComplete`, `RunsDoNotOverlap`
and `SummaryIsComplete` follow.

Every invariant and every action property of a passing run is proved. Only model-checked is
liveness (completion of the tree and the echo, the recorder's, the displays' and the
campaign's end), which needs ENABLED.

## Not modelled

Noise and the budget it leaves (`experiment_diagnostics.go` measures it on real
ciphertexts with the joined key), lattigo's own arithmetic except as the formulas
of `Multiparty`, the reading of memory and processor figures from the operating
system, sizes of serialized ciphertexts, parsing, formatting and printing, the
medians and projections of the summary, and the scripts that generate, screen and
plot experiments: they compute from inputs to outputs without state, or depend on
values no finite model has. `randomDelegationVector` is called by nothing. Aliasing of
ciphertext pointers in the echo was looked at and left out: `ClosePeriod` builds
new ciphertexts wherever it later writes in place. See the component list in
`PROJECT.json` for each part and reason.

## Plan

Done: the echo with both modes and its promises, the workload that drives it,
ingestion, the composition of the two, the tally, the majority polynomial and its
modulus, the multiparty protocols with their promise and their accounting, the
recorder, the displays and the campaign; and the proofs above. What would come next is
outside this model: ciphertext noise, for which the depth proved here is the
input.
