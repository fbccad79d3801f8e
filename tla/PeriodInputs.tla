---------------------------- MODULE PeriodInputs ----------------------------
(***************************************************************************)
(* The reception of one period: streamAndAggregatePeriodInputs of          *)
(* src/tally_inputs.go, after restrictBenchmarkSubmissions in benchmark    *)
(* mode. Voter by voter and component by component a reused plaintext      *)
(* buffer is set, encoded, encrypted and added to the period's             *)
(* accumulator, and cleared again.  Encoding takes the buffer's value, and *)
(* encryption is the identity on slots.  Slots hold 0 or 1, so that no sum *)
(* wraps around the plaintext modulus.                                     *)
(***************************************************************************)
EXTENDS Submissions, Packing, FiniteSets

CONSTANT Sizes     \* records of n, b, k, rows and cols

ASSUME SizesAssumption ==
    \A z \in Sizes : /\ {z.n, z.b, z.k, z.rows, z.cols} \subseteq Nat \ {0}
                     /\ z.b <= z.cols /\ z.k <= z.cols

Part == {"candidate", "delegation", "mask"}

VARIABLES
    size,        \* the run's sizes
    samples,     \* benchmarkSampleVoters, 0 when not in benchmark mode
    period,      \* "first" or "later"
    submitted,   \* submitted[v]: what voter v's client sends this period
    voter,       \* the voter being received
    part, step,  \* which of its three ciphertexts, and how far it is
    slotBuf, rangeMaskBuf,    \* the reused buffers
    acc,         \* acc[part][ct]: slots of the accumulators
    received,    \* inputCiphertextCount, also the progress bar's count
    announced    \* the progress bar's total

config == <<size, samples, period, submitted, announced>>
inputsVars == <<config, voter, part, step, slotBuf, rangeMaskBuf, acc, received>>

blockSize(z) == IF z.b >= z.k THEN z.b ELSE z.k
layoutOf(z) == computePackingLayout(z.n, blockSize(z), z.rows, z.cols)
widths(z) == [candidate |-> z.b, delegation |-> z.k]

layout == layoutOf(size)
Start(v) == blockStart(layout, blockSize(size), v)
Blank(z) == [s \in SlotsOf(layoutOf(z)) |-> 0]

(* The voters the loop visits.                                             *)
votersToProcess(z, sample, p) ==
    IF sample = 0 THEN z.n ELSE IF p = "first" THEN sample ELSE 0

Voters(z) == 0 .. z.n - 1

(* A slip: benchmark mode keeps the schedules of later periods.            *)
KeepsLaterPeriods(schedule, sample, p) ==
    [v \in DOMAIN schedule |->
        IF sample > 0 /\ v >= sample
        THEN [candidate |-> noSubmission, delegation |-> noSubmission]
        ELSE schedule[v]]

restrictBenchmarkSubmissions(schedule, sample, p) ==
    [v \in DOMAIN schedule |->
        IF sample > 0 /\ (p = "later" \/ v >= sample)
        THEN [candidate |-> noSubmission, delegation |-> noSubmission]
        ELSE schedule[v]]

Slotwise(z) == [SlotsOf(layoutOf(z)) -> Nat]

InputsTypeOK ==
    /\ size \in Sizes /\ samples \in 0 .. size.n /\ period \in {"first", "later"}
    /\ submitted \in [Voters(size) -> SubmissionsOf(widths(size))]
    /\ voter \in 0 .. votersToProcess(size, samples, period)
    /\ part \in Part /\ step \in {"set", "add", "clear"}
    /\ slotBuf \in [SlotsOf(layout) -> {0, 1}]
    /\ rangeMaskBuf \in [SlotsOf(layout) -> {0, 1}]
    /\ DOMAIN acc = Part
    /\ \A p \in Part : acc[p] \in [Ciphertexts(layout) -> [SlotsOf(layout) -> {0, 1}]]
    /\ received \in Nat /\ announced \in Nat

InputsInit ==
    /\ size \in Sizes /\ samples \in 0 .. size.n /\ period \in {"first", "later"}
    /\ \E schedule \in [Voters(size) -> SubmissionsOf(widths(size))] :
          submitted = restrictBenchmarkSubmissions(schedule, samples, period)
    /\ voter = 0 /\ part = "candidate" /\ step = "set"
    /\ slotBuf = Blank(size) /\ rangeMaskBuf = Blank(size)
    /\ acc = [p \in Part |-> [ct \in Ciphertexts(layout) |-> Blank(size)]]
    /\ received = 0
    /\ announced = 3 * Cardinality({v \in 0 .. votersToProcess(size, samples, period) - 1 :
                                       ~NothingSent(submitted[v])})

Visiting == voter < votersToProcess(size, samples, period)

(* continue: a voter who sends nothing.                                    *)
Skip ==
    /\ Visiting /\ part = "candidate" /\ step = "set" /\ NothingSent(submitted[voter])
    /\ voter' = voter + 1
    /\ UNCHANGED <<config, part, step, slotBuf, rangeMaskBuf, acc, received>>

(* Write a choice into slotBuf, or the mask into its whole block.          *)
Written(buf, value) ==
    IF part = "mask"
    THEN [s \in DOMAIN buf |->
             IF s \in Block(layout, blockSize(size), voter) THEN value ELSE buf[s]]
    ELSE IF submitted[voter][part] >= 0
         THEN [buf EXCEPT ![Start(voter) + submitted[voter][part]] = value]
         ELSE buf

Set ==
    /\ Visiting /\ step = "set"
    /\ part = "candidate" => ~NothingSent(submitted[voter])
    /\ IF part = "mask"
       THEN /\ rangeMaskBuf' = Written(rangeMaskBuf, submissionMask(submitted[voter]))
            /\ UNCHANGED slotBuf
       ELSE slotBuf' = Written(slotBuf, 1) /\ UNCHANGED rangeMaskBuf
    /\ step' = "add"
    /\ UNCHANGED <<config, voter, part, acc, received>>

(* A slip: an all-zero ciphertext is not worth adding.                     *)
CountsRealOnly == received + submissionMask(submitted[voter])

OneMore == received + 1

(* encryptAndAccumulate *)
Add ==
    /\ step = "add"
    /\ LET buf == IF part = "mask" THEN rangeMaskBuf ELSE slotBuf
       IN  acc' = [acc EXCEPT ![part][ctIdx(layout, voter)] =
                      [s \in SlotsOf(layout) |-> @[s] + buf[s]]]
    /\ received' = OneMore
    /\ step' = "clear"
    /\ UNCHANGED <<config, voter, part, slotBuf, rangeMaskBuf>>

(* A slip: the buffer keeps the choice.                                    *)
KeepsTheSlots(buf) == buf

Cleared(buf) == Written(buf, 0)

Clear ==
    /\ step = "clear"
    /\ IF part = "mask"
       THEN rangeMaskBuf' = Cleared(rangeMaskBuf) /\ UNCHANGED slotBuf
       ELSE slotBuf' = Cleared(slotBuf) /\ UNCHANGED rangeMaskBuf
    /\ step' = "set"
    /\ CASE part = "candidate" -> part' = "delegation" /\ voter' = voter
         [] part = "delegation" -> part' = "mask" /\ voter' = voter
         [] part = "mask" -> part' = "candidate" /\ voter' = voter + 1
    /\ UNCHANGED <<config, acc, received>>

InputsNext == Skip \/ Set \/ Add \/ Clear

InputsSpec == InputsInit /\ [][InputsNext]_inputsVars

----------------------------------------------------------------------------

(* Voters whose part p has been added.                                     *)
Rank(p) == CASE p = "candidate" -> 0 [] p = "delegation" -> 1 [] p = "mask" -> 2
Counted(p) ==
    {v \in Voters(size) :
        \/ v < voter
        \/ v = voter /\ Visiting /\ Rank(p) < Rank(part)
        \/ v = voter /\ Visiting /\ p = part /\ step = "clear"}

(* What periodPlain puts into a voter's block.                             *)
PlainSlot(p, v, offset) ==
    IF p = "mask" THEN submissionMask(submitted[v]) ELSE payloadSlot(submitted[v], p, offset)

(* As many ciphertexts are received as the progress bar announces, and an  *)
(* all-zero submission sends as many as a real one.                        *)
ReceivesWhatWasAnnounced ==
    /\ received = Cardinality({sent \in Part \X Voters(size) :
                                  sent[2] \in Counted(sent[1]) /\ ~NothingSent(submitted[sent[2]])})
    /\ received <= announced
    /\ ~Visiting => received = announced

(* The accumulators hold the packed period of periodPlain, voters counted  *)
(* so far: each voter's block has that voter's payload and mask, nothing   *)
(* left in a buffer by an earlier voter, and slots outside all blocks stay *)
(* zero. At the end no voter with a submission has been passed over, in    *)
(* benchmark mode neither, and the ciphertexts announced have all come.    *)
AccumulatesThePeriod ==
    /\ InputsTypeOK /\ ReceivesWhatWasAnnounced
    /\ \A p \in Part : \A ct \in Ciphertexts(layout), s \in SlotsOf(layout) :
          acc[p][ct][s] =
             LET owner == {v \in Counted(p) : ctIdx(layout, v) = ct
                                              /\ s \in Block(layout, blockSize(size), v)}
             IN  IF owner = {} THEN 0
                 ELSE LET v == CHOOSE o \in owner : TRUE
                      IN  PlainSlot(p, v, s - Start(v))
    /\ ~Visiting => \A v \in Voters(size) : v \in Counted("mask") \/ NothingSent(submitted[v])

(* Every voter's block lies in one row of an existing ciphertext, no two   *)
(* voters share a slot, and no ciphertext is allocated without a voter:    *)
(* rotations within a row, the base-slot mask and the per-ciphertext loops *)
(* of main take this for granted.                                          *)
BlocksAreApart ==
    LET block(v) == Block(layout, blockSize(size), v)
    IN  /\ \A v \in Voters(size) :
              /\ ctIdx(layout, v) \in Ciphertexts(layout)
              /\ \E row \in 0 .. size.rows - 1 :
                    block(v) \subseteq row * size.cols .. (row + 1) * size.cols - 1
        /\ \A v, w \in Voters(size) :
              v # w /\ ctIdx(layout, v) = ctIdx(layout, w) => block(v) \cap block(w) = {}
        /\ \A ct \in Ciphertexts(layout) : votersInCt(layout, size.n, ct) > 0
=============================================================================
