------------------------------ MODULE Packing ------------------------------
(***************************************************************************)
(* computePackingLayout of src/helpers.go and the block arithmetic that    *)
(* tally_inputs.go and main.go repeat: every voter owns a block of         *)
(* consecutive slots in one row of one ciphertext. Slots of a ciphertext   *)
(* are numbered row after row.                                             *)
(***************************************************************************)
EXTENDS Integers

ceilDiv(n, d) == IF n = 0 THEN 0 ELSE 1 + (n - 1) \div d

computePackingLayout(voterCount, blockSize, rows, cols) ==
    LET perRow == cols \div blockSize
        totalRows == ceilDiv(voterCount, perRow)
    IN  [rowsPerCiphertext |-> rows, colsPerCiphertext |-> cols,
         votersPerRow |-> perRow, votersPerCiphertext |-> rows * perRow,
         totalRows |-> totalRows, ciphertextCount |-> ceilDiv(totalRows, rows)]

MaxSlots(layout) == layout.rowsPerCiphertext * layout.colsPerCiphertext
SlotsOf(layout) == 0 .. MaxSlots(layout) - 1
Ciphertexts(layout) == 0 .. layout.ciphertextCount - 1

ctIdx(layout, voter) == voter \div layout.votersPerCiphertext
localIdx(layout, voter) == voter % layout.votersPerCiphertext

(* A slip: blocks are counted as if a ciphertext were a single row.        *)
RowlessStart(layout, blockSize, voter) == localIdx(layout, voter) * blockSize

blockStart(layout, blockSize, voter) ==
    (localIdx(layout, voter) \div layout.votersPerRow) * layout.colsPerCiphertext
        + (localIdx(layout, voter) % layout.votersPerRow) * blockSize

Block(layout, blockSize, voter) ==
    {blockStart(layout, blockSize, voter) + offset : offset \in 0 .. blockSize - 1}

(* The voters of one ciphertext, as main counts them.                      *)
votersInCt(layout, voterCount, ct) ==
    LET left == voterCount - ct * layout.votersPerCiphertext
    IN  IF left < layout.votersPerCiphertext THEN left ELSE layout.votersPerCiphertext
=============================================================================
