--------------------------- MODULE MCPeriodInputs ---------------------------
(***************************************************************************)
(* Three voters: in both rows of one ciphertext with columns to spare, and *)
(* over two ciphertexts, the second one half empty; each component wider   *)
(* than the other once.                                                    *)
(***************************************************************************)
EXTENDS PeriodInputs

MCSizes == { [n |-> 3, b |-> 2, k |-> 1, rows |-> 2, cols |-> 5],
             [n |-> 3, b |-> 1, k |-> 2, rows |-> 2, cols |-> 3] }
=============================================================================
