-------------------------- MODULE MCTallyPipeline --------------------------
(***************************************************************************)
(* Three voters in both rows of one ciphertext, the second half filled and *)
(* columns to spare; three voters over two ciphertexts; and five voters in *)
(* both ways at once.  Powers are such that every sum tells which voters   *)
(* it is made of.                                                          *)
(***************************************************************************)
EXTENDS TallyPipeline

MCSizes == { [n |-> 3, b |-> 2, k |-> 2, rows |-> 2, cols |-> 5],
             [n |-> 3, b |-> 1, k |-> 2, rows |-> 2, cols |-> 3],
             [n |-> 5, b |-> 1, k |-> 1, rows |-> 2, cols |-> 2] }

(* No majority, and a bare or a full majority for one of the choices.      *)
MCTotalsOf(width) ==
    IF width = 1 THEN {[s \in {0} |-> x] : x \in {1, 2}}
    ELSE {[s \in 0 .. width - 1 |-> IF s < 2 THEN x[s + 1] ELSE 0] :
              x \in {<<1, 1>>, <<2, 1>>, <<0, 3>>}}

MCPowers == {[v \in 0 .. 4 |-> 2 ^ v]}
=============================================================================
