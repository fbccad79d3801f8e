------------------------ MODULE MCLagrangeIndicator ------------------------
(***************************************************************************)
(* The indicator modulo every prime below a word that experimentLiteral    *)
(* accepts or finds, the ones whose square wraps around included.          *)
(***************************************************************************)
EXTENDS ExperimentParameters

MCModuli == {m \in 2 .. Word - 1 : IsPrime(m)}

(* Small electorates, and pairs whose product is next to a word or beyond.  *)
MCSizes == {1, 2, 3, 5, 6, 11, 13, 15, 16, 17, 84, 85, 127, 128, 254, 255}

MCInit == ParametersInit /\ LagrangeInit

MCSpec == MCInit /\ [][LagrangeNext /\ UNCHANGED parameters]_<<lagrange, parameters>>
=============================================================================
