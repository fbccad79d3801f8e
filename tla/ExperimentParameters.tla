------------------------ MODULE ExperimentParameters ------------------------
(***************************************************************************)
(* Where the plaintext modulus comes from: experimentLiteral of            *)
(* src/experiment_parameters.go accepts the one of a parameter file or has *)
(* pickPlaintextModulus of src/helpers.go search for one, so that the      *)
(* power of all voters together fits below it.  Words are unsigned and     *)
(* wrap at 2^WordBits; that a file's modulus suits the ring is left to     *)
(* lattigo.                                                                *)
(***************************************************************************)
EXTENDS LagrangeIndicator

CONSTANTS
    NthRoots,    \* values of 2N considered, N the ring degree
    Sizes        \* numbers of voters and greatest powers considered

ASSUME ParametersAssumption ==
    /\ NthRoots \subseteq Nat \ {0, 1}
    /\ Sizes \subseteq 1 .. Word - 1

VARIABLES
    n, qmax,    \* voters, and the greatest initial power of one
    twoN,       \* 2N
    offered     \* the modulus in the parameter file, or 0 without a file

parameters == <<n, qmax, twoN, offered>>

(* A slip: the product is not checked for overflow.                        *)
NoOverflow == TRUE

Fits == n <= (Word - 2) \div qmax

bound == (n * qmax) % Word

(* The i-th number the search looks at.                                    *)
Examined(k) == (1 + k * twoN) % Word

(* A slip: the search starts at the bound itself.                          *)
FromTheBound(k) == Examined(k) >= bound

LargeEnough(k) == Examined(k) >= bound + 1

(* Where the search for a prime begins and may stop.                       *)
Reached == {k \in 1 .. Word : LargeEnough(k)}
Stops(first) == {k \in first .. first + Word : IsPrime(Examined(k))}

pickPlaintextModulus == Examined(Sets!Min(Stops(Sets!Min(Reached))))

(* Otherwise the search goes round for ever.                               *)
SearchEnds == Reached # {} /\ Stops(0) # {}

ParametersInit ==
    /\ n \in Sizes /\ qmax \in Sizes /\ Fits
    /\ twoN \in NthRoots
    /\ \/ offered = 0 /\ SearchEnds /\ modulus = pickPlaintextModulus
       \/ offered \in Moduli /\ offered > bound /\ modulus = offered

----------------------------------------------------------------------------

(* There is a word that the search may stop at before it wraps around.      *)
InReach == \E p \in bound + 1 .. Word - 1 : p % twoN = 1 /\ IsPrime(p)

(* No tally can exceed the modulus: the power of all voters together, as   *)
(* an integer and not as a word, is below it, for every electorate and     *)
(* every modulus that experimentLiteral accepts, and every modulus found   *)
(* by a search that has a prime to find.                                   *)
ModulusCoversThePower == offered # 0 \/ InReach => n * qmax < modulus
=============================================================================
