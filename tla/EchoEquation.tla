---------------------------- MODULE EchoEquation ----------------------------
(***************************************************************************)
(* What one periodicEchoState promises, whatever its mode: the relation    *)
(*                                                                         *)
(*     u^p = u^(p-1) * (1 - z^p) + input^p * z^p                           *)
(*     total^p = total^(p-1) + u^p                                         *)
(*                                                                         *)
(* slot by slot and modulo the plaintext modulus, and the publication of   *)
(* the totals once all periods are closed.  The relation is the one        *)
(* TestEchoGatesAggregatedPayloads (src/periodic_echo_test.go) evaluates   *)
(* next to the encrypted echo.                                             *)
(***************************************************************************)
EXTENDS Integers

CONSTANTS
    Slots,          \* the slots of a packed period
    Modulus,        \* the plaintext modulus t
    PeriodCounts,   \* the numbers of periods T considered
    Payloads,       \* the packed payloads a period may close with
    Masks           \* the packed masks a period may close with

Residue == 0 .. Modulus - 1
Vector == [Slots -> Residue]
Zero == [s \in Slots |-> 0]

VARIABLES
    periods,   \* T
    closed,    \* periods closed so far
    u,         \* the current value of every slot
    total,     \* the echoed total of every slot
    done,      \* the totals have been taken
    result     \* the totals taken

vars == <<periods, closed, u, total, done, result>>

Init ==
    /\ periods \in PeriodCounts
    /\ closed = 0 /\ u = Zero /\ total = Zero
    /\ done = FALSE /\ result = Zero

(* A slip: the new input is added to the value it should replace.          *)
AddsToTheOld(x, z, s) == (u[s] + x[s] * z[s]) % Modulus

EchoValue(x, z, s) == (u[s] * (1 - z[s]) + x[s] * z[s]) % Modulus

Close(x, z) ==
    /\ closed < periods
    /\ closed' = closed + 1
    /\ u' = [s \in Slots |-> EchoValue(x, z, s)]
    /\ total' = [s \in Slots |-> (total[s] + EchoValue(x, z, s)) % Modulus]
    /\ UNCHANGED <<periods, done, result>>

Publish ==
    /\ closed = periods /\ ~done
    /\ done' = TRUE /\ result' = total
    /\ UNCHANGED <<periods, closed, u, total>>

Next == (\E x \in Payloads, z \in Masks : Close(x, z)) \/ Publish

Spec == Init /\ [][Next]_vars
=============================================================================
