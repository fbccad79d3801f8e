------------------------ MODULE IncrementalBalanced ------------------------
(***************************************************************************)
(* The incremental balanced tree of src/periodic_echo.go                   *)
(* (incrementalBalanced): leaves are pushed one at a time, and a node of   *)
(* the midpoint tree over 0 .. total-1 is merged as soon as its rightmost  *)
(* leaf arrives.  Push is three loops run to the end one after another:    *)
(* the append (Push), the walk down the midpoint path that counts the      *)
(* ancestors ending at this leaf (Descend), and the merges (Merge, which   *)
(* ends by Arrived).                                                       *)
(*                                                                         *)
(* The module is used twice: by itself on symbolic leaves, and inside      *)
(* PeriodicEcho on echo segments.                                          *)
(***************************************************************************)
EXTENDS Integers, Sequences

CONSTANTS
    Combine(_, _),   \* the struct's combine function
    Leaf(_),         \* the value pushed as leaf i, when the module runs alone
    Totals           \* the leaf counts the tree is built for

ASSUME TotalsAssumption == Totals \subseteq Nat \ {0}

VARIABLES
    total,      \* leaves expected; fixed when the tree is made
    received,   \* leaves pushed and merged
    frontier,   \* completed subtrees, leftmost first
    merges,     \* merges the current Push owes
    lo, hi,     \* the node the walk of the current Push has reached
    pc          \* "idle" between two calls of Push

treeVars == <<total, received, frontier, merges, lo, hi, pc>>

TreeTypeOK ==
    /\ total \in Totals
    /\ received \in 0 .. total
    /\ merges \in Nat
    /\ lo \in Int /\ hi \in Int
    /\ pc \in {"idle", "descend", "merge"}
    /\ Len(frontier) \in 0 .. received + 1

TreeInit ==
    /\ total \in Totals
    /\ received = 0 /\ frontier = <<>>
    /\ merges = 0 /\ lo = 0 /\ hi = 0
    /\ pc = "idle"

(* The assertion of Push.                                                  *)
Expected == received < total

Push(value) ==
    /\ pc = "idle" /\ Expected
    /\ frontier' = Append(frontier, value)
    /\ merges' = 0 /\ lo' = 0 /\ hi' = total - 1
    /\ pc' = "descend"
    /\ UNCHANGED <<total, received>>

(* A slip: the left part of an odd range gets the smaller half.            *)
MidTooLow == (lo + hi - 1) \div 2

Mid == (lo + hi) \div 2

(* A slip: merging is put off until the last leaf of all.                  *)
EndsTheTree == hi = received /\ received = total - 1

(* A slip: received is read as if it had been incremented.                 *)
EndsAtTheNextLeaf == hi = received + 1

(* The node the walk stands on has just received its right child.          *)
EndsHere == hi = received

Descend ==
    /\ pc = "descend" /\ lo < hi
    /\ merges' = IF EndsHere THEN merges + 1 ELSE merges
    /\ IF received <= Mid THEN hi' = Mid /\ lo' = lo
                          ELSE lo' = Mid + 1 /\ hi' = hi
    /\ UNCHANGED <<total, received, frontier, pc>>

Counted ==
    /\ pc = "descend" /\ lo >= hi
    /\ pc' = "merge"
    /\ UNCHANGED <<total, received, frontier, merges, lo, hi>>

(* The last two subtrees become one; indexing them panics when there are   *)
(* fewer, which the guard turns into a step that is never possible.        *)
Merge ==
    /\ pc = "merge" /\ merges > 0
    /\ Len(frontier) >= 2
    /\ LET n == Len(frontier)
       IN  frontier' = Append(SubSeq(frontier, 1, n - 2),
                              Combine(frontier[n - 1], frontier[n]))
    /\ merges' = merges - 1
    /\ UNCHANGED <<total, received, lo, hi, pc>>

Arrived ==
    /\ pc = "merge" /\ merges = 0
    /\ received' = received + 1
    /\ pc' = "idle"
    /\ UNCHANGED <<total, frontier, merges, lo, hi>>

(* The assertion of Result, and the value it returns.                      *)
ResultReady == pc = "idle" /\ received = total /\ Len(frontier) = 1
Result == frontier[1]

Step == Descend \/ Counted \/ Merge \/ Arrived

TreeNext == Push(Leaf(received)) \/ Step

TreeSpec == TreeInit /\ [][TreeNext]_treeVars /\ WF_treeVars(TreeNext)
=============================================================================
