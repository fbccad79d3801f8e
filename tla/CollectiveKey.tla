--------------------------- MODULE CollectiveKey ---------------------------
(***************************************************************************)
(* What the multiparty protocols of src/multiparty_helpers.go promise:     *)
(* keys, refreshes and decryptions as a single holder of the whole secret  *)
(* would make them.  A key is a pair of ring elements that hides, under    *)
(* the secret S, a function of S; noise is left out, so a ciphertext       *)
(* (c0, c1) stands for the plaintext c0 + S c1.                            *)
(***************************************************************************)
EXTENDS Integers, Sequences

CONSTANTS
    R, zero,                          \* the ring of polynomials and its zero
    Plus(_, _), Minus(_), Times(_, _),
    Image(_, _),                       \* Image(g, x): x under the automorphism g
    w,                                \* the gadget factor of evaluation keys
    GalEls,                           \* the Galois elements, in order
    MaxLevel                          \* the level of a fresh ciphertext

VARIABLES
    secret,     \* S, or NoKey
    pk, rlk,    \* the public and the relinearization key, or NoKey
    gks,        \* the Galois keys made so far
    ct, level,  \* the ciphertext being worked on, or NoKey, and its level
    opened      \* what it was decrypted to, or NoKey

vars == <<secret, pk, rlk, gks, ct, level, opened>>

NoKey == <<>>

(* The pair hides x under s: it is -a s + x beside a.                      *)
Hides(pair, s, x) ==
    pair[1] \in R /\ pair[2] \in R /\ Plus(pair[1], Times(pair[2], s)) = x

Plaintext(c) == Plus(c[1], Times(c[2], secret))

Init ==
    /\ secret = NoKey /\ pk = NoKey /\ rlk = NoKey /\ gks = <<>>
    /\ ct = NoKey /\ level = MaxLevel /\ opened = NoKey

Agree ==
    /\ secret = NoKey /\ secret' \in R
    /\ UNCHANGED <<pk, rlk, gks, ct, level, opened>>

PublishPublicKey ==
    /\ secret # NoKey /\ pk = NoKey
    /\ pk' \in R \X R /\ Hides(pk', secret, zero)
    /\ UNCHANGED <<secret, rlk, gks, ct, level, opened>>

PublishRelinKey ==
    /\ pk # NoKey /\ rlk = NoKey
    /\ rlk' \in R \X R /\ Hides(rlk', secret, Times(Times(secret, secret), w))
    /\ UNCHANGED <<secret, pk, gks, ct, level, opened>>

PublishGaloisKey ==
    /\ rlk # NoKey /\ Len(gks) < Len(GalEls)
    /\ \E key \in R \X R :
          /\ Hides(key, Image(GalEls[Len(gks) + 1], secret), Times(secret, w))
          /\ gks' = Append(gks, key)
    /\ UNCHANGED <<secret, pk, rlk, ct, level, opened>>

Encrypt ==
    /\ Len(gks) = Len(GalEls) /\ ct = NoKey
    /\ ct' \in R \X R
    /\ UNCHANGED <<secret, pk, rlk, gks, level, opened>>

Evaluate ==
    /\ ct # NoKey
    /\ level' \in 0 .. level
    /\ UNCHANGED <<secret, pk, rlk, gks, ct, opened>>

(* Another ciphertext of the same plaintext, at the highest level.         *)
Refresh ==
    /\ ct # NoKey
    /\ ct' \in R \X R /\ Plaintext(ct') = Plaintext(ct)
    /\ level' = MaxLevel
    /\ UNCHANGED <<secret, pk, rlk, gks, opened>>

Decrypt ==
    /\ ct # NoKey
    /\ opened' = Plaintext(ct)
    /\ UNCHANGED <<secret, pk, rlk, gks, ct, level>>

Next ==
    \/ Agree \/ PublishPublicKey \/ PublishRelinKey \/ PublishGaloisKey
    \/ Encrypt \/ Evaluate \/ Refresh \/ Decrypt

Spec == Init /\ [][Next]_vars
=============================================================================
