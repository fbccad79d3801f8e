----------------------------- MODULE Multiparty -----------------------------
(***************************************************************************)
(* The multiparty protocols of src/multiparty_helpers.go in the order main *)
(* runs them: generation of the parties' secrets, of the collective        *)
(* public, relinearization and Galois keys, then refreshes and threshold   *)
(* decryptions.  Each loop over the parties is taken turn by turn.  What   *)
(* lattigo computes in a share is external and written without its noise,  *)
(* over any commutative ring; evaluation keys have one gadget factor w     *)
(* where lattigo has a vector of them.                                     *)
(***************************************************************************)
EXTENDS Integers, Sequences

CONSTANTS
    R, zero, Plus(_, _), Minus(_), Times(_, _), Image(_, _), w,   \* as in CollectiveKey
    GalEls, MaxLevel,
    N,            \* number of parties
    Secrets,      \* what secret and ephemeral keys are drawn from
    Randoms,      \* what common reference polynomials and masks are drawn from
    Messages      \* plaintexts to encrypt

ASSUME PartiesAssumption == N \in Nat \ {0}
ASSUME SamplesAssumption ==
    Secrets \subseteq R /\ Randoms \subseteq R /\ Messages \subseteq R
ASSUME LevelAssumption == MaxLevel \in Nat
ASSUME GalElsAssumption == GalEls \in Seq(Nat)

(* A commutative ring with automorphisms.                                  *)
ASSUME ClosureAssumption ==
    /\ zero \in R /\ w \in R
    /\ \A x \in R : Minus(x) \in R
    /\ \A x, y \in R : Plus(x, y) \in R /\ Times(x, y) \in R
ASSUME PlusAssumption ==
    /\ \A x \in R : Plus(x, zero) = x /\ Plus(x, Minus(x)) = zero
    /\ \A x, y \in R : Plus(x, y) = Plus(y, x)
    /\ \A x, y, z \in R : Plus(Plus(x, y), z) = Plus(x, Plus(y, z))
ASSUME TimesAssumption ==
    /\ \A x, y \in R : Times(x, y) = Times(y, x)
    /\ \A x, y, z \in R : Times(Times(x, y), z) = Times(x, Times(y, z))
    /\ \A x, y, z \in R : Times(x, Plus(y, z)) = Plus(Times(x, y), Times(x, z))
ASSUME ImageAssumption ==
    \A i \in DOMAIN GalEls : \A x, y \in R :
        /\ Image(GalEls[i], x) \in R
        /\ Image(GalEls[i], Plus(x, y)) = Plus(Image(GalEls[i], x), Image(GalEls[i], y))

Party == 1 .. N
NoKey == <<>>

ASSUME NoKeyAssumption == NoKey \notin R

VARIABLES
    pc, i,              \* where the running protocol is; the next party of its loop
    sk, ephem,          \* the parties' secret and ephemeral keys
    crp,                \* the common reference polynomial of the protocol
    shareA, shareB,     \* the parties' shares: one polynomial or two
    combA, combB,       \* the combined share
    element,            \* GaloisElement of the combined share
    h0, h1,             \* the combined share of round one
    pk, rlk, gks, ct, level, opened,   \* as in CollectiveKey
    prefix, ephemPrefix,\* history: sums of the first keys
    message             \* history: what was encrypted

keys == <<pk, rlk, gks>>
cipher == <<ct, level, opened, message>>
secrets == <<sk, ephem, prefix, ephemPrefix>>
combined == <<combA, combB, element>>
rounds == <<h0, h1>>
vars == <<pc, i, secrets, crp, shareA, shareB, combined, rounds, keys, cipher>>

NoShares == [p \in Party |-> zero]
Sub(x, y) == Plus(x, Minus(y))

Init ==
    /\ pc = "genparties" /\ i = 1
    /\ sk = NoShares /\ ephem = NoShares /\ crp = zero
    /\ shareA = NoShares /\ shareB = NoShares
    /\ combA = zero /\ combB = zero /\ element = 0
    /\ h0 = zero /\ h1 = zero
    /\ pk = NoKey /\ rlk = NoKey /\ gks = <<>>
    /\ ct = NoKey /\ level = MaxLevel /\ opened = NoKey /\ message = zero
    /\ prefix = [n \in 0 .. N |-> zero] /\ ephemPrefix = [n \in 0 .. N |-> zero]

(* One turn of a loop over the parties, and what follows the last one.     *)
Turn(here, after) ==
    /\ pc = here
    /\ IF i < N THEN i' = i + 1 /\ pc' = here ELSE i' = 1 /\ pc' = after

(* A protocol allocates its shares and its combined share, and samples.    *)
Begin(from, loop) ==
    /\ pc = from /\ pc' = loop /\ i' = 1
    /\ crp' \in Randoms
    /\ shareA' = NoShares /\ shareB' = NoShares
    /\ combA' = zero /\ combB' = zero

Ends(from, to) == pc = from /\ pc' = to /\ i' = 1

(* A slip: the aggregate of all parties is overwritten by the last share.  *)
KeepsTheLast(comb, share) == share

(* AggregateShares(share, combined, &combined), of every protocol.         *)
Aggregate(comb, share) == Plus(comb, share)

----------------------------------------------------------------------------
(* genparties                                                              *)

GenParty ==
    /\ Turn("genparties", "setup")
    /\ \E s \in Secrets :
          /\ sk' = [sk EXCEPT ![i] = s]
          /\ prefix' = [prefix EXCEPT ![i] = Plus(prefix[i - 1], s)]
    /\ UNCHANGED <<ephem, ephemPrefix, crp, shareA, shareB, combined, rounds, keys, cipher>>

----------------------------------------------------------------------------
(* execCKGProtocol                                                         *)

BeginCKG ==
    /\ Begin("setup", "ckgShare")
    /\ UNCHANGED <<secrets, element, rounds, keys, cipher>>

CKGShare ==
    /\ Turn("ckgShare", "ckgAggregate")
    /\ shareA' = [shareA EXCEPT ![i] = Minus(Times(crp, sk[i]))]
    /\ UNCHANGED <<secrets, crp, shareB, combined, rounds, keys, cipher>>

CKGAggregate ==
    /\ Turn("ckgAggregate", "ckgFinish")
    /\ combA' = Aggregate(combA, shareA[i])
    /\ UNCHANGED <<secrets, crp, shareA, shareB, combB, element, rounds, keys, cipher>>

GenPublicKey ==
    /\ Ends("ckgFinish", "public")
    /\ pk' = <<combA, crp>>
    /\ UNCHANGED <<secrets, crp, shareA, shareB, combined, rounds, rlk, gks, cipher>>

----------------------------------------------------------------------------
(* execRKGProtocol: two rounds                                             *)

BeginRKG ==
    /\ Begin("public", "rkgOne")
    /\ h0' = zero /\ h1' = zero /\ ephem' = NoShares
    /\ ephemPrefix' = [n \in 0 .. N |-> zero]
    /\ UNCHANGED <<sk, prefix, element, keys, cipher>>

GenShareRoundOne ==
    /\ Turn("rkgOne", "rkgAggregateOne")
    /\ \E u \in Secrets :
          /\ ephem' = [ephem EXCEPT ![i] = u]
          /\ ephemPrefix' = [ephemPrefix EXCEPT ![i] = Plus(ephemPrefix[i - 1], u)]
          /\ shareA' = [shareA EXCEPT ![i] = Plus(Minus(Times(crp, u)), Times(w, sk[i]))]
    /\ shareB' = [shareB EXCEPT ![i] = Times(crp, sk[i])]
    /\ UNCHANGED <<sk, prefix, crp, combined, rounds, keys, cipher>>

RoundOneAggregate ==
    /\ Turn("rkgAggregateOne", "rkgTwo")
    /\ h0' = Aggregate(h0, shareA[i]) /\ h1' = Aggregate(h1, shareB[i])
    /\ UNCHANGED <<secrets, crp, shareA, shareB, combined, keys, cipher>>

(* A slip: round two uses a fresh ephemeral key.                           *)
AnotherEphemeral(p) == Plus(ephem[p], w)

EphemeralOf(p) == ephem[p]

GenShareRoundTwo ==
    /\ Turn("rkgTwo", "rkgAggregateTwo")
    /\ shareA' = [shareA EXCEPT ![i] = Times(h0, sk[i])]
    /\ shareB' = [shareB EXCEPT ![i] = Times(h1, Sub(EphemeralOf(i), sk[i]))]
    /\ UNCHANGED <<secrets, crp, combined, rounds, keys, cipher>>

RoundTwoAggregate ==
    /\ Turn("rkgAggregateTwo", "rkgFinish")
    /\ combA' = Aggregate(combA, shareA[i]) /\ combB' = Aggregate(combB, shareB[i])
    /\ UNCHANGED <<secrets, crp, shareA, shareB, element, rounds, keys, cipher>>

GenRelinearizationKey ==
    /\ Ends("rkgFinish", "galois")
    /\ rlk' = <<Plus(combA, combB), h1>>
    /\ UNCHANGED <<secrets, crp, shareA, shareB, combined, rounds, pk, gks, cipher>>

----------------------------------------------------------------------------
(* execGKGProtocol: one run of the protocol for each Galois element        *)

galEl == GalEls[Len(gks) + 1]

(* A slip: the combined share is not told which element it is for.         *)
LeavesElement == element

ElementOfCombined == galEl

BeginGKG ==
    /\ Len(gks) < Len(GalEls)
    /\ Begin("galois", "gkgShare")
    /\ element' = ElementOfCombined
    /\ UNCHANGED <<secrets, rounds, keys, cipher>>

GKGShare ==
    /\ Turn("gkgShare", "gkgAggregate")
    /\ shareA' = [shareA EXCEPT ![i] =
                     Plus(Minus(Times(crp, Image(galEl, sk[i]))), Times(w, sk[i]))]
    /\ UNCHANGED <<secrets, crp, shareB, combined, rounds, keys, cipher>>

(* AggregateShares refuses shares of two elements with an error that the   *)
(* code drops.                                                             *)
GKGAggregate ==
    /\ Turn("gkgAggregate", "gkgFinish")
    /\ combA' = IF element = galEl THEN Aggregate(combA, shareA[i]) ELSE combA
    /\ UNCHANGED <<secrets, crp, shareA, shareB, combB, element, rounds, keys, cipher>>

GenGaloisKey ==
    /\ Ends("gkgFinish", "galois")
    /\ gks' = Append(gks, <<combA, crp>>)
    /\ UNCHANGED <<secrets, crp, shareA, shareB, combined, rounds, pk, rlk, cipher>>

SetupDone ==
    /\ Len(gks) = Len(GalEls)
    /\ Ends("galois", "ready")
    /\ UNCHANGED <<secrets, crp, shareA, shareB, combined, rounds, keys, cipher>>

----------------------------------------------------------------------------
(* What the tally does with the keys.                                      *)

Encrypt ==
    /\ Ends("ready", "ready") /\ ct = NoKey
    /\ \E m \in Messages, v \in Secrets :
          /\ ct' = <<Plus(Times(v, pk[1]), m), Times(v, pk[2])>>
          /\ message' = m
    /\ UNCHANGED <<secrets, crp, shareA, shareB, combined, rounds, keys, level, opened>>

(* Evaluation consumes a level; here it keeps the plaintext.               *)
Evaluate ==
    /\ Ends("ready", "ready") /\ ct # NoKey
    /\ level > 0 /\ level' = level - 1
    /\ UNCHANGED <<secrets, crp, shareA, shareB, combined, rounds, keys, ct, opened, message>>

(* collectiveRefresh: the combined share starts as the first one.          *)
BeginRefresh ==
    /\ ct # NoKey
    /\ Begin("ready", "refreshShare")
    /\ UNCHANGED <<secrets, element, rounds, keys, cipher>>

RefreshShare ==
    /\ Turn("refreshShare", "refreshFirst")
    /\ \E mask \in Randoms :
          /\ shareA' = [shareA EXCEPT ![i] = Sub(Times(ct[2], sk[i]), mask)]
          /\ shareB' = [shareB EXCEPT ![i] = Sub(mask, Times(crp, sk[i]))]
    /\ UNCHANGED <<secrets, crp, combined, rounds, keys, cipher>>

(* A slip: the loop over the other shares begins with the first again.     *)
FirstTwice == 1

SecondShare == 2

RefreshFirst ==
    /\ pc = "refreshFirst"
    /\ combA' = shareA[1] /\ combB' = shareB[1]
    /\ IF SecondShare <= N THEN pc' = "refreshAggregate" /\ i' = SecondShare
                           ELSE pc' = "refreshFinish" /\ i' = 1
    /\ UNCHANGED <<secrets, crp, shareA, shareB, element, rounds, keys, cipher>>

RefreshAggregate ==
    /\ Turn("refreshAggregate", "refreshFinish")
    /\ combA' = Aggregate(combA, shareA[i]) /\ combB' = Aggregate(combB, shareB[i])
    /\ UNCHANGED <<secrets, crp, shareA, shareB, element, rounds, keys, cipher>>

(* A slip: the output keeps the level of the input.                        *)
KeepsLevel == level

OutputLevel == MaxLevel

FinalizeRefresh ==
    /\ Ends("refreshFinish", "ready")
    /\ ct' = <<Plus(Plus(ct[1], combA), combB), crp>>
    /\ level' = OutputLevel
    /\ UNCHANGED <<secrets, crp, shareA, shareB, combined, rounds, keys, opened, message>>

(* thresholdDecrypt: a key switch to the zero key.                         *)
BeginDecrypt ==
    /\ ct # NoKey /\ pc = "ready" /\ pc' = "cksShare" /\ i' = 1
    /\ shareA' = NoShares /\ shareB' = NoShares /\ combA' = zero /\ combB' = zero
    /\ UNCHANGED <<secrets, crp, element, rounds, keys, cipher>>

CKSShare ==
    /\ Turn("cksShare", "cksAggregate")
    /\ shareA' = [shareA EXCEPT ![i] = Times(ct[2], Sub(sk[i], zero))]
    /\ UNCHANGED <<secrets, crp, shareB, combined, rounds, keys, cipher>>

CKSAggregate ==
    /\ Turn("cksAggregate", "cksFinish")
    /\ combA' = Aggregate(combA, shareA[i])
    /\ UNCHANGED <<secrets, crp, shareA, shareB, combB, element, rounds, keys, cipher>>

KeySwitch ==
    /\ Ends("cksFinish", "ready")
    /\ opened' = Plus(ct[1], combA)
    /\ UNCHANGED <<secrets, crp, shareA, shareB, combined, rounds, keys, ct, level, message>>

Protocols ==
    \/ CKGShare \/ CKGAggregate
    \/ GenShareRoundOne \/ RoundOneAggregate \/ GenShareRoundTwo \/ RoundTwoAggregate
    \/ GKGShare \/ GKGAggregate
    \/ RefreshShare \/ RefreshFirst \/ RefreshAggregate
    \/ CKSShare \/ CKSAggregate

Next ==
    \/ GenParty \/ SetupDone \/ Encrypt \/ Evaluate
    \/ BeginCKG \/ BeginRKG \/ BeginGKG \/ BeginRefresh \/ BeginDecrypt
    \/ Protocols
    \/ GenPublicKey \/ GenRelinearizationKey \/ GenGaloisKey \/ FinalizeRefresh \/ KeySwitch

Spec == Init /\ [][Next]_vars

----------------------------------------------------------------------------

Pair == R \X R

TypeOK ==
    /\ pc \in {"genparties", "setup", "ckgShare", "ckgAggregate", "ckgFinish", "public",
               "rkgOne", "rkgAggregateOne", "rkgTwo", "rkgAggregateTwo", "rkgFinish",
               "galois", "gkgShare", "gkgAggregate", "gkgFinish", "ready",
               "refreshShare", "refreshFirst", "refreshAggregate", "refreshFinish",
               "cksShare", "cksAggregate", "cksFinish"}
    /\ i \in Party
    /\ sk \in [Party -> R] /\ ephem \in [Party -> R]
    /\ prefix \in [0 .. N -> R] /\ ephemPrefix \in [0 .. N -> R]
    /\ crp \in R /\ shareA \in [Party -> R] /\ shareB \in [Party -> R]
    /\ combA \in R /\ combB \in R /\ element \in Nat
    /\ h0 \in R /\ h1 \in R
    /\ pk \in Pair \cup {NoKey} /\ rlk \in Pair \cup {NoKey}
    /\ gks \in Seq(Pair) /\ Len(gks) <= Len(GalEls)
    /\ ct \in Pair \cup {NoKey} /\ level \in 0 .. MaxLevel
    /\ opened \in R \cup {NoKey} /\ message \in R

(* The collective secret, which no party ever holds.                       *)
Secret == prefix[N]

Dealer == INSTANCE CollectiveKey WITH
    secret <- IF pc = "genparties" THEN NoKey ELSE Secret

(* The parties together do what a dealer holding the sum of their secrets  *)
(* would do: every key, refresh and decryption of the protocols is one of  *)
(* the dealer's, and nothing else changes what the dealer has.             *)
ActsAsDealer == Dealer!Spec

(* The keys work under the collective secret: the public key encrypts for  *)
(* it, the relinearization key hides its square, each Galois key hides it  *)
(* under its own image.                                                    *)
KeysAreValid ==
    /\ pk # NoKey => Plus(pk[1], Times(pk[2], Secret)) = zero
    /\ rlk # NoKey =>
           Plus(rlk[1], Times(rlk[2], Secret)) = Times(Times(Secret, Secret), w)
    /\ \A g \in DOMAIN gks :
           Plus(gks[g][1], Times(gks[g][2], Image(GalEls[g], Secret))) = Times(Secret, w)

(* Each party is counted exactly once: while a protocol aggregates, the    *)
(* combined share is the one the sum of the first parties' secrets would   *)
(* give, and the keys made of the combined shares are the collective ones. *)
EachShareOnce ==
    LET s == prefix[i - 1]   u == ephemPrefix[i - 1]   All == ephemPrefix[N]
    IN  /\ TypeOK /\ KeysAreValid
        /\ pc = "ckgAggregate" => combA = Minus(Times(crp, s))
        /\ pc = "rkgAggregateOne" =>
               h0 = Plus(Minus(Times(crp, u)), Times(w, s)) /\ h1 = Times(crp, s)
        /\ pc = "rkgAggregateTwo" =>
               combA = Times(h0, s) /\ combB = Times(h1, Sub(u, s))
        /\ pc = "gkgAggregate" =>
               combA = Plus(Minus(Times(crp, Image(galEl, s))), Times(w, s))
        /\ pc = "refreshAggregate" =>
               Plus(combA, combB) = Times(Sub(ct[2], crp), s)
        /\ pc = "cksAggregate" => combA = Times(ct[2], s)
        /\ pc \in {"rkgTwo", "rkgAggregateTwo", "rkgFinish"} =>
               h0 = Plus(Minus(Times(crp, All)), Times(w, Secret)) /\ h1 = Times(crp, Secret)

(* However often a ciphertext is refreshed, and at whatever level it is,   *)
(* the parties together decrypt it to what was encrypted.                  *)
DecryptsToTheMessage ==
    /\ ct # NoKey => Plus(ct[1], Times(ct[2], Secret)) = message
    /\ opened # NoKey => opened = message
=============================================================================
