---------------------------- MODULE MCMultiparty ----------------------------
(***************************************************************************)
(* Multiparty over a ring of nine elements, two slots modulo 3, whose      *)
(* automorphism exchanges the slots, within the phases of main: the setup, *)
(* the periodic echo with its refreshes, and the decryption of the result. *)
(* Each protocol is timed and counted as RunAccounting says.  A diagnostic *)
(* decryption may come between the phases or within one, and main may      *)
(* panic anywhere.                                                         *)
(***************************************************************************)
EXTENDS Multiparty

Mod3 == 0 .. 2
MCR == Mod3 \X Mod3
MCZero == <<0, 0>>
MCPlus(x, y) == <<(x[1] + y[1]) % 3, (x[2] + y[2]) % 3>>
MCMinus(x) == <<(3 - x[1]) % 3, (3 - x[2]) % 3>>
MCTimes(x, y) == <<(x[1] * y[1]) % 3, (x[2] * y[2]) % 3>>
Swap == 3    \* the other Galois element, 5, is the identity on this ring
MCImage(g, x) == IF g = Swap THEN <<x[2], x[1]>> ELSE x
MCGadget == <<2, 1>>
MCSecrets == {<<1, 0>>, <<2, 1>>}
MCRandoms == {<<1, 2>>}
MCMessages == {<<0, 1>>}
MCGalEls == <<Swap, 5>>

SetupPhase == 20    EchoPhase == 42    SupportPhase == 44    ResultPhase == 50
MCTallyPhases == {EchoPhase, SupportPhase}
MCMaxPhases == 5
MaxClock == 38    \* bound on the time a refresh or decryption begins; the setup takes 24

VARIABLES clock, currentPhase, phase, protocol, multipartyWall, components, phases,
          opCounts, crashed, started, server

accounts == <<clock, currentPhase, phase, protocol, multipartyWall, components, phases,
              opCounts, crashed, started, server>>

Accounting == INSTANCE RunAccounting WITH
    DecryptPhase <- ResultPhase, TallyPhases <- MCTallyPhases, MaxPhases <- MCMaxPhases

CInit == Init /\ Accounting!Init

Inside(names) == phase.name \in names
LastPhase == IF phases = <<>> THEN 0 ELSE phases[Len(phases)].name

(* Main's phases: the echo's returns before the support's follows.         *)
Follows(last) ==
    CASE last = 0 -> {SetupPhase}
      [] last = SetupPhase -> {EchoPhase}
      [] last = EchoPhase -> {EchoPhase, SupportPhase}
      [] last = SupportPhase -> {ResultPhase}
      [] OTHER -> {}

Phases ==
    /\ \/ \E name \in Follows(LastPhase) :
             /\ name # SetupPhase => ct # NoKey \/ name = EchoPhase
             /\ Accounting!StartPhase(name)
       \/ /\ pc = "ready" /\ (Inside({ResultPhase}) => opened # NoKey)
          /\ Accounting!Stop
    /\ UNCHANGED vars

(* Refreshes begin when no level is left.                                  *)
Begins ==
    \/ /\ Inside({SetupPhase})
       /\ \/ BeginCKG /\ Accounting!timeMultiparty("public-key-generation")
          \/ BeginRKG /\ Accounting!timeMultiparty("relinearization-key-generation")
          \/ BeginGKG /\ (IF protocol = Accounting!NoProtocol
                          THEN Accounting!timeMultiparty("galois-key-generation")
                          ELSE UNCHANGED accounts)
    \/ /\ Inside({EchoPhase}) /\ level = 0 /\ clock < MaxClock
       /\ BeginRefresh /\ Accounting!timeMultiparty("refresh")
    \/ /\ clock < MaxClock
       /\ \/ Inside({ResultPhase, SupportPhase})
          \/ phase = Accounting!NoPhase /\ LastPhase = EchoPhase
       /\ BeginDecrypt /\ Accounting!timeMultiparty("threshold-decryption")

Works ==
    \/ Inside({SetupPhase}) /\ GenParty /\ Accounting!Work(FALSE)
    \/ Inside({EchoPhase, SupportPhase}) /\ (Encrypt \/ Evaluate) /\ Accounting!Work(TRUE)
    \/ Protocols /\ Accounting!Work(pc \in {"refreshShare", "refreshAggregate"})
    \/ GenGaloisKey /\ Accounting!Work(FALSE)

Ends2 ==
    \/ GenPublicKey \/ GenRelinearizationKey \/ SetupDone \/ FinalizeRefresh \/ KeySwitch

Finishes == Ends2 /\ Accounting!EndOfProtocol

Panics == Accounting!Panic /\ UNCHANGED vars

CNext == Phases \/ Begins \/ Works \/ Finishes \/ Panics

CSpec == CInit /\ [][CNext]_<<vars, accounts>>

ServerTimeIsSeparated == Accounting!ServerTimeIsSeparated
ReportFollowsTheRun == Accounting!ReportFollowsTheRun
=============================================================================
