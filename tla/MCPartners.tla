----------------------------- MODULE MCPartners -----------------------------
(***************************************************************************)
(* The two partners a robot's program cannot do without, each with         *)
(* variables of its own: the motor controller board and, in its place,     *)
(* the simulator.  A behaviour is about one of them; the other one rests.  *)
(***************************************************************************)
EXTENDS BoardLine, SimLink

VARIABLE part

(* A board that has answered, so that nothing is left to wait for.         *)
Idle ==
  /\ at = "command" /\ queue = <<>> /\ counter = 0 /\ loop = 0 /\ lost = FALSE
  /\ n = 0 /\ buffered = "none" /\ line = <<>> /\ port = FALSE
  /\ slow = FALSE /\ noise = 0 /\ measured = TRUE /\ clean = TRUE

PartnersInit ==
  /\ SimInit
  /\ (part = "board" /\ Init) \/ (part = "simulator" /\ Idle)

OfBoard == part = "board" /\ UNCHANGED <<part, simVars>>
OfSimulator == part = "simulator" /\ UNCHANGED <<part, vars>>

PartnersNext ==
  \/ OfBoard /\ Next
  \/ OfSimulator /\ SimNext

partnersVars == <<part, vars, simVars>>

PartnersSpec == PartnersInit /\ [][PartnersNext]_partnersVars

(* The fairness of FairSpec for the board, of SimFairSpec for the          *)
(* simulator.                                                              *)
PartnersFairSpec ==
  /\ PartnersSpec
  /\ WF_partnersVars(OfBoard /\ \E cmd \in Commands : Command(cmd))
  /\ WF_partnersVars(OfBoard /\ ~Hangs /\ Collect)
  /\ WF_partnersVars(OfBoard /\ CatchUp)
  /\ WF_partnersVars(OfSimulator /\ Communicate)
  /\ \A c \in Clients : SF_partnersVars(OfSimulator /\ GoesOn(c))
=============================================================================
