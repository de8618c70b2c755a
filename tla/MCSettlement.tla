---------------------------- MODULE MCSettlement ----------------------------
(* Instances of Settlement for TLC.                                        *)
EXTENDS SettlementInv, Audit, TLC

(* Interchangeable model values: safety runs only.                         *)
Interchangeable ==
  Permutations(Worker) \cup Permutations(BetId) \cup Permutations(Seed)
    \cup Permutations(EventId)

(* Users too, where all of them or none are referred.                      *)
InterchangeableUsers == Interchangeable \cup Permutations(User)
=============================================================================
