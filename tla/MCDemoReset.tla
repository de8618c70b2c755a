---------------------------- MODULE MCDemoReset ----------------------------
(* Instances of DemoReset for TLC.                                         *)
EXTENDS DemoReset, TLC

(* Interchangeable model values: safety runs only.                         *)
Interchangeable ==
  Permutations(Client) \cup Permutations(Resetter) \cup Permutations(Bet)
=============================================================================
