----------------------------- MODULE MCConsole -----------------------------
(* Small instances of the parts of Browser for TLC.                        *)
EXTENDS Browser

(* One run at a time, and another tab; two runs at a time, and answers     *)
(* that are lost.                                                          *)
Consoles ==
  [tabs |-> [Slot |-> {1}, MaxBets |-> 2, MaxSeed |-> 3, MaxFunds |-> 1,
             MaxFaults |-> 0, MaxForeign |-> 1],
   overlap |-> [Slot |-> {1, 2}, MaxBets |-> 1, MaxSeed |-> 2, MaxFunds |-> 1,
                MaxFaults |-> 1, MaxForeign |-> 0]]

(* Bets of this tab and resets of another, one resource that both of them  *)
(* change, effects that run twice and a visit to the review page; the same *)
(* with the account, which is loaded by other code.                        *)
Resources ==
  [resources |-> [Resource |-> {"commitment"}, Account |-> {}, Act |-> {"bet"},
                  Foreign |-> {"reset"}, MaxChanges |-> 2, MaxMounts |-> 2,
                  Effects |-> 2],
   account |-> [Resource |-> {"commitment"}, Account |-> {"me"},
                Act |-> {"bet"}, Foreign |-> {"reset"}, MaxChanges |-> 2,
                MaxMounts |-> 1, Effects |-> 1]]

(* Two bets, and resets by other tabs; one bet, and the dialog that asks   *)
(* for a reset.                                                            *)
Screens ==
  [lists |-> [Bet |-> {"b1", "b2"}, RowLimit |-> 1, BetLimit |-> 2,
              EntryLimit |-> 4, MaxResets |-> 1, MaxMounts |-> 2,
              MaxOpens |-> 0, NoBet |-> "no bet"],
   dialog |-> [Bet |-> {"b1"}, RowLimit |-> 1, BetLimit |-> 2,
               EntryLimit |-> 4, MaxResets |-> 1, MaxMounts |-> 2,
               MaxOpens |-> 1, NoBet |-> "no bet"]]
=============================================================================
