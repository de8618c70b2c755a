------------------------------- MODULE Audit -------------------------------
(***************************************************************************)
(* The reconciliation an auditor would run: what every account should hold *)
(* according to the bets and webhook_events tables, against what the       *)
(* ledger says it holds.                                                   *)
(***************************************************************************)
EXTENDS Tables, Functions

Settled == {b \in BetId : bets[b] # NoRow}

Received == {e \in EventId : events[e] # NoRow}

PayoutsOf(B) == SumFunction([b \in B |-> bets[b].payout])
StakesOf(B) == SumFunction([b \in B |-> bets[b].amount])
DepositsOf(E) == SumFunction([e \in E |-> events[e].amount])

(* The referrer earns 1% of each stake the treasury won off a referred     *)
(* user, floored bet by bet.                                               *)
EarnedOn(B) ==
  SumFunction([b \in {x \in B : bets[x].payout = 0} |->
                 CommissionOn(bets[b].user, bets[b].amount)])

(* Every account holds exactly what the committed bets and payment events  *)
(* say: nothing is credited twice, debited twice, lost by a retry or left  *)
(* in escrow, and the legs of everything sum to zero (post.ts:25-46,       *)
(* webhook.ts:17-39, bet.ts:174-181).                                      *)
BooksReconcile ==
  /\ \A u \in User :
       LET mine == {b \in Settled : bets[b].user = u}
       IN  balance[u] = DepositsOf({e \in Received : events[e].user = u})
                          - StakesOf(mine) + PayoutsOf(mine)
  /\ balance["gateway"] = -DepositsOf(Received)
  /\ balance["pending_bets"] = 0
  /\ balance["affiliate"] = EarnedOn(Settled)
  /\ balance["treasury"] =
       StakesOf(Settled) - PayoutsOf(Settled) - EarnedOn(Settled)
=============================================================================
