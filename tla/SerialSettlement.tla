-------------------------- MODULE SerialSettlement --------------------------
(***************************************************************************)
(* What the settlement service promises, with no transaction, lock, retry  *)
(* or crash in sight: bets are settled, deposits credited and seeds        *)
(* rotated one at a time, each in a single step on the committed tables.   *)
(* Settlement.tla, the statement-level model, is shown to implement this.  *)
(***************************************************************************)
EXTENDS Tables

(* All the money a settled bet moves, in one movement: the user pays the   *)
(* stake and receives the payout, the affiliate is paid out of a lost      *)
(* stake, and escrow ends where it began.                                  *)
BetMovement(u, amount, payout, commission) ==
  [a \in Account |-> CASE a = u           -> payout - amount
                       [] a = "treasury"  -> amount - payout - commission
                       [] a = "affiliate" -> commission
                       [] OTHER           -> 0]

(* A bet settles once per id, within the stake limits, the user's balance  *)
(* and the loss allowance of its day, under the seed active at that moment *)
(* and with that seed's next nonce.                                        *)
SettleBet(b, u, amount, target, roll, s, d) ==
  LET payout     == PayoutOf(amount, target, roll)
      commission == IF IsWin(roll, target) THEN 0 ELSE CommissionOn(u, amount)
  IN  /\ bets[b] = NoRow
      /\ StakeWithinLimits(amount)
      /\ amount <= balance[u]
      /\ amount - net[u][d] <= DailyLossLimit
      /\ seedStatus[s] = "active"
      /\ bets' = [bets EXCEPT ![b] =
                    [user |-> u, amount |-> amount, target |-> target,
                     roll |-> roll, payout |-> payout, seed |-> s,
                     nonce |-> seedNonce[s], day |-> d]]
      /\ seedNonce' = [seedNonce EXCEPT ![s] = @ + 1]
      /\ balance' = Plus(balance, BetMovement(u, amount, payout, commission))
      /\ net' = AddNet(u, d, payout - amount)
      /\ UNCHANGED <<events, seedStatus>>

(* A payment event credits its user once per event id.                     *)
CreditDeposit(e, u, amount) ==
  /\ events[e] = NoRow
  /\ events' = [events EXCEPT ![e] =
                  [user |-> u, amount |-> amount, posted |-> TRUE]]
  /\ balance' = Plus(balance, DepositLegs(u, amount))
  /\ UNCHANGED <<net, bets, seedStatus, seedNonce>>

(* Rotation reveals the active seed and activates a fresh one.             *)
Rotate(old, new) ==
  /\ seedStatus[old] = "active"
  /\ seedStatus[new] = "unused"
  /\ seedStatus' = [seedStatus EXCEPT ![old] = "revealed", ![new] = "active"]
  /\ UNCHANGED <<balance, net, bets, events, seedNonce>>

SerialNext ==
  \/ \E b \in BetId, u \in User, amount \in Stake, target \in Target,
        roll \in Roll, s \in Seed, d \in Day :
       SettleBet(b, u, amount, target, roll, s, d)
  \/ \E e \in EventId, u \in User, amount \in Amount :
       CreditDeposit(e, u, amount)
  \/ \E old, new \in Seed : Rotate(old, new)

SerialSpec == TablesInit /\ [][SerialNext]_tables
=============================================================================
