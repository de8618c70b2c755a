------------------------------- MODULE Books -------------------------------
(***************************************************************************)
(* The chart of accounts and the arithmetic of money: who can be posted    *)
(* to, what a winning bet pays, and the legs of every journal entry the    *)
(* application writes.  Amounts are integers in minor units; a positive    *)
(* leg credits an account and a negative leg debits it.                    *)
(***************************************************************************)
EXTENDS Integers

CONSTANTS
  User,              \* accounts of kind 'user'
  Referred,          \* the users that have a row in affiliate_links
  MinBet,            \* MIN_BET_MINOR
  MaxBet,            \* MAX_BET_MINOR
  DailyLossLimit     \* DAILY_LOSS_LIMIT_MINOR

(* The fixed accounts of the house, in the order of their ids.             *)
HouseAccount == {"affiliate", "gateway", "pending_bets", "treasury"}

Account == User \cup HouseAccount

ASSUME AccountAssumption ==
  /\ User \cap HouseAccount = {}
  /\ Referred \subseteq User

ASSUME LimitAssumption ==
  /\ MinBet \in Nat \ {0}
  /\ MaxBet \in Nat
  /\ DailyLossLimit \in Nat

-----------------------------------------------------------------------------
(* lockAccounts sorts by id: 'affiliate:..' < 'gateway' < 'pending_bets' < *)
(* 'treasury' < 'user:..'.  An entry names at most one user account.       *)
IdRank(a) ==
  CASE a = "affiliate"    -> 1
    [] a = "gateway"      -> 2
    [] a = "pending_bets" -> 3
    [] a = "treasury"     -> 4
    [] OTHER              -> 5

-----------------------------------------------------------------------------
(* A 1% house margin: 99 / targetUnder times the stake, truncated.  The    *)
(* target is kept in hundredths, 100..9800.                                *)
PayoutFor(amount, target) == (amount * 9900) \div target

(* Strictly less than: a roll equal to the target loses.                   *)
IsWin(roll, target) == roll < target

StakeWithinLimits(amount) == amount >= MinBet /\ amount <= MaxBet

(* One percent of what the treasury took, to a referrer if there is one.   *)
CommissionOn(user, take) ==
  IF take > 0 /\ user \in Referred THEN take \div 100 ELSE 0

-----------------------------------------------------------------------------
(* Journal entries, as the amount each account receives.  Accounts an      *)
(* entry does not name receive 0.                                          *)
Movement == [Account -> Int]

NoMovement == [a \in Account |-> 0]

Plus(m, n) == [a \in Account |-> m[a] + n[a]]

DepositLegs(user, amount) ==
  [a \in Account |-> CASE a = user      -> amount
                       [] a = "gateway" -> -amount
                       [] OTHER         -> 0]

BetLockLegs(user, amount) ==
  [a \in Account |-> CASE a = user           -> -amount
                       [] a = "pending_bets" -> amount
                       [] OTHER              -> 0]

(* A winner is paid from escrow and the treasury; a loser's stake goes to  *)
(* the treasury.                                                           *)
BetSettleLegs(user, amount, won, payout) ==
  [a \in Account |-> CASE a = user           -> IF won THEN payout ELSE 0
                       [] a = "pending_bets" -> -amount
                       [] a = "treasury"     -> IF won THEN amount - payout
                                                       ELSE amount
                       [] OTHER              -> 0]

CommissionLegs(commission) ==
  [a \in Account |-> CASE a = "affiliate" -> commission
                       [] a = "treasury"  -> -commission
                       [] OTHER           -> 0]
=============================================================================
