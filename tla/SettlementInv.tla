--------------------------- MODULE SettlementInv ---------------------------
(***************************************************************************)
(* Why the service is serialisable: what a transaction has read and        *)
(* decided on stays true until it commits, because each fact is covered by *)
(* a lock the transaction holds.  LocksProtect is the inductive invariant  *)
(* behind the theorems of SettlementProofs.                                *)
(***************************************************************************)
EXTENDS Settlement

(* The statements a transaction of each kind can be at.                    *)
BetOnly ==
  {"lock_bet_id", "check_bet", "lock_loss", "check_loss", "open_bet",
   "bet_lock", "bet_settle", "commission", "commit_bet"}
DepositOnly == {"reserve_event", "read_event", "deposit", "commit_deposit"}
Shared == {"select_seed", "lock_seed"}

(* How far a bet has come.                                                 *)
Escrowed == {"bet_settle", "commission", "commit_bet"}
Opened   == {"bet_lock"} \cup Escrowed
Seeded   == {"open_bet"} \cup Opened
Allowed  == Shared \cup Seeded
Limited  == {"check_loss"} \cup Allowed
Checked  == {"lock_loss"} \cup Limited
Named    == {"check_bet"} \cup Checked

AtStatements(w) ==
  /\ pc[w] \in BetOnly => req[w].op = "bet"
  /\ pc[w] \in DepositOnly => req[w].op = "deposit"
  /\ pc[w] = "rotate" => req[w].op = "rotate"
  /\ pc[w] \in Shared => req[w].op \in {"bet", "rotate"}
  /\ pc[w] = "idle" => held[w] = {}

(* The bet id is still free and the stake was accepted.                    *)
BetStillNew(w) ==
  req[w].op = "bet" =>
    /\ pc[w] \in Named => BetIdLock(req[w].id) \in held[w]
    /\ pc[w] \in Checked =>
         bets[req[w].id] = NoRow /\ StakeWithinLimits(req[w].amount)

(* The loss allowance is still there.                                      *)
LossStillAllowed(w) ==
  req[w].op = "bet" =>
    /\ pc[w] \in Limited => LossLock(req[w].user) \in held[w]
    /\ pc[w] \in Allowed => LossAllowed(w)

(* The seed is still active, its nonce still the one that was read, and a  *)
(* bet past its check settles under no other commitment than it named.     *)
SeedStillOffered(w) ==
  /\ pc[w] = "lock_seed" => view[w].seed \in Seed
  /\ pc[w] \in Seeded \cup {"rotate"} =>
       /\ view[w].seed \in Seed
       /\ SeedLock(view[w].seed) \in held[w]
       /\ seedStatus[view[w].seed] = "active"
       /\ seedNonce[view[w].seed] = view[w].nonce
  /\ pc[w] \in Opened => ~SeedRotated(w)

(* The user's money is still there, and the outcome is a roll.             *)
FundsStillCover(w) ==
  /\ pc[w] \in Opened => RowLock(req[w].user) \in held[w]
  /\ pc[w] \in Escrowed =>
       req[w].amount <= balance[req[w].user] /\ view[w].roll \in Roll

(* What the transaction has posted so far.                                 *)
PostedSoFar(w) ==
  LET lock   == BetLockLegs(req[w].user, req[w].amount)
      settle == BetSettleLegs(req[w].user, req[w].amount, Won(w), Payout(w))
  IN  /\ pc[w] = "bet_settle" => draft[w] = lock
      /\ pc[w] = "commission" =>
           CommissionDue(w) > 0 /\ draft[w] = Plus(lock, settle)
      /\ pc[w] = "commit_bet" =>
           draft[w] = Plus(Plus(lock, settle),
                           CommissionLegs(CommissionDue(w)))
      /\ pc[w] = "commit_deposit" =>
           draft[w] = DepositLegs(req[w].user, req[w].amount)
      /\ pc[w] \notin Escrowed \cup {"commit_deposit"} =>
           draft[w] = NoMovement

(* The event is still unclaimed, or its winner has posted it.              *)
EventStillOurs(w) ==
  /\ pc[w] \in {"deposit", "commit_deposit"} =>
       EventLock(req[w].id) \in held[w] /\ events[req[w].id] = NoRow
  /\ pc[w] = "read_event" =>
       events[req[w].id] # NoRow /\ events[req[w].id].posted

Protected(w) ==
  /\ AtStatements(w)
  /\ BetStillNew(w)
  /\ LossStillAllowed(w)
  /\ SeedStillOffered(w)
  /\ FundsStillCover(w)
  /\ PostedSoFar(w)
  /\ EventStillOurs(w)

(* A lock has one holder.                                                  *)
OneHolder == \A v, w \in Worker : v # w => held[v] \cap held[w] = {}

(* A committed event row always has its entry_id.                          *)
EventsPosted == \A e \in EventId : events[e] # NoRow => events[e].posted

(* Everything a transaction relies on is true in every state: nothing it   *)
(* has checked can be undone by another transaction before it commits      *)
(* (bet.ts:186-252, accounts.ts:7-16, webhook.ts:17-39).                   *)
LocksProtect ==
  OneHolder /\ EventsPosted /\ \A w \in Worker : Protected(w)
=============================================================================
