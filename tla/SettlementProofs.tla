-------------------------- MODULE SettlementProofs --------------------------
(***************************************************************************)
(* Machine-checked facts about Settlement, for any set of connections,     *)
(* users, ids, seeds and amounts.  The argument: Inductive holds initially *)
(* and is kept by every step, and everything else follows from it.         *)
(***************************************************************************)
EXTENDS SettlementInv, TLAPS

Inductive == TypeOK /\ LocksProtect

Request == BetRequest \cup DepositRequest \cup RotateRequest \cup {NoRequest}

(* TypeOK without the tables. *)
LocalTypeOK ==
  /\ day \in Day
  /\ pc \in [Worker -> Statement]
  /\ req \in [Worker -> Request]
  /\ held \in [Worker -> SUBSET Lock]
  /\ draft \in [Worker -> Movement]
  /\ view \in [Worker -> View]
  /\ failed \subseteq InternalError

(* A step of w touches no other connection. *)
OnlyMoves(w) ==
  \A v \in Worker \ {w} :
    /\ pc'[v] = pc[v] /\ req'[v] = req[v] /\ held'[v] = held[v]
    /\ draft'[v] = draft[v] /\ view'[v] = view[v]

-----------------------------------------------------------------------------
(* A request's op tells which record it is. *)
LEMMA BetRequests ==
  ASSUME NEW r \in Request, r.op = "bet"
  PROVE  /\ r \in BetRequest
         /\ r.id \in BetId /\ r.user \in User /\ r.amount \in Stake
         /\ r.target \in Target /\ r.seedHash \in Seed \cup {NoSeed}
  BY DEF Request, BetRequest, DepositRequest, RotateRequest, NoRequest

LEMMA DepositRequests ==
  ASSUME NEW r \in Request, r.op = "deposit"
  PROVE  /\ r \in DepositRequest
         /\ r.id \in EventId /\ r.user \in User /\ r.amount \in Amount
  BY DEF Request, BetRequest, DepositRequest, RotateRequest, NoRequest

(* Stakes and deposits are positive. *)
LEMMA AmountsPositive ==
  ASSUME NEW amount \in Stake \cup Amount
  PROVE  amount \in Nat \ {0}
<1>1. CASE amount \in Stake
  BY <1>1, InputAssumption DEF InputAssumption
<1>2. CASE amount \in Amount
  BY <1>2, InputAssumption DEF InputAssumption
<1> QED
  BY <1>1, <1>2

(* Whole-number division of a stake by a target is a natural number. *)
LEMMA PayoutNat ==
  ASSUME NEW amount \in Stake, NEW target \in Target, NEW roll \in Nat
  PROVE  PayoutOf(amount, target, roll) \in Nat
<1>1a. amount \in Nat \ {0}
  BY InputAssumption DEF InputAssumption
<1>1b. target \in 100 .. 9800
  BY InputAssumption DEF InputAssumption
<1>1. amount \in Nat /\ target \in Nat /\ target > 0
  BY <1>1a, <1>1b
<1>2. amount * 9900 \in Nat
  BY <1>1
<1>3. PayoutFor(amount, target) \in Nat
  BY <1>1, <1>2 DEF PayoutFor
<1> QED
  BY <1>3 DEF PayoutOf

(* The legs of every entry are movements. *)
LEMMA LegsTyped ==
  ASSUME NEW u \in User, NEW amount \in Nat
  PROVE  /\ DepositLegs(u, amount) \in Movement
         /\ BetLockLegs(u, amount) \in Movement
  BY DEF DepositLegs, BetLockLegs, Movement

LEMMA SettleLegsTyped ==
  ASSUME NEW u \in User, NEW amount \in Nat, NEW won \in BOOLEAN,
         NEW payout \in Nat
  PROVE  BetSettleLegs(u, amount, won, payout) \in Movement
  BY DEF BetSettleLegs, Movement

LEMMA CommissionLegsTyped ==
  ASSUME NEW commission \in Int
  PROVE  CommissionLegs(commission) \in Movement
  BY DEF CommissionLegs, Movement

LEMMA PlusTyped ==
  ASSUME NEW m \in Movement, NEW n \in Movement
  PROVE  Plus(m, n) \in Movement
  BY DEF Plus, Movement

LEMMA CommissionInt ==
  ASSUME NEW u \in User, NEW take \in Nat
  PROVE  CommissionOn(u, take) \in Nat
  BY DEF CommissionOn

-----------------------------------------------------------------------------
(* Another transaction's step that leaves the tables alone is no concern. *)
LEMMA Bystander ==
  ASSUME NEW v \in Worker, Protected(v), UNCHANGED tables,
         pc'[v] = pc[v], req'[v] = req[v], held'[v] = held[v],
         draft'[v] = draft[v], view'[v] = view[v]
  PROVE  Protected(v)'
  BY DEF Protected, AtStatements, BetStillNew, LossStillAllowed,
       LossAllowed, SeedStillOffered, SeedRotated, FundsStillCover,
       PostedSoFar, EventStillOurs, Won, Payout, CommissionDue, tables

(* Taking a free lock keeps every lock in one hand. *)
LEMMA AcquireKeepsOneHolder ==
  ASSUME OneHolder, held \in [Worker -> SUBSET Lock],
         NEW w \in Worker, NEW lock, Acquire(w, lock)
  PROVE  OneHolder'
  BY DEF OneHolder, Acquire, Free

(* What Inductive says of one connection. *)
LEMMA FromInductive ==
  ASSUME Inductive, NEW w \in Worker
  PROVE  /\ TablesTypeOK /\ LocalTypeOK /\ OneHolder /\ EventsPosted
         /\ Protected(w)
         /\ pc[w] \in Statement /\ req[w] \in Request
         /\ held[w] \in SUBSET Lock /\ draft[w] \in Movement
         /\ view[w] \in View
  BY DEF Inductive, TypeOK, LocalTypeOK, Request, LocksProtect

(* A step that leaves the tables alone needs an argument for one worker. *)
LEMMA QuietStep ==
  ASSUME Inductive, NEW w \in Worker, UNCHANGED tables, OnlyMoves(w),
         LocalTypeOK', OneHolder', Protected(w)'
  PROVE  Inductive'
<1>1. TypeOK'
  BY DEF Inductive, TypeOK, TablesTypeOK, LocalTypeOK, Request, tables
<1>2. EventsPosted'
  BY DEF Inductive, LocksProtect, EventsPosted, tables
<1>3. ASSUME NEW v \in Worker
      PROVE  Protected(v)'
  <2>1. CASE v = w
    BY <2>1
  <2>2. CASE v # w
    BY <2>2, Bystander DEF OnlyMoves, Inductive, LocksProtect
  <2> QED
    BY <2>1, <2>2
<1> QED
  BY <1>1, <1>2, <1>3 DEF Inductive, LocksProtect

(* Ending a transaction leaves a well-typed idle connection. *)
LEMMA EndTxLocals ==
  ASSUME LocalTypeOK, OneHolder, NEW w \in Worker, EndTx(w),
         failed' \subseteq InternalError
  PROVE  LocalTypeOK' /\ OneHolder' /\ OnlyMoves(w) /\ Protected(w)'
<1>1. NoView \in View /\ NoMovement \in Movement
  BY InputAssumption
  DEF InputAssumption, NoView, View, Day, NoMovement, Movement
<1>2. LocalTypeOK'
  BY <1>1 DEF LocalTypeOK, EndTx, Statement, Request
<1>3. OneHolder'
  BY DEF OneHolder, EndTx, LocalTypeOK
<1>4. /\ pc'[w] = "idle" /\ req'[w] = NoRequest /\ held'[w] = {}
      /\ draft'[w] = NoMovement
  BY DEF EndTx, LocalTypeOK
<1>5. Protected(w)'
  BY <1>4
  DEF Protected, AtStatements, BetStillNew, LossStillAllowed, LossAllowed,
      SeedStillOffered, SeedRotated, FundsStillCover, PostedSoFar,
      EventStillOurs, BetOnly, DepositOnly, Shared, Escrowed, Opened,
      Seeded, Allowed, Limited, Checked, Named, NoRequest
<1>6. OnlyMoves(w)
  BY DEF OnlyMoves, EndTx, LocalTypeOK
<1> QED
  BY <1>2, <1>3, <1>5, <1>6

(* Rolling back keeps the invariant. *)
LEMMA RollbackStep ==
  ASSUME Inductive, NEW w \in Worker, EndTx(w), UNCHANGED tables,
         failed' \subseteq InternalError
  PROVE  Inductive'
  BY EndTxLocals, FromInductive, QuietStep

-----------------------------------------------------------------------------
(* placeBet, statement by statement. *)
USE DEF BetOnly, DepositOnly, Shared, Escrowed, Opened, Seeded, Allowed,
        Limited, Checked, Named, Statement

LEMMA BeginBetStep ==
  ASSUME Inductive, NEW w \in Worker, BeginBet(w)
  PROVE  Inductive'
<1> USE FromInductive
<1>1. PICK r \in BetRequest : Begin(w, r)
  BY DEF BeginBet
<1>2. pc' = [pc EXCEPT ![w] = "lock_bet_id"] /\ pc[w] = "idle"
  BY <1>1 DEF BeginBet, Goto, Begin
<1>3. LocalTypeOK'
  BY <1>1, <1>2 DEF Begin, LocalTypeOK, Request, View
<1>4. OneHolder' /\ OnlyMoves(w)
  BY <1>1, <1>2 DEF Begin, OneHolder, OnlyMoves, LocalTypeOK
<1>5. Protected(w)'
  BY <1>1, <1>2
  DEF Begin, LocalTypeOK, Protected, AtStatements, BetStillNew,
      LossStillAllowed, SeedStillOffered, SeedRotated, FundsStillCover,
      PostedSoFar, EventStillOurs, BetRequest
<1> QED
  BY <1>1, <1>3, <1>4, <1>5, QuietStep DEF Begin

LEMMA LockBetIdStep ==
  ASSUME Inductive, NEW w \in Worker, LockBetId(w)
  PROVE  Inductive'
<1> USE FromInductive DEF LockBetId
<1>1. req[w].op = "bet" /\ req[w] \in BetRequest
  BY BetRequests DEF Protected, AtStatements
<1>2. BetIdLock(req[w].id) \in Lock
  BY <1>1 DEF Lock, BetRequest
<1>3. LocalTypeOK'
  BY <1>2 DEF Acquire, Goto, LocalTypeOK
<1>4. OneHolder' /\ OnlyMoves(w)
  BY AcquireKeepsOneHolder DEF Acquire, Goto, OnlyMoves, LocalTypeOK
<1>5. Protected(w)'
  BY <1>1
  DEF Acquire, Goto, LocalTypeOK, Protected, AtStatements, BetStillNew,
      LossStillAllowed, SeedStillOffered, SeedRotated, FundsStillCover,
      PostedSoFar, EventStillOurs
<1> QED
  BY <1>3, <1>4, <1>5, QuietStep

LEMMA AcceptBetStep ==
  ASSUME Inductive, NEW w \in Worker, AcceptBet(w)
  PROVE  Inductive'
<1> USE FromInductive DEF AcceptBet
<1>1. req[w].op = "bet"
  BY DEF Protected, AtStatements
<1>2. LocalTypeOK'
  BY DEF Goto, LocalTypeOK
<1>3. OneHolder' /\ OnlyMoves(w)
  BY DEF Goto, OneHolder, OnlyMoves, LocalTypeOK
<1>4. Protected(w)'
  BY <1>1
  DEF Goto, LocalTypeOK, tables, Protected, AtStatements, BetStillNew,
      LossStillAllowed, SeedStillOffered, SeedRotated, FundsStillCover,
      PostedSoFar, EventStillOurs
<1> QED
  BY <1>2, <1>3, <1>4, QuietStep

LEMMA LockLossStep ==
  ASSUME Inductive, NEW w \in Worker, LockLoss(w)
  PROVE  Inductive'
<1> USE FromInductive DEF LockLoss
<1>1. req[w].op = "bet" /\ req[w] \in BetRequest
  BY BetRequests DEF Protected, AtStatements
<1>2. LossLock(req[w].user) \in Lock
  BY <1>1 DEF Lock, BetRequest
<1>3. LocalTypeOK'
  BY <1>2 DEF Acquire, Goto, LocalTypeOK
<1>4. OneHolder' /\ OnlyMoves(w)
  BY AcquireKeepsOneHolder DEF Acquire, Goto, OnlyMoves, LocalTypeOK
<1>5. Protected(w)'
  BY <1>1
  DEF Acquire, Goto, LocalTypeOK, tables, Protected, AtStatements,
      BetStillNew, LossStillAllowed, SeedStillOffered, SeedRotated,
      FundsStillCover, PostedSoFar, EventStillOurs
<1> QED
  BY <1>3, <1>4, <1>5, QuietStep

LEMMA AcceptLossStep ==
  ASSUME Inductive, NEW w \in Worker, AcceptLoss(w)
  PROVE  Inductive'
<1> USE FromInductive DEF AcceptLoss
<1>1. req[w].op = "bet"
  BY DEF Protected, AtStatements
<1>2. LocalTypeOK'
  BY DEF Goto, LocalTypeOK
<1>3. OneHolder' /\ OnlyMoves(w)
  BY DEF Goto, OneHolder, OnlyMoves, LocalTypeOK
<1>4. Protected(w)'
  BY <1>1
  DEF Goto, LocalTypeOK, tables, Protected, AtStatements, BetStillNew,
      LossStillAllowed, LossAllowed, SeedStillOffered, SeedRotated,
      FundsStillCover, PostedSoFar, EventStillOurs
<1> QED
  BY <1>2, <1>3, <1>4, QuietStep

(* The seed statements are shared by bets and rotations. *)
LEMMA SelectSeedStep ==
  ASSUME Inductive, NEW w \in Worker, SelectSeed(w)
  PROVE  Inductive'
<1> USE FromInductive
<1>1. PICK s \in Seed : view' = [view EXCEPT ![w].seed = s]
  BY DEF SelectSeed
<1>2. /\ pc[w] = "select_seed" /\ pc' = [pc EXCEPT ![w] = "lock_seed"]
      /\ UNCHANGED <<tables, day, req, held, draft, failed>>
  BY DEF SelectSeed, Goto
<1>3. LocalTypeOK'
  BY <1>1, <1>2 DEF LocalTypeOK, View
<1>4. OneHolder' /\ OnlyMoves(w)
  BY <1>1, <1>2 DEF OneHolder, OnlyMoves, LocalTypeOK
<1>5. view'[w].seed = s /\ view'[w].day = view[w].day
  BY <1>1 DEF LocalTypeOK, View
<1>6. Protected(w)'
  BY <1>2, <1>5
  DEF LocalTypeOK, tables, Protected, AtStatements, BetStillNew,
      LossStillAllowed, LossAllowed, SeedStillOffered, SeedRotated,
      FundsStillCover, PostedSoFar, EventStillOurs
<1> QED
  BY <1>2, <1>3, <1>4, <1>6, QuietStep

LEMMA LockSeedStep ==
  ASSUME Inductive, NEW w \in Worker, LockSeed(w)
  PROVE  Inductive'
<1> USE FromInductive
<1> DEFINE lock == SeedLock(view[w].seed)
           there == IF req[w].op = "bet" THEN "open_bet" ELSE "rotate"
<1>1. /\ pc[w] = "lock_seed" /\ pc' = [pc EXCEPT ![w] = there]
      /\ UNCHANGED <<tables, day, req, draft, failed>>
      /\ Acquire(w, lock) /\ StillActive(w)
      /\ view' = [view EXCEPT ![w].nonce = seedNonce[view[w].seed],
                              ![w].retried = FALSE]
  BY DEF LockSeed, Goto
<1>2. view[w].seed \in Seed /\ req[w].op \in {"bet", "rotate"}
  BY <1>1 DEF Protected, AtStatements, SeedStillOffered
<1>3. lock \in Lock /\ seedNonce[view[w].seed] \in Nat
  BY <1>2 DEF Lock, TablesTypeOK
<1>4. /\ view'[w].seed = view[w].seed /\ view'[w].day = view[w].day
      /\ view'[w].nonce = seedNonce[view[w].seed]
  BY <1>1 DEF LocalTypeOK, View
<1>5. LocalTypeOK'
  <2>1. view' \in [Worker -> View]
    BY <1>1, <1>3 DEF LocalTypeOK, View
  <2> QED
    BY <1>1, <1>3, <2>1 DEF Acquire, LocalTypeOK
<1>6. OneHolder'
  BY <1>1, AcquireKeepsOneHolder DEF LocalTypeOK
<1>7. OnlyMoves(w)
  BY <1>1 DEF Acquire, OnlyMoves, LocalTypeOK
<1>8. held'[w] = held[w] \cup {lock} /\ pc'[w] = there
  BY <1>1 DEF Acquire, LocalTypeOK
<1>9. Protected(w)'
  BY <1>1, <1>2, <1>4, <1>8
  DEF LocalTypeOK, tables, StillActive, Protected, AtStatements,
      BetStillNew, LossStillAllowed, LossAllowed, SeedStillOffered,
      SeedRotated, FundsStillCover, PostedSoFar, EventStillOurs
<1> QED
  BY <1>1, <1>5, <1>6, <1>7, <1>9, QuietStep

LEMMA RetrySeedStep ==
  ASSUME Inductive, NEW w \in Worker, RetrySeed(w)
  PROVE  Inductive'
<1> USE FromInductive
<1> DEFINE lock == SeedLock(view[w].seed)
<1>1. /\ pc[w] = "lock_seed" /\ pc' = [pc EXCEPT ![w] = "select_seed"]
      /\ UNCHANGED <<tables, day, req, draft, failed>>
      /\ Acquire(w, lock) /\ view' = [view EXCEPT ![w].retried = TRUE]
  BY DEF RetrySeed, Goto
<1>2. view[w].seed \in Seed /\ req[w].op \in {"bet", "rotate"}
  BY <1>1 DEF Protected, AtStatements, SeedStillOffered
<1>3. lock \in Lock
  BY <1>2 DEF Lock
<1>4. view'[w].day = view[w].day
  BY <1>1 DEF LocalTypeOK, View
<1>5. LocalTypeOK'
  <2>1. view' \in [Worker -> View]
    BY <1>1 DEF LocalTypeOK, View
  <2> QED
    BY <1>1, <1>3, <2>1 DEF Acquire, LocalTypeOK
<1>6. OneHolder'
  BY <1>1, AcquireKeepsOneHolder DEF LocalTypeOK
<1>7. OnlyMoves(w)
  BY <1>1 DEF Acquire, OnlyMoves, LocalTypeOK
<1>8. held'[w] = held[w] \cup {lock} /\ pc'[w] = "select_seed"
  BY <1>1 DEF Acquire, LocalTypeOK
<1>9. Protected(w)'
  BY <1>1, <1>2, <1>4, <1>8
  DEF LocalTypeOK, tables, Protected, AtStatements, BetStillNew,
      LossStillAllowed, LossAllowed, SeedStillOffered, SeedRotated,
      FundsStillCover, PostedSoFar, EventStillOurs
<1> QED
  BY <1>1, <1>5, <1>6, <1>7, <1>9, QuietStep

LEMMA OpenBetStep ==
  ASSUME Inductive, NEW w \in Worker, OpenBet(w)
  PROVE  Inductive'
<1> USE FromInductive
<1>1. /\ pc[w] = "open_bet" /\ req[w].op = "bet" /\ req[w] \in BetRequest
      /\ ~SeedRotated(w)
  BY BetRequests DEF OpenBet, Protected, AtStatements
<1>2. CASE Fail(w, "unique_violation")
  BY <1>2, RollbackStep DEF Fail, InternalError, LocalTypeOK
<1>3. CASE /\ \A lock \in OpenLocks(w) : Free(w, lock)
           /\ held' = [held EXCEPT ![w] = @ \cup OpenLocks(w)]
           /\ Goto(w, "bet_lock")
           /\ UNCHANGED <<tables, day, req, draft, view, failed>>
  <2>1. OpenLocks(w) \subseteq Lock
    BY <1>1, FromInductive
    DEF OpenLocks, Lock, BetRequest, Account, Protected, SeedStillOffered
  <2>2. LocalTypeOK'
    BY <1>3, <2>1 DEF Goto, LocalTypeOK
  <2>3. OneHolder' /\ OnlyMoves(w)
    BY <1>3 DEF OneHolder, Free, Goto, OnlyMoves, LocalTypeOK
  <2>4. pc'[w] = "bet_lock" /\ held'[w] = held[w] \cup OpenLocks(w)
    BY <1>3 DEF Goto, LocalTypeOK
  <2>5. Protected(w)'
    BY <1>1, <1>3, <2>4
    DEF LocalTypeOK, tables, OpenLocks, Protected, AtStatements, BetStillNew,
        LossStillAllowed, LossAllowed, SeedStillOffered, SeedRotated,
        FundsStillCover, PostedSoFar, EventStillOurs
  <2> QED
    BY <1>3, <2>2, <2>3, <2>5, QuietStep
<1> QED
  BY <1>2, <1>3 DEF OpenBet

LEMMA LockAccountStep ==
  ASSUME Inductive, NEW w \in Worker, LockAccount(w)
  PROVE  Inductive'
<1> USE FromInductive
<1>1. PICK a \in NextRows(w) : Acquire(w, RowLock(a))
  BY DEF LockAccount
<1>2. UNCHANGED <<tables, day, pc, req, draft, view, failed>>
  BY DEF LockAccount
<1>3. a \in EntryAccounts(w)
  BY DEF NextRows, Unlocked
<1>4. pc[w] \in {"bet_lock", "bet_settle", "commission", "deposit"}
  BY <1>3 DEF EntryAccounts
<1>5. pc[w] \in {"bet_lock", "bet_settle", "deposit"} => req[w].user \in User
  BY <1>4, BetRequests, DepositRequests DEF Protected, AtStatements
<1>6. a \in Account
  BY <1>3, <1>4, <1>5 DEF EntryAccounts, Account, HouseAccount
<1>7. RowLock(a) \in Lock
  BY <1>6 DEF Lock
<1>8. LocalTypeOK'
  BY <1>1, <1>2, <1>7 DEF Acquire, LocalTypeOK
<1>9. OneHolder'
  BY <1>1, AcquireKeepsOneHolder DEF LocalTypeOK
<1>10. OnlyMoves(w) /\ held'[w] = held[w] \cup {RowLock(a)}
  BY <1>1, <1>2 DEF Acquire, OnlyMoves, LocalTypeOK
<1>11. Protected(w)'
  BY <1>2, <1>4, <1>10
  DEF tables, Protected, AtStatements, BetStillNew, LossStillAllowed,
      LossAllowed, SeedStillOffered, SeedRotated, FundsStillCover,
      PostedSoFar, EventStillOurs, Won, Payout, CommissionDue
<1> QED
  BY <1>2, <1>8, <1>9, <1>10, <1>11, QuietStep

(* Adding nothing changes nothing. *)
LEMMA PlusNothing ==
  ASSUME NEW m \in Movement
  PROVE  Plus(NoMovement, m) = m /\ Plus(m, CommissionLegs(0)) = m
  BY DEF Plus, NoMovement, CommissionLegs, Movement

(* What a bet past its seed has to work with. *)
LEMMA BetValues ==
  ASSUME Inductive, NEW w \in Worker, pc[w] \in Seeded
  PROVE  /\ req[w].op = "bet"
         /\ req[w].id \in BetId /\ req[w].user \in User
         /\ req[w].amount \in Stake /\ req[w].amount \in Nat \ {0}
         /\ req[w].target \in Target
         /\ view[w].seed \in Seed /\ view[w].nonce \in Nat
         /\ view[w].roll \in Nat /\ view[w].day \in Day
         /\ Won(w) \in BOOLEAN /\ Payout(w) \in Nat
         /\ CommissionDue(w) \in Nat
<1> USE FromInductive
<1>1. req[w].op = "bet"
  BY DEF Protected, AtStatements
<1>2. /\ req[w].id \in BetId /\ req[w].user \in User
      /\ req[w].amount \in Stake /\ req[w].target \in Target
  BY <1>1, BetRequests
<1>3. req[w].amount \in Nat \ {0}
  BY <1>2, InputAssumption DEF InputAssumption
<1>4. /\ view[w].nonce \in Nat /\ view[w].roll \in Nat /\ view[w].day \in Day
      /\ view[w].seed \in Seed
  BY DEF View, Protected, SeedStillOffered
<1>5. Won(w) \in BOOLEAN
  BY DEF Won, IsWin
<1>6. Payout(w) \in Nat
  BY <1>2, <1>4, PayoutNat DEF Payout
<1>7. CommissionDue(w) \in Nat
  BY <1>2, <1>3, CommissionInt DEF CommissionDue
<1> QED
  BY <1>1, <1>2, <1>3, <1>4, <1>5, <1>6, <1>7

LEMMA StakeEscrowedStep ==
  ASSUME Inductive, NEW w \in Worker, PostBetLock(w), ~NonceTaken(w)
  PROVE  Inductive'
<1> USE FromInductive
<1> DEFINE legs == BetLockLegs(req[w].user, req[w].amount)
<1>1. PICK roll \in Roll : view' = [view EXCEPT ![w].roll = roll]
  BY DEF PostBetLock
<1>2. /\ pc[w] = "bet_lock" /\ pc' = [pc EXCEPT ![w] = "bet_settle"]
      /\ UNCHANGED <<tables, day, req, held, failed>>
      /\ FundsCover(w) /\ draft' = [draft EXCEPT ![w] = Plus(@, legs)]
  BY DEF PostBetLock, EntryReady, Post, Goto
<1>3. /\ req[w].op = "bet" /\ req[w].user \in User
      /\ req[w].amount \in Nat \ {0}
  BY <1>2, BetValues
<1>4. legs \in Movement /\ draft[w] = NoMovement
  BY <1>2, <1>3, LegsTyped DEF Protected, PostedSoFar
<1>5. draft' = [draft EXCEPT ![w] = legs]
  BY <1>2, <1>4, PlusNothing
<1>6. roll \in Nat
  BY InputAssumption DEF InputAssumption
<1>7. /\ view'[w].seed = view[w].seed /\ view'[w].day = view[w].day
      /\ view'[w].nonce = view[w].nonce /\ view'[w].roll = roll
  BY <1>1 DEF LocalTypeOK, View
<1>8. req[w].amount <= balance[req[w].user]
  BY <1>2, <1>3, <1>4
  DEF FundsCover, VisibleBalance, NoMovement, Account, TablesTypeOK
<1>9. LocalTypeOK'
  <2>1. view' \in [Worker -> View]
    BY <1>1, <1>6 DEF LocalTypeOK, View
  <2> QED
    BY <1>2, <1>4, <1>5, <2>1 DEF LocalTypeOK
<1>10. OneHolder' /\ OnlyMoves(w)
  BY <1>1, <1>2 DEF OneHolder, OnlyMoves, LocalTypeOK
<1>11. pc'[w] = "bet_settle" /\ draft'[w] = legs
  BY <1>2, <1>5 DEF LocalTypeOK
<1>12. Protected(w)'
  BY <1>2, <1>3, <1>7, <1>8, <1>11
  DEF tables, Protected, AtStatements, BetStillNew, LossStillAllowed,
      LossAllowed, SeedStillOffered, SeedRotated, FundsStillCover,
      PostedSoFar, EventStillOurs
<1> QED
  BY <1>2, <1>9, <1>10, <1>12, QuietStep

LEMMA PostBetLockStep ==
  ASSUME Inductive, NEW w \in Worker, PostBetLock(w)
  PROVE  Inductive'
<1>1. CASE NonceTaken(w)
  BY <1>1, FromInductive, RollbackStep
  DEF PostBetLock, Fail, InternalError, LocalTypeOK
<1>2. CASE ~NonceTaken(w)
  BY <1>2, StakeEscrowedStep
<1> QED
  BY <1>1, <1>2

LEMMA PostBetSettleStep ==
  ASSUME Inductive, NEW w \in Worker, PostBetSettle(w)
  PROVE  Inductive'
<1> USE FromInductive
<1> DEFINE lock == BetLockLegs(req[w].user, req[w].amount)
           legs == BetSettleLegs(req[w].user, req[w].amount, Won(w), Payout(w))
           there == IF CommissionDue(w) > 0 THEN "commission" ELSE "commit_bet"
<1>1. /\ pc[w] = "bet_settle" /\ pc' = [pc EXCEPT ![w] = there]
      /\ UNCHANGED <<tables, day, req, held, view, failed>>
      /\ draft' = [draft EXCEPT ![w] = Plus(@, legs)]
  BY DEF PostBetSettle, EntryReady, Post, Goto
<1>2. /\ req[w].user \in User /\ req[w].amount \in Nat
      /\ Won(w) \in BOOLEAN /\ Payout(w) \in Nat /\ CommissionDue(w) \in Nat
  BY <1>1, BetValues
<1>3. legs \in Movement /\ lock \in Movement /\ draft[w] = lock
  BY <1>1, <1>2, LegsTyped, SettleLegsTyped DEF Protected, PostedSoFar
<1>4. Plus(lock, legs) \in Movement
  BY <1>3, PlusTyped
<1>5. /\ pc'[w] = there /\ draft'[w] = Plus(lock, legs)
      /\ req'[w] = req[w] /\ held'[w] = held[w] /\ view'[w] = view[w]
  BY <1>1, <1>3 DEF LocalTypeOK
<1>6. CommissionDue(w)' = CommissionDue(w)
  BY <1>5 DEF CommissionDue, Won
<1>7. there = "commit_bet" =>
        Plus(Plus(lock, legs), CommissionLegs(CommissionDue(w)))
          = Plus(lock, legs)
  BY <1>2, <1>4, PlusNothing
<1>8. PostedSoFar(w)'
  BY <1>5, <1>6, <1>7 DEF PostedSoFar, Won, Payout
<1>9. Protected(w)'
  BY <1>1, <1>5, <1>8
  DEF tables, Protected, AtStatements, BetStillNew, LossStillAllowed,
      LossAllowed, SeedStillOffered, SeedRotated, FundsStillCover,
      EventStillOurs
<1>10. LocalTypeOK'
  BY <1>1, <1>3, <1>4 DEF LocalTypeOK
<1>11. OneHolder' /\ OnlyMoves(w)
  BY <1>1 DEF OneHolder, OnlyMoves, LocalTypeOK
<1> QED
  BY <1>1, <1>9, <1>10, <1>11, QuietStep

LEMMA PostCommissionStep ==
  ASSUME Inductive, NEW w \in Worker, PostCommission(w)
  PROVE  Inductive'
<1> USE FromInductive
<1> DEFINE legs == CommissionLegs(CommissionDue(w))
<1>1. /\ pc[w] = "commission" /\ pc' = [pc EXCEPT ![w] = "commit_bet"]
      /\ UNCHANGED <<tables, day, req, held, view, failed>>
      /\ draft' = [draft EXCEPT ![w] = Plus(@, legs)]
  BY DEF PostCommission, EntryReady, Post, Goto
<1>2. /\ req[w].user \in User /\ req[w].amount \in Nat
      /\ Won(w) \in BOOLEAN /\ Payout(w) \in Nat /\ CommissionDue(w) \in Nat
  BY <1>1, BetValues
<1>3. Plus(draft[w], legs) \in Movement
  BY <1>2, CommissionLegsTyped, PlusTyped
<1>4. /\ pc'[w] = "commit_bet" /\ draft'[w] = Plus(draft[w], legs)
      /\ req'[w] = req[w] /\ held'[w] = held[w] /\ view'[w] = view[w]
  BY <1>1 DEF LocalTypeOK
<1>5. CommissionDue(w)' = CommissionDue(w)
  BY <1>4 DEF CommissionDue, Won
<1>6. PostedSoFar(w)'
  BY <1>1, <1>4, <1>5 DEF Protected, PostedSoFar, Won, Payout
<1>7. Protected(w)'
  BY <1>1, <1>4, <1>6
  DEF tables, Protected, AtStatements, BetStillNew, LossStillAllowed,
      LossAllowed, SeedStillOffered, SeedRotated, FundsStillCover,
      EventStillOurs
<1>8. LocalTypeOK'
  BY <1>1, <1>3 DEF LocalTypeOK
<1>9. OneHolder' /\ OnlyMoves(w)
  BY <1>1 DEF OneHolder, OnlyMoves, LocalTypeOK
<1> QED
  BY <1>1, <1>7, <1>8, <1>9, QuietStep

-----------------------------------------------------------------------------
(* ingestPaymentEvent and rotateSeed, up to their commits. *)
LEMMA BeginDepositStep ==
  ASSUME Inductive, NEW w \in Worker, BeginDeposit(w)
  PROVE  Inductive'
<1> USE FromInductive
<1>1. PICK r \in DepositRequest : Begin(w, r)
  BY DEF BeginDeposit
<1>2. pc' = [pc EXCEPT ![w] = "reserve_event"] /\ pc[w] = "idle"
  BY <1>1 DEF BeginDeposit, Goto, Begin
<1>3. LocalTypeOK'
  BY <1>1, <1>2 DEF Begin, LocalTypeOK, Request, View
<1>4. OneHolder' /\ OnlyMoves(w)
  BY <1>1, <1>2 DEF Begin, OneHolder, OnlyMoves, LocalTypeOK
<1>5. Protected(w)'
  BY <1>1, <1>2
  DEF Begin, LocalTypeOK, Protected, AtStatements, BetStillNew,
      LossStillAllowed, SeedStillOffered, SeedRotated, FundsStillCover,
      PostedSoFar, EventStillOurs, DepositRequest
<1> QED
  BY <1>1, <1>3, <1>4, <1>5, QuietStep DEF Begin

LEMMA BeginRotateStep ==
  ASSUME Inductive, NEW w \in Worker, BeginRotate(w)
  PROVE  Inductive'
<1> USE FromInductive
<1>1. PICK r \in RotateRequest : Begin(w, r)
  BY DEF BeginRotate
<1>2. pc' = [pc EXCEPT ![w] = "select_seed"] /\ pc[w] = "idle"
  BY <1>1 DEF BeginRotate, Goto, Begin
<1>3. LocalTypeOK'
  BY <1>1, <1>2 DEF Begin, LocalTypeOK, Request, View
<1>4. OneHolder' /\ OnlyMoves(w)
  BY <1>1, <1>2 DEF Begin, OneHolder, OnlyMoves, LocalTypeOK
<1>5. Protected(w)'
  BY <1>1, <1>2
  DEF Begin, LocalTypeOK, Protected, AtStatements, BetStillNew,
      LossStillAllowed, SeedStillOffered, SeedRotated, FundsStillCover,
      PostedSoFar, EventStillOurs, RotateRequest
<1> QED
  BY <1>1, <1>3, <1>4, <1>5, QuietStep DEF Begin

LEMMA WinReservationStep ==
  ASSUME Inductive, NEW w \in Worker, WinReservation(w)
  PROVE  Inductive'
<1> USE FromInductive DEF WinReservation
<1>1. req[w].op = "deposit" /\ req[w] \in DepositRequest
  BY DepositRequests DEF Protected, AtStatements
<1>2. EventLock(req[w].id) \in Lock
  BY <1>1 DEF Lock, DepositRequest
<1>3. LocalTypeOK'
  BY <1>2 DEF Acquire, Goto, LocalTypeOK
<1>4. OneHolder' /\ OnlyMoves(w)
  BY AcquireKeepsOneHolder DEF Acquire, Goto, OnlyMoves, LocalTypeOK
<1>5. Protected(w)'
  BY <1>1
  DEF Acquire, Goto, LocalTypeOK, tables, Protected, AtStatements,
      BetStillNew, LossStillAllowed, SeedStillOffered, SeedRotated,
      FundsStillCover, PostedSoFar, EventStillOurs
<1> QED
  BY <1>3, <1>4, <1>5, QuietStep

LEMMA LoseReservationStep ==
  ASSUME Inductive, NEW w \in Worker, LoseReservation(w)
  PROVE  Inductive'
<1> USE FromInductive DEF LoseReservation
<1>1. req[w].op = "deposit" /\ req[w].id \in EventId
  BY DepositRequests DEF Protected, AtStatements
<1>2. LocalTypeOK'
  BY DEF Goto, LocalTypeOK
<1>3. OneHolder' /\ OnlyMoves(w)
  BY DEF Goto, OneHolder, OnlyMoves, LocalTypeOK
<1>4. Protected(w)'
  BY <1>1
  DEF Goto, LocalTypeOK, tables, Protected, AtStatements, BetStillNew,
      LossStillAllowed, SeedStillOffered, SeedRotated, FundsStillCover,
      PostedSoFar, EventStillOurs, EventsPosted
<1> QED
  BY <1>2, <1>3, <1>4, QuietStep

LEMMA PostDepositStep ==
  ASSUME Inductive, NEW w \in Worker, PostDeposit(w)
  PROVE  Inductive'
<1> USE FromInductive
<1> DEFINE legs == DepositLegs(req[w].user, req[w].amount)
<1>1. /\ pc[w] = "deposit" /\ pc' = [pc EXCEPT ![w] = "commit_deposit"]
      /\ UNCHANGED <<tables, day, req, held, view, failed>>
      /\ draft' = [draft EXCEPT ![w] = Plus(@, legs)]
  BY DEF PostDeposit, EntryReady, Post, Goto
<1>2. req[w].op = "deposit"
  BY <1>1 DEF Protected, AtStatements
<1>3. req[w].user \in User /\ req[w].amount \in Amount
  BY <1>2, DepositRequests
<1>4. req[w].amount \in Nat \ {0}
  BY <1>3, AmountsPositive
<1>5. legs \in Movement /\ draft[w] = NoMovement
  BY <1>1, <1>3, <1>4, LegsTyped DEF Protected, PostedSoFar
<1>6. draft' = [draft EXCEPT ![w] = legs]
  BY <1>1, <1>5, PlusNothing
<1>7. pc'[w] = "commit_deposit" /\ draft'[w] = legs
  BY <1>1, <1>6 DEF LocalTypeOK
<1>8. LocalTypeOK'
  BY <1>1, <1>5, <1>6 DEF LocalTypeOK
<1>9. OneHolder' /\ OnlyMoves(w)
  BY <1>1 DEF OneHolder, OnlyMoves, LocalTypeOK
<1>10. Protected(w)'
  BY <1>1, <1>2, <1>7
  DEF tables, Protected, AtStatements, BetStillNew, LossStillAllowed,
      SeedStillOffered, SeedRotated, FundsStillCover, PostedSoFar,
      EventStillOurs
<1> QED
  BY <1>1, <1>8, <1>9, <1>10, QuietStep

LEMMA MidnightStep ==
  ASSUME Inductive, Midnight
  PROVE  Inductive'
<1>0. day' \in Day
  BY InputAssumption
  DEF InputAssumption, Inductive, TypeOK, Midnight, Day
<1>1. TypeOK'
  BY <1>0 DEF Inductive, TypeOK, TablesTypeOK, Midnight, tables, local
<1>2. EventsPosted' /\ OneHolder'
  BY DEF Inductive, LocksProtect, EventsPosted, OneHolder, Midnight, tables,
     local
<1>3. ASSUME NEW v \in Worker
      PROVE  Protected(v)'
  BY Bystander DEF Inductive, LocksProtect, Midnight, local
<1> QED
  BY <1>1, <1>2, <1>3 DEF Inductive, LocksProtect

-----------------------------------------------------------------------------
(* The commits.  They change the tables, so every other transaction in     *)
(* progress must be shown to be undisturbed.                               *)

(* Two transactions hold different locks. *)
LEMMA LocksDiffer ==
  ASSUME OneHolder, NEW v \in Worker, NEW w \in Worker, v # w,
         NEW lock \in held[v]
  PROVE  lock \notin held[w]
  BY DEF OneHolder

(* A commit needs an argument for the tables and for every other worker. *)
LEMMA CommitStep ==
  ASSUME Inductive, NEW w \in Worker, Commit(w), TablesTypeOK', EventsPosted',
         \A v \in Worker \ {w} : Protected(v)'
  PROVE  Inductive'
<1>1. LocalTypeOK' /\ OneHolder' /\ Protected(w)'
  BY FromInductive, EndTxLocals DEF Commit, LocalTypeOK
<1>2. TypeOK'
  BY <1>1 DEF TypeOK, LocalTypeOK, Request
<1> QED
  BY <1>1, <1>2 DEF Inductive, LocksProtect

(* What a commit does to the worker's fellows, and to the balances. *)
LEMMA CommitEffect ==
  ASSUME Inductive, NEW w \in Worker, Commit(w)
  PROVE  /\ OnlyMoves(w) /\ UNCHANGED <<day, failed>>
         /\ balance' \in [Account -> Int]
         /\ \A a \in Account : balance'[a] = balance[a] + draft[w][a]
<1>1. OnlyMoves(w)
  BY FromInductive, EndTxLocals DEF Commit, LocalTypeOK
<1>2. draft[w] \in Movement /\ balance \in [Account -> Int]
  BY FromInductive DEF TablesTypeOK
<1>3. balance' = Plus(balance, draft[w]) /\ UNCHANGED <<day, failed>>
  BY DEF Commit, EndTx
<1> QED
  BY <1>1, <1>2, <1>3 DEF Plus, Movement

(* The entries of a settled bet add up to the movement promised for it. *)
LEMMA SerialAccount == Serial!Account = Account
  BY DEF Account, HouseAccount, Serial!Account, Serial!HouseAccount

LEMMA BetMovementTyped ==
  ASSUME NEW u \in User, NEW amount \in Nat, NEW payout \in Nat,
         NEW commission \in Nat
  PROVE  Serial!BetMovement(u, amount, payout, commission) \in Movement
  BY SerialAccount DEF Serial!BetMovement, Movement

LEMMA EntriesAddUp ==
  ASSUME NEW u \in User, NEW amount \in Nat, NEW payout \in Nat,
         NEW won \in BOOLEAN, NEW commission \in Nat, NEW a \in Account,
         ~won => payout = 0
  PROVE  BetLockLegs(u, amount)[a] + BetSettleLegs(u, amount, won, payout)[a]
           + CommissionLegs(commission)[a]
           = Serial!BetMovement(u, amount, payout, commission)[a]
<1>1. u \notin HouseAccount
  BY AccountAssumption DEF AccountAssumption
<1>2. CASE a = u
  BY <1>1, <1>2, SerialAccount
  DEF BetLockLegs, BetSettleLegs, CommissionLegs, Serial!BetMovement,
      HouseAccount
<1>3. CASE a # u
  BY <1>1, <1>3, SerialAccount
  DEF BetLockLegs, BetSettleLegs, CommissionLegs, Serial!BetMovement,
      HouseAccount
<1> QED
  BY <1>2, <1>3

LEMMA BetDraft ==
  ASSUME Inductive, NEW w \in Worker, pc[w] = "commit_bet"
  PROVE  /\ CommissionDue(w) = IF Won(w) THEN 0
                              ELSE CommissionOn(req[w].user, req[w].amount)
         /\ draft[w] = Serial!BetMovement(req[w].user, req[w].amount,
                                          Payout(w), CommissionDue(w))
<1> DEFINE u == req[w].user
           amount == req[w].amount
           due == CommissionDue(w)
           won == Won(w)
           payout == Payout(w)
           lock == BetLockLegs(u, amount)
           settle == BetSettleLegs(u, amount, won, payout)
           fee == CommissionLegs(due)
           total == Serial!BetMovement(u, amount, payout, due)
<1>1. /\ u \in User /\ amount \in Nat \ {0} /\ won \in BOOLEAN
      /\ payout \in Nat /\ due \in Nat
  BY BetValues
<1>2. draft[w] = Plus(Plus(lock, settle), fee)
  BY FromInductive DEF Protected, PostedSoFar
<1>3. ~won => payout = 0
  BY DEF Won, Payout, PayoutOf
<1>4. due = IF won THEN 0 ELSE CommissionOn(u, amount)
  BY <1>1 DEF CommissionDue, CommissionOn
<1> HIDE DEF u, amount, due, won, payout
<1>5. lock \in Movement /\ settle \in Movement /\ fee \in Movement
  BY <1>1, LegsTyped, SettleLegsTyped, CommissionLegsTyped
<1>6. total \in Movement
  BY <1>1, BetMovementTyped
<1>7. Plus(Plus(lock, settle), fee) \in Movement
  BY <1>5, PlusTyped
<1>8. ASSUME NEW a \in Account
      PROVE  Plus(Plus(lock, settle), fee)[a] = total[a]
  <2>1. lock[a] + settle[a] + fee[a] = total[a]
    BY <1>1, <1>3, EntriesAddUp
  <2> QED
    BY <2>1 DEF Plus
<1> HIDE DEF lock, settle, fee, total
<1>9. Plus(Plus(lock, settle), fee) = total
  BY <1>6, <1>7, <1>8 DEF Movement
<1> QED
  BY <1>2, <1>4, <1>9 DEF u, amount, due, won, payout, total

(* A committing bet: everything it relied on is true, and what it changes. *)
LEMMA CommitBetEffect ==
  ASSUME Inductive, NEW w \in Worker, CommitBet(w),
         NEW b, b = req[w].id, NEW u, u = req[w].user,
         NEW s, s = view[w].seed, NEW amount, amount = req[w].amount,
         NEW payout, payout = Payout(w), NEW d, d = view[w].day
  PROVE  /\ b \in BetId /\ u \in User /\ s \in Seed /\ d \in Day
         /\ amount \in Stake /\ amount \in Nat \ {0} /\ payout \in Nat
         /\ bets[b] = NoRow /\ bets'[b] # NoRow
         /\ bets'[b] \in BetRow
         /\ bets'[b].user = u /\ bets'[b].day = d /\ bets'[b].seed = s
         /\ StakeWithinLimits(amount)
         /\ amount <= balance[u] /\ amount - net[u][d] <= DailyLossLimit
         /\ seedStatus[s] = "active" /\ seedNonce[s] = view[w].nonce
         /\ draft[w][u] = payout - amount
         /\ \A x \in User \ {u} : draft[w][x] = 0
         /\ bets' = [bets EXCEPT ![b] = bets'[b]]
         /\ seedNonce' = [seedNonce EXCEPT ![s] = @ + 1]
         /\ net' = AddNet(u, d, payout - amount)
         /\ UNCHANGED <<events, seedStatus>>
<1> USE FromInductive
<1>1. pc[w] = "commit_bet"
  BY DEF CommitBet
<1>2. /\ req[w].op = "bet" /\ b \in BetId /\ u \in User /\ s \in Seed
      /\ d \in Day /\ amount \in Stake /\ amount \in Nat \ {0}
      /\ payout \in Nat /\ CommissionDue(w) \in Nat
      /\ req[w].target \in Target /\ view[w].nonce \in Nat
  BY <1>1, BetValues
<1>3. /\ bets[b] = NoRow /\ StakeWithinLimits(amount)
      /\ amount - net[u][d] <= DailyLossLimit
      /\ seedStatus[s] = "active" /\ seedNonce[s] = view[w].nonce
      /\ amount <= balance[u] /\ view[w].roll \in Roll
  BY <1>1, <1>2
  DEF Protected, BetStillNew, LossStillAllowed, LossAllowed,
      SeedStillOffered, FundsStillCover
<1>4. draft[w] = Serial!BetMovement(u, amount, payout, CommissionDue(w))
  BY <1>1, BetDraft
<1>5. u \notin HouseAccount /\ User \cap HouseAccount = {}
  BY <1>2, AccountAssumption DEF AccountAssumption
<1>6. draft[w][u] = payout - amount /\ \A x \in User \ {u} : draft[w][x] = 0
  BY <1>2, <1>4, <1>5, SerialAccount
  DEF Serial!BetMovement, Account, HouseAccount
<1> DEFINE row == [user |-> u, amount |-> amount, target |-> req[w].target,
                   roll |-> view[w].roll, payout |-> payout, seed |-> s,
                   nonce |-> view[w].nonce, day |-> d]
<1>7. row \in BetRow /\ row.user = u /\ row.day = d /\ row.seed = s
  BY <1>2, <1>3 DEF BetRow
<1>8. row # NoRow
  BY <1>7, NoRowAssumption DEF NoRowAssumption
<1>9. bets' = [bets EXCEPT ![b] = row] /\ bets'[b] = row
  BY <1>2 DEF CommitBet, TablesTypeOK
<1>10. /\ seedNonce' = [seedNonce EXCEPT ![s] = @ + 1]
       /\ net' = AddNet(u, d, payout - amount)
       /\ UNCHANGED <<events, seedStatus>>
  BY <1>6 DEF CommitBet
<1> HIDE DEF row
<1> QED
  BY <1>2, <1>3, <1>6, <1>7, <1>8, <1>9, <1>10

(* A movement of one user leaves the others' nets alone. *)
LEMMA AddNetEffect ==
  ASSUME TablesTypeOK, NEW u \in User, NEW d \in Day, NEW x \in Int,
         net' = AddNet(u, d, x)
  PROVE  /\ net' \in [User -> [Day -> Int]]
         /\ net'[u][d] = net[u][d] + x
         /\ \A v \in User \ {u} : net'[v] = net[v]
<1>1. net'[u] = [e \in Day |-> IF e <= d THEN net[u][e] + x ELSE net[u][e]]
  BY DEF AddNet, TablesTypeOK
<1>2. net'[u] \in [Day -> Int]
  BY <1>1 DEF TablesTypeOK
<1>3. net' = [net EXCEPT ![u] = net'[u]]
  BY <1>1 DEF AddNet, TablesTypeOK
<1>4. d <= d
  BY InputAssumption DEF InputAssumption, Day
<1> QED
  BY <1>1, <1>2, <1>3, <1>4 DEF TablesTypeOK

LEMMA CommitBetStep ==
  ASSUME Inductive, NEW w \in Worker, CommitBet(w)
  PROVE  Inductive'
<1> USE FromInductive
<1> DEFINE b == req[w].id
           u == req[w].user
           s == view[w].seed
           amount == req[w].amount
           payout == Payout(w)
           d == view[w].day
<1>1. /\ b \in BetId /\ u \in User /\ s \in Seed /\ d \in Day
      /\ payout - amount \in Int /\ bets'[b] \in BetRow
      /\ \A x \in User \ {u} : draft[w][x] = 0
      /\ bets' = [bets EXCEPT ![b] = bets'[b]]
      /\ seedNonce' = [seedNonce EXCEPT ![s] = @ + 1]
      /\ net' = AddNet(u, d, payout - amount)
      /\ UNCHANGED <<events, seedStatus>>
  BY CommitBetEffect
<1>2. Commit(w) /\ pc[w] = "commit_bet"
  BY DEF CommitBet
<1>3. /\ OnlyMoves(w) /\ balance' \in [Account -> Int]
      /\ \A a \in Account : balance'[a] = balance[a] + draft[w][a]
  BY <1>2, CommitEffect
<1>4. /\ net' \in [User -> [Day -> Int]]
      /\ \A x \in User \ {u} : net'[x] = net[x]
  BY <1>1, AddNetEffect
<1>5. TablesTypeOK'
  BY <1>1, <1>3, <1>4 DEF TablesTypeOK
<1>6. EventsPosted'
  BY <1>1 DEF EventsPosted
<1>7. \A x \in User \ {u} : balance'[x] = balance[x]
  BY <1>1, <1>3 DEF TablesTypeOK, Account
<1>8. \A c \in BetId \ {b} : bets'[c] = bets[c]
  BY <1>1 DEF TablesTypeOK
<1>9. \A t \in Seed \ {s} : seedNonce'[t] = seedNonce[t]
  BY <1>1 DEF TablesTypeOK
<1>10. /\ BetIdLock(b) \in held[w] /\ LossLock(u) \in held[w]
       /\ SeedLock(s) \in held[w] /\ RowLock(u) \in held[w]
  BY <1>2
  DEF Protected, AtStatements, BetStillNew, LossStillAllowed,
      SeedStillOffered, FundsStillCover
<1> HIDE DEF b, u, s, d, payout
<1>11. ASSUME NEW v \in Worker \ {w}
       PROVE  Protected(v)'
  <2> USE OneHolder, LocksDiffer
  <2>1. /\ pc'[v] = pc[v] /\ req'[v] = req[v] /\ held'[v] = held[v]
        /\ draft'[v] = draft[v] /\ view'[v] = view[v]
    BY <1>3 DEF OnlyMoves
  <2>2. Protected(v) /\ req[v] \in Request
    OBVIOUS
  <2>3. BetStillNew(v)'
    <3>1. req[v].op = "bet" => req[v].id \in BetId
      BY <2>2, BetRequests
    <3>2. req[v].op = "bet" /\ pc[v] \in Named => req[v].id # b
      BY <1>10, <2>2 DEF Protected, BetStillNew
    <3> QED
      BY <1>8, <2>1, <2>2, <3>1, <3>2 DEF Protected, BetStillNew
  <2>4. req[v].op = "bet" => req[v].user \in User
    BY <2>2, BetRequests
  <2>5. LossStillAllowed(v)'
    <3>1. req[v].op = "bet" /\ pc[v] \in Limited => req[v].user # u
      BY <1>10, <2>2 DEF Protected, LossStillAllowed
    <3> QED
      BY <1>4, <2>1, <2>2, <2>4, <3>1
      DEF Protected, LossStillAllowed, LossAllowed
  <2>6. SeedStillOffered(v)'
    <3>1. pc[v] \in Seeded \cup {"rotate"} => view[v].seed # s
      BY <1>10, <2>2 DEF Protected, SeedStillOffered
    <3> QED
      BY <1>1, <1>9, <2>1, <2>2, <3>1
      DEF Protected, SeedStillOffered, SeedRotated
  <2>7. FundsStillCover(v)'
    <3>1. pc[v] \in Opened => req[v].user # u
      BY <1>10, <2>2 DEF Protected, FundsStillCover
    <3>2. pc[v] \in Opened => req[v].user \in User
      BY <2>2, <2>4 DEF Protected, AtStatements
    <3> QED
      BY <1>7, <2>1, <2>2, <3>1, <3>2 DEF Protected, FundsStillCover
  <2> QED
    BY <1>1, <2>1, <2>2, <2>3, <2>5, <2>6, <2>7
    DEF Protected, AtStatements, PostedSoFar, Won, Payout, CommissionDue,
        EventStillOurs
<1> QED
  BY <1>2, <1>5, <1>6, <1>11, CommitStep

(* A committing deposit credits its user and takes from nobody else. *)
LEMMA CommitDepositEffect ==
  ASSUME Inductive, NEW w \in Worker, CommitDeposit(w)
  PROVE  /\ req[w].op = "deposit" /\ req[w].id \in EventId
         /\ req[w].user \in User /\ req[w].amount \in Amount
         /\ req[w].amount \in Nat \ {0}
         /\ EventLock(req[w].id) \in held[w] /\ events[req[w].id] = NoRow
         /\ draft[w] = DepositLegs(req[w].user, req[w].amount)
         /\ events' = [events EXCEPT ![req[w].id] =
                         [user |-> req[w].user, amount |-> req[w].amount,
                          posted |-> TRUE]]
         /\ \A x \in User : balance'[x] >= balance[x]
         /\ UNCHANGED <<net, bets, seedStatus, seedNonce>>
<1> USE FromInductive
<1>1. pc[w] = "commit_deposit" /\ Commit(w)
  BY DEF CommitDeposit
<1>2. /\ req[w].op = "deposit" /\ req[w].id \in EventId
      /\ req[w].user \in User /\ req[w].amount \in Amount
      /\ req[w].amount \in Nat \ {0}
  BY <1>1, DepositRequests, AmountsPositive DEF Protected, AtStatements
<1>3. draft[w] = DepositLegs(req[w].user, req[w].amount)
  BY <1>1 DEF Protected, PostedSoFar
<1>4. \A a \in Account : balance'[a] = balance[a] + draft[w][a]
  BY <1>1, CommitEffect
<1>5. User \cap HouseAccount = {} /\ User \subseteq Account
  BY AccountAssumption DEF AccountAssumption, Account
<1>6. ASSUME NEW x \in User
      PROVE  draft[w][x] >= 0
  BY <1>2, <1>3, <1>5 DEF DepositLegs, HouseAccount
<1>7. ASSUME NEW x \in User
      PROVE  balance'[x] >= balance[x]
  <2>1. balance[x] \in Int /\ draft[w][x] \in Int
    BY <1>5 DEF TablesTypeOK, Movement
  <2> QED
    BY <1>4, <1>5, <1>6, <2>1
<1> QED
  BY <1>1, <1>2, <1>3, <1>7
  DEF CommitDeposit, Protected, EventStillOurs

LEMMA CommitDepositStep ==
  ASSUME Inductive, NEW w \in Worker, CommitDeposit(w)
  PROVE  Inductive'
<1> USE FromInductive
<1> DEFINE e == req[w].id
           row == [user |-> req[w].user, amount |-> req[w].amount,
                   posted |-> TRUE]
<1>1. /\ e \in EventId /\ EventLock(e) \in held[w] /\ events[e] = NoRow
      /\ events' = [events EXCEPT ![e] = row]
      /\ \A x \in User : balance'[x] >= balance[x]
      /\ UNCHANGED <<net, bets, seedStatus, seedNonce>>
  BY CommitDepositEffect
<1>2. row \in EventRow /\ row.posted
  BY CommitDepositEffect DEF EventRow
<1>3. /\ OnlyMoves(w) /\ balance' \in [Account -> Int] /\ Commit(w)
  BY CommitEffect DEF CommitDeposit
<1> HIDE DEF e, row
<1>4. TablesTypeOK'
  BY <1>1, <1>2, <1>3 DEF TablesTypeOK
<1>5. /\ events'[e] = row
      /\ \A c \in EventId \ {e} : events'[c] = events[c]
  BY <1>1 DEF TablesTypeOK
<1>6. EventsPosted'
  BY <1>2, <1>5 DEF EventsPosted
<1>7. ASSUME NEW v \in Worker \ {w}
      PROVE  Protected(v)'
  <2> USE OneHolder, LocksDiffer
  <2>1. /\ pc'[v] = pc[v] /\ req'[v] = req[v] /\ held'[v] = held[v]
        /\ draft'[v] = draft[v] /\ view'[v] = view[v]
    BY <1>3 DEF OnlyMoves
  <2>2. Protected(v) /\ req[v] \in Request
    OBVIOUS
  <2>3. req[v].op = "bet" =>
          req[v].user \in User /\ req[v].amount \in Nat \ {0}
    BY <2>2, BetRequests, AmountsPositive
  <2>4. FundsStillCover(v)'
    <3>1. pc[v] \in Escrowed =>
            /\ req[v].amount <= balance[req[v].user]
            /\ req[v].amount \in Int
            /\ balance'[req[v].user] >= balance[req[v].user]
            /\ balance[req[v].user] \in Int /\ balance'[req[v].user] \in Int
      BY <1>1, <1>3, <2>2, <2>3
      DEF Protected, AtStatements, FundsStillCover, TablesTypeOK, Account
    <3>2. pc[v] \in Escrowed => req[v].amount <= balance'[req[v].user]
      BY <3>1
    <3> QED
      BY <2>1, <2>2, <3>2 DEF Protected, FundsStillCover
  <2>5. pc[v] \in DepositOnly => req[v].id \in EventId
    BY <2>2, DepositRequests DEF Protected, AtStatements
  <2>6. EventStillOurs(v)'
    <3>1. pc[v] \in {"deposit", "commit_deposit"} => req[v].id # e
      BY <1>1, <2>2 DEF Protected, EventStillOurs
    <3>2. pc[v] = "read_event" => req[v].id # e
      BY <1>1, <2>2 DEF Protected, EventStillOurs
    <3> QED
      BY <1>5, <2>1, <2>2, <2>5, <3>1, <3>2 DEF Protected, EventStillOurs
  <2> QED
    BY <1>1, <2>1, <2>2, <2>4, <2>6
    DEF Protected, AtStatements, BetStillNew, LossStillAllowed, LossAllowed,
        SeedStillOffered, SeedRotated, PostedSoFar, Won, Payout, CommissionDue
<1> QED
  BY <1>3, <1>4, <1>6, <1>7, CommitStep

(* Adding an empty movement to the balances leaves them as they are. *)
LEMMA NothingPosted ==
  ASSUME balance \in [Account -> Int], balance' = Plus(balance, NoMovement)
  PROVE  balance' = balance
  BY DEF Plus, NoMovement

LEMMA RotateSeedStep ==
  ASSUME Inductive, NEW w \in Worker, RotateSeed(w)
  PROVE  Inductive'
<1> USE FromInductive
<1> DEFINE s == view[w].seed
<1>1. PICK next \in Seed :
        /\ seedStatus[next] = "unused"
        /\ seedStatus' = [seedStatus EXCEPT ![s] = "revealed",
                                            ![next] = "active"]
  BY DEF RotateSeed
<1>2. /\ pc[w] = "rotate" /\ Commit(w)
      /\ UNCHANGED <<net, bets, events, seedNonce>>
  BY DEF RotateSeed
<1>3. s \in Seed /\ SeedLock(s) \in held[w] /\ draft[w] = NoMovement
  BY <1>2 DEF Protected, SeedStillOffered, PostedSoFar
<1>4. balance' = balance
  BY <1>2, <1>3, NothingPosted DEF Commit, TablesTypeOK
<1>5. OnlyMoves(w)
  BY <1>2, CommitEffect
<1>6. TablesTypeOK'
  BY <1>1, <1>2, <1>4 DEF TablesTypeOK, SeedStatus
<1>7. EventsPosted'
  BY <1>2 DEF EventsPosted
<1>8. \A t \in Seed \ {s, next} : seedStatus'[t] = seedStatus[t]
  BY <1>1 DEF TablesTypeOK
<1> HIDE DEF s
<1>9. ASSUME NEW v \in Worker \ {w}
      PROVE  Protected(v)'
  <2> USE OneHolder, LocksDiffer
  <2>1. /\ pc'[v] = pc[v] /\ req'[v] = req[v] /\ held'[v] = held[v]
        /\ draft'[v] = draft[v] /\ view'[v] = view[v]
    BY <1>5 DEF OnlyMoves
  <2>2. Protected(v)
    OBVIOUS
  <2>3. SeedStillOffered(v)'
    <3>1. pc[v] \in Seeded \cup {"rotate"} =>
            view[v].seed \in Seed \ {s, next}
      BY <1>1, <1>3, <2>2 DEF Protected, SeedStillOffered
    <3> QED
      BY <1>2, <1>8, <2>1, <2>2, <3>1
      DEF Protected, SeedStillOffered, SeedRotated
  <2> QED
    BY <1>2, <1>4, <2>1, <2>2, <2>3
    DEF Protected, AtStatements, BetStillNew, LossStillAllowed, LossAllowed,
        FundsStillCover, PostedSoFar, Won, Payout, CommissionDue,
        EventStillOurs
<1> QED
  BY <1>2, <1>6, <1>7, <1>9, CommitStep

-----------------------------------------------------------------------------
(* Every way a transaction can roll back. *)
Rollback(w) ==
  RefuseBet(w) \/ RefuseLoss(w) \/ GiveUpSeed(w) \/ RefuseRotated(w)
    \/ RefuseFunds(w) \/ Deduplicate(w) \/ Crash(w)

LEMMA RollbackEffect ==
  ASSUME Inductive, NEW w \in Worker, Rollback(w)
  PROVE  EndTx(w) /\ UNCHANGED tables /\ failed' \subseteq InternalError
<1>1. failed \subseteq InternalError
  BY DEF Inductive, TypeOK
<1> QED
  BY <1>1
  DEF Rollback, RefuseBet, RefuseLoss, GiveUpSeed, RefuseRotated,
      RefuseFunds, Deduplicate, Crash, Refuse, Fail, InternalError

LEMMA RollbackSteps ==
  ASSUME Inductive, NEW w \in Worker, Rollback(w)
  PROVE  Inductive'
  BY RollbackEffect, RollbackStep

(* The invariant survives every step. *)
LEMMA InductiveStep ==
  ASSUME Inductive, [Next]_vars
  PROVE  Inductive'
<1>1. CASE UNCHANGED vars
  <2>1. TypeOK'
    BY <1>1 DEF Inductive, TypeOK, TablesTypeOK, vars, local, tables
  <2>2. EventsPosted' /\ OneHolder'
    BY <1>1 DEF Inductive, LocksProtect, EventsPosted, OneHolder, vars,
       local, tables
  <2>3. ASSUME NEW v \in Worker
        PROVE  Protected(v)'
    BY <1>1, Bystander DEF Inductive, LocksProtect, vars, local
  <2> QED
    BY <2>1, <2>2, <2>3 DEF Inductive, LocksProtect
<1>2. CASE Midnight
  BY <1>2, MidnightStep
<1>3. ASSUME NEW w \in Worker,
             BeginBet(w) \/ BeginDeposit(w) \/ BeginRotate(w) \/ Serve(w)
               \/ Crash(w)
      PROVE  Inductive'
  BY <1>3, BeginBetStep, BeginDepositStep, BeginRotateStep, LockBetIdStep,
     AcceptBetStep, LockLossStep, AcceptLossStep, SelectSeedStep,
     LockSeedStep, RetrySeedStep, OpenBetStep, LockAccountStep,
     PostBetLockStep, PostBetSettleStep, PostCommissionStep, CommitBetStep,
     WinReservationStep, LoseReservationStep, PostDepositStep,
     CommitDepositStep, RotateSeedStep, RollbackSteps
  DEF Serve, Rollback
<1> QED
  BY <1>1, <1>2, <1>3 DEF Next

LEMMA InductiveInit ==
  ASSUME Init
  PROVE  Inductive
<1>1. NoView \in View /\ NoMovement \in Movement /\ 0 \in Day
  BY InputAssumption
  DEF InputAssumption, NoView, View, Day, NoMovement, Movement
<1>2. TablesTypeOK
  BY <1>1 DEF Init, TablesInit, TablesTypeOK, SeedStatus, Movement
<1>3. TypeOK
  BY <1>1, <1>2 DEF Init, TypeOK
<1>4. OneHolder /\ EventsPosted
  BY DEF Init, TablesInit, OneHolder, EventsPosted
<1>5. ASSUME NEW w \in Worker
      PROVE  Protected(w)
  BY DEF Init, Protected, AtStatements, BetStillNew, LossStillAllowed,
       SeedStillOffered, SeedRotated, FundsStillCover, PostedSoFar,
       EventStillOurs, NoRequest
<1> QED
  BY <1>3, <1>4, <1>5 DEF Inductive, LocksProtect
=============================================================================
