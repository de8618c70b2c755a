------------------------- MODULE SettlementTheorems -------------------------
(***************************************************************************)
(* What holds of Settlement for any number of connections, users, ids,     *)
(* seeds and amounts, from the invariant proved in SettlementProofs.       *)
(***************************************************************************)
EXTENDS SettlementProofs, FiniteSetTheorems, WellFoundedInduction

USE DEF BetOnly, DepositOnly, Shared, Escrowed, Opened, Seeded, Allowed,
        Limited, Checked, Named

-----------------------------------------------------------------------------
(* Inductive is true in every reachable state.                             *)
THEOREM InductiveInvariant == Spec => []Inductive
  BY InductiveInit, InductiveStep, PTL DEF Spec

(* Every variable keeps its type, whatever the requests in flight          *)
(* (001_schema.sql:47-104 for the tables, withTx for the transactions).    *)
THEOREM TypeCorrect == Spec => []TypeOK
<1>1. Inductive => TypeOK
  BY DEF Inductive
<1> QED
  BY <1>1, InductiveInvariant, PTL

(* Nothing a transaction has checked under its locks is undone by another  *)
(* transaction before it commits (bet.ts:186-263, webhook.ts:17-39).       *)
THEOREM LocksProtected == Spec => []LocksProtect
<1>1. Inductive => LocksProtect
  BY DEF Inductive
<1> QED
  BY <1>1, InductiveInvariant, PTL

-----------------------------------------------------------------------------
(* The steps that change the tables.                                       *)
TableStep(w) == CommitBet(w) \/ CommitDeposit(w) \/ RotateSeed(w)

LEMMA OnlyCommitsChangeTables ==
  ASSUME Inductive, [Next]_vars
  PROVE  UNCHANGED tables \/ \E w \in Worker : TableStep(w)
<1>1. CASE UNCHANGED vars \/ Midnight
  BY <1>1 DEF vars, Midnight
<1>2. ASSUME NEW w \in Worker, BeginBet(w) \/ BeginDeposit(w) \/ BeginRotate(w)
      PROVE  UNCHANGED tables
  BY <1>2 DEF BeginBet, BeginDeposit, BeginRotate, Begin
<1>3. ASSUME NEW w \in Worker, Rollback(w)
      PROVE  UNCHANGED tables
  BY <1>3, RollbackEffect
<1>4. ASSUME NEW w \in Worker, OpenBet(w) \/ PostBetLock(w)
      PROVE  UNCHANGED tables
  BY <1>4 DEF OpenBet, PostBetLock, Fail
<1>5. ASSUME NEW w \in Worker,
             \/ LockBetId(w) \/ AcceptBet(w) \/ LockLoss(w) \/ AcceptLoss(w)
             \/ SelectSeed(w) \/ LockSeed(w) \/ RetrySeed(w)
             \/ LockAccount(w) \/ PostBetSettle(w)
             \/ PostCommission(w) \/ WinReservation(w) \/ LoseReservation(w)
             \/ PostDeposit(w)
      PROVE  UNCHANGED tables
  BY <1>5
  DEF LockBetId, AcceptBet, LockLoss, AcceptLoss, SelectSeed, LockSeed,
      RetrySeed, LockAccount, PostBetSettle, PostCommission,
      WinReservation, LoseReservation, PostDeposit
<1> QED
  BY <1>1, <1>2, <1>3, <1>4, <1>5 DEF Next, Serve, Rollback, TableStep

-----------------------------------------------------------------------------
(* No user account is ever overdrawn: the balance a debit was tested       *)
(* against cannot fall while the debit's transaction holds the account's   *)
(* row (post.ts:67-102, accounts.ts:7-16).                                 *)
LEMMA NoOverdraftStep ==
  ASSUME Inductive, NoOverdraft, [Next]_vars
  PROVE  NoOverdraft'
<1>1. CASE UNCHANGED tables
  BY <1>1 DEF NoOverdraft, tables
<1>2. ASSUME NEW w \in Worker, CommitBet(w)
      PROVE  NoOverdraft'
  <2> DEFINE u == req[w].user
             stake == req[w].amount
             payout == Payout(w)
  <2>1. /\ u \in User /\ stake \in Nat /\ payout \in Nat /\ stake <= balance[u]
        /\ draft[w][u] = payout - stake
        /\ \A x \in User \ {u} : draft[w][x] = 0
    BY <1>2, CommitBetEffect
  <2>2. \A a \in Account : balance'[a] = balance[a] + draft[w][a]
    BY <1>2, CommitEffect DEF CommitBet
  <2>3. User \subseteq Account /\ balance \in [Account -> Int]
    BY FromInductive, <1>2 DEF Account, TablesTypeOK
  <2> HIDE DEF u, stake, payout
  <2>4. ASSUME NEW x \in User
        PROVE  balance'[x] >= 0
    <3>1. balance[x] \in Int /\ balance[x] >= 0
      BY <2>3 DEF NoOverdraft
    <3>2. balance'[x] = balance[x] + draft[w][x]
      BY <2>2, <2>3
    <3> QED
      BY <2>1, <3>1, <3>2
  <2> QED
    BY <2>4 DEF NoOverdraft
<1>3. ASSUME NEW w \in Worker, CommitDeposit(w)
      PROVE  NoOverdraft'
  <2>1. \A x \in User : balance'[x] >= balance[x]
    BY <1>3, CommitDepositEffect
  <2>2. /\ balance \in [Account -> Int] /\ balance' \in [Account -> Int]
        /\ User \subseteq Account
    BY <1>3, FromInductive, CommitEffect
    DEF CommitDeposit, TablesTypeOK, Account
  <2>3. ASSUME NEW x \in User
        PROVE  balance'[x] >= 0
    <3>1. balance[x] \in Int /\ balance'[x] \in Int
      BY <2>2
    <3> QED
      BY <2>1, <3>1 DEF NoOverdraft
  <2> QED
    BY <2>3 DEF NoOverdraft
<1>4. ASSUME NEW w \in Worker, RotateSeed(w)
      PROVE  NoOverdraft'
  <2>1. Protected(w) /\ balance \in [Account -> Int] /\ pc[w] = "rotate"
    BY <1>4, FromInductive DEF RotateSeed, TablesTypeOK
  <2>2. draft[w] = NoMovement
    BY <2>1 DEF Protected, PostedSoFar
  <2>3. balance' = balance
    BY <1>4, <2>1, <2>2, NothingPosted DEF RotateSeed, Commit
  <2> QED
    BY <2>3 DEF NoOverdraft
<1> QED
  BY <1>1, <1>2, <1>3, <1>4, OnlyCommitsChangeTables DEF TableStep

THEOREM NeverOverdrawn == Spec => []NoOverdraft
<1>1. Init => NoOverdraft
  <2>1. ASSUME Init
        PROVE  \A x \in User : balance[x] = 0
    BY <2>1 DEF Init, TablesInit, NoMovement, Account
  <2> QED
    BY <2>1 DEF NoOverdraft
<1> QED
  BY <1>1, InductiveInvariant, NoOverdraftStep, PTL DEF Spec

-----------------------------------------------------------------------------
(* A bet row can only come from a commit of its bet.                       *)
LEMMA NewBet ==
  ASSUME Inductive, [Next]_vars, NEW b \in BetId,
         bets[b] = NoRow, bets'[b] # NoRow
  PROVE  \E w \in Worker : CommitBet(w) /\ b = req[w].id
<1>1. PICK w \in Worker : TableStep(w)
  BY OnlyCommitsChangeTables DEF tables
<1>2. CommitBet(w)
  BY <1>1 DEF TableStep, CommitDeposit, RotateSeed
<1>3. bets' = [bets EXCEPT ![req[w].id] = bets'[req[w].id]]
  BY <1>2, CommitBetEffect
<1>4. b = req[w].id
  BY <1>3, <1>2, FromInductive DEF TablesTypeOK
<1> QED
  BY <1>2, <1>4

(* No two bets of a user spend the same daily allowance: the one that      *)
(* commits second was measured against the first (bet.ts:232-252).         *)
LEMMA LossLimitStep ==
  ASSUME Inductive, [Next]_vars, NEW b \in BetId,
         bets[b] = NoRow, bets'[b] # NoRow
  PROVE  -net'[bets'[b].user][bets'[b].day] <= DailyLossLimit
<1>1. PICK w \in Worker : CommitBet(w) /\ b = req[w].id
  BY NewBet
<1> DEFINE u == req[w].user
           d == view[w].day
           stake == req[w].amount
           payout == Payout(w)
<1>2. /\ u \in User /\ d \in Day /\ stake \in Nat /\ payout \in Nat
      /\ bets'[b].user = u /\ bets'[b].day = d
      /\ stake - net[u][d] <= DailyLossLimit
      /\ net' = AddNet(u, d, payout - stake)
  BY <1>1, CommitBetEffect
<1>3. TablesTypeOK
  BY FromInductive
<1> HIDE DEF u, d, stake, payout
<1>4. net'[u][d] = net[u][d] + (payout - stake)
  BY <1>2, <1>3, AddNetEffect
<1>5. net[u][d] \in Int /\ DailyLossLimit \in Nat
  BY <1>2, <1>3, LimitAssumption DEF TablesTypeOK, LimitAssumption
<1> QED
  BY <1>2, <1>4, <1>5

THEOREM LossLimitHolds == Spec => LossLimitAtCommit
<1>1. Inductive /\ [Next]_vars =>
        [\A b \in BetId :
           bets[b] = NoRow /\ bets'[b] # NoRow =>
             -net'[bets'[b].user][bets'[b].day] <= DailyLossLimit]_tables
  BY LossLimitStep
<1> QED
  BY <1>1, InductiveInvariant, PTL DEF Spec, LossLimitAtCommit

(* A bet settles under the commitment its caller named or not at all,      *)
(* however many rotations it waited through (bet.ts:254-263).              *)
THEOREM CommitmentsKept == Spec => NamedCommitmentKept
<1>1. ASSUME Inductive, NEW w \in Worker, CommitBet(w)
      PROVE  req[w].seedHash \in {NoSeed, bets'[req[w].id].seed}
  <2>1. bets'[req[w].id].seed = view[w].seed
    BY <1>1, CommitBetEffect
  <2>2. ~SeedRotated(w)
    BY <1>1, FromInductive DEF CommitBet, Protected, SeedStillOffered
  <2> QED
    BY <2>1, <2>2 DEF SeedRotated
<1>2. Inductive /\ [Next]_vars =>
        [\A w \in Worker :
           CommitBet(w) =>
             req[w].seedHash \in {NoSeed, bets'[req[w].id].seed}]_vars
  BY <1>1
<1> QED
  BY <1>2, InductiveInvariant, PTL DEF Spec, NamedCommitmentKept

-----------------------------------------------------------------------------
(* Every bet commits while its seed is secret and active, and a revealed   *)
(* seed's nonce never moves again (bet.ts:254-263, seeds.ts:75-83).        *)
RevealedIsFinal ==
  \A s \in Seed : seedStatus[s] = "revealed" =>
    seedStatus'[s] = "revealed" /\ seedNonce'[s] = seedNonce[s]

LEMMA RevealedIsFinalStep ==
  ASSUME Inductive, [Next]_vars
  PROVE  RevealedIsFinal
<1>1. CASE UNCHANGED tables
  BY <1>1 DEF tables, RevealedIsFinal
<1>2. ASSUME NEW w \in Worker, CommitBet(w)
      PROVE  RevealedIsFinal
  <2> DEFINE s == view[w].seed
  <2>1. /\ s \in Seed /\ seedStatus[s] = "active" /\ UNCHANGED seedStatus
        /\ seedNonce' = [seedNonce EXCEPT ![s] = @ + 1]
    BY <1>2, CommitBetEffect
  <2>2. TablesTypeOK
    BY <1>2, FromInductive
  <2> HIDE DEF s
  <2> QED
    BY <2>1, <2>2 DEF RevealedIsFinal, TablesTypeOK
<1>3. ASSUME NEW w \in Worker, CommitDeposit(w)
      PROVE  RevealedIsFinal
  BY <1>3 DEF CommitDeposit, RevealedIsFinal
<1>4. ASSUME NEW w \in Worker, RotateSeed(w)
      PROVE  RevealedIsFinal
  <2>1. TablesTypeOK /\ UNCHANGED seedNonce
    BY <1>4, FromInductive DEF RotateSeed
  <2>2. PICK next \in Seed :
          /\ seedStatus[next] = "unused"
          /\ seedStatus' = [seedStatus EXCEPT ![view[w].seed] = "revealed",
                                              ![next] = "active"]
    BY <1>4 DEF RotateSeed
  <2> QED
    BY <2>1, <2>2 DEF RevealedIsFinal, TablesTypeOK
<1> QED
  BY <1>1, <1>2, <1>3, <1>4, OnlyCommitsChangeTables DEF TableStep

LEMMA SecretWhenSettled ==
  ASSUME Inductive, [Next]_vars, NEW b \in BetId,
         bets[b] = NoRow, bets'[b] # NoRow
  PROVE  /\ seedStatus[bets'[b].seed] = "active"
         /\ seedStatus'[bets'[b].seed] = "active"
<1>1. PICK w \in Worker : CommitBet(w) /\ b = req[w].id
  BY NewBet
<1>2. /\ bets'[b].seed = view[w].seed /\ UNCHANGED seedStatus
      /\ seedStatus[view[w].seed] = "active"
  BY <1>1, CommitBetEffect
<1> QED
  BY <1>2

THEOREM CommittedBeforeRevealed == Spec => CommitBeforeReveal
<1>1. Inductive /\ [Next]_vars =>
        [/\ \A b \in BetId :
              bets[b] = NoRow /\ bets'[b] # NoRow =>
                /\ seedStatus[bets'[b].seed] = "active"
                /\ seedStatus'[bets'[b].seed] = "active"
         /\ \A s \in Seed : seedStatus[s] = "revealed" =>
              seedStatus'[s] = "revealed" /\ seedNonce'[s] = seedNonce[s]]_tables
  BY SecretWhenSettled, RevealedIsFinalStep DEF RevealedIsFinal
<1> QED
  BY <1>1, InductiveInvariant, PTL DEF Spec, CommitBeforeReveal

-----------------------------------------------------------------------------
(* The statement-level service implements the one that does one thing at a *)
(* time.  The commit is where each transaction takes effect.               *)

(* The instance's copies of the shared definitions mean the same.          *)
LEMMA SameBooks ==
  ASSUME NEW m, NEW n, NEW u, NEW amount, NEW target, NEW roll
  PROVE  /\ Serial!Plus(m, n) = Plus(m, n)
         /\ Serial!NoMovement = NoMovement
         /\ Serial!DepositLegs(u, amount) = DepositLegs(u, amount)
         /\ Serial!IsWin(roll, target) = IsWin(roll, target)
         /\ Serial!PayoutOf(amount, target, roll) =
              PayoutOf(amount, target, roll)
         /\ Serial!CommissionOn(u, amount) = CommissionOn(u, amount)
         /\ Serial!StakeWithinLimits(amount) = StakeWithinLimits(amount)
  BY SerialAccount
  DEF Plus, NoMovement, DepositLegs, IsWin, PayoutOf, PayoutFor,
      CommissionOn, StakeWithinLimits, Serial!Plus, Serial!NoMovement,
      Serial!DepositLegs, Serial!IsWin, Serial!PayoutOf, Serial!PayoutFor,
      Serial!CommissionOn, Serial!StakeWithinLimits

LEMMA SameTables ==
  ASSUME NEW u, NEW d, NEW x
  PROVE  /\ Serial!Day = Day
         /\ Serial!AddNet(u, d, x) = AddNet(u, d, x)
         /\ Serial!tables = tables
  BY DEF Serial!Day, Day, Serial!AddNet, AddNet, Serial!tables, tables

LEMMA CommitBetSerialises ==
  ASSUME Inductive, NEW w \in Worker, CommitBet(w)
  PROVE  Serial!SerialNext
<1> DEFINE b == req[w].id
           u == req[w].user
           s == view[w].seed
           d == view[w].day
           stake == req[w].amount
           target == req[w].target
           roll == view[w].roll
           payout == Payout(w)
<1>1. /\ b \in BetId /\ u \in User /\ s \in Seed /\ d \in Day
      /\ stake \in Stake /\ bets[b] = NoRow /\ StakeWithinLimits(stake)
      /\ stake <= balance[u] /\ stake - net[u][d] <= DailyLossLimit
      /\ seedStatus[s] = "active" /\ seedNonce[s] = view[w].nonce
      /\ seedNonce' = [seedNonce EXCEPT ![s] = @ + 1]
      /\ net' = AddNet(u, d, payout - stake)
      /\ UNCHANGED <<events, seedStatus>>
  BY CommitBetEffect
<1>2. pc[w] = "commit_bet" /\ Commit(w)
  BY DEF CommitBet
<1>3. target \in Target /\ roll \in Roll
  BY <1>2, BetValues, FromInductive DEF Protected, FundsStillCover
<1>4. /\ CommissionDue(w) = IF Won(w) THEN 0 ELSE CommissionOn(u, stake)
      /\ balance' = Plus(balance, Serial!BetMovement(u, stake, payout,
                                                     CommissionDue(w)))
  BY <1>2, BetDraft DEF Commit
<1>5. Won(w) = IsWin(roll, target) /\ payout = PayoutOf(stake, target, roll)
  BY DEF Won, Payout
<1>6. bets' = [bets EXCEPT ![b] =
                 [user |-> u, amount |-> stake, target |-> target,
                  roll |-> roll, payout |-> payout, seed |-> s,
                  nonce |-> seedNonce[s], day |-> d]]
  BY <1>1 DEF CommitBet
<1> HIDE DEF b, u, s, d, stake, target, roll, payout
<1>7. Serial!SettleBet(b, u, stake, target, roll, s, d)
  BY <1>1, <1>4, <1>5, <1>6, SameBooks, SameTables DEF Serial!SettleBet
<1> QED
  BY <1>1, <1>3, <1>7, SameTables DEF Serial!SerialNext

LEMMA CommitDepositSerialises ==
  ASSUME Inductive, NEW w \in Worker, CommitDeposit(w)
  PROVE  Serial!SerialNext
<1>1. /\ req[w].id \in EventId /\ req[w].user \in User
      /\ req[w].amount \in Amount /\ events[req[w].id] = NoRow
      /\ draft[w] = DepositLegs(req[w].user, req[w].amount)
  BY CommitDepositEffect
<1>2. balance' = Plus(balance, draft[w])
  BY DEF CommitDeposit, Commit
<1>3. Serial!CreditDeposit(req[w].id, req[w].user, req[w].amount)
  BY <1>1, <1>2, SameBooks DEF CommitDeposit, Serial!CreditDeposit
<1> QED
  BY <1>1, <1>3 DEF Serial!SerialNext

LEMMA RotateSeedSerialises ==
  ASSUME Inductive, NEW w \in Worker, RotateSeed(w)
  PROVE  Serial!SerialNext
<1>1. /\ Protected(w) /\ balance \in [Account -> Int] /\ pc[w] = "rotate"
      /\ Commit(w) /\ UNCHANGED <<net, bets, events, seedNonce>>
  BY FromInductive DEF RotateSeed, TablesTypeOK
<1>2. /\ view[w].seed \in Seed /\ seedStatus[view[w].seed] = "active"
      /\ draft[w] = NoMovement
  BY <1>1 DEF Protected, SeedStillOffered, PostedSoFar
<1>3. balance' = balance
  BY <1>1, <1>2, NothingPosted DEF Commit
<1>4. PICK next \in Seed : Serial!Rotate(view[w].seed, next)
  BY <1>1, <1>2, <1>3 DEF RotateSeed, Serial!Rotate
<1> QED
  BY <1>2, <1>4 DEF Serial!SerialNext

(* Whatever the interleaving, the committed tables go through the states   *)
(* of a service that settles one bet, credits one deposit or rotates one   *)
(* seed at a time (db.ts:53-70 with the locks of bet.ts, webhook.ts,       *)
(* seeds.ts and accounts.ts).                                              *)
THEOREM SerialisesAlways == Spec => Serialises
<1>1. Init => Serial!TablesInit
  BY SameBooks, SameTables DEF Init, TablesInit, Serial!TablesInit
<1>2. Inductive /\ [Next]_vars => [Serial!SerialNext]_Serial!tables
  BY OnlyCommitsChangeTables, CommitBetSerialises, CommitDepositSerialises,
     RotateSeedSerialises, SameTables
  DEF TableStep, tables, Serial!tables
<1> QED
  BY <1>1, <1>2, InductiveInvariant, PTL
  DEF Spec, Serialises, Serial!SerialSpec

-----------------------------------------------------------------------------
(* The bets settled under a seed used the nonces 0, 1, 2, ... once each:   *)
(* the row lock on the seed hands each nonce to one bet, and a bet that    *)
(* rolled back took none (bet.ts:83-124).                                  *)
NoncesInOrder(s) ==
  /\ IsFiniteSet(SettledOn(s))
  /\ {bets[b].nonce : b \in SettledOn(s)} = 0 .. (seedNonce[s] - 1)
  /\ Cardinality(SettledOn(s)) = seedNonce[s]

LEMMA NoncesInOrderInit ==
  ASSUME Init, NEW s \in Seed
  PROVE  NoncesInOrder(s)
<1>1. SettledOn(s) = {} /\ seedNonce[s] = 0
  BY DEF Init, TablesInit, SettledOn
<1>2. 0 .. (0 - 1) = {}
  OBVIOUS
<1> QED
  BY <1>1, <1>2, FS_EmptySet DEF NoncesInOrder

LEMMA NonceUsed ==
  ASSUME Inductive, NEW w \in Worker, CommitBet(w), NEW s \in Seed,
         NoncesInOrder(s)
  PROVE  NoncesInOrder(s)'
<1> DEFINE b == req[w].id
           n == seedNonce[s]
<1>1. /\ b \in BetId /\ bets[b] = NoRow /\ bets'[b] # NoRow
      /\ bets'[b].seed = view[w].seed /\ view[w].seed \in Seed
      /\ bets' = [bets EXCEPT ![b] = bets'[b]]
      /\ seedNonce' = [seedNonce EXCEPT ![view[w].seed] = @ + 1]
      /\ seedNonce[view[w].seed] = view[w].nonce
  BY CommitBetEffect
<1>2. TablesTypeOK
  BY FromInductive
<1>3. bets'[b].nonce = view[w].nonce
  BY <1>1, <1>2 DEF CommitBet, TablesTypeOK
<1>4. n \in Nat
  BY <1>2 DEF TablesTypeOK
<1> HIDE DEF b
<1>5. \A c \in BetId \ {b} : bets'[c] = bets[c]
  BY <1>1, <1>2 DEF TablesTypeOK
<1>6. CASE s = view[w].seed
  <2>1. SettledOn(s)' = SettledOn(s) \cup {b} /\ b \notin SettledOn(s)
    BY <1>1, <1>5, <1>6 DEF SettledOn
  <2>2. seedNonce'[s] = n + 1
    BY <1>1, <1>2, <1>6 DEF TablesTypeOK
  <2>3. \A c \in SettledOn(s) : bets'[c].nonce = bets[c].nonce
    BY <1>5, <2>1 DEF SettledOn
  <2>4. bets'[b].nonce = n
    BY <1>1, <1>3, <1>6
  <2>5. {bets'[c].nonce : c \in SettledOn(s) \cup {b}}
          = {bets[c].nonce : c \in SettledOn(s)} \cup {n}
    BY <2>3, <2>4
  <2>6. (0 .. (n - 1)) \cup {n} = 0 .. ((n + 1) - 1)
    BY <1>4
  <2>7. /\ IsFiniteSet(SettledOn(s) \cup {b})
        /\ Cardinality(SettledOn(s) \cup {b}) = n + 1
    BY <2>1, FS_AddElement DEF NoncesInOrder
  <2> QED
    BY <2>1, <2>2, <2>5, <2>6, <2>7 DEF NoncesInOrder
<1>7. CASE s # view[w].seed
  <2>1. SettledOn(s)' = SettledOn(s) /\ b \notin SettledOn(s)
    BY <1>1, <1>5, <1>7 DEF SettledOn
  <2>2. seedNonce'[s] = seedNonce[s]
    BY <1>1, <1>2, <1>7 DEF TablesTypeOK
  <2>3. \A c \in SettledOn(s) : bets'[c].nonce = bets[c].nonce
    BY <1>5, <2>1 DEF SettledOn
  <2>4. {bets'[c].nonce : c \in SettledOn(s)}
          = {bets[c].nonce : c \in SettledOn(s)}
    BY <2>3
  <2> QED
    BY <2>1, <2>2, <2>4 DEF NoncesInOrder
<1> QED
  BY <1>6, <1>7

LEMMA NoncesInOrderStep ==
  ASSUME Inductive, [Next]_vars, NEW s \in Seed, NoncesInOrder(s)
  PROVE  NoncesInOrder(s)'
<1>1. CASE UNCHANGED <<bets, seedNonce>>
  BY <1>1 DEF NoncesInOrder, SettledOn
<1>2. ASSUME NEW w \in Worker, CommitBet(w)
      PROVE  NoncesInOrder(s)'
  BY <1>2, NonceUsed
<1> QED
  BY <1>1, <1>2, OnlyCommitsChangeTables
  DEF TableStep, CommitDeposit, RotateSeed, tables

AllNoncesInOrder == \A s \in Seed : NoncesInOrder(s)

LEMMA NoncesAlwaysInOrder == Spec => []AllNoncesInOrder
<1>1. Init => AllNoncesInOrder
  BY NoncesInOrderInit DEF AllNoncesInOrder
<1>2. Inductive /\ AllNoncesInOrder /\ [Next]_vars => AllNoncesInOrder'
  BY NoncesInOrderStep DEF AllNoncesInOrder
<1> QED
  BY <1>1, <1>2, InductiveInvariant, PTL DEF Spec

THEOREM NoncesNeverReused == Spec => []NonceSequence
<1>1. AllNoncesInOrder => NonceSequence
  BY DEF AllNoncesInOrder, NoncesInOrder, NonceSequence
<1> QED
  BY <1>1, NoncesAlwaysInOrder, PTL

-----------------------------------------------------------------------------
(* No caller ever meets a unique index of bets or a half-written payment   *)
(* event: duplicates are caught under the lock or the reservation first,   *)
(* and the seed's lock hands out each nonce once (bet.ts:83-90 and         *)
(* 186-213, webhook.ts:60-81).                                             *)
LEMMA IntegrityStep ==
  ASSUME Inductive, \A s \in Seed : NoncesInOrder(s), NoIntegrityFailure,
         [Next]_vars
  PROVE  NoIntegrityFailure'
<1>1. CASE UNCHANGED failed
  BY <1>1 DEF NoIntegrityFailure
<1>2. ASSUME NEW w \in Worker, GiveUpSeed(w)
      PROVE  NoIntegrityFailure'
  BY <1>2 DEF GiveUpSeed, Fail, NoIntegrityFailure
<1>3. ASSUME NEW w \in Worker, OpenBet(w)
      PROVE  UNCHANGED failed
  <2>1. pc[w] = "open_bet"
    BY <1>3 DEF OpenBet
  <2>2. req[w].op = "bet" /\ bets[req[w].id] = NoRow
    BY <2>1, FromInductive DEF Protected, AtStatements, BetStillNew
  <2> QED
    BY <1>3, <2>2 DEF OpenBet
<1>4. ASSUME NEW w \in Worker, Deduplicate(w)
      PROVE  UNCHANGED failed
  <2>1. events[req[w].id].posted
    BY <1>4, FromInductive DEF Deduplicate, Protected, EventStillOurs
  <2> QED
    BY <1>4, <2>1 DEF Deduplicate
<1>5. ASSUME NEW w \in Worker, Serve(w), ~GiveUpSeed(w), ~OpenBet(w),
             ~Deduplicate(w), ~PostBetLock(w)
      PROVE  UNCHANGED failed
  BY <1>5
  DEF Serve, LockBetId, RefuseBet, AcceptBet, LockLoss, RefuseLoss,
      AcceptLoss, SelectSeed, LockSeed, RetrySeed, RefuseRotated,
      LockAccount, RefuseFunds, PostBetSettle, PostCommission,
      CommitBet, WinReservation, LoseReservation, PostDeposit,
      CommitDeposit, RotateSeed, Refuse, Commit
<1>6. ASSUME NEW w \in Worker,
             BeginBet(w) \/ BeginDeposit(w) \/ BeginRotate(w) \/ Crash(w)
      PROVE  UNCHANGED failed
  BY <1>6 DEF BeginBet, BeginDeposit, BeginRotate, Begin, Crash
<1>7. ASSUME NEW w \in Worker, PostBetLock(w)
      PROVE  UNCHANGED failed
  <2> DEFINE s == view[w].seed
  <2>1. pc[w] = "bet_lock"
    BY <1>7 DEF PostBetLock, EntryReady
  <2>2. s \in Seed /\ seedNonce[s] = view[w].nonce
    BY <2>1, FromInductive DEF Protected, SeedStillOffered
  <2>3. NoncesInOrder(s) /\ seedNonce[s] \in Nat
    BY <2>2, FromInductive DEF TablesTypeOK
  <2>4. \A b \in SettledOn(s) : bets[b].nonce # seedNonce[s]
    BY <2>3 DEF NoncesInOrder
  <2>5. ~NonceTaken(w)
    BY <2>2, <2>4 DEF NonceTaken, SettledOn
  <2> QED
    BY <1>7, <2>5 DEF PostBetLock
<1>8. CASE UNCHANGED vars \/ Midnight
  BY <1>1, <1>8 DEF vars, Midnight
<1> QED
  BY <1>1, <1>2, <1>3, <1>4, <1>5, <1>6, <1>7, <1>8 DEF Next

THEOREM NoDuplicateReachesTheTables == Spec => []NoIntegrityFailure
<1>1. Init => NoIntegrityFailure
  BY DEF Init, NoIntegrityFailure
<1>2. Inductive /\ AllNoncesInOrder /\ NoIntegrityFailure /\ [Next]_vars
        => NoIntegrityFailure'
  BY IntegrityStep DEF AllNoncesInOrder
<1> QED
  BY <1>1, <1>2, InductiveInvariant, NoncesAlwaysInOrder, PTL DEF Spec

-----------------------------------------------------------------------------
(* Why no mix of bets, deposits and rotations ends in a circle of waiting  *)
(* transactions, for any number of connections, users, ids and seeds.      *)
(* Every lock a transaction waits for is held by one that has come further *)
(* or that waits for nobody: the locks have an order, although the code    *)
(* takes the accounts of one bet in three separate sorted groups, and      *)
(* although a select that lost its seed keeps the old seed's lock while it *)
(* waits for the new one.                                                  *)
AtDeposit(w) == pc[w] \in {"deposit", "commit_deposit"}

(* A transaction holds nothing its statements have not asked for: bets     *)
(* never take the gateway's row, and a deposit takes it before the user's. *)
HoldsOnly(w) ==
  /\ \A b \in BetId : BetIdLock(b) \in held[w] =>
       pc[w] \in Named /\ req[w].op = "bet"
  /\ \A u \in User : LossLock(u) \in held[w] =>
       pc[w] \in Limited /\ req[w].op = "bet"
  /\ \A e \in EventId : EventLock(e) \in held[w] => AtDeposit(w)
  /\ \A s \in Seed : SeedLock(s) \in held[w] => pc[w] \in Allowed \cup {"rotate"}
  /\ \A a \in Account : RowLock(a) \in held[w] =>
       \/ pc[w] \in Opened /\ a # "gateway"
       \/ AtDeposit(w) /\ a \in {"gateway", req[w].user}
  /\ AtDeposit(w) /\ RowLock(req[w].user) \in held[w] =>
       RowLock("gateway") \in held[w]

(* Seeds are numbered as they become active.                               *)
OneActive ==
  \A s, t \in Seed : seedStatus[s] = "active" /\ seedStatus[t] = "active" => s = t

Numbered(age, last) ==
  /\ age \in [Seed -> 0 .. last]
  /\ \A s, t \in Seed :
       seedStatus[s] = "revealed" /\ seedStatus[t] = "active" => age[s] < age[t]

(* Whoever looks for the active seed holds only older ones.                *)
HoldsOlder(w, age) ==
  /\ pc[w] \in Shared => \A s \in Seed :
       SeedLock(s) \in held[w] =>
         /\ seedStatus[s] = "revealed"
         /\ pc[w] = "lock_seed" => age[s] < age[view[w].seed]
  /\ pc[w] = "lock_seed" => seedStatus[view[w].seed] # "unused"

SeedsAge ==
  \E last \in Nat : \E age \in [Seed -> 0 .. last] :
    Numbered(age, last) /\ \A w \in Worker : HoldsOlder(w, age)

LocksOrdered == OneActive /\ SeedsAge /\ \A w \in Worker : HoldsOnly(w)

-----------------------------------------------------------------------------
(* How far a transaction that may have to wait has come.                   *)
HoldsRow(w, a) == RowLock(a) \in held[w]

Rank(w, age, last) ==
  CASE pc[w] \in {"lock_bet_id", "reserve_event"} -> 0
    [] pc[w] = "lock_loss" -> 1
    [] pc[w] = "lock_seed" -> age[view[w].seed] + 2
    [] pc[w] = "deposit" /\ ~HoldsRow(w, "gateway") -> last + 3
    [] pc[w] = "deposit" /\ HoldsRow(w, "gateway")
         /\ ~HoldsRow(w, req[w].user) -> last + 4
    [] pc[w] = "open_bet" -> last + 4
    [] OTHER -> last + 5

-----------------------------------------------------------------------------
(* Locks of different kinds, and locks of one kind on different things.    *)
LEMMA LockNames ==
  /\ \A a, b : /\ BetIdLock(a) = BetIdLock(b) => a = b
               /\ LossLock(a) = LossLock(b) => a = b
               /\ SeedLock(a) = SeedLock(b) => a = b
               /\ RowLock(a) = RowLock(b) => a = b
               /\ EventLock(a) = EventLock(b) => a = b
  /\ \A a, b : /\ BetIdLock(a) # LossLock(b) /\ BetIdLock(a) # SeedLock(b)
               /\ BetIdLock(a) # RowLock(b) /\ BetIdLock(a) # EventLock(b)
               /\ LossLock(a) # SeedLock(b) /\ LossLock(a) # RowLock(b)
               /\ LossLock(a) # EventLock(b) /\ SeedLock(a) # RowLock(b)
               /\ SeedLock(a) # EventLock(b) /\ RowLock(a) # EventLock(b)
BY DEF BetIdLock, LossLock, SeedLock, RowLock, EventLock

(* Only one bet or rotation at a time is past the lock of the active seed. *)
LEMMA OnePastTheSeed ==
  ASSUME Inductive, OneActive, NEW v \in Worker, NEW w \in Worker,
         pc[v] \in Seeded \cup {"rotate"}, pc[w] \in Seeded \cup {"rotate"}
  PROVE  v = w
<1>1. /\ view[v].seed \in Seed /\ seedStatus[view[v].seed] = "active"
      /\ SeedLock(view[v].seed) \in held[v]
      /\ view[w].seed \in Seed /\ seedStatus[view[w].seed] = "active"
      /\ SeedLock(view[w].seed) \in held[w]
  BY FromInductive DEF Protected, SeedStillOffered
<1>2. view[v].seed = view[w].seed BY <1>1 DEF OneActive
<1>3. QED BY <1>1, <1>2, FromInductive, LocksDiffer

(* The accounts of an entry.                                               *)
LEMMA UserAccounts ==
  ASSUME NEW w \in Worker, Inductive, req[w].op \in {"bet", "deposit"}
  PROVE  /\ req[w].user \in User /\ req[w].user \in Account
         /\ req[w].user \notin HouseAccount /\ req[w].user # "gateway"
BY FromInductive, BetRequests, DepositRequests, AccountAssumption
DEF Account, HouseAccount

LEMMA EntryOfBet ==
  ASSUME NEW w \in Worker, Inductive, pc[w] \in Opened
  PROVE  /\ req[w].op = "bet" /\ "gateway" \notin EntryAccounts(w)
         /\ EntryAccounts(w) \subseteq HouseAccount \cup {req[w].user}
         /\ EntryAccounts(w) \subseteq Account
<1>1. req[w].op = "bet"
  BY FromInductive DEF Protected, AtStatements
<1>2. req[w].user \in Account /\ req[w].user # "gateway"
  BY <1>1, UserAccounts
<1>3. CASE pc[w] = "bet_lock"
  BY <1>1, <1>2, <1>3 DEF EntryAccounts, HouseAccount, Account
<1>4. CASE pc[w] = "bet_settle"
  BY <1>1, <1>2, <1>4 DEF EntryAccounts, HouseAccount, Account
<1>5. CASE pc[w] = "commission"
  BY <1>1, <1>2, <1>5 DEF EntryAccounts, HouseAccount, Account
<1>6. CASE pc[w] = "commit_bet"
  BY <1>1, <1>2, <1>6 DEF EntryAccounts, HouseAccount, Account
<1>7. QED BY <1>3, <1>4, <1>5, <1>6

(* What a statement can wait for.                                          *)
LEMMA WantedAt ==
  ASSUME NEW w \in Worker, Inductive
  PROVE  /\ pc[w] = "lock_bet_id" => Wanted(w) = {BetIdLock(req[w].id)}
         /\ pc[w] = "lock_loss" => Wanted(w) = {LossLock(req[w].user)}
         /\ pc[w] = "lock_seed" => Wanted(w) = {SeedLock(view[w].seed)}
         /\ pc[w] = "open_bet" =>
              Wanted(w) = {RowLock(req[w].user), SeedLock(view[w].seed)}
         /\ pc[w] = "reserve_event" => Wanted(w) = {EventLock(req[w].id)}
         /\ pc[w] \in Opened \cup {"deposit"} =>
              Wanted(w) = {RowLock(a) : a \in NextRows(w)}
         /\ pc[w] \in {"idle", "check_bet", "check_loss", "select_seed",
                       "read_event", "commit_deposit", "rotate"} =>
              Wanted(w) = {}
<1>1. pc[w] \in {"idle", "check_bet", "check_loss", "select_seed",
                 "read_event", "commit_deposit", "rotate"} =>
        EntryAccounts(w) = {} /\ Unlocked(w) = {} /\ NextRows(w) = {}
  BY DEF EntryAccounts, Unlocked, NextRows
<1>2. QED BY <1>1 DEF Wanted, OpenLocks

LEMMA RanksTyped ==
  ASSUME Inductive, NEW last \in Nat, NEW age \in [Seed -> 0 .. last],
         NEW w \in Worker
  PROVE  Rank(w, age, last) \in 0 .. last + 5
<1>1. pc[w] = "lock_seed" => age[view[w].seed] \in 0 .. last
  BY FromInductive DEF Protected, SeedStillOffered
<1>2. QED BY <1>1 DEF Rank

-----------------------------------------------------------------------------
(* Whoever waits waits for someone further on.                             *)
LEMMA WaitsUpwards ==
  ASSUME Inductive, OneActive, \A x \in Worker : HoldsOnly(x),
         NEW last \in Nat, NEW age \in [Seed -> 0 .. last],
         \A x \in Worker : HoldsOlder(x, age),
         NEW v \in Worker, NEW w \in Worker, WaitsFor(v, w)
  PROVE  Rank(v, age, last) < Rank(w, age, last)
<1>1. v # w BY DEF WaitsFor
<1>2. PICK lock \in Wanted(v) : lock \in held[w] BY DEF WaitsFor
<1>3. lock \notin held[v] BY <1>1, <1>2, FromInductive, LocksDiffer
<1>4. HoldsOnly(w) /\ HoldsOlder(w, age) OBVIOUS
<1>5. Rank(w, age, last) \in 0 .. last + 5 BY RanksTyped
<1>6. pc[w] = "lock_seed" => age[view[w].seed] \in 0 .. last
  BY FromInductive DEF Protected, SeedStillOffered
<1>7. CASE pc[v] = "lock_bet_id"
  <2>1. req[v].op = "bet" BY <1>7, FromInductive DEF Protected, AtStatements
  <2>2. req[v].id \in BetId BY <2>1, FromInductive, BetRequests
  <2>3. pc[w] \in Named BY <1>2, <1>4, <1>7, <2>2, WantedAt DEF HoldsOnly
  <2>4. Rank(v, age, last) = 0 BY <1>7 DEF Rank
  <2>5. Rank(w, age, last) > 0 BY <1>6, <2>3 DEF Rank
  <2>6. QED BY <2>4, <2>5
<1>8. CASE pc[v] = "lock_loss"
  <2>1. req[v].op = "bet" BY <1>8, FromInductive DEF Protected, AtStatements
  <2>2. req[v].user \in User BY <2>1, FromInductive, BetRequests
  <2>3. pc[w] \in Limited BY <1>2, <1>4, <1>8, <2>2, WantedAt DEF HoldsOnly
  <2>4. Rank(v, age, last) = 1 BY <1>8 DEF Rank
  <2>5. Rank(w, age, last) > 1 BY <1>6, <2>3 DEF Rank
  <2>6. QED BY <2>4, <2>5
<1>9. CASE pc[v] = "lock_seed"
  <2>1. view[v].seed \in Seed
    BY <1>9, FromInductive DEF Protected, SeedStillOffered
  <2>2. SeedLock(view[v].seed) \in held[w] BY <1>2, <1>9, WantedAt
  <2>3. pc[w] \in Allowed \cup {"rotate"} BY <1>4, <2>1, <2>2 DEF HoldsOnly
  <2>4. Rank(v, age, last) = age[view[v].seed] + 2
        /\ age[view[v].seed] \in 0 .. last
    BY <1>9, <2>1 DEF Rank
  <2>5. CASE pc[w] = "lock_seed"
    <3>1. age[view[v].seed] < age[view[w].seed]
      BY <1>4, <2>1, <2>2, <2>5 DEF HoldsOlder
    <3>2. Rank(w, age, last) = age[view[w].seed] + 2 BY <2>5 DEF Rank
    <3>3. QED BY <1>6, <2>4, <2>5, <3>1, <3>2
  <2>6. CASE pc[w] # "lock_seed"
    <3>1. Rank(w, age, last) >= last + 4 BY <2>3, <2>6 DEF Rank
    <3>2. QED BY <1>5, <2>4, <3>1
  <2>7. QED BY <2>5, <2>6
<1>10. CASE pc[v] = "reserve_event"
  <2>1. req[v].op = "deposit" BY <1>10, FromInductive DEF Protected, AtStatements
  <2>2. req[v].id \in EventId BY <2>1, FromInductive, DepositRequests
  <2>3. AtDeposit(w) BY <1>2, <1>4, <1>10, <2>2, WantedAt DEF HoldsOnly
  <2>4. Rank(v, age, last) = 0 BY <1>10 DEF Rank
  <2>5. Rank(w, age, last) > 0 BY <2>3 DEF Rank, AtDeposit
  <2>6. QED BY <2>4, <2>5
<1>11. CASE pc[v] = "open_bet"
  <2>1. /\ view[v].seed \in Seed /\ SeedLock(view[v].seed) \in held[v]
        /\ req[v].op = "bet"
    BY <1>11, FromInductive DEF Protected, SeedStillOffered, AtStatements
  <2>2. RowLock(req[v].user) \in held[w]
    BY <1>2, <1>3, <1>11, <2>1, WantedAt
  <2>3. req[v].user \in Account /\ req[v].user # "gateway"
    BY <2>1, UserAccounts
  <2>4. pc[w] \notin Opened BY <1>1, <1>11, OnePastTheSeed
  <2>5. AtDeposit(w) /\ req[v].user = req[w].user
    BY <1>4, <2>2, <2>3, <2>4 DEF HoldsOnly
  <2>6. HoldsRow(w, "gateway") /\ HoldsRow(w, req[w].user)
    BY <1>4, <2>2, <2>5 DEF HoldsOnly, HoldsRow
  <2>7. Rank(w, age, last) = last + 5 BY <2>5, <2>6 DEF Rank, AtDeposit
  <2>8. Rank(v, age, last) = last + 4 BY <1>11 DEF Rank
  <2>9. QED BY <2>7, <2>8
<1>12. CASE pc[v] \in Opened
  <2>1. PICK a \in NextRows(v) : lock = RowLock(a) BY <1>2, <1>12, WantedAt
  <2>2. a \in EntryAccounts(v) /\ RowLock(a) \notin held[v]
    BY <2>1 DEF NextRows, Unlocked
  <2>3. req[v].op = "bet" /\ RowLock(req[v].user) \in held[v] /\ a \in Account
        /\ a \in HouseAccount /\ a # "gateway"
    BY <1>12, <2>2, EntryOfBet, FromInductive DEF Protected, FundsStillCover
  <2>4. pc[w] \notin Opened BY <1>1, <1>12, OnePastTheSeed
  <2>5. AtDeposit(w) /\ a = req[w].user
    BY <1>2, <1>4, <2>1, <2>3, <2>4 DEF HoldsOnly
  <2>6. req[w].op = "deposit"
    BY <2>5, FromInductive DEF AtDeposit, Protected, AtStatements
  <2>7. QED BY <2>3, <2>5, <2>6, UserAccounts
<1>13. CASE pc[v] = "deposit"
  <2>1. PICK a \in NextRows(v) : lock = RowLock(a) BY <1>2, <1>13, WantedAt
  <2>2. req[v].op = "deposit" BY <1>13, FromInductive DEF Protected, AtStatements
  <2>3. req[v].user \in Account /\ req[v].user # "gateway"
        /\ req[v].user \notin HouseAccount
    BY <2>2, UserAccounts
  <2>4. /\ a \in {"gateway", req[v].user} /\ RowLock(a) \notin held[v]
        /\ \A b \in Unlocked(v) : IdRank(a) <= IdRank(b)
        /\ Unlocked(v) = {b \in {"gateway", req[v].user} : RowLock(b) \notin held[v]}
    BY <1>13, <2>1 DEF NextRows, Unlocked, EntryAccounts
  <2>5. IdRank("gateway") = 2 /\ IdRank(req[v].user) = 5
    BY <2>3 DEF IdRank, HouseAccount
  <2>6. CASE a = "gateway"
    <3>1. Rank(v, age, last) = last + 3
      BY <1>13, <2>4, <2>6 DEF Rank, HoldsRow
    <3>2. "gateway" \in Account BY DEF Account, HouseAccount
    <3>3. AtDeposit(w) /\ HoldsRow(w, "gateway")
      BY <1>2, <1>4, <2>1, <2>6, <3>2 DEF HoldsOnly, HoldsRow
    <3>4. Rank(w, age, last) >= last + 4 BY <3>3 DEF Rank, AtDeposit
    <3>5. QED BY <1>5, <3>1, <3>4
  <2>7. CASE a = req[v].user
    <3>1. HoldsRow(v, "gateway")
      <4>1. ASSUME RowLock("gateway") \notin held[v] PROVE FALSE
        <5>1. "gateway" \in Unlocked(v)
          BY <1>13, <4>1 DEF Unlocked, EntryAccounts
        <5>2. QED BY <2>4, <2>5, <2>7, <5>1
      <4>2. QED BY <4>1 DEF HoldsRow
    <3>2. Rank(v, age, last) = last + 4
      BY <1>13, <2>4, <2>7, <3>1 DEF Rank, HoldsRow
    <3>3. RowLock("gateway") \notin held[w]
      BY <1>1, <3>1, FromInductive, LocksDiffer DEF HoldsRow
    <3>4. ~AtDeposit(w)
      <4>1. ASSUME AtDeposit(w) PROVE FALSE
        <5>1. a \in {"gateway", req[w].user}
          BY <1>2, <1>4, <2>1, <2>3, <2>7, <4>1 DEF HoldsOnly, AtDeposit
        <5>2. RowLock(req[w].user) \in held[w]
          BY <1>2, <2>1, <2>3, <2>7, <5>1
        <5>3. QED BY <1>4, <3>3, <4>1, <5>2 DEF HoldsOnly
      <4>2. QED BY <4>1
    <3>5. pc[w] \in Opened
      BY <1>2, <1>4, <2>1, <2>3, <2>7, <3>4 DEF HoldsOnly
    <3>6. Rank(w, age, last) = last + 5 BY <3>5 DEF Rank
    <3>7. QED BY <3>2, <3>6
  <2>8. QED BY <2>4, <2>6, <2>7
<1>14. CASE pc[v] \in {"idle", "check_bet", "check_loss", "select_seed",
                       "read_event", "commit_deposit", "rotate"}
  BY <1>2, <1>14, WantedAt
<1>15. pc[v] \in Statement BY FromInductive
<1>16. QED
  BY <1>7, <1>8, <1>9, <1>10, <1>11, <1>12, <1>13, <1>14, <1>15 DEF Statement

-----------------------------------------------------------------------------
(* A non-empty set of ranks below a bound has a highest one.               *)
LEMMA Highest ==
  ASSUME NEW bound \in Nat, NEW T \in SUBSET (0 .. bound), T # {}
  PROVE  \E m \in T : \A n \in T : n <= m
<1> DEFINE R == OpToRel(<, Nat)
           D == {bound - n : n \in T}
<1>1. IsWellFoundedOn(R, Nat) BY NatLessThanWellFounded
<1>2. D \in SUBSET Nat /\ D # {}
  <2>1. \A n \in 0 .. bound : bound - n \in Nat OBVIOUS
  <2>2. QED BY <2>1
<1>3. PICK x \in D : \A y \in D : ~ (<<y, x>> \in R) BY <1>1, <1>2, WFMin
<1>4. \A y \in D : ~ (y < x) BY <1>2, <1>3 DEF OpToRel
<1>5. PICK m \in T : x = bound - m OBVIOUS
<1>6. ASSUME NEW n \in T PROVE n <= m
  <2>1. bound - n \in D OBVIOUS
  <2>2. ~(bound - n < bound - m) BY <1>4, <1>5, <2>1
  <2>3. n \in 0 .. bound /\ m \in 0 .. bound OBVIOUS
  <2>4. QED BY <2>2, <2>3
<1>7. QED BY <1>6

(* So in every group someone waits for nobody in it.                       *)
LEMMA OrderForbidsCycles ==
  ASSUME Inductive, LocksOrdered
  PROVE  NoWaitCycle
<1>1. SUFFICES ASSUME NEW group \in (SUBSET Worker) \ {{}}
               PROVE  \E w \in group : \A v \in group : ~WaitsFor(w, v)
  BY DEF NoWaitCycle
<1>2. PICK last \in Nat : \E age \in [Seed -> 0 .. last] :
        Numbered(age, last) /\ \A w \in Worker : HoldsOlder(w, age)
  BY DEF LocksOrdered, SeedsAge
<1>3. PICK age \in [Seed -> 0 .. last] :
        Numbered(age, last) /\ \A w \in Worker : HoldsOlder(w, age)
  BY <1>2
<1> DEFINE T == {Rank(w, age, last) : w \in group}
           top == last + 5
<1>4. T \in SUBSET (0 .. top) /\ T # {}
  <2>1. ASSUME NEW w \in group PROVE Rank(w, age, last) \in 0 .. last + 5
    BY RanksTyped
  <2>2. QED BY <2>1
<1>5. top \in Nat OBVIOUS
<1> HIDE DEF T, top
<1>6. PICK m \in T : \A n \in T : n <= m BY <1>4, <1>5, Highest
<1>7. PICK w \in group : m = Rank(w, age, last) BY DEF T
<1>8. ASSUME NEW v \in group, WaitsFor(w, v) PROVE FALSE
  <2>1. Rank(w, age, last) < Rank(v, age, last)
    BY <1>3, <1>8, WaitsUpwards DEF LocksOrdered
  <2>2. Rank(v, age, last) \in T BY DEF T
  <2>3. Rank(v, age, last) <= m BY <1>6, <2>2
  <2>4. m \in 0 .. last + 5 /\ Rank(v, age, last) \in 0 .. last + 5
    BY RanksTyped, <1>7
  <2>5. QED BY <1>7, <2>1, <2>3, <2>4
<1>9. QED BY <1>8

-----------------------------------------------------------------------------
(* LocksOrdered is inductive.  A step that leaves the seeds alone needs an *)
(* argument for one connection.                                            *)
LEMMA OneMoves ==
  ASSUME LocksOrdered, NEW w \in Worker, OnlyMoves(w), UNCHANGED seedStatus,
         HoldsOnly(w)',
         ASSUME NEW last \in Nat, NEW age \in [Seed -> 0 .. last],
                Numbered(age, last), HoldsOlder(w, age)
         PROVE  HoldsOlder(w, age)'
  PROVE  LocksOrdered'
<1>1. PICK last \in Nat : \E age \in [Seed -> 0 .. last] :
        Numbered(age, last) /\ \A v \in Worker : HoldsOlder(v, age)
  BY DEF LocksOrdered, SeedsAge
<1>2. PICK age \in [Seed -> 0 .. last] :
        Numbered(age, last) /\ \A v \in Worker : HoldsOlder(v, age)
  BY <1>1
<1>3. Numbered(age, last)' BY <1>2 DEF Numbered
<1>4. ASSUME NEW v \in Worker PROVE HoldsOlder(v, age)' /\ HoldsOnly(v)'
  <2>1. CASE v = w BY <1>2, <2>1
  <2>2. CASE v # w
    BY <1>2, <2>2 DEF OnlyMoves, HoldsOlder, HoldsOnly, AtDeposit, LocksOrdered
  <2>3. QED BY <2>1, <2>2
<1>5. SeedsAge' BY <1>3, <1>4 DEF SeedsAge
<1>6. OneActive' BY DEF LocksOrdered, OneActive
<1>7. QED BY <1>4, <1>5, <1>6 DEF LocksOrdered

(* A transaction that has ended holds nothing.                             *)
LEMMA NothingHeld ==
  ASSUME NEW w \in Worker, held'[w] = {},
         pc'[w] \in {"idle", "lock_bet_id", "reserve_event", "select_seed"}
  PROVE  HoldsOnly(w)' /\ \A age : HoldsOlder(w, age)'
BY DEF HoldsOnly, HoldsOlder, AtDeposit

LEMMA EndOrdered ==
  ASSUME Inductive, LocksOrdered, NEW w \in Worker, EndTx(w),
         UNCHANGED seedStatus
  PROVE  LocksOrdered'
<1>1. held'[w] = {} /\ pc'[w] = "idle" /\ OnlyMoves(w)
  BY FromInductive DEF EndTx, LocalTypeOK, OnlyMoves
<1>2. QED BY <1>1, NothingHeld, OneMoves

LEMMA BeginOrdered ==
  ASSUME Inductive, LocksOrdered, NEW w \in Worker,
         BeginBet(w) \/ BeginDeposit(w) \/ BeginRotate(w)
  PROVE  LocksOrdered'
<1>1. PICK r \in Request : Begin(w, r)
  BY DEF BeginBet, BeginDeposit, BeginRotate, Request
<1>2. held' = held /\ held[w] = {} /\ UNCHANGED seedStatus
  BY <1>1, FromInductive DEF Begin, Protected, AtStatements, tables
<1>3. OnlyMoves(w)
        /\ pc'[w] \in {"idle", "lock_bet_id", "reserve_event", "select_seed"}
  BY <1>1, FromInductive
     DEF BeginBet, BeginDeposit, BeginRotate, Begin, Goto, OnlyMoves, LocalTypeOK
<1>4. QED BY <1>2, <1>3, NothingHeld, OneMoves

(* Statements that go on without taking a lock.                            *)
LEMMA GoOnOrdered ==
  ASSUME Inductive, LocksOrdered, NEW w \in Worker,
         \/ AcceptBet(w) \/ AcceptLoss(w) \/ LoseReservation(w)
         \/ PostBetLock(w) \/ PostBetSettle(w) \/ PostCommission(w)
         \/ PostDeposit(w)
  PROVE  LocksOrdered'
<1>1. CASE PostBetLock(w) /\ NonceTaken(w)
  <2>1. EndTx(w) /\ UNCHANGED seedStatus
    BY <1>1 DEF PostBetLock, Fail, tables
  <2>2. QED BY <2>1, EndOrdered
<1>2. CASE ~(PostBetLock(w) /\ NonceTaken(w))
  <2>1. /\ held' = held /\ req' = req /\ UNCHANGED seedStatus
        /\ \/ pc[w] = "check_bet" /\ pc'[w] = "lock_loss"
           \/ pc[w] = "check_loss" /\ pc'[w] = "select_seed"
           \/ pc[w] = "reserve_event" /\ pc'[w] = "read_event"
           \/ pc[w] \in Opened /\ pc'[w] \in Opened
           \/ pc[w] = "deposit" /\ pc'[w] = "commit_deposit"
        /\ OnlyMoves(w)
    BY <1>2, FromInductive
       DEF AcceptBet, AcceptLoss, LoseReservation, PostBetLock, PostBetSettle,
           PostCommission, PostDeposit, EntryReady, Post, Goto, OnlyMoves,
           LocalTypeOK, tables
  <2>2. HoldsOnly(w) BY DEF LocksOrdered
  <2>3. HoldsOnly(w)' BY <2>1, <2>2 DEF HoldsOnly, AtDeposit
  <2>4. \A age : HoldsOlder(w, age)'
    BY <2>1, <2>2 DEF HoldsOnly, HoldsOlder
  <2>5. QED BY <2>1, <2>3, <2>4, OneMoves
<1>3. QED BY <1>1, <1>2

(* Statements that take a lock.                                            *)
LEMMA TakeOrdered ==
  ASSUME Inductive, LocksOrdered, NEW w \in Worker,
         LockBetId(w) \/ LockLoss(w) \/ WinReservation(w)
  PROVE  LocksOrdered'
<1>1. pc[w] \in {"lock_bet_id", "lock_loss"} => req[w].op = "bet"
  BY FromInductive DEF Protected, AtStatements
<1>2. /\ req' = req /\ UNCHANGED seedStatus /\ OnlyMoves(w)
      /\ \/ /\ pc[w] = "lock_bet_id" /\ pc'[w] = "check_bet"
            /\ held'[w] = held[w] \cup {BetIdLock(req[w].id)}
         \/ /\ pc[w] = "lock_loss" /\ pc'[w] = "check_loss"
            /\ held'[w] = held[w] \cup {LossLock(req[w].user)}
         \/ /\ pc[w] = "reserve_event" /\ pc'[w] = "deposit"
            /\ held'[w] = held[w] \cup {EventLock(req[w].id)}
  BY FromInductive
     DEF LockBetId, LockLoss, WinReservation, Acquire, Goto, OnlyMoves,
         LocalTypeOK, tables
<1>3. HoldsOnly(w) BY DEF LocksOrdered
<1>4. HoldsOnly(w)'
  <2>1. CASE pc[w] = "lock_bet_id"
    BY <1>1, <1>2, <1>3, <2>1, LockNames DEF HoldsOnly, AtDeposit
  <2>2. CASE pc[w] = "lock_loss"
    BY <1>1, <1>2, <1>3, <2>2, LockNames DEF HoldsOnly, AtDeposit
  <2>3. CASE pc[w] = "reserve_event"
    <3>1. req[w].op = "deposit"
      BY <2>3, FromInductive DEF Protected, AtStatements
    <3>2. req[w].user \in Account BY <3>1, UserAccounts
    <3>3. QED BY <1>2, <1>3, <2>3, <3>2, LockNames DEF HoldsOnly, AtDeposit
  <2>4. QED BY <1>2, <2>1, <2>2, <2>3
<1>5. \A age : HoldsOlder(w, age)' BY <1>2, <1>3 DEF HoldsOlder
<1>6. QED BY <1>2, <1>4, <1>5, OneMoves

(* A select goes for a seed younger than any it has lost.                  *)
LEMMA SelectOrdered ==
  ASSUME Inductive, LocksOrdered, NEW w \in Worker, SelectSeed(w)
  PROVE  LocksOrdered'
<1>1. PICK s \in Seed : /\ seedStatus[s] = "active"
                        /\ view' = [view EXCEPT ![w].seed = s]
  BY DEF SelectSeed
<1>2. /\ req' = req /\ held' = held /\ UNCHANGED seedStatus /\ OnlyMoves(w)
      /\ pc[w] = "select_seed" /\ pc'[w] = "lock_seed" /\ view'[w].seed = s
  BY <1>1, FromInductive
     DEF SelectSeed, Goto, OnlyMoves, LocalTypeOK, tables, View
<1>3. HoldsOnly(w) BY DEF LocksOrdered
<1>4. HoldsOnly(w)' BY <1>2, <1>3 DEF HoldsOnly, AtDeposit
<1>5. ASSUME NEW last \in Nat, NEW age \in [Seed -> 0 .. last],
             Numbered(age, last), HoldsOlder(w, age)
      PROVE  HoldsOlder(w, age)'
  BY <1>1, <1>2, <1>5 DEF Numbered, HoldsOlder
<1>6. QED BY <1>2, <1>4, <1>5, OneMoves

LEMMA RetryOrdered ==
  ASSUME Inductive, LocksOrdered, NEW w \in Worker, RetrySeed(w)
  PROVE  LocksOrdered'
<1>1. /\ req' = req /\ UNCHANGED seedStatus /\ OnlyMoves(w)
      /\ pc[w] = "lock_seed" /\ pc'[w] = "select_seed"
      /\ held'[w] = held[w] \cup {SeedLock(view[w].seed)}
      /\ seedStatus[view[w].seed] # "active" /\ view[w].seed \in Seed
  BY FromInductive
     DEF RetrySeed, Acquire, Goto, OnlyMoves, LocalTypeOK, tables, StillActive,
         Protected, SeedStillOffered
<1>2. HoldsOnly(w) BY DEF LocksOrdered
<1>3. HoldsOnly(w)' BY <1>1, <1>2, LockNames DEF HoldsOnly, AtDeposit
<1>4. ASSUME NEW last \in Nat, NEW age \in [Seed -> 0 .. last],
             Numbered(age, last), HoldsOlder(w, age)
      PROVE  HoldsOlder(w, age)'
  <2>1. seedStatus[view[w].seed] \in SeedStatus
    BY <1>1, FromInductive DEF TablesTypeOK
  <2>2. seedStatus[view[w].seed] = "revealed"
    BY <1>1, <1>4, <2>1 DEF SeedStatus, HoldsOlder
  <2>3. QED BY <1>1, <1>4, <2>2, LockNames DEF HoldsOlder
<1>5. QED BY <1>1, <1>3, <1>4, OneMoves

LEMMA LockSeedOrdered ==
  ASSUME Inductive, LocksOrdered, NEW w \in Worker, LockSeed(w)
  PROVE  LocksOrdered'
<1>1. /\ req' = req /\ UNCHANGED seedStatus /\ OnlyMoves(w)
      /\ pc[w] = "lock_seed" /\ pc'[w] \in {"open_bet", "rotate"}
      /\ held'[w] = held[w] \cup {SeedLock(view[w].seed)}
      /\ req[w].op = "bet" => pc'[w] = "open_bet"
      /\ req[w].op # "bet" => pc'[w] = "rotate"
  BY FromInductive
     DEF LockSeed, Acquire, Goto, OnlyMoves, LocalTypeOK, tables
<1>2. HoldsOnly(w) /\ req[w].op \in {"bet", "rotate"}
  BY <1>1, FromInductive DEF LocksOrdered, Protected, AtStatements
<1>3. HoldsOnly(w)' BY <1>1, <1>2, LockNames DEF HoldsOnly, AtDeposit
<1>4. \A age : HoldsOlder(w, age)' BY <1>1 DEF HoldsOlder
<1>5. QED BY <1>1, <1>3, <1>4, OneMoves

LEMMA OpenOrdered ==
  ASSUME Inductive, LocksOrdered, NEW w \in Worker, OpenBet(w)
  PROVE  LocksOrdered'
<1>1. CASE bets[req[w].id] # NoRow
  <2>1. EndTx(w) /\ UNCHANGED seedStatus
    BY <1>1 DEF OpenBet, Fail, tables
  <2>2. QED BY <2>1, EndOrdered
<1>2. CASE bets[req[w].id] = NoRow
  <2>1. /\ req' = req /\ UNCHANGED seedStatus /\ OnlyMoves(w)
        /\ pc[w] = "open_bet" /\ pc'[w] = "bet_lock"
        /\ held'[w] = held[w] \cup {RowLock(req[w].user), SeedLock(view[w].seed)}
    BY <1>2, FromInductive
       DEF OpenBet, OpenLocks, Goto, OnlyMoves, LocalTypeOK, tables
  <2>2. HoldsOnly(w) /\ req[w].user # "gateway"
    BY <2>1, FromInductive, UserAccounts
       DEF LocksOrdered, Protected, AtStatements
  <2>3. HoldsOnly(w)' BY <2>1, <2>2, LockNames DEF HoldsOnly, AtDeposit
  <2>4. \A age : HoldsOlder(w, age)' BY <2>1 DEF HoldsOlder
  <2>5. QED BY <2>1, <2>3, <2>4, OneMoves
<1>3. QED BY <1>1, <1>2

LEMMA AccountOrdered ==
  ASSUME Inductive, LocksOrdered, NEW w \in Worker, LockAccount(w)
  PROVE  LocksOrdered'
<1>1. PICK a \in NextRows(w) : held' = [held EXCEPT ![w] = held[w] \cup {RowLock(a)}]
  BY DEF LockAccount, Acquire
<1>2. /\ pc' = pc /\ req' = req /\ view' = view /\ UNCHANGED seedStatus
      /\ OnlyMoves(w) /\ held'[w] = held[w] \cup {RowLock(a)}
  BY <1>1, FromInductive DEF LockAccount, OnlyMoves, LocalTypeOK, tables
<1>3. a \in EntryAccounts(w) /\ pc[w] \in Opened \cup {"deposit"}
  BY DEF NextRows, Unlocked, EntryAccounts
<1>4. HoldsOnly(w) BY DEF LocksOrdered
<1>5. \A age : HoldsOlder(w, age)' BY <1>2, <1>3 DEF HoldsOlder
<1>6. CASE pc[w] \in Opened
  <2>1. a # "gateway" /\ req[w].op = "bet" BY <1>3, <1>6, EntryOfBet
  <2>2. HoldsOnly(w)'
    BY <1>2, <1>4, <1>6, <2>1, LockNames DEF HoldsOnly, AtDeposit
  <2>3. QED BY <1>2, <1>5, <2>2, OneMoves
<1>7. CASE pc[w] = "deposit"
  <2>1. req[w].op = "deposit" BY <1>7, FromInductive DEF Protected, AtStatements
  <2>2. req[w].user \notin HouseAccount BY <2>1, UserAccounts
  <2>3. IdRank("gateway") = 2 /\ IdRank(req[w].user) = 5
    BY <2>2 DEF IdRank, HouseAccount
  <2>4. EntryAccounts(w) = {"gateway", req[w].user}
    BY <1>7 DEF EntryAccounts
  <2>5. a = req[w].user => RowLock("gateway") \in held[w]
    BY <2>2, <2>3, <2>4 DEF NextRows, Unlocked, HouseAccount
  <2>6. HoldsOnly(w)'
    BY <1>2, <1>3, <1>4, <1>7, <2>4, <2>5, LockNames DEF HoldsOnly, AtDeposit
  <2>7. QED BY <1>2, <1>5, <2>6, OneMoves
<1>8. QED BY <1>3, <1>6, <1>7

(* A commit of a bet or a payment event only ends its transaction.  The    *)
(* seed a rotation installs is younger than every other.                   *)
LEMMA RotateOrdered ==
  ASSUME Inductive, LocksOrdered, NEW w \in Worker, RotateSeed(w)
  PROVE  LocksOrdered'
<1> DEFINE s == view[w].seed
<1>1. PICK next \in Seed :
        /\ seedStatus[next] = "unused"
        /\ seedStatus' = [seedStatus EXCEPT ![s] = "revealed",
                                            ![next] = "active"]
  BY DEF RotateSeed
<1>2. /\ held'[w] = {} /\ pc'[w] = "idle" /\ OnlyMoves(w)
  BY FromInductive DEF RotateSeed, Commit, EndTx, LocalTypeOK, OnlyMoves
<1>3. s \in Seed /\ seedStatus[s] = "active" /\ pc[w] = "rotate"
  BY FromInductive DEF RotateSeed, Protected, SeedStillOffered
<1>4. seedStatus \in [Seed -> SeedStatus] BY FromInductive DEF TablesTypeOK
<1> HIDE DEF s
<1>5. /\ seedStatus'[next] = "active" /\ seedStatus'[s] = "revealed" /\ s # next
      /\ \A t \in Seed \ {s, next} : /\ seedStatus'[t] = seedStatus[t]
                                     /\ seedStatus[t] # "active"
  BY <1>1, <1>3, <1>4 DEF LocksOrdered, OneActive
<1>6. OneActive' BY <1>5 DEF OneActive
<1>7. PICK last \in Nat : \E age \in [Seed -> 0 .. last] :
        Numbered(age, last) /\ \A v \in Worker : HoldsOlder(v, age)
  BY DEF LocksOrdered, SeedsAge
<1>8. PICK age \in [Seed -> 0 .. last] :
        Numbered(age, last) /\ \A v \in Worker : HoldsOlder(v, age)
  BY <1>7
<1> DEFINE newer == [age EXCEPT ![next] = last + 1]
<1>9. /\ newer[next] = last + 1
      /\ \A t \in Seed \ {next} : newer[t] = age[t] /\ newer[t] \in 0 .. last
  OBVIOUS
<1>10. newer \in [Seed -> 0 .. last + 1]
  OBVIOUS
<1> HIDE DEF newer
<1>11. Numbered(newer, last + 1)'
  BY <1>5, <1>9, <1>10 DEF Numbered
<1>12. ASSUME NEW v \in Worker PROVE HoldsOlder(v, newer)' /\ HoldsOnly(v)'
  <2>1. CASE v = w BY <1>2, <2>1, NothingHeld
  <2>2. CASE v # w
    <3>1. pc'[v] = pc[v] /\ held'[v] = held[v] /\ req'[v] = req[v]
          /\ view'[v] = view[v]
      BY <1>2, <2>2 DEF OnlyMoves
    <3>2. HoldsOnly(v)' BY <3>1 DEF LocksOrdered, HoldsOnly, AtDeposit
    <3>3. HoldsOlder(v, age) BY <1>8
    <3>4. pc[v] = "lock_seed" => view[v].seed \in Seed
      BY FromInductive DEF Protected, SeedStillOffered
    <3>5. pc[v] = "lock_seed" => seedStatus'[view[v].seed] # "unused"
      BY <1>5, <3>3, <3>4 DEF HoldsOlder
    <3>6. ASSUME pc[v] \in Shared, NEW t \in Seed, SeedLock(t) \in held[v]
          PROVE  /\ seedStatus'[t] = "revealed"
                 /\ pc[v] = "lock_seed" => newer[t] < newer[view[v].seed]
      <4>1. /\ seedStatus[t] = "revealed"
            /\ pc[v] = "lock_seed" => age[t] < age[view[v].seed]
        BY <3>3, <3>6 DEF HoldsOlder
      <4>2. t # next /\ t # s BY <1>1, <1>3, <4>1
      <4>3. newer[t] = age[t] /\ age[t] \in 0 .. last BY <1>9, <4>2
      <4>4. pc[v] = "lock_seed" /\ view[v].seed # next =>
              newer[view[v].seed] = age[view[v].seed]
        BY <1>9, <3>4
      <4>5. last < last + 1 /\ age[t] < last + 1 BY <4>3
      <4>6. QED BY <1>5, <1>9, <4>1, <4>2, <4>3, <4>4, <4>5
    <3>7. HoldsOlder(v, newer)' BY <3>1, <3>5, <3>6 DEF HoldsOlder
    <3>8. QED BY <3>2, <3>7
  <2>3. QED BY <2>1, <2>2
<1>13. SeedsAge'
  <2>1. last + 1 \in Nat OBVIOUS
  <2>2. QED BY <1>10, <1>11, <1>12, <2>1 DEF SeedsAge
<1>14. QED BY <1>6, <1>12, <1>13 DEF LocksOrdered

LEMMA OrderKept ==
  ASSUME Inductive, LocksOrdered, [Next]_vars
  PROVE  LocksOrdered'
<1>1. CASE UNCHANGED vars \/ Midnight
  BY <1>1 DEF vars, local, tables, Midnight, LocksOrdered, OneActive, SeedsAge,
       Numbered, HoldsOlder, HoldsOnly, AtDeposit
<1>2. ASSUME NEW w \in Worker, Rollback(w) \/ CommitBet(w) \/ CommitDeposit(w)
      PROVE  LocksOrdered'
  <2>1. EndTx(w) /\ UNCHANGED seedStatus
    BY <1>2, RollbackEffect DEF CommitBet, CommitDeposit, Commit, tables
  <2>2. QED BY <2>1, EndOrdered
<1>3. ASSUME NEW w \in Worker,
             BeginBet(w) \/ BeginDeposit(w) \/ BeginRotate(w) \/ Serve(w)
               \/ Crash(w)
      PROVE  LocksOrdered'
  BY <1>2, <1>3, BeginOrdered, GoOnOrdered, TakeOrdered, SelectOrdered,
     RetryOrdered, LockSeedOrdered, OpenOrdered, AccountOrdered, RotateOrdered
  DEF Serve, Rollback
<1>4. QED BY <1>1, <1>2, <1>3 DEF Next

LEMMA OrderFromTheStart ==
  ASSUME Init
  PROVE  LocksOrdered
<1>1. PICK s \in Seed :
        seedStatus = [t \in Seed |-> IF t = s THEN "active" ELSE "unused"]
  BY DEF Init, TablesInit
<1>2. OneActive BY <1>1 DEF OneActive
<1>3. \A w \in Worker : held[w] = {} /\ pc[w] = "idle" BY DEF Init
<1>4. \A w \in Worker : HoldsOnly(w) BY <1>3 DEF HoldsOnly, AtDeposit
<1>5. SeedsAge
  <2> DEFINE age == [t \in Seed |-> 0]
  <2>1. age \in [Seed -> 0 .. 0] OBVIOUS
  <2>2. Numbered(age, 0) BY <1>1 DEF Numbered
  <2>3. \A w \in Worker : HoldsOlder(w, age) BY <1>3 DEF HoldsOlder
  <2>4. QED BY <2>1, <2>2, <2>3 DEF SeedsAge
<1>6. QED BY <1>2, <1>4, <1>5 DEF LocksOrdered

(* Transactions never wait for each other in a circle, for any number of   *)
(* connections and any mix of bets, payment events and rotations           *)
(* (accounts.ts:11-15, bet.ts:92-96).                                      *)
THEOREM NobodyWaitsInACircle == Spec => []NoWaitCycle
<1>1. Inductive /\ LocksOrdered /\ [Next]_vars => LocksOrdered'
  BY OrderKept
<1>2. Init => LocksOrdered BY OrderFromTheStart
<1>3. Inductive /\ LocksOrdered => NoWaitCycle BY OrderForbidsCycles
<1>4. QED BY <1>1, <1>2, <1>3, InductiveInvariant, PTL DEF Spec
=============================================================================
