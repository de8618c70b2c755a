----------------------------- MODULE Settlement -----------------------------
(***************************************************************************)
(* The settlement service, statement by statement.  Each worker is one     *)
(* pooled connection serving one request at a time in one READ COMMITTED   *)
(* transaction (withTx): placeBet, ingestPaymentEvent or rotateSeed.  A    *)
(* step of a worker is a statement that may wait for a lock or that reads  *)
(* shared rows, together with the statements after it that can do neither. *)
(* A worker's own writes stay in req, draft and view until it commits; a   *)
(* refusal, an error or a crash rolls all of them back.                    *)
(***************************************************************************)
EXTENDS Tables

CONSTANTS
  Worker,     \* connections serving requests
  NoSeed      \* no seed read yet; as seedHash, the caller names none

ASSUME NoSeedAssumption == NoSeed \notin Seed

VARIABLES
  day,      \* the UTC day now() falls on
  pc,       \* the statement each worker is about to run
  req,      \* the request each worker serves
  held,     \* the locks each worker's transaction holds
  draft,    \* the movements it has posted and not committed
  view,     \* what it has read: its day, the seed, the nonce, the roll
  failed    \* the internal errors (HTTP 500) answered so far

local == <<pc, req, held, draft, view>>
vars  == <<tables, day, local, failed>>

Statement ==
  {"idle",
   "lock_bet_id", "check_bet", "lock_loss", "check_loss",
   "select_seed", "lock_seed", "open_bet",
   "bet_lock", "bet_settle", "commission", "commit_bet",
   "reserve_event", "read_event", "deposit", "commit_deposit",
   "rotate"}

BetRequest == [op : {"bet"}, id : BetId, user : User, amount : Stake,
               target : Target, seedHash : Seed \cup {NoSeed}]
DepositRequest == [op : {"deposit"}, id : EventId, user : User,
                   amount : Amount]
RotateRequest == [op : {"rotate"}]
NoRequest == [op |-> "none"]

View == [day : Day, seed : Seed \cup {NoSeed}, retried : BOOLEAN,
         nonce : Nat, roll : Nat]
NoView == [day |-> 0, seed |-> NoSeed, retried |-> FALSE,
           nonce |-> 0, roll |-> 0]

InternalError == {"no_active_seed", "unique_violation", "poisoned_event"}

-----------------------------------------------------------------------------
(* Locks: transaction-level advisory locks, row locks, and the index entry *)
(* of an uncommitted webhook_events row.                                   *)
BetIdLock(b) == <<"bet_id", b>>
LossLock(u)  == <<"loss", u>>
SeedLock(s)  == <<"seed", s>>
RowLock(a)   == <<"account", a>>
EventLock(e) == <<"event", e>>

Lock ==
  {BetIdLock(b) : b \in BetId} \cup {LossLock(u) : u \in User} \cup
  {SeedLock(s) : s \in Seed} \cup {RowLock(a) : a \in Account} \cup
  {EventLock(e) : e \in EventId}

(* The accounts the entry a worker is posting names.                       *)
EntryAccounts(w) ==
  CASE pc[w] = "bet_lock"   -> {"pending_bets", req[w].user}
    [] pc[w] = "bet_settle" ->
         {"pending_bets", "treasury"} \cup
         (IF IsWin(view[w].roll, req[w].target) THEN {req[w].user} ELSE {})
    [] pc[w] = "commission" -> {"affiliate", "treasury"}
    [] pc[w] = "deposit"    -> {"gateway", req[w].user}
    [] OTHER                -> {}

Unlocked(w) == {a \in EntryAccounts(w) : RowLock(a) \notin held[w]}

(* Altered: without ORDER BY id, the rows come in any order.               *)
NextRowsUnordered(w) == Unlocked(w)

(* lockAccounts takes the rows one at a time, in the order of their ids.   *)
NextRows(w) ==
  {a \in Unlocked(w) : \A b \in Unlocked(w) : IdRank(a) <= IdRank(b)}

(* A new round's foreign key locks its user's row; consuming the nonce     *)
(* locks the seed's, which is held already.                                *)
OpenLocks(w) == {RowLock(req[w].user), SeedLock(view[w].seed)}

(* The locks worker w's next statement cannot do without.                  *)
Wanted(w) ==
  CASE pc[w] = "lock_bet_id"   -> {BetIdLock(req[w].id)}
    [] pc[w] = "lock_loss"     -> {LossLock(req[w].user)}
    [] pc[w] = "lock_seed"     -> {SeedLock(view[w].seed)}
    [] pc[w] = "open_bet"      -> OpenLocks(w)
    [] pc[w] = "reserve_event" -> {EventLock(req[w].id)}
    [] OTHER                   -> {RowLock(a) : a \in NextRows(w)}

Free(w, lock) == \A v \in Worker \ {w} : lock \notin held[v]

WaitsFor(w, v) == w # v /\ Wanted(w) \cap held[v] # {}

Acquire(w, lock) ==
  /\ Free(w, lock)
  /\ held' = [held EXCEPT ![w] = @ \cup {lock}]

Goto(w, statement) == pc' = [pc EXCEPT ![w] = statement]

-----------------------------------------------------------------------------
(* BEGIN, and the two ways a transaction ends.  Ending it releases every   *)
(* lock, because all of them are transaction-level.                        *)
Begin(w, request) ==
  /\ pc[w] = "idle"
  /\ req' = [req EXCEPT ![w] = request]
  /\ view' = [view EXCEPT ![w].day = day]
  /\ UNCHANGED <<tables, day, held, draft, failed>>

EndTx(w) ==
  /\ pc' = [pc EXCEPT ![w] = "idle"]
  /\ req' = [req EXCEPT ![w] = NoRequest]
  /\ held' = [held EXCEPT ![w] = {}]
  /\ draft' = [draft EXCEPT ![w] = NoMovement]
  /\ view' = [view EXCEPT ![w] = NoView]
  /\ UNCHANGED day

(* Altered: the connection goes back to the pool without a ROLLBACK.       *)
RefuseWithoutRollback(w) ==
  /\ pc' = [pc EXCEPT ![w] = "idle"]
  /\ req' = [req EXCEPT ![w] = NoRequest]
  /\ UNCHANGED <<tables, day, held, draft, view, failed>>

(* A RefusalError: the transaction rolls back, the caller gets its code.   *)
Refuse(w) == EndTx(w) /\ UNCHANGED <<tables, failed>>

(* Any other error: the transaction rolls back, the caller gets a 500.     *)
Fail(w, error) ==
  EndTx(w) /\ failed' = failed \cup {error} /\ UNCHANGED tables

Commit(w) ==
  EndTx(w) /\ balance' = Plus(balance, draft[w]) /\ UNCHANGED failed

-----------------------------------------------------------------------------
(* placeBet.  A caller may name any seed ever published as its commitment. *)
Published == {s \in Seed : seedStatus[s] # "unused"}

BeginBet(w) ==
  /\ \E r \in BetRequest :
       r.seedHash \in Published \cup {NoSeed} /\ Begin(w, r)
  /\ Goto(w, "lock_bet_id")

(* Altered: no advisory lock on the bet id.                                *)
LockBetIdSkipped(w) ==
  /\ pc[w] = "lock_bet_id"
  /\ Goto(w, "check_bet")
  /\ UNCHANGED <<tables, day, req, held, draft, view, failed>>

LockBetId(w) ==
  /\ pc[w] = "lock_bet_id"
  /\ Acquire(w, BetIdLock(req[w].id))
  /\ Goto(w, "check_bet")
  /\ UNCHANGED <<tables, day, req, draft, view, failed>>

(* DUPLICATE_BET, BET_BELOW_MIN, BET_ABOVE_MAX.                            *)
RefuseBet(w) ==
  /\ pc[w] = "check_bet"
  /\ bets[req[w].id] # NoRow \/ ~StakeWithinLimits(req[w].amount)
  /\ Refuse(w)

AcceptBet(w) ==
  /\ pc[w] = "check_bet"
  /\ bets[req[w].id] = NoRow
  /\ StakeWithinLimits(req[w].amount)
  /\ Goto(w, "lock_loss")
  /\ UNCHANGED <<tables, day, req, held, draft, view, failed>>

(* Altered: no advisory lock on the user's allowance.                      *)
LockLossSkipped(w) ==
  /\ pc[w] = "lock_loss"
  /\ Goto(w, "check_loss")
  /\ UNCHANGED <<tables, day, req, held, draft, view, failed>>

LockLoss(w) ==
  /\ pc[w] = "lock_loss"
  /\ Acquire(w, LossLock(req[w].user))
  /\ Goto(w, "check_loss")
  /\ UNCHANGED <<tables, day, req, draft, view, failed>>

LossAllowed(w) ==
  req[w].amount - net[req[w].user][view[w].day] <= DailyLossLimit

(* DAILY_LOSS_LIMIT.                                                       *)
RefuseLoss(w) == pc[w] = "check_loss" /\ ~LossAllowed(w) /\ Refuse(w)

AcceptLoss(w) ==
  /\ pc[w] = "check_loss"
  /\ LossAllowed(w)
  /\ Goto(w, "select_seed")
  /\ UNCHANGED <<tables, day, req, held, draft, view, failed>>

-----------------------------------------------------------------------------
(* SELECT ... WHERE status = 'active' FOR UPDATE, shared by bets and       *)
(* rotations.  The statement's snapshot fixes the row it goes for; once it *)
(* has the row's lock it rechecks the predicate on the latest version, and *)
(* a row that no longer qualifies is skipped but stays locked.             *)
SelectSeed(w) ==
  /\ pc[w] = "select_seed"
  /\ \E s \in Seed :
       /\ seedStatus[s] = "active"
       /\ view' = [view EXCEPT ![w].seed = s]
  /\ Goto(w, "lock_seed")
  /\ UNCHANGED <<tables, day, req, held, draft, failed>>

(* Altered: the row is taken as it was when it was selected.               *)
OnceActive(w) == view[w].seed \in Seed

StillActive(w) == seedStatus[view[w].seed] = "active"

LockSeed(w) ==
  /\ pc[w] = "lock_seed"
  /\ StillActive(w)
  /\ Acquire(w, SeedLock(view[w].seed))
  /\ view' = [view EXCEPT ![w].nonce = seedNonce[view[w].seed],
                          ![w].retried = FALSE]
  /\ Goto(w, IF req[w].op = "bet" THEN "open_bet" ELSE "rotate")
  /\ UNCHANGED <<tables, day, req, draft, failed>>

(* The select came back empty: it is run once more ...                     *)
RetrySeed(w) ==
  /\ pc[w] = "lock_seed"
  /\ ~StillActive(w)
  /\ ~view[w].retried
  /\ Acquire(w, SeedLock(view[w].seed))
  /\ view' = [view EXCEPT ![w].retried = TRUE]
  /\ Goto(w, "select_seed")
  /\ UNCHANGED <<tables, day, req, draft, failed>>

(* ... and an empty second answer is an internal error.                    *)
GiveUpSeed(w) ==
  /\ pc[w] = "lock_seed"
  /\ ~StillActive(w)
  /\ view[w].retried
  /\ Free(w, SeedLock(view[w].seed))
  /\ Fail(w, "no_active_seed")

-----------------------------------------------------------------------------
(* Altered: any commitment the service knows of will do.                   *)
SeedUnknown(w) == req[w].seedHash \notin Published \cup {NoSeed}

(* SEED_ROTATED: the caller named a commitment that is not the active one. *)
SeedRotated(w) == req[w].seedHash \notin {NoSeed, view[w].seed}

RefuseRotated(w) == pc[w] = "open_bet" /\ SeedRotated(w) /\ Refuse(w)

(* createRound, INSERT INTO bets, consumeNonce, lockRound.  The primary    *)
(* key rejects a committed bet id.                                         *)
OpenBet(w) ==
  /\ pc[w] = "open_bet"
  /\ ~SeedRotated(w)
  /\ IF bets[req[w].id] = NoRow
     THEN /\ \A lock \in OpenLocks(w) : Free(w, lock)
          /\ held' = [held EXCEPT ![w] = @ \cup OpenLocks(w)]
          /\ Goto(w, "bet_lock")
          /\ UNCHANGED <<tables, day, req, draft, view, failed>>
     ELSE Fail(w, "unique_violation")

(* postEntry: one row lock of lockAccounts, for whichever entry is next.   *)
LockAccount(w) ==
  /\ \E a \in NextRows(w) : Acquire(w, RowLock(a))
  /\ UNCHANGED <<tables, day, pc, req, draft, view, failed>>

EntryReady(w, statement) == pc[w] = statement /\ Unlocked(w) = {}

Post(w, legs) == draft' = [draft EXCEPT ![w] = Plus(@, legs)]

(* The balance a debit is tested against: committed postings and its own.  *)
VisibleBalance(w, a) == balance[a] + draft[w][a]

(* Altered: the balance before the debit is tested, not the one after.     *)
FundsNotNegative(w) == VisibleBalance(w, req[w].user) >= 0

FundsCover(w) == req[w].amount <= VisibleBalance(w, req[w].user)

(* Altered: the nonce was consumed outside the transaction.                *)
RefuseFundsForGood(w) ==
  /\ EntryReady(w, "bet_lock")
  /\ ~FundsCover(w)
  /\ EndTx(w)
  /\ seedNonce' = [seedNonce EXCEPT ![view[w].seed] = @ + 1]
  /\ UNCHANGED <<balance, net, bets, events, seedStatus, failed>>

(* INSUFFICIENT_FUNDS.                                                     *)
RefuseFunds(w) == EntryReady(w, "bet_lock") /\ ~FundsCover(w) /\ Refuse(w)

NonceTaken(w) ==
  \E b \in BetId :
    /\ bets[b] # NoRow
    /\ bets[b].seed = view[w].seed
    /\ bets[b].nonce = view[w].nonce

(* The stake moves to escrow, the outcome is computed and written to the   *)
(* bet, the round resolved.  A unique index rejects a used seed and nonce. *)
PostBetLock(w) ==
  /\ EntryReady(w, "bet_lock")
  /\ FundsCover(w)
  /\ IF NonceTaken(w)
     THEN Fail(w, "unique_violation")
     ELSE /\ Post(w, BetLockLegs(req[w].user, req[w].amount))
          /\ \E roll \in Roll : view' = [view EXCEPT ![w].roll = roll]
          /\ Goto(w, "bet_settle")
          /\ UNCHANGED <<tables, day, req, held, failed>>

Won(w) == IsWin(view[w].roll, req[w].target)

Payout(w) == PayoutOf(req[w].amount, req[w].target, view[w].roll)

CommissionDue(w) ==
  CommissionOn(req[w].user, IF Won(w) THEN 0 ELSE req[w].amount)

(* Altered: a commission of one unit is dropped.                           *)
PostBetSettleOffByOne(w) ==
  /\ EntryReady(w, "bet_settle")
  /\ Post(w, BetSettleLegs(req[w].user, req[w].amount, Won(w), Payout(w)))
  /\ Goto(w, IF CommissionDue(w) > 1 THEN "commission" ELSE "commit_bet")
  /\ UNCHANGED <<tables, day, req, held, view, failed>>

PostBetSettle(w) ==
  /\ EntryReady(w, "bet_settle")
  /\ Post(w, BetSettleLegs(req[w].user, req[w].amount, Won(w), Payout(w)))
  /\ Goto(w, IF CommissionDue(w) > 0 THEN "commission" ELSE "commit_bet")
  /\ UNCHANGED <<tables, day, req, held, view, failed>>

PostCommission(w) ==
  /\ EntryReady(w, "commission")
  /\ Post(w, CommissionLegs(CommissionDue(w)))
  /\ Goto(w, "commit_bet")
  /\ UNCHANGED <<tables, day, req, held, view, failed>>

(* settleRound and COMMIT.                                                 *)
CommitBet(w) ==
  /\ pc[w] = "commit_bet"
  /\ bets' = [bets EXCEPT ![req[w].id] =
                [user |-> req[w].user, amount |-> req[w].amount,
                 target |-> req[w].target, roll |-> view[w].roll,
                 payout |-> Payout(w), seed |-> view[w].seed,
                 nonce |-> view[w].nonce, day |-> view[w].day]]
  /\ seedNonce' = [seedNonce EXCEPT ![view[w].seed] = @ + 1]
  /\ net' = AddNet(req[w].user, view[w].day, draft[w][req[w].user])
  /\ Commit(w)
  /\ UNCHANGED <<events, seedStatus>>

-----------------------------------------------------------------------------
(* ingestPaymentEvent.                                                     *)
BeginDeposit(w) ==
  /\ \E r \in DepositRequest : Begin(w, r)
  /\ Goto(w, "reserve_event")

(* Altered: SELECT, then INSERT, with nothing to wait for.                 *)
WinReservationUnawaited(w) ==
  /\ pc[w] = "reserve_event"
  /\ events[req[w].id] = NoRow
  /\ Goto(w, "deposit")
  /\ UNCHANGED <<tables, day, req, held, draft, view, failed>>

(* INSERT ... ON CONFLICT DO NOTHING waits for an uncommitted inserter of  *)
(* the same key, then inserts if it rolled back and yields if it committed.*)
WinReservation(w) ==
  /\ pc[w] = "reserve_event"
  /\ events[req[w].id] = NoRow
  /\ Acquire(w, EventLock(req[w].id))
  /\ Goto(w, "deposit")
  /\ UNCHANGED <<tables, day, req, draft, view, failed>>

LoseReservation(w) ==
  /\ pc[w] = "reserve_event"
  /\ events[req[w].id] # NoRow
  /\ Goto(w, "read_event")
  /\ UNCHANGED <<tables, day, req, held, draft, view, failed>>

(* The duplicate is answered from the row's entry_id, which must be there. *)
Deduplicate(w) ==
  /\ pc[w] = "read_event"
  /\ EndTx(w)
  /\ failed' = failed \cup
       (IF events[req[w].id].posted THEN {} ELSE {"poisoned_event"})
  /\ UNCHANGED tables

PostDeposit(w) ==
  /\ EntryReady(w, "deposit")
  /\ Post(w, DepositLegs(req[w].user, req[w].amount))
  /\ Goto(w, "commit_deposit")
  /\ UNCHANGED <<tables, day, req, held, view, failed>>

CommitDeposit(w) ==
  /\ pc[w] = "commit_deposit"
  /\ events' = [events EXCEPT ![req[w].id] =
                  [user |-> req[w].user, amount |-> req[w].amount,
                   posted |-> TRUE]]
  /\ Commit(w)
  /\ UNCHANGED <<net, bets, seedStatus, seedNonce>>

-----------------------------------------------------------------------------
(* rotateSeed: reveal the locked seed, install its successor, COMMIT.      *)
(* Seed is finite: a rotation begins only while a fresh seed is left for it. *)
FreshSeedLeft ==
  Cardinality({v \in Worker : req[v].op = "rotate"}) <
    Cardinality({s \in Seed : seedStatus[s] = "unused"})

BeginRotate(w) ==
  /\ FreshSeedLeft
  /\ \E r \in RotateRequest : Begin(w, r)
  /\ Goto(w, "select_seed")

RotateSeed(w) ==
  /\ pc[w] = "rotate"
  /\ \E next \in Seed :
       /\ seedStatus[next] = "unused"
       /\ seedStatus' = [seedStatus EXCEPT ![view[w].seed] = "revealed",
                                           ![next] = "active"]
  /\ Commit(w)
  /\ UNCHANGED <<net, bets, events, seedNonce>>

-----------------------------------------------------------------------------
(* The connection or the process dies: the server rolls back.              *)
Crash(w) ==
  /\ pc[w] # "idle"
  /\ EndTx(w)
  /\ UNCHANGED <<tables, failed>>

Midnight ==
  day < MaxDay /\ day' = day + 1 /\ UNCHANGED <<tables, local, failed>>

Init ==
  /\ TablesInit
  /\ day = 0
  /\ pc = [w \in Worker |-> "idle"]
  /\ req = [w \in Worker |-> NoRequest]
  /\ held = [w \in Worker |-> {}]
  /\ draft = [w \in Worker |-> NoMovement]
  /\ view = [w \in Worker |-> NoView]
  /\ failed = {}

(* A request in progress runs its next statement.                          *)
Serve(w) ==
  \/ LockBetId(w) \/ RefuseBet(w) \/ AcceptBet(w)
  \/ LockLoss(w) \/ RefuseLoss(w) \/ AcceptLoss(w)
  \/ SelectSeed(w) \/ LockSeed(w) \/ RetrySeed(w) \/ GiveUpSeed(w)
  \/ RefuseRotated(w) \/ OpenBet(w) \/ LockAccount(w)
  \/ RefuseFunds(w) \/ PostBetLock(w) \/ PostBetSettle(w)
  \/ PostCommission(w) \/ CommitBet(w)
  \/ WinReservation(w) \/ LoseReservation(w) \/ Deduplicate(w)
  \/ PostDeposit(w) \/ CommitDeposit(w) \/ RotateSeed(w)

Next ==
  \/ \E w \in Worker :
       BeginBet(w) \/ BeginDeposit(w) \/ BeginRotate(w) \/ Serve(w) \/ Crash(w)
  \/ Midnight

Spec == Init /\ [][Next]_vars

(* The lock queues of the database are served in order of arrival, and a   *)
(* connection keeps executing: no request that can proceed again and again *)
(* is passed over forever.                                                 *)
FairSpec == Spec /\ \A w \in Worker : SF_vars(Serve(w))

-----------------------------------------------------------------------------
(* Types of every variable. *)
TypeOK ==
  /\ TablesTypeOK
  /\ day \in Day
  /\ pc \in [Worker -> Statement]
  /\ req \in [Worker -> BetRequest \cup DepositRequest \cup RotateRequest
                        \cup {NoRequest}]
  /\ held \in [Worker -> SUBSET Lock]
  /\ draft \in [Worker -> Movement]
  /\ view \in [Worker -> View]
  /\ failed \subseteq InternalError

(* A retried or duplicated request is answered from what the first one     *)
(* committed, and every bet gets a nonce of its own: the unique indexes of *)
(* bets and the missing entry_id of a half-written event are never what a  *)
(* caller hears about (bet.ts:83-90 and 186-189, webhook.ts:69-78).        *)
NoIntegrityFailure == failed \cap {"unique_violation", "poisoned_event"} = {}

(* A bet whose caller named a commitment settles under that seed or not at *)
(* all, however many rotations it waited through (bet.ts:254-263).         *)
NamedCommitmentKept ==
  [][\A w \in Worker :
       CommitBet(w) =>
         req[w].seedHash \in {NoSeed, bets'[req[w].id].seed}]_vars

(* "A row lost to a committed rotation is a lost race, not an absence of   *)
(* seeds" (bet.ts:92-96, seeds.ts:96-102): no caller is told that there is *)
(* no active seed.                                                         *)
NoPhantomAbsence == "no_active_seed" \notin failed

(* "Only the current UTC day" (limits.ts:12): nobody's net loss on any one *)
(* day exceeds the limit.                                                  *)
NetOn(u, d) == net[u][d] - (IF d < MaxDay THEN net[u][d + 1] ELSE 0)
DailyLossPerDay ==
  \A u \in User, d \in Day : -NetOn(u, d) <= DailyLossLimit

(* Transactions never wait for each other in a circle, whatever mix of     *)
(* bets, deposits and rotations is in flight (accounts.ts:11-15): in every *)
(* group of workers someone waits for nobody in the group.                 *)
NoWaitCycle ==
  \A group \in (SUBSET Worker) \ {{}} :
    \E w \in group : \A v \in group : ~WaitsFor(w, v)

(* Every request in progress is eventually over, under FairSpec: committed,*)
(* refused, failed or cut off.                                             *)
EveryRequestEnds == \A w \in Worker : pc[w] # "idle" ~> pc[w] = "idle"

(* Every behaviour of the statement-level service is, on the committed     *)
(* tables, a behaviour of the service that does one thing at a time.       *)
Serial == INSTANCE SerialSettlement
Serialises == Serial!SerialSpec
=============================================================================
