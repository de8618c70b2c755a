------------------------------- MODULE Tables -------------------------------
(***************************************************************************)
(* The committed contents of the database, as far as settlement reads and  *)
(* writes them: balances and betting movements derived from the postings,  *)
(* the bets and webhook_events tables, and the server seeds.  Both the     *)
(* atomic and the statement-level specification act on these variables.    *)
(***************************************************************************)
EXTENDS Books, FiniteSets

CONSTANTS
  BetId, EventId, Seed,   \* client bet ids, gateway event ids, server seeds
  Stake, Amount,          \* amounts bets and payment events may carry
  Target,                 \* targetUnder, in hundredths
  Roll,                   \* the rolls computeOutcome can return
  MaxDay,                 \* last UTC day modelled
  NoRow                   \* the value of an absent row

ASSUME InputAssumption ==
  /\ Stake \subseteq Nat \ {0}
  /\ Amount \subseteq Nat \ {0}
  /\ Target \subseteq {t \in Nat : t >= 100 /\ t <= 9800}
  /\ Roll \subseteq {r \in Nat : r <= 9999}
  /\ MaxDay \in Nat

Day == 0 .. MaxDay

VARIABLES
  balance,      \* the account_balances view: SUM(postings) of each account
  net,          \* net[u][d]: u's betting movement since the start of day d
  bets,         \* the bets table
  events,       \* the webhook_events table
  seedStatus,   \* server_seeds.status, "unused" before the row is inserted
  seedNonce     \* server_seeds.nonce

tables == <<balance, net, bets, events, seedStatus, seedNonce>>

BetRow == [user : User, amount : Stake, target : Target, roll : Roll,
           payout : Nat, seed : Seed, nonce : Nat, day : Day]

EventRow == [user : User, amount : Amount, posted : BOOLEAN]

SeedStatus == {"unused", "active", "revealed"}

ASSUME NoRowAssumption == NoRow \notin BetRow \cup EventRow

TablesTypeOK ==
  /\ balance \in [Account -> Int]
  /\ net \in [User -> [Day -> Int]]
  /\ bets \in [BetId -> BetRow \cup {NoRow}]
  /\ events \in [EventId -> EventRow \cup {NoRow}]
  /\ seedStatus \in [Seed -> SeedStatus]
  /\ seedNonce \in [Seed -> Nat]

(* A migrated database after its first boot: no postings, one active seed. *)
TablesInit ==
  /\ balance = NoMovement
  /\ net = [u \in User |-> [d \in Day |-> 0]]
  /\ bets = [b \in BetId |-> NoRow]
  /\ events = [e \in EventId |-> NoRow]
  /\ \E s \in Seed :
       seedStatus = [t \in Seed |-> IF t = s THEN "active" ELSE "unused"]
  /\ seedNonce = [s \in Seed |-> 0]

(* What DAILY_NET_SQL returns once user u has moved x on day d: the entry  *)
(* counts for every day d or earlier, since the query has no upper bound.  *)
AddNet(u, d, x) ==
  [net EXCEPT ![u] = [e \in Day |-> IF e <= d THEN net[u][e] + x
                                              ELSE net[u][e]]]

(* Altered: the result of the bet instead of what it pays out.             *)
ResultOf(amount, target, roll) ==
  (IF IsWin(roll, target) THEN PayoutFor(amount, target) ELSE 0) - amount

PayoutOf(amount, target, roll) ==
  IF IsWin(roll, target) THEN PayoutFor(amount, target) ELSE 0

-----------------------------------------------------------------------------
(* No user account is ever overdrawn, however its bets and deposits        *)
(* interleave (post.ts:67-102).                                            *)
NoOverdraft == \A u \in User : balance[u] >= 0

SettledOn(s) == {b \in BetId : bets[b] # NoRow /\ bets[b].seed = s}

(* The bets settled under a seed used the nonces 0, 1, 2, ... once each:   *)
(* none is shared, and a bet that rolled back left no gap (bet.ts:83-90).  *)
NonceSequence ==
  \A s \in Seed :
    /\ {bets[b].nonce : b \in SettledOn(s)} = 0 .. (seedNonce[s] - 1)
    /\ Cardinality(SettledOn(s)) = seedNonce[s]

(* A bet row appears only while its seed is still secret, with the seed    *)
(* still active when the bet commits, and a revealed seed's nonce never    *)
(* moves again (bet.ts:254-263, seeds.ts:75-83).                           *)
CommitBeforeReveal ==
  [][/\ \A b \in BetId :
          bets[b] = NoRow /\ bets'[b] # NoRow =>
            /\ seedStatus[bets'[b].seed] = "active"
            /\ seedStatus'[bets'[b].seed] = "active"
     /\ \A s \in Seed : seedStatus[s] = "revealed" =>
          seedStatus'[s] = "revealed" /\ seedNonce'[s] = seedNonce[s]]_tables

(* The bet a user settles leaves the net loss since the start of its day   *)
(* within the limit, counting every bet that committed before it: no two   *)
(* bets spend the same allowance (bet.ts:232-252).                         *)
LossLimitAtCommit ==
  [][\A b \in BetId :
       bets[b] = NoRow /\ bets'[b] # NoRow =>
         -net'[bets'[b].user][bets'[b].day] <= DailyLossLimit]_tables
=============================================================================
