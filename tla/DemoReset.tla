----------------------------- MODULE DemoReset -----------------------------
(***************************************************************************)
(* POST /demo/reset against running requests, at the level of table locks. *)
(* A request takes a lock on each table its statements touch, in the order *)
(* it touches them, and keeps it to the end of its transaction.  A reset   *)
(* truncates six tables, each under an ACCESS EXCLUSIVE lock, in an order  *)
(* of its own.  The two can wait for each other; the database then rolls   *)
(* one of them back.                                                       *)
(***************************************************************************)
EXTENDS Naturals, Sequences, FiniteSets

CONSTANTS
  Client,       \* connections serving bets, payment events and rotations
  Resetter,     \* connections serving resets
  Reader,       \* connections serving GET /ledger/entries
  Bet, Deposit, Rotation,    \* the requests clients send
  MaxSeed,      \* seeds the system may generate
  MaxAttempts,  \* MAX_ATTEMPTS
  NoRequest

ASSUME BoundAssumption == MaxSeed \in Nat \ {0} /\ MaxAttempts \in Nat \ {0}

(* A pool has so many connections; Cardinality is meant for finite sets.   *)
ASSUME ConnectionAssumption == IsFiniteSet(Client) /\ IsFiniteSet(Resetter)

Request == Bet \cup Deposit \cup Rotation

ASSUME RequestAssumption ==
  /\ NoRequest \notin Request
  /\ Bet \cap Deposit = {} /\ Bet \cap Rotation = {}
  /\ Deposit \cap Rotation = {}

(* Altered: a reset that leaves the rounds behind.                         *)
TruncateOrderNoRounds ==
  <<"postings", "journal_entries", "webhook_events", "bets", "server_seeds">>

(* TRUNCATE locks the tables in the order it names them.                   *)
TruncateOrder ==
  <<"postings", "journal_entries", "webhook_events", "bets", "rounds",
    "server_seeds">>

Table == {"postings", "journal_entries", "webhook_events", "bets", "rounds",
          "server_seeds"}

(* The statements of each request: the table, and whether it is read, has  *)
(* its active seed locked, or is written.  placeBet looks for the bet,     *)
(* sums the day's postings, locks the seed, then writes.                   *)
Statements(q) ==
  IF q \in Bet
  THEN <<<<"read", "bets">>, <<"read", "server_seeds">>,
         <<"read", "postings">>, <<"read", "journal_entries">>,
         <<"lock", "server_seeds">>, <<"write", "rounds">>,
         <<"write", "bets">>, <<"write", "server_seeds">>,
         <<"write", "journal_entries">>, <<"write", "postings">>>>
  ELSE IF q \in Deposit
  THEN <<<<"write", "webhook_events">>, <<"write", "journal_entries">>,
         <<"write", "postings">>>>
  ELSE <<<<"lock", "server_seeds">>, <<"write", "server_seeds">>>>

VARIABLES
  rows,       \* the requests with committed rows in each table
  seedOf,     \* bets.seed_id of the committed bets, 0 without a row
  active,     \* the committed seeds with status 'active'
  generated,  \* how many seeds generateSeed has drawn
  req,        \* the request each client serves
  step,       \* the statement it is about to run
  touched,    \* the tables its transaction holds a lock on
  written,    \* the tables with rows it has written and not committed
  seen,       \* the seed it has locked, 0 if none
  attempt,    \* the attempt each reset is in, 0 when none is running
  locked,     \* how many locks it holds: the advisory one, then the tables
  page,       \* the entries a reader has, between its two queries
  unposted    \* the entries it last answered with no postings

database == <<rows, seedOf, active, generated>>
clients  == <<req, step, touched, written, seen>>
resets   == <<attempt, locked>>
readers  == <<page, unposted>>
vars == <<database, clients, resets, readers>>

-----------------------------------------------------------------------------
(* The tables a reset holds, and the one it wants next.                    *)
Truncated(r) == {TruncateOrder[i] : i \in 1 .. (locked[r] - 1)}

Done(r) == locked[r] = Len(TruncateOrder) + 1

NextTable(r) == TruncateOrder[locked[r]]

Statement(c) == Statements(req[c])[step[c]]

Running(c) == req[c] # NoRequest /\ step[c] <= Len(Statements(req[c]))

(* The row lock of the active seed, held from FOR UPDATE to the end.       *)
SeedRowFree(c) == \A d \in Client \ {c} : seen[d] = 0

Granted(c) ==
  /\ \A r \in Resetter : Statement(c)[2] \notin Truncated(r)
  /\ Statement(c)[1] = "lock" => SeedRowFree(c)

(* Altered: DELETE takes a lock that readers and writers do not wait for.  *)
NotExclusive(r) ==
  \A s \in Resetter \ {r} : NextTable(r) \notin Truncated(s)

(* ACCESS EXCLUSIVE is granted once nobody else has touched the table.     *)
Exclusive(r) ==
  /\ \A c \in Client : NextTable(r) \notin touched[c]
  /\ \A s \in Resetter \ {r} : NextTable(r) \notin Truncated(s)

(* The reset waits for a table the client has touched, and the client for  *)
(* a table the reset has truncated.                                        *)
Deadlocked(r, c) ==
  /\ locked[r] \in 1 .. Len(TruncateOrder) /\ NextTable(r) \in touched[c]
  /\ Running(c) /\ Statement(c)[2] \in Truncated(r)

-----------------------------------------------------------------------------
(* Requests.  Copies of one request are Settlement's subject: here each is *)
(* in flight once at a time, and may be sent again.  MaxSeed bounds the    *)
(* rotations and resets that are let in.                                   *)
SeedToSpare ==
  generated + Cardinality({c \in Client : req[c] \in Rotation})
            + Cardinality({r \in Resetter : attempt[r] > 0}) < MaxSeed

GenerateSeed == generated' = generated + 1

Send(c, q) ==
  /\ req[c] = NoRequest
  /\ \A d \in Client : req[d] # q
  /\ q \in Rotation => SeedToSpare
  /\ req' = [req EXCEPT ![c] = q]
  /\ step' = [step EXCEPT ![c] = 1]
  /\ UNCHANGED <<database, touched, written, seen, resets, readers>>

(* Altered: the connection goes back to the pool with its row lock.        *)
EndRequestKeepingSeed(c) ==
  /\ req' = [req EXCEPT ![c] = NoRequest]
  /\ step' = [step EXCEPT ![c] = 0]
  /\ touched' = [touched EXCEPT ![c] = {}]
  /\ written' = [written EXCEPT ![c] = {}]
  /\ UNCHANGED seen

EndRequest(c) ==
  /\ req' = [req EXCEPT ![c] = NoRequest]
  /\ step' = [step EXCEPT ![c] = 0]
  /\ touched' = [touched EXCEPT ![c] = {}]
  /\ written' = [written EXCEPT ![c] = {}]
  /\ seen' = [seen EXCEPT ![c] = 0]

AlreadyThere(c) ==
  step[c] = 1 /\ req[c] \in rows["bets"] \cup rows["webhook_events"]

(* A bet or an event that is already there is answered from its row.       *)
Replay(c) ==
  /\ Running(c) /\ Granted(c) /\ AlreadyThere(c)
  /\ EndRequest(c)
  /\ UNCHANGED <<database, resets, readers>>

RunStatement(c) ==
  /\ Running(c) /\ Granted(c) /\ ~AlreadyThere(c)
  /\ LET mode == Statement(c)[1]  table == Statement(c)[2]
     IN  /\ touched' = [touched EXCEPT ![c] = @ \cup {table}]
         /\ written' = IF mode = "write"
                       THEN [written EXCEPT ![c] = @ \cup {table}]
                       ELSE written
         /\ IF mode = "lock"
            THEN \E s \in active : seen' = [seen EXCEPT ![c] = s]
            ELSE UNCHANGED seen
  /\ step' = [step EXCEPT ![c] = @ + 1]
  /\ UNCHANGED <<database, req, resets, readers>>

(* A refusal, an error or a lost connection ends the transaction, once the *)
(* statement it waits in has its lock.                                     *)
RollBack(c) ==
  /\ req[c] # NoRequest
  /\ Running(c) => Granted(c)
  /\ EndRequest(c)
  /\ UNCHANGED <<database, resets, readers>>

Commit(c) ==
  /\ req[c] # NoRequest
  /\ step[c] > Len(Statements(req[c]))
  /\ rows' = [t \in Table |-> IF t \in written[c] THEN rows[t] \cup {req[c]}
                                                  ELSE rows[t]]
  /\ seedOf' = IF req[c] \in Bet THEN [seedOf EXCEPT ![req[c]] = seen[c]]
                                 ELSE seedOf
  /\ IF req[c] \in Rotation
     THEN GenerateSeed /\ active' = (active \ {seen[c]}) \cup {generated'}
     ELSE UNCHANGED <<active, generated>>
  /\ EndRequest(c)
  /\ UNCHANGED <<resets, readers>>

-----------------------------------------------------------------------------
(* Resets.                                                                 *)
StartReset(r) ==
  /\ attempt[r] = 0 /\ SeedToSpare
  /\ attempt' = [attempt EXCEPT ![r] = 1]
  /\ UNCHANGED <<database, clients, locked, readers>>

(* pg_advisory_xact_lock of the reset namespace.                           *)
TakeAdvisory(r) ==
  /\ attempt[r] > 0 /\ locked[r] = 0
  /\ \A s \in Resetter : locked[s] = 0
  /\ locked' = [locked EXCEPT ![r] = 1]
  /\ UNCHANGED <<database, clients, attempt, readers>>

TakeTable(r) ==
  /\ locked[r] > 0 /\ ~Done(r) /\ Exclusive(r)
  /\ locked' = [locked EXCEPT ![r] = @ + 1]
  /\ UNCHANGED <<database, clients, attempt, readers>>

EndReset(r) ==
  /\ attempt' = [attempt EXCEPT ![r] = 0]
  /\ locked' = [locked EXCEPT ![r] = 0]

CommitReset(r) ==
  /\ Done(r)
  /\ rows' = [t \in Table |-> IF t \in Truncated(r) THEN {} ELSE rows[t]]
  /\ seedOf' = [b \in Bet |-> 0]
  /\ GenerateSeed /\ active' = {generated'}
  /\ EndReset(r)
  /\ UNCHANGED <<clients, readers>>

(* Altered: the attempts are not counted.                                  *)
RetryForever(r) == locked' = [locked EXCEPT ![r] = 0] /\ UNCHANGED attempt

(* 40P01 and 55P03 are retried, from a new transaction.                    *)
RetryOrGiveUp(r) ==
  /\ attempt' = [attempt EXCEPT ![r] = IF @ < MaxAttempts THEN @ + 1 ELSE 0]
  /\ locked' = [locked EXCEPT ![r] = 0]

Waiting(r) ==
  \/ attempt[r] > 0 /\ locked[r] = 0 /\ \E s \in Resetter : locked[s] > 0
  \/ locked[r] > 0 /\ ~Done(r) /\ ~Exclusive(r)

(* lock_timeout counts for the advisory lock as for the tables.            *)
LockTimeout(r) ==
  /\ Waiting(r)
  /\ RetryOrGiveUp(r)
  /\ UNCHANGED <<database, clients, readers>>

(* The database rolls back whichever of the two it finds waiting.          *)
ResetIsVictim(r) ==
  /\ \E c \in Client : Deadlocked(r, c)
  /\ RetryOrGiveUp(r)
  /\ UNCHANGED <<database, clients, readers>>

RequestIsVictim(c) ==
  /\ \E r \in Resetter : Deadlocked(r, c)
  /\ EndRequest(c)
  /\ UNCHANGED <<database, resets, readers>>

(* Any other error, or a lost connection: not retried.                     *)
FailReset(r) ==
  /\ attempt[r] > 0 /\ ~Waiting(r)
  /\ EndReset(r)
  /\ UNCHANGED <<database, clients, readers>>

-----------------------------------------------------------------------------
(* GET /ledger/entries: two queries, each a transaction of its own.        *)
Readable(table) == \A r \in Resetter : table \notin Truncated(r)

ListEntries(v) ==
  /\ Readable("journal_entries")
  /\ page' = [page EXCEPT ![v] = rows["journal_entries"]]
  /\ UNCHANGED <<database, clients, resets, unposted>>

ListPostings(v) ==
  /\ page[v] # {} /\ Readable("postings")
  /\ unposted' = [unposted EXCEPT ![v] = page[v] \ rows["postings"]]
  /\ page' = [page EXCEPT ![v] = {}]
  /\ UNCHANGED <<database, clients, resets>>

-----------------------------------------------------------------------------
Init ==
  /\ rows = [t \in Table |-> {}]
  /\ seedOf = [b \in Bet |-> 0] /\ active = {1} /\ generated = 1
  /\ req = [c \in Client |-> NoRequest] /\ step = [c \in Client |-> 0]
  /\ touched = [c \in Client |-> {}] /\ written = [c \in Client |-> {}]
  /\ seen = [c \in Client |-> 0]
  /\ attempt = [r \in Resetter |-> 0] /\ locked = [r \in Resetter |-> 0]
  /\ page = [v \in Reader |-> {}] /\ unposted = [v \in Reader |-> {}]

Proceed(c) == Replay(c) \/ RunStatement(c) \/ Commit(c)

ProceedReset(r) ==
  TakeAdvisory(r) \/ TakeTable(r) \/ CommitReset(r) \/ LockTimeout(r)

Next ==
  \/ \E c \in Client : \/ \E q \in Request : Send(c, q)
                       \/ Proceed(c)
                       \/ RollBack(c)
                       \/ RequestIsVictim(c)
  \/ \E r \in Resetter : \/ StartReset(r)
                         \/ ProceedReset(r)
                         \/ ResetIsVictim(r)
                         \/ FailReset(r)
  \/ \E v \in Reader : ListEntries(v) \/ ListPostings(v)

Spec == Init /\ [][Next]_vars

(* Locks are queued, so a request that can be served again and again is    *)
(* served; the timeout of a reset that waits runs out.                     *)
FairSpec ==
  /\ Spec
  /\ \A c \in Client : SF_vars(Proceed(c))
  /\ \A r \in Resetter : WF_vars(ProceedReset(r))

-----------------------------------------------------------------------------
TypeOK ==
  /\ rows \in [Table -> SUBSET Request]
  /\ seedOf \in [Bet -> 0 .. MaxSeed]
  /\ active \subseteq 1 .. generated /\ generated \in 1 .. MaxSeed
  /\ req \in [Client -> Request \cup {NoRequest}]
  /\ step \in [Client -> 0 .. 11]
  /\ touched \in [Client -> SUBSET Table]
  /\ written \in [Client -> SUBSET Table]
  /\ seen \in [Client -> 0 .. MaxSeed]
  /\ attempt \in [Resetter -> 0 .. MaxAttempts]
  /\ locked \in [Resetter -> 0 .. Len(TruncateOrder) + 1]
  /\ page \in [Reader -> SUBSET Request]
  /\ unposted \in [Reader -> SUBSET Request]

(* A bet has its row, its round, its journal entry and its postings, or    *)
(* none of them, however resets and requests wait for each other           *)
(* (reset.ts:78-83).                                                       *)
WholeOrNothing ==
  \A q \in Request :
    /\ q \in Bet => \A t, u \in {"bets", "rounds", "journal_entries",
                                 "postings"} : q \in rows[t] <=> q \in rows[u]
    /\ q \in Deposit => \A t, u \in {"webhook_events", "journal_entries",
                                     "postings"} : q \in rows[t] <=> q \in rows[u]

(* Two resets are never past the advisory lock together, and a table one   *)
(* has truncated is untouched by every open transaction (reset.ts:92-99).  *)
ResetsAlone ==
  \A r \in Resetter :
    locked[r] > 0 => /\ \A s \in Resetter \ {r} : locked[s] = 0
                     /\ \A c \in Client : touched[c] \cap Truncated(r) = {}

(* The environment is replaced or added to by whole requests, and a bet    *)
(* settles under the seed of the environment it lands in (reset.ts:67-83). *)
Env == INSTANCE Environment WITH credited <- rows["webhook_events"]
EnvironmentKept == Env!EnvironmentSpec

(* A reset ends within its attempts, whatever the bets in flight hold      *)
(* (reset.ts:86-88, 142-155).                                              *)
ResetEnds == \A r \in Resetter : attempt[r] > 0 ~> attempt[r] = 0

(* A request that waits for a reset, or makes one wait, ends too.          *)
RequestEnds == \A c \in Client : req[c] # NoRequest ~> req[c] = NoRequest

(* reset.ts:132-135: in a deadlock the reset is the side that loses, never *)
(* the bet.                                                                *)
NoBetSacrificed ==
  [][\A r \in Resetter, c \in Client :
       Deadlocked(r, c) /\ req[c] \in Bet => req'[c] = req[c]]_vars

(* entries.ts:22-26: every entry of a page comes with its postings.        *)
EntriesHavePostings == \A v \in Reader : unposted[v] = {}
=============================================================================
