------------------------------- MODULE Ledger -------------------------------
(***************************************************************************)
(* postEntry for any postings, several entries to a transaction, and the   *)
(* deferred trigger that has the last word at COMMIT.  Account ids are     *)
(* locked in one statement and kept to the end of the transaction; the     *)
(* journal's ids come from a sequence, which no rollback takes back.       *)
(***************************************************************************)
EXTENDS Integers, Sequences, Functions

CONSTANTS
  Session,     \* connections inside withTx
  Account,     \* rows of accounts
  User,        \* the accounts of kind 'user'
  Entry,       \* the postings callers ask for: sequences of legs
  MaxEntries,  \* entries a transaction posts at most
  MaxId        \* the last journal id of the instance

UserAssumption == User \subseteq Account
EntryAssumption ==
  \A legs \in Entry :
    /\ legs \in Seq({legs[i] : i \in DOMAIN legs})
    /\ \A i \in DOMAIN legs : legs[i].amount \in Int
BoundAssumption == MaxEntries \in Nat /\ MaxId \in Nat

VARIABLES
  journal,  \* the committed entries, in the order of their commits
  lastId,   \* the sequence behind journal_entries.id
  pc,       \* what each session does next
  posting,  \* the postings it was asked for
  tx,       \* the entries its open transaction has inserted
  held      \* the account rows it has locked

vars == <<journal, lastId, pc, posting, tx, held>>

AccountsOf(legs) == {legs[i].account : i \in DOMAIN legs}

Total(legs) == SumFunction([i \in DOMAIN legs |-> legs[i].amount])

(* What an entry adds to an account, and what its debits alone take.       *)
Movement(legs, a) ==
  SumFunction([i \in DOMAIN legs |->
                 IF legs[i].account = a THEN legs[i].amount ELSE 0])

Debits(legs, a) ==
  SumFunction([i \in DOMAIN legs |->
                 IF legs[i].account = a /\ legs[i].amount < 0
                 THEN -legs[i].amount ELSE 0])

(* The derived balance: SUM(amount_minor) over the account's postings.     *)
Balance(entries, a) ==
  SumFunction([i \in DOMAIN entries |-> Movement(entries[i].legs, a)])

-----------------------------------------------------------------------------
(* BEGIN, and the ends of a transaction: ROLLBACK and COMMIT release all.  *)
Begin(s) ==
  /\ pc[s] = "idle"
  /\ pc' = [pc EXCEPT ![s] = "open"]
  /\ UNCHANGED <<journal, lastId, posting, tx, held>>

EndTx(s) ==
  /\ pc' = [pc EXCEPT ![s] = "idle"]
  /\ posting' = [posting EXCEPT ![s] = <<>>]
  /\ tx' = [tx EXCEPT ![s] = <<>>]
  /\ held' = [held EXCEPT ![s] = {}]
  /\ UNCHANGED lastId

RollBack(s) == EndTx(s) /\ UNCHANGED journal

(* A caller calls postEntry.                                               *)
CallPostEntry(s) ==
  /\ pc[s] = "open"
  /\ Len(tx[s]) < MaxEntries
  /\ \E legs \in Entry : posting' = [posting EXCEPT ![s] = legs]
  /\ pc' = [pc EXCEPT ![s] = "lock"]
  /\ UNCHANGED <<journal, lastId, tx, held>>

WellFormed(legs) ==
  /\ legs # <<>>
  /\ \A i \in DOMAIN legs : legs[i].amount # 0
  /\ AccountsOf(legs) \subseteq Account

(* No posting at all, a zero amount, an account that does not exist.       *)
RejectEntry(s) ==
  pc[s] = "lock" /\ ~WellFormed(posting[s]) /\ RollBack(s)

(* Altered: only the accounts that are debited are locked.                 *)
LockDebited(s) ==
  LET rows == {a \in AccountsOf(posting[s]) : Debits(posting[s], a) > 0}
  IN  /\ pc[s] = "lock"
      /\ WellFormed(posting[s])
      /\ \A r \in Session \ {s} : rows \cap held[r] = {}
      /\ held' = [held EXCEPT ![s] = @ \cup rows]
      /\ pc' = [pc EXCEPT ![s] = "write"]
      /\ UNCHANGED <<journal, lastId, posting, tx>>

(* lockAccounts: SELECT ... ORDER BY id FOR UPDATE.  Which rows a waiting  *)
(* statement already has matters to deadlocks only, and those are the      *)
(* subject of Settlement; here it takes them once all are free.            *)
LockAccounts(s) ==
  LET rows == AccountsOf(posting[s])
  IN  /\ pc[s] = "lock"
      /\ WellFormed(posting[s])
      /\ \A r \in Session \ {s} : rows \cap held[r] = {}
      /\ held' = [held EXCEPT ![s] = @ \cup rows]
      /\ pc' = [pc EXCEPT ![s] = "write"]
      /\ UNCHANGED <<journal, lastId, posting, tx>>

(* derivedBalanceTx: what is committed, and the transaction's own entries. *)
StartingBalance(s, a) == Balance(journal \o tx[s], a)

(* Altered: each debit is tested alone.                                    *)
FundedEachAlone(s) ==
  \A i \in DOMAIN posting[s] :
    posting[s][i].account \in User =>
      -posting[s][i].amount <= StartingBalance(s, posting[s][i].account)

(* The debits of each user account, accumulated, without the credits.      *)
Funded(s) ==
  \A u \in AccountsOf(posting[s]) \cap User :
    Debits(posting[s], u) > 0 =>
      Debits(posting[s], u) <= StartingBalance(s, u)

(* INSUFFICIENT_FUNDS.                                                     *)
RefuseEntry(s) == pc[s] = "write" /\ ~Funded(s) /\ RollBack(s)

Insert(s, legs) ==
  /\ lastId < MaxId
  /\ lastId' = lastId + 1
  /\ tx' = [tx EXCEPT ![s] = Append(@, [id |-> lastId', legs |-> legs])]
  /\ pc' = [pc EXCEPT ![s] = "open"]
  /\ posting' = [posting EXCEPT ![s] = <<>>]
  /\ UNCHANGED <<journal, held>>

InsertEntry(s) == pc[s] = "write" /\ Funded(s) /\ Insert(s, posting[s])

(* recordRoundResolved: an entry that has no postings.                     *)
InsertMarker(s) ==
  pc[s] = "open" /\ Len(tx[s]) < MaxEntries /\ Insert(s, <<>>)

(* assert_entry_balanced, for every entry the transaction touched.         *)
Balanced(s) == \A i \in DOMAIN tx[s] : Total(tx[s][i].legs) = 0

Commit(s) ==
  /\ pc[s] = "open"
  /\ Balanced(s)
  /\ journal' = journal \o tx[s]
  /\ EndTx(s)

(* The trigger raises, or the connection is gone, or the session is the    *)
(* one the database picks to end a circle of waits.                        *)
RaiseUnbalanced(s) == pc[s] = "open" /\ ~Balanced(s) /\ RollBack(s)

Abort(s) == pc[s] # "idle" /\ RollBack(s)

-----------------------------------------------------------------------------
Init ==
  /\ journal = <<>> /\ lastId = 0
  /\ pc = [s \in Session |-> "idle"]
  /\ posting = [s \in Session |-> <<>>]
  /\ tx = [s \in Session |-> <<>>]
  /\ held = [s \in Session |-> {}]

Next ==
  \E s \in Session :
    \/ Begin(s) \/ CallPostEntry(s) \/ RejectEntry(s) \/ LockAccounts(s)
    \/ RefuseEntry(s) \/ InsertEntry(s) \/ InsertMarker(s)
    \/ Commit(s) \/ RaiseUnbalanced(s) \/ Abort(s)

Spec == Init /\ [][Next]_vars

-----------------------------------------------------------------------------
(* The answer of GET /ledger/invariants, one statement on one snapshot.    *)
UnbalancedEntries == {i \in DOMAIN journal : Total(journal[i].legs) # 0}
SumIsZero ==
  /\ SumFunction([i \in DOMAIN journal |-> Total(journal[i].legs)]) = 0
  /\ UnbalancedEntries = {}

(* Every debit of a user was covered by what was committed before it:      *)
(* neither two debits of one entry, nor its own credits, nor a concurrent  *)
(* transaction can spend the same money twice (post.ts:67-102).            *)
FundedByThePast ==
  \A i \in DOMAIN journal, u \in User :
    Debits(journal[i].legs, u) > 0 =>
      Debits(journal[i].legs, u) <= Balance(SubSeq(journal, 1, i - 1), u)

(* On one account, ids tell the order of the commits, although they are    *)
(* handed out before it (post.ts:33-39): the rows locked first stay locked *)
(* until COMMIT, so the newest entry of an account is its last one.        *)
IdsFollowCommits ==
  \A i, j \in DOMAIN journal :
    /\ i < j
    /\ AccountsOf(journal[i].legs) \cap AccountsOf(journal[j].legs) # {}
    => journal[i].id < journal[j].id
=============================================================================
