------------------------------- MODULE Rounds -------------------------------
(***************************************************************************)
(* The life of a round: createRound and the three transitions, each with   *)
(* the journal entry that records it, by transactions that meet on one     *)
(* row; UPDATEs that bypass the service and face only the trigger; and     *)
(* the two queries of getRoundWithHistory.                                 *)
(***************************************************************************)
EXTENDS Naturals, Sequences

CONSTANTS
  Caller,   \* connections that use the service
  Hand,     \* sessions that read a status and UPDATE it without a lock
  Reader,   \* connections serving GET /rounds/:id
  Round,    \* the ids createRound may draw
  Resets,   \* whether the demo may be reset
  NoRound

NoRoundAssumption == NoRound \notin Round
ResetsAssumption == Resets \in BOOLEAN

Status == <<"open", "locked", "resolved", "settled">>
Step   == <<"bet_lock", "round_resolved", "bet_settle">>

Absent == {"none", "gone"}   \* not created yet, and truncated by a reset

(* The ranks of assert_round_transition, one higher; 0 without a row.      *)
Rank(st) ==
  IF st \in Absent THEN 0 ELSE CHOOSE i \in 1 .. 4 : Status[i] = st

VARIABLES
  status,   \* committed rounds.status, or why there is no row
  steps,    \* committed journal entries of the round, in id order
  tx,       \* what each caller's open transaction has done
  seen,     \* the status each hand-written UPDATE starts from
  outcome,  \* how the last hand-written UPDATE of a session ended
  raised,   \* ROUND_ILLEGAL_TRANSITION was raised against the service
  query,    \* the queries each reader has run
  view      \* what they returned

vars == <<status, steps, tx, seen, outcome, raised, query, view>>
db   == <<status, steps, tx, raised>>
hand == <<seen, outcome>>
read == <<query, view>>

Idle == [round |-> NoRound, status |-> "none", steps |-> <<>>]

(* Altered: SELECT without FOR UPDATE.                                     *)
RowUnlocked(c, r) == c \in Caller /\ r \in Round

(* FOR UPDATE waits for a committed row; an uncommitted one is not seen.   *)
RowFree(c, r) ==
  status[r] \notin Absent => \A d \in Caller \ {c} : tx[d].round # r

(* The status a caller's statement finds: its own, or the committed one.   *)
Current(c, r) == IF tx[c].round = r THEN tx[c].status ELSE status[r]

RollBack(c) ==
  /\ tx' = [tx EXCEPT ![c] = Idle]
  /\ UNCHANGED <<status, steps, hand, read>>

(* Altered: a round may also go back.                                      *)
TriggerAllowsBack(old, new) == Rank(new) <= Rank(old) + 1

(* assert_round_transition, and WHEN (OLD.status IS DISTINCT FROM          *)
(* NEW.status): an UPDATE to the same status never reaches the function.   *)
TriggerAllows(old, new) == old = new \/ Rank(new) = Rank(old) + 1

-----------------------------------------------------------------------------
CreateRound(c, r) ==
  /\ tx[c] = Idle
  /\ status[r] = "none" /\ \A d \in Caller : tx[d].round # r
  /\ tx' = [tx EXCEPT ![c] = [round |-> r, status |-> "open", steps |-> <<>>]]
  /\ UNCHANGED <<status, steps, raised, hand, read>>

(* transition's assertion, under the row lock.                             *)
AssertFrom(c, r, from) == Current(c, r) = from

(* ROUND_CLOSED.                                                           *)
RefuseStep(c, r) ==
  /\ tx[c].round \in {NoRound, r} /\ RowFree(c, r)
  /\ \E i \in 1 .. 3 : ~AssertFrom(c, r, Status[i])
  /\ RollBack(c)
  /\ UNCHANGED raised

(* lockRound, resolveRound or settleRound, with the entry placeBet writes  *)
(* next to it.                                                             *)
TakeStep(c, r) ==
  /\ tx[c].round \in {NoRound, r} /\ RowFree(c, r)
  /\ \E i \in 1 .. 3 :
       /\ AssertFrom(c, r, Status[i])
       /\ IF TriggerAllows(Current(c, r), Status[i + 1])
          THEN /\ tx' = [tx EXCEPT ![c] =
                           [round |-> r, status |-> Status[i + 1],
                            steps |-> Append(@.steps, Step[i])]]
               /\ UNCHANGED <<status, steps, raised, hand, read>>
          ELSE RollBack(c) /\ raised' = TRUE

Commit(c) ==
  /\ tx[c] # Idle
  /\ status' = [status EXCEPT ![tx[c].round] = tx[c].status]
  /\ steps' = [steps EXCEPT ![tx[c].round] = @ \o tx[c].steps]
  /\ tx' = [tx EXCEPT ![c] = Idle]
  /\ UNCHANGED <<raised, hand, read>>

Abort(c) == tx[c] # Idle /\ RollBack(c) /\ UNCHANGED raised

(* TRUNCATE waits for every transaction that touched the tables.           *)
Reset ==
  /\ Resets
  /\ \A c \in Caller : tx[c] = Idle
  /\ status' = [r \in Round |-> IF status[r] = "none" THEN "none" ELSE "gone"]
  /\ steps' = [r \in Round |-> <<>>]
  /\ UNCHANGED <<tx, raised, hand, read>>

-----------------------------------------------------------------------------
(* An UPDATE by hand: the status is read first, without a lock.            *)
ReadByHand(h, r) ==
  /\ seen[h].round = NoRound
  /\ status[r] \in {"open", "locked", "resolved"}
  /\ seen' = [seen EXCEPT ![h] = [round |-> r, status |-> status[r]]]
  /\ outcome' = [outcome EXCEPT ![h] = "none"]
  /\ UNCHANGED <<db, read>>

(* The UPDATE waits for the row and meets the trigger with the row's       *)
(* latest version.                                                         *)
UpdateByHand(h) ==
  LET r   == seen[h].round
      new == Status[Rank(seen[h].status) + 1]
  IN  /\ r # NoRound
      /\ \A c \in Caller : tx[c].round # r
      /\ IF status[r] \notin Absent /\ TriggerAllows(status[r], new)
         THEN /\ status' = [status EXCEPT ![r] = new]
              /\ outcome' = [outcome EXCEPT ![h] = "accepted"]
         ELSE /\ outcome' = [outcome EXCEPT ![h] = "rejected"]
              /\ UNCHANGED status
      /\ seen' = [seen EXCEPT ![h] = [round |-> NoRound, status |-> "none"]]
      /\ UNCHANGED <<steps, tx, raised, read>>

-----------------------------------------------------------------------------
(* Altered: the journal is read before the round.                          *)
QueriesSwapped == <<"journal_entries", "rounds">>

(* getRoundWithHistory: two queries, each on a snapshot of its own.        *)
Queries == <<"rounds", "journal_entries">>

NoView == [round |-> NoRound, status |-> "none", history |-> <<>>]

Query(v, r) ==
  /\ query[v] < 2
  /\ view[v].round \in {NoRound, r}
  /\ view' = [view EXCEPT ![v] =
                IF Queries[query[v] + 1] = "rounds"
                THEN [@ EXCEPT !.round = r, !.status = status[r]]
                ELSE [@ EXCEPT !.round = r, !.history = steps[r]]]
  /\ query' = [query EXCEPT ![v] = @ + 1]
  /\ UNCHANGED <<db, hand>>

(* The answer is sent, a 404 if there was no round.                        *)
Answer(v) ==
  /\ query[v] = 2
  /\ query' = [query EXCEPT ![v] = 0]
  /\ view' = [view EXCEPT ![v] = NoView]
  /\ UNCHANGED <<db, hand>>

-----------------------------------------------------------------------------
Init ==
  /\ status = [r \in Round |-> "none"] /\ steps = [r \in Round |-> <<>>]
  /\ tx = [c \in Caller |-> Idle]
  /\ seen = [h \in Hand |-> [round |-> NoRound, status |-> "none"]]
  /\ outcome = [h \in Hand |-> "none"] /\ raised = FALSE
  /\ query = [v \in Reader |-> 0] /\ view = [v \in Reader |-> NoView]

Next ==
  \/ \E c \in Caller, r \in Round :
       CreateRound(c, r) \/ RefuseStep(c, r) \/ TakeStep(c, r)
  \/ \E c \in Caller : Commit(c) \/ Abort(c)
  \/ Reset
  \/ \E h \in Hand, r \in Round : ReadByHand(h, r)
  \/ \E h \in Hand : UpdateByHand(h)
  \/ \E v \in Reader, r \in Round : Query(v, r)
  \/ \E v \in Reader : Answer(v)

Spec == Init /\ [][Next]_vars

-----------------------------------------------------------------------------
(* Whatever caller or session writes it, a round moves forward or is       *)
(* truncated; it never goes back (002_triggers.sql:40-60).                 *)
Linear ==
  [][\A r \in Round :
       \/ Rank(status'[r]) >= Rank(status[r])
       \/ status'[r] = "gone"]_vars

(* Every step a round took is in the journal, once and in order: its       *)
(* history is a record, not a rendering of its status (round.ts:95-102).   *)
StepsRecorded ==
  \A r \in Round :
    status[r] \notin Absent => steps[r] = SubSeq(Step, 1, Rank(status[r]) - 1)

(* Whoever loses a race for a step is refused; the trigger never has to    *)
(* reject what the service does (round.ts:24-28).                          *)
RefusedFirst == ~raised

(* An answer shows every step up to the status it shows (round.ts:95-102). *)
HistoryCoversStatus ==
  \A v \in Reader :
    query[v] = 2 /\ view[v].status \notin Absent =>
      Len(view[v].history) >= Rank(view[v].status) - 1

(* round.ts:24-27: of two callers that both read the same status and both  *)
(* try to advance, the trigger rejects the second.                         *)
TriggerRejectsSecond ==
  [][\A h \in Hand :
       outcome[h] # "accepted" /\ outcome'[h] = "accepted" =>
         status' # status]_vars
=============================================================================
