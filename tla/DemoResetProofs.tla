-------------------------- MODULE DemoResetProofs --------------------------
(***************************************************************************)
(* What holds of resets and requests for any number of connections,        *)
(* requests, seeds and attempts.  The invariant says which locks protect   *)
(* what: a request's rows are missing until it commits, and a reset that   *)
(* holds all its tables meets no open transaction.                         *)
(***************************************************************************)
EXTENDS DemoReset, FiniteSetTheorems, TLAPS

(* The tables a request has touched and written after n statements, and    *)
(* whether it has locked the active seed.                                  *)
TouchedBy(q, n) == {Statements(q)[i][2] : i \in 1 .. n}
WrittenBy(q, n) ==
  {Statements(q)[i][2] : i \in {j \in 1 .. n : Statements(q)[j][1] = "write"}}
LockedBy(q, n) == \E i \in 1 .. n : Statements(q)[i][1] = "lock"

BetTables == {"bets", "rounds", "journal_entries", "postings"}
DepositTables == {"webhook_events", "journal_entries", "postings"}

Rotating  == {c \in Client : req[c] \in Rotation}
Resetting == {r \in Resetter : attempt[r] > 0}

-----------------------------------------------------------------------------
(* There is one active seed, the one generated last, and for every         *)
(* rotation and reset that was let in there is another one to generate.    *)
OneSeed == active = {generated}
Room == generated + Cardinality(Rotating) + Cardinality(Resetting) <= MaxSeed

(* Resets exclude each other, and the tables they have truncated exclude   *)
(* every open transaction.                                                 *)
ResetsExclude ==
  /\ ResetsAlone
  /\ \A r \in Resetter : locked[r] > 0 => attempt[r] > 0

(* One connection serves a request, and one holds the row of the seed.     *)
RequestsApart ==
  \A c, d \in Client :
    c # d => /\ req[c] # NoRequest => req[c] # req[d]
             /\ seen[c] = 0 \/ seen[d] = 0

(* A transaction has done what its statements say.                         *)
Progress(c) ==
  IF req[c] = NoRequest
  THEN step[c] = 0 /\ touched[c] = {} /\ written[c] = {} /\ seen[c] = 0
  ELSE /\ step[c] \in 1 .. Len(Statements(req[c])) + 1
       /\ touched[c] = TouchedBy(req[c], step[c] - 1)
       /\ written[c] = WrittenBy(req[c], step[c] - 1)
       /\ seen[c] # 0 <=> LockedBy(req[c], step[c] - 1)
       /\ seen[c] # 0 => seen[c] \in active

(* The tables agree on what is committed, and a request past its first     *)
(* statement is not.                                                       *)
RowsAgree ==
  /\ \A b \in Bet, t \in BetTables : b \in rows[t] <=> seedOf[b] # 0
  /\ \A d \in Deposit, t \in DepositTables :
       d \in rows[t] <=> d \in rows["webhook_events"]
  /\ rows["webhook_events"] \subseteq Deposit

NotThere(c) ==
  step[c] > 1 => /\ req[c] \in Bet => seedOf[req[c]] = 0
                 /\ req[c] \in Deposit => req[c] \notin rows["webhook_events"]

IInv ==
  /\ TypeOK /\ OneSeed /\ Room /\ ResetsExclude /\ RequestsApart /\ RowsAgree
  /\ \A c \in Client : Progress(c) /\ NotThere(c)
-----------------------------------------------------------------------------
(* The statements, one by one.                                             *)
LEMMA BetStatements ==
  ASSUME NEW b \in Bet
  PROVE  /\ Len(Statements(b)) = 10
         /\ Statements(b)[1] = <<"read", "bets">>
         /\ Statements(b)[2] = <<"read", "server_seeds">>
         /\ Statements(b)[3] = <<"read", "postings">>
         /\ Statements(b)[4] = <<"read", "journal_entries">>
         /\ Statements(b)[5] = <<"lock", "server_seeds">>
         /\ Statements(b)[6] = <<"write", "rounds">>
         /\ Statements(b)[7] = <<"write", "bets">>
         /\ Statements(b)[8] = <<"write", "server_seeds">>
         /\ Statements(b)[9] = <<"write", "journal_entries">>
         /\ Statements(b)[10] = <<"write", "postings">>
BY DEF Statements

LEMMA DepositStatements ==
  ASSUME NEW d \in Deposit
  PROVE  /\ Len(Statements(d)) = 3
         /\ Statements(d)[1] = <<"write", "webhook_events">>
         /\ Statements(d)[2] = <<"write", "journal_entries">>
         /\ Statements(d)[3] = <<"write", "postings">>
BY RequestAssumption DEF Statements

LEMMA RotationStatements ==
  ASSUME NEW q \in Rotation
  PROVE  /\ Len(Statements(q)) = 2
         /\ Statements(q)[1] = <<"lock", "server_seeds">>
         /\ Statements(q)[2] = <<"write", "server_seeds">>
BY RequestAssumption DEF Statements

LEMMA StatementTables ==
  ASSUME NEW q \in Request
  PROVE  /\ Len(Statements(q)) \in 1 .. 10
         /\ \A n \in 1 .. Len(Statements(q)) : Statements(q)[n][2] \in Table
<1>1. CASE q \in Bet
  <2>1. \A n \in 1 .. 10 : Statements(q)[n][2] \in Table
    <3>1. SUFFICES ASSUME NEW n \in 1 .. 10 PROVE Statements(q)[n][2] \in Table
      OBVIOUS
    <3>2. \/ n = 1 \/ n = 2 \/ n = 3 \/ n = 4 \/ n = 5
          \/ n = 6 \/ n = 7 \/ n = 8 \/ n = 9 \/ n = 10
      OBVIOUS
    <3>3. QED BY <1>1, <3>2, BetStatements DEF Table
  <2>2. QED BY <1>1, <2>1, BetStatements
<1>2. CASE q \in Deposit
  <2>1. \A n \in 1 .. 3 : n = 1 \/ n = 2 \/ n = 3 OBVIOUS
  <2>2. QED BY <1>2, <2>1, DepositStatements DEF Table
<1>3. CASE q \in Rotation
  <2>1. \A n \in 1 .. 2 : n = 1 \/ n = 2 OBVIOUS
  <2>2. QED BY <1>3, <2>1, RotationStatements DEF Table
<1>4. QED BY <1>1, <1>2, <1>3 DEF Request

(* What a transaction has done grows by the statement it runs.             *)
LEMMA OneMore ==
  ASSUME NEW q, NEW n \in Nat
  PROVE  /\ TouchedBy(q, n + 1) = TouchedBy(q, n) \cup {Statements(q)[n + 1][2]}
         /\ WrittenBy(q, n + 1) =
              IF Statements(q)[n + 1][1] = "write"
              THEN WrittenBy(q, n) \cup {Statements(q)[n + 1][2]}
              ELSE WrittenBy(q, n)
         /\ LockedBy(q, n + 1) <=>
              LockedBy(q, n) \/ Statements(q)[n + 1][1] = "lock"
<1>1. 1 .. n + 1 = (1 .. n) \cup {n + 1} OBVIOUS
<1>2. TouchedBy(q, n + 1) = TouchedBy(q, n) \cup {Statements(q)[n + 1][2]}
  BY <1>1 DEF TouchedBy
<1>3. WrittenBy(q, n + 1) =
        IF Statements(q)[n + 1][1] = "write"
        THEN WrittenBy(q, n) \cup {Statements(q)[n + 1][2]}
        ELSE WrittenBy(q, n)
  BY <1>1 DEF WrittenBy
<1>4. LockedBy(q, n + 1) <=>
        LockedBy(q, n) \/ Statements(q)[n + 1][1] = "lock"
  BY <1>1 DEF LockedBy
<1>5. QED BY <1>2, <1>3, <1>4

LEMMA NothingYet ==
  ASSUME NEW q
  PROVE  TouchedBy(q, 0) = {} /\ WrittenBy(q, 0) = {} /\ ~LockedBy(q, 0)
BY DEF TouchedBy, WrittenBy, LockedBy

(* The tables a request has rows in once it commits.                       *)
LEMMA AllWritten ==
  /\ \A b \in Bet : /\ WrittenBy(b, 10) = BetTables \cup {"server_seeds"}
                    /\ LockedBy(b, 10)
  /\ \A d \in Deposit : WrittenBy(d, 3) = DepositTables
  /\ \A q \in Rotation : /\ WrittenBy(q, 2) = {"server_seeds"}
                         /\ LockedBy(q, 2)
<1>1. ASSUME NEW b \in Bet
      PROVE  WrittenBy(b, 10) = BetTables \cup {"server_seeds"} /\ LockedBy(b, 10)
  <2>1. \A n \in 1 .. 10 : \/ n = 1 \/ n = 2 \/ n = 3 \/ n = 4 \/ n = 5
                           \/ n = 6 \/ n = 7 \/ n = 8 \/ n = 9 \/ n = 10
    OBVIOUS
  <2>2. {j \in 1 .. 10 : Statements(b)[j][1] = "write"} = {6, 7, 8, 9, 10}
    BY <2>1, BetStatements
  <2>3. WrittenBy(b, 10) = BetTables \cup {"server_seeds"}
    BY <2>2, BetStatements DEF WrittenBy, BetTables
  <2>4. QED BY <2>3, BetStatements DEF LockedBy
<1>2. ASSUME NEW d \in Deposit PROVE WrittenBy(d, 3) = DepositTables
  <2>1. {j \in 1 .. 3 : Statements(d)[j][1] = "write"} = {1, 2, 3}
    BY DepositStatements
  <2>2. QED BY <2>1, DepositStatements DEF WrittenBy, DepositTables
<1>3. ASSUME NEW q \in Rotation
      PROVE  WrittenBy(q, 2) = {"server_seeds"} /\ LockedBy(q, 2)
  <2>1. {j \in 1 .. 2 : Statements(q)[j][1] = "write"} = {2}
    BY RotationStatements
  <2>2. QED BY <2>1, RotationStatements DEF WrittenBy, LockedBy
<1>4. QED BY <1>1, <1>2, <1>3

(* Whoever has locked the seed, or done anything, has touched a table.     *)
LEMMA UntouchedIsNew ==
  ASSUME NEW q, NEW n \in Nat, TouchedBy(q, n) = {}
  PROVE  n = 0
BY DEF TouchedBy

LEMMA AllTables ==
  ASSUME NEW r \in Resetter, Done(r)
  PROVE  Truncated(r) = Table
<1>1. TruncateOrder = <<"postings", "journal_entries", "webhook_events", "bets",
                        "rounds", "server_seeds">> /\ Len(TruncateOrder) = 6
  BY DEF TruncateOrder
<1>2. locked[r] - 1 = 6 BY <1>1 DEF Done
<1>3. \A n \in 1 .. 6 : n = 1 \/ n = 2 \/ n = 3 \/ n = 4 \/ n = 5 \/ n = 6
  OBVIOUS
<1>4. QED BY <1>1, <1>2, <1>3 DEF Truncated, Table

-----------------------------------------------------------------------------
LEMMA InitHolds == ASSUME Init PROVE IInv
<1>1. Len(TruncateOrder) = 6 BY DEF TruncateOrder
<1>2. TypeOK BY <1>1, BoundAssumption DEF Init, TypeOK
<1>3. Rotating = {} /\ Resetting = {}
  BY RequestAssumption DEF Init, Rotating, Resetting, Request
<1>4. Room BY <1>3, BoundAssumption, FS_EmptySet DEF Init, Room
<1>5. \A c \in Client : Progress(c) /\ NotThere(c)
  BY DEF Init, Progress, NotThere
<1>6. RowsAgree BY DEF Init, RowsAgree, BetTables, DepositTables, Table
<1>7. OneSeed /\ ResetsExclude /\ RequestsApart
  BY DEF Init, OneSeed, ResetsExclude, ResetsAlone, RequestsApart
<1>8. QED BY <1>2, <1>4, <1>5, <1>6, <1>7 DEF IInv

(* The connections are finitely many, so the ones with room to spare are.  *)
LEMMA Counted ==
  /\ \A S \in SUBSET Client : IsFiniteSet(S) /\ Cardinality(S) \in Nat
  /\ \A S \in SUBSET Resetter : IsFiniteSet(S) /\ Cardinality(S) \in Nat
BY ConnectionAssumption, FS_Subset, FS_CardinalityType

LEMMA InRange ==
  ASSUME IInv
  PROVE  /\ generated \in 1 .. MaxSeed /\ MaxSeed \in Nat
         /\ Cardinality(Rotating) \in Nat /\ Cardinality(Resetting) \in Nat
         /\ \A c \in Client : req[c] \in Request => 
              /\ step[c] - 1 \in Nat
              /\ req[c] # NoRequest
              /\ Len(Statements(req[c])) \in 1 .. 10
<1>1. Rotating \subseteq Client /\ Resetting \subseteq Resetter
  BY DEF Rotating, Resetting
<1>2. ASSUME NEW c \in Client, req[c] \in Request
      PROVE  /\ step[c] - 1 \in Nat /\ req[c] # NoRequest
             /\ Len(Statements(req[c])) \in 1 .. 10
  BY <1>2, RequestAssumption, StatementTables DEF IInv, Progress
<1>3. QED BY <1>1, <1>2, Counted, BoundAssumption DEF IInv, TypeOK

-----------------------------------------------------------------------------
(* A request that is let in has done nothing, and a rotation leaves room.  *)
LEMMA SendKeeps ==
  ASSUME IInv, NEW c \in Client, NEW q \in Request, Send(c, q)
  PROVE  IInv'
<1> USE DEF Send, database, resets, readers
<1>1. TypeOK' BY DEF IInv, TypeOK
<1>2. OneSeed' /\ ResetsExclude' /\ RowsAgree'
  BY DEF IInv, OneSeed, ResetsExclude, ResetsAlone, RowsAgree, Truncated
<1>3. RequestsApart'
  BY RequestAssumption DEF IInv, TypeOK, RequestsApart
<1>4. Room'
  <2>1. Resetting' = Resetting BY DEF Resetting
  <2>2. CASE q \in Rotation
    <3>1. Rotating' = Rotating \cup {c} /\ c \notin Rotating
      BY <2>2, RequestAssumption DEF IInv, TypeOK, Rotating, Request
    <3>2. Cardinality(Rotating') = Cardinality(Rotating) + 1
      BY <3>1, Counted, FS_AddElement DEF Rotating
    <3>3. QED BY <2>1, <2>2, <3>2, InRange
              DEF Room, SeedToSpare, Rotating, Resetting
  <2>3. CASE q \notin Rotation
    <3>1. Rotating' = Rotating
      BY <2>3, RequestAssumption DEF IInv, TypeOK, Rotating, Request
    <3>2. QED BY <2>1, <3>1 DEF IInv, Room
  <2>4. QED BY <2>2, <2>3
<1>5. ASSUME NEW d \in Client PROVE Progress(d)' /\ NotThere(d)'
  <2>1. CASE d = c
    <3>1. step'[c] = 1 /\ req'[c] = q /\ touched'[c] = {} /\ written'[c] = {}
          /\ seen'[c] = 0 /\ q # NoRequest
      BY RequestAssumption DEF IInv, TypeOK, Progress
    <3>2. Progress(c)'
      BY <3>1, NothingYet, StatementTables DEF Progress
    <3>3. QED BY <2>1, <3>1, <3>2 DEF NotThere
  <2>2. CASE d # c
    BY <2>2 DEF IInv, TypeOK, Progress, NotThere
  <2>3. QED BY <2>1, <2>2
<1>6. QED BY <1>1, <1>2, <1>3, <1>4, <1>5 DEF IInv

(* What every end of a request comes to, apart from the database.          *)
LEMMA EndKeeps ==
  ASSUME IInv, NEW c \in Client, EndRequest(c), UNCHANGED <<database, resets, readers>>
  PROVE  IInv'
<1> USE DEF EndRequest, database, resets, readers
<1>1. TypeOK' BY BoundAssumption DEF IInv, TypeOK
<1>2. OneSeed' /\ RowsAgree' BY DEF IInv, OneSeed, RowsAgree
<1>3. ResetsExclude'
  BY DEF IInv, TypeOK, ResetsExclude, ResetsAlone, Truncated
<1>4. RequestsApart' BY DEF IInv, TypeOK, RequestsApart
<1>5. Room'
  <2>1. Resetting' = Resetting BY DEF Resetting
  <2>2. Rotating' = Rotating \ {c}
    BY RequestAssumption DEF IInv, TypeOK, Rotating, Request
  <2>3. Cardinality(Rotating') <= Cardinality(Rotating)
    BY <2>2, Counted, FS_RemoveElement, InRange DEF Rotating
  <2>4. Cardinality(Rotating') \in Nat
    BY <2>2, Counted DEF Rotating
  <2>5. QED BY <2>1, <2>3, <2>4, InRange DEF IInv, Room
<1>6. ASSUME NEW d \in Client PROVE Progress(d)' /\ NotThere(d)'
  <2>1. CASE d = c
    BY <2>1 DEF IInv, TypeOK, Progress, NotThere
  <2>2. CASE d # c
    BY <2>2 DEF IInv, TypeOK, Progress, NotThere
  <2>3. QED BY <2>1, <2>2
<1>7. QED BY <1>1, <1>2, <1>3, <1>4, <1>5, <1>6 DEF IInv

-----------------------------------------------------------------------------
(* A statement that runs adds to what its transaction has done, and runs   *)
(* only against tables no reset has truncated.                             *)
LEMMA StatementKeeps ==
  ASSUME IInv, NEW c \in Client, RunStatement(c)
  PROVE  IInv'
<1> DEFINE q == req[c]
           s == Statements(q)[step[c]]
<1>1. /\ q \in Request /\ q # NoRequest
      /\ step[c] \in 1 .. Len(Statements(q)) /\ Len(Statements(q)) \in 1 .. 10
      /\ s[2] \in Table
  BY RequestAssumption, StatementTables, InRange
     DEF IInv, TypeOK, Progress, RunStatement, Running
<1>2. /\ UNCHANGED <<rows, seedOf, active, generated, req, attempt, locked,
                     page, unposted>>
      /\ touched' = [touched EXCEPT ![c] = touched[c] \cup {s[2]}]
      /\ written' = IF s[1] = "write"
                    THEN [written EXCEPT ![c] = written[c] \cup {s[2]}]
                    ELSE written
      /\ step' = [step EXCEPT ![c] = step[c] + 1]
      /\ ~AlreadyThere(c)
  BY DEF RunStatement, Statement, database, resets, readers
<1>3. /\ \A r \in Resetter : s[2] \notin Truncated(r)
      /\ s[1] = "lock" => SeedRowFree(c)
  BY DEF RunStatement, Granted, Statement
<1>4. \/ s[1] = "lock" /\ seen' = [seen EXCEPT ![c] = generated]
      \/ s[1] # "lock" /\ seen' = seen
  BY DEF RunStatement, Statement, IInv, OneSeed
<1> HIDE DEF q, s
<1>5. generated \in 1 .. MaxSeed /\ MaxSeed \in Nat BY InRange
<1>6. TypeOK'
  <2>1. step[c] \in 1 .. 10 /\ step[c] + 1 \in 0 .. 11
    <3>1. ASSUME NEW n \in 1 .. 10, NEW i \in 1 .. n
          PROVE  i \in 1 .. 10 /\ i + 1 \in 0 .. 11
      OBVIOUS
    <3>2. QED BY <1>1, <3>1
  <2>2. touched' \in [Client -> SUBSET Table] BY <1>1, <1>2 DEF IInv, TypeOK
  <2>3. written' \in [Client -> SUBSET Table] BY <1>1, <1>2 DEF IInv, TypeOK
  <2>4. generated \in 0 .. MaxSeed BY <1>5
  <2>5. step' \in [Client -> 0 .. 11] BY <1>2, <2>1 DEF IInv, TypeOK
  <2>6. seen' \in [Client -> 0 .. MaxSeed] BY <1>4, <2>4 DEF IInv, TypeOK
  <2>7. QED BY <1>2, <2>2, <2>3, <2>5, <2>6 DEF IInv, TypeOK
<1>7. OneSeed' /\ RowsAgree' BY <1>2 DEF IInv, OneSeed, RowsAgree
<1>8. Room' BY <1>2 DEF IInv, Room, Rotating, Resetting
<1>9. ResetsExclude'
  BY <1>2, <1>3 DEF IInv, TypeOK, ResetsExclude, ResetsAlone, Truncated
<1>10. RequestsApart'
  <2>1. CASE s[1] = "lock"
    BY <1>2, <1>3, <1>4, <2>1 DEF IInv, TypeOK, RequestsApart, SeedRowFree
  <2>2. CASE s[1] # "lock"
    BY <1>2, <1>4, <2>2 DEF IInv, RequestsApart
  <2>3. QED BY <2>1, <2>2
<1>11. Progress(c)'
  <2>1. step[c] - 1 \in Nat /\ (step[c] - 1) + 1 = step[c] BY <1>1
  <2>2. /\ TouchedBy(q, step[c]) = TouchedBy(q, step[c] - 1) \cup {s[2]}
        /\ WrittenBy(q, step[c]) = IF s[1] = "write"
                                   THEN WrittenBy(q, step[c] - 1) \cup {s[2]}
                                   ELSE WrittenBy(q, step[c] - 1)
        /\ LockedBy(q, step[c]) <=> LockedBy(q, step[c] - 1) \/ s[1] = "lock"
    BY <2>1, OneMore DEF s
  <2>3. /\ touched[c] = TouchedBy(q, step[c] - 1)
        /\ written[c] = WrittenBy(q, step[c] - 1)
        /\ seen[c] # 0 <=> LockedBy(q, step[c] - 1)
        /\ seen[c] # 0 => seen[c] \in active
    BY <1>1 DEF IInv, Progress, q
  <2>4. /\ step'[c] = step[c] + 1 /\ step'[c] - 1 = step[c]
        /\ step'[c] \in 1 .. Len(Statements(q)) + 1
        /\ req'[c] = q /\ q # NoRequest
        /\ touched'[c] = touched[c] \cup {s[2]}
        /\ written'[c] = IF s[1] = "write" THEN written[c] \cup {s[2]}
                                           ELSE written[c]
    BY <1>1, <1>2 DEF IInv, TypeOK, q
  <2>5. /\ s[1] = "lock" => seen'[c] = generated
        /\ s[1] # "lock" => seen'[c] = seen[c]
    BY <1>4 DEF IInv, TypeOK
  <2>6. generated # 0 /\ active = {generated} /\ active' = active
    BY <1>2, <1>5 DEF IInv, OneSeed
  <2>7. (seen'[c] # 0 <=> LockedBy(q, step[c])) /\ (seen'[c] # 0 => seen'[c] \in active')
    BY <2>2, <2>3, <2>5, <2>6
  <2>8. QED BY <2>2, <2>3, <2>4, <2>7 DEF Progress
<1>12. NotThere(c)'
  <2>1. CASE step[c] = 1
    <3>1. q \notin rows["bets"] \cup rows["webhook_events"]
      BY <1>2, <2>1 DEF AlreadyThere, q
    <3>2. q \in Bet => seedOf[q] = 0
      BY <3>1 DEF IInv, RowsAgree, BetTables
    <3>3. QED BY <1>2, <3>1, <3>2 DEF NotThere, q
  <2>2. CASE step[c] # 1
    BY <1>1, <1>2, <2>2 DEF IInv, NotThere, q
  <2>3. QED BY <2>1, <2>2
<1>13. ASSUME NEW d \in Client, d # c PROVE Progress(d)' /\ NotThere(d)'
  BY <1>2, <1>4, <1>13 DEF IInv, TypeOK, Progress, NotThere
<1>14. QED BY <1>6, <1>7, <1>8, <1>9, <1>10, <1>11, <1>12, <1>13 DEF IInv

-----------------------------------------------------------------------------
(* A commit leaves the rows of a whole request.                            *)
LEMMA CommitRows ==
  ASSUME IInv, NEW c \in Client, Commit(c)
  PROVE  /\ req[c] \in Request
         /\ \A t \in Table : rows'[t] = IF t \in written[c]
                                        THEN rows[t] \cup {req[c]} ELSE rows[t]
         /\ req[c] \in Bet =>
              /\ written[c] = BetTables \cup {"server_seeds"}
              /\ seen[c] = generated /\ seedOf[req[c]] = 0
         /\ req[c] \in Deposit =>
              /\ written[c] = DepositTables
              /\ req[c] \notin rows["webhook_events"]
         /\ req[c] \in Rotation =>
              /\ written[c] = {"server_seeds"} /\ seen[c] = generated
<1> DEFINE q == req[c]
<1>1. /\ q \in Request /\ q # NoRequest
      /\ step[c] - 1 = Len(Statements(q)) /\ Len(Statements(q)) \in 1 .. 10
  BY RequestAssumption, StatementTables DEF IInv, TypeOK, Progress, Commit
<1>2. /\ written[c] = WrittenBy(q, Len(Statements(q)))
      /\ seen[c] # 0 <=> LockedBy(q, Len(Statements(q)))
      /\ seen[c] # 0 => seen[c] = generated
  BY <1>1 DEF IInv, Progress, OneSeed
<1>3. NotThere(c) /\ step[c] > 1
  <2>1. step[c] \in 0 .. 11 BY DEF IInv, TypeOK
  <2>2. ASSUME NEW n \in 0 .. 11, NEW i \in 1 .. 10, n - 1 = i PROVE n > 1
    BY <2>2
  <2>3. QED BY <1>1, <2>1, <2>2 DEF IInv
<1>4. CASE q \in Bet
  BY <1>1, <1>2, <1>3, <1>4, AllWritten, BetStatements, RequestAssumption
     DEF NotThere, Commit
<1>5. CASE q \in Deposit
  BY <1>1, <1>2, <1>3, <1>5, AllWritten, DepositStatements, RequestAssumption
     DEF NotThere, Commit
<1>6. CASE q \in Rotation
  BY <1>1, <1>2, <1>3, <1>6, AllWritten, RotationStatements, RequestAssumption
     DEF NotThere, Commit
<1>7. QED BY <1>1, <1>4, <1>5, <1>6 DEF Request

LEMMA CommitKeeps ==
  ASSUME IInv, NEW c \in Client, Commit(c)
  PROVE  IInv'
<1> DEFINE q == req[c]
<1>1. /\ q \in Request /\ q # NoRequest
      /\ \A t \in Table : rows'[t] = IF t \in written[c]
                                     THEN rows[t] \cup {q} ELSE rows[t]
      /\ q \in Bet => /\ written[c] = BetTables \cup {"server_seeds"}
                      /\ seen[c] = generated /\ seedOf[q] = 0
      /\ q \in Deposit => /\ written[c] = DepositTables
                          /\ q \notin rows["webhook_events"]
      /\ q \in Rotation => /\ written[c] = {"server_seeds"}
                           /\ seen[c] = generated
  BY CommitRows, RequestAssumption
<1>2. /\ req' = [req EXCEPT ![c] = NoRequest]
      /\ step' = [step EXCEPT ![c] = 0]
      /\ touched' = [touched EXCEPT ![c] = {}]
      /\ written' = [written EXCEPT ![c] = {}]
      /\ seen' = [seen EXCEPT ![c] = 0]
      /\ rows' = [t \in Table |-> IF t \in written[c] THEN rows[t] \cup {q}
                                                      ELSE rows[t]]
      /\ seedOf' = IF q \in Bet THEN [seedOf EXCEPT ![q] = seen[c]] ELSE seedOf
      /\ q \notin Rotation => active' = active /\ generated' = generated
      /\ q \in Rotation => /\ generated' = generated + 1
                           /\ active' = (active \ {seen[c]}) \cup {generated'}
      /\ UNCHANGED <<attempt, locked, page, unposted>>
  BY DEF Commit, EndRequest, GenerateSeed, resets, readers
<1>3. generated \in 1 .. MaxSeed /\ MaxSeed \in Nat BY InRange
<1> HIDE DEF q
<1>4. Rotating' = Rotating \ {c} /\ Resetting' = Resetting
  BY <1>1, <1>2, RequestAssumption DEF IInv, TypeOK, Rotating, Resetting, Request
<1>5. Room' /\ generated' \in 1 .. MaxSeed
  <2>1. Cardinality(Rotating') \in Nat /\ Cardinality(Rotating) \in Nat
        /\ Cardinality(Resetting) \in Nat
    BY <1>4, Counted, InRange DEF Rotating
  <2>2. CASE q \in Rotation
    <3>1. c \in Rotating BY <2>2 DEF Rotating, q
    <3>2. Cardinality(Rotating') = Cardinality(Rotating) - 1
      BY <1>4, <3>1, Counted, FS_RemoveElement DEF Rotating
    <3>3. QED BY <1>2, <1>3, <1>4, <2>1, <2>2, <3>2 DEF IInv, Room
  <2>3. CASE q \notin Rotation
    <3>1. Rotating' = Rotating BY <1>4, <2>3 DEF Rotating, q
    <3>2. QED BY <1>2, <1>3, <1>4, <2>3, <3>1 DEF IInv, Room
  <2>4. QED BY <2>2, <2>3
<1>6. OneSeed'
  BY <1>1, <1>2 DEF IInv, OneSeed
<1>7. TypeOK'
  <2>1. rows' \in [Table -> SUBSET Request] BY <1>1, <1>2 DEF IInv, TypeOK
  <2>2. seedOf' \in [Bet -> 0 .. MaxSeed] BY <1>2 DEF IInv, TypeOK
  <2>3. active' \subseteq 1 .. generated' BY <1>5, <1>6 DEF OneSeed
  <2>4. seen' \in [Client -> 0 .. MaxSeed] BY <1>2, <1>3 DEF IInv, TypeOK
  <2>5. QED BY <1>2, <1>5, <2>1, <2>2, <2>3, <2>4 DEF IInv, TypeOK
<1>8. ResetsExclude'
  BY <1>2 DEF IInv, TypeOK, ResetsExclude, ResetsAlone, Truncated
<1>9. RequestsApart' BY <1>2 DEF IInv, TypeOK, RequestsApart
<1>10. RowsAgree'
  <2>1. BetTables \subseteq Table /\ DepositTables \subseteq Table
        /\ "webhook_events" \in Table /\ "webhook_events" \notin BetTables
        /\ "server_seeds" \notin BetTables \cup DepositTables
        /\ "webhook_events" \in DepositTables
        /\ "webhook_events" # "server_seeds"
    BY DEF BetTables, DepositTables, Table
  <2>2. CASE q \in Bet
    <3>1. q \notin Deposit BY <2>2, RequestAssumption
    <3>2. \A b \in Bet : seedOf'[b] = IF b = q THEN generated ELSE seedOf[b]
      BY <1>1, <1>2, <2>2 DEF IInv, TypeOK
    <3>3. generated # 0 BY <1>3
    <3>4. ASSUME NEW b \in Bet, NEW t \in BetTables
          PROVE  b \in rows'[t] <=> seedOf'[b] # 0
      <4>1. rows'[t] = rows[t] \cup {q} BY <1>1, <2>1, <2>2
      <4>2. b \in rows[t] <=> seedOf[b] # 0 BY DEF IInv, RowsAgree
      <4>3. QED BY <3>2, <3>3, <4>1, <4>2
    <3>5. \A d \in Deposit, t \in Table : d \in rows'[t] <=> d \in rows[t]
      BY <1>1, <3>1
    <3>6. rows'["webhook_events"] = rows["webhook_events"]
      BY <1>1, <2>1, <2>2
    <3>7. QED BY <2>1, <3>4, <3>5, <3>6 DEF IInv, RowsAgree
  <2>3. CASE q \in Deposit
    <3>1. q \notin Bet BY <2>3, RequestAssumption
    <3>2. \A b \in Bet, t \in Table : b \in rows'[t] <=> b \in rows[t]
      BY <1>1, <3>1
    <3>3. \A d \in Deposit, t \in DepositTables :
            d \in rows'[t] <=> d \in rows[t] \/ d = q
      BY <1>1, <2>1, <2>3
    <3>4. \A d \in Deposit, t \in DepositTables :
            d \in rows'[t] <=> d \in rows'["webhook_events"]
      BY <2>1, <3>3 DEF IInv, RowsAgree
    <3>5. rows'["webhook_events"] = rows["webhook_events"] \cup {q}
      BY <1>1, <2>1, <2>3
    <3>6. QED BY <1>2, <2>1, <2>3, <3>1, <3>2, <3>4, <3>5 DEF IInv, RowsAgree
  <2>4. CASE q \in Rotation
    <3>1. q \notin Bet /\ q \notin Deposit BY <2>4, RequestAssumption
    <3>2. \A t \in BetTables \cup DepositTables : rows'[t] = rows[t]
      BY <1>1, <2>1, <2>4
    <3>3. QED BY <1>2, <2>1, <3>1, <3>2 DEF IInv, RowsAgree
  <2>5. QED BY <1>1, <2>2, <2>3, <2>4 DEF Request
<1>11. ASSUME NEW d \in Client PROVE Progress(d)' /\ NotThere(d)'
  <2>1. CASE d = c
    BY <1>2, <2>1 DEF IInv, TypeOK, Progress, NotThere
  <2>2. CASE d # c
    <3>1. /\ req'[d] = req[d] /\ step'[d] = step[d] /\ touched'[d] = touched[d]
          /\ written'[d] = written[d] /\ seen'[d] = seen[d]
      BY <1>2, <2>2 DEF IInv, TypeOK
    <3>2. Progress(d)'
      <4>1. q \in Rotation => seen[d] = 0
        BY <1>1, <1>3, <2>2 DEF IInv, RequestsApart
      <4>2. QED BY <1>2, <3>1, <4>1 DEF IInv, Progress
    <3>3. NotThere(d)'
      <4>1. req[d] # q
        BY <1>1, <2>2 DEF IInv, RequestsApart, q
      <4>2. req[d] \in Bet => seedOf'[req[d]] = seedOf[req[d]]
        BY <1>2, <4>1 DEF IInv, TypeOK
      <4>3. "webhook_events" \in Table BY DEF Table
      <4>4. req[d] \in rows'["webhook_events"] <=> req[d] \in rows["webhook_events"]
        BY <1>1, <4>1, <4>3
      <4>5. QED BY <3>1, <4>2, <4>4 DEF IInv, NotThere
    <3>4. QED BY <3>2, <3>3
  <2>3. QED BY <2>1, <2>2
<1>12. QED BY <1>5, <1>6, <1>7, <1>8, <1>9, <1>10, <1>11 DEF IInv

-----------------------------------------------------------------------------
(* What a reset does to its attempt, with the room it was let in with.     *)
LEMMA AttemptRoom ==
  ASSUME IInv, NEW r \in Resetter, NEW a \in 0 .. MaxAttempts, attempt[r] > 0,
         attempt' = [attempt EXCEPT ![r] = a], UNCHANGED req
  PROVE  /\ Rotating' = Rotating
         /\ a > 0 => Resetting' = Resetting
         /\ a = 0 => /\ Cardinality(Resetting') \in Nat
                     /\ Cardinality(Resetting') = Cardinality(Resetting) - 1
<1>1. Rotating' = Rotating BY DEF Rotating
<1>2. ASSUME a > 0 PROVE Resetting' = Resetting
  BY <1>2 DEF IInv, TypeOK, Resetting
<1>3. ASSUME a = 0
      PROVE  /\ Cardinality(Resetting') \in Nat
             /\ Cardinality(Resetting') = Cardinality(Resetting) - 1
  <2>1. Resetting' = Resetting \ {r} /\ r \in Resetting
    BY <1>3 DEF IInv, TypeOK, Resetting
  <2>2. QED BY <2>1, Counted, FS_RemoveElement DEF Resetting
<1>4. QED BY <1>1, <1>2, <1>3

(* Nothing but the two variables of a reset changes.                       *)
LEMMA OnlyResets ==
  ASSUME IInv, UNCHANGED <<database, clients>>
  PROVE  /\ OneSeed' /\ RequestsApart' /\ RowsAgree'
         /\ \A c \in Client : Progress(c)' /\ NotThere(c)'
BY DEF IInv, OneSeed, RequestsApart, RowsAgree, Progress, NotThere, database,
       clients

LEMMA StartKeeps ==
  ASSUME IInv, NEW r \in Resetter, StartReset(r)
  PROVE  IInv'
<1> USE DEF StartReset, database, clients, readers
<1>1. TypeOK' BY BoundAssumption DEF IInv, TypeOK
<1>2. ResetsExclude'
  BY BoundAssumption DEF IInv, TypeOK, ResetsExclude, ResetsAlone, Truncated
<1>3. Room'
  <2>1. Rotating' = Rotating BY DEF Rotating
  <2>2. Resetting' = Resetting \cup {r} /\ r \notin Resetting
    BY DEF IInv, TypeOK, Resetting
  <2>3. Cardinality(Resetting') = Cardinality(Resetting) + 1
    BY <2>2, Counted, FS_AddElement DEF Resetting
  <2>4. QED BY <2>1, <2>3, InRange DEF Room, SeedToSpare, Rotating, Resetting
<1>4. QED BY <1>1, <1>2, <1>3, OnlyResets DEF IInv

LEMMA LockKeeps ==
  ASSUME IInv, NEW r \in Resetter, TakeAdvisory(r) \/ TakeTable(r)
  PROVE  IInv'
<1>1. UNCHANGED <<database, clients, attempt, readers>>
  BY DEF TakeAdvisory, TakeTable
<1>2. Len(TruncateOrder) = 6 BY DEF TruncateOrder
<1>3. locked' = [locked EXCEPT ![r] = locked[r] + 1] /\ locked[r] \in 0 .. 6
      /\ attempt[r] > 0 /\ \A s \in Resetter \ {r} : locked[s] = 0
  BY <1>2 DEF IInv, TypeOK, ResetsExclude, ResetsAlone, TakeAdvisory, TakeTable,
              Done
<1>4. TypeOK'
  <2>1. locked' \in [Resetter -> 0 .. 7] BY <1>3, <1>2 DEF IInv, TypeOK
  <2>2. QED BY <1>1, <1>2, <2>1 DEF IInv, TypeOK, database, clients, readers
<1>5. Room' BY <1>1 DEF IInv, Room, Rotating, Resetting, database, clients
<1>6. \A c \in Client : touched[c] \cap Truncated(r)' = {}
  <2>1. locked'[r] = locked[r] + 1 BY <1>3 DEF IInv, TypeOK
  <2>2. CASE locked[r] = 0 BY <2>1, <2>2 DEF Truncated
  <2>3. CASE locked[r] > 0
    <3>1. Exclusive(r) BY <2>3 DEF TakeAdvisory, TakeTable
    <3>2. Truncated(r)' = Truncated(r) \cup {NextTable(r)}
      <4>1. 1 .. locked[r] = (1 .. (locked[r] - 1)) \cup {locked[r]}
        BY <1>3, <2>3
      <4>2. QED BY <1>3, <2>1, <4>1 DEF Truncated, NextTable
    <3>3. QED BY <2>3, <3>1, <3>2
              DEF IInv, ResetsExclude, ResetsAlone, Exclusive
  <2>4. QED BY <1>3, <2>2, <2>3
<1>7. ResetsExclude'
  BY <1>1, <1>3, <1>6 DEF IInv, TypeOK, ResetsExclude, ResetsAlone, clients
<1>8. QED BY <1>1, <1>4, <1>5, <1>7, OnlyResets DEF IInv

(* A reset that starts over or gives up holds nothing, and has room while  *)
(* it has attempts left.                                                   *)
LEMMA ReleaseKeeps ==
  ASSUME IInv, NEW r \in Resetter, attempt[r] > 0,
         RetryOrGiveUp(r) \/ EndReset(r), UNCHANGED <<database, clients, readers>>
  PROVE  IInv'
<1>1. PICK a \in 0 .. MaxAttempts : attempt' = [attempt EXCEPT ![r] = a]
  <2>1. attempt[r] \in 0 .. MaxAttempts /\ MaxAttempts \in Nat
    BY BoundAssumption DEF IInv, TypeOK
  <2>2. (IF attempt[r] < MaxAttempts THEN attempt[r] + 1 ELSE 0)
           \in 0 .. MaxAttempts /\ 0 \in 0 .. MaxAttempts
    BY <2>1
  <2>3. QED BY <2>2 DEF RetryOrGiveUp, EndReset
<1>2. locked' = [locked EXCEPT ![r] = 0] BY DEF RetryOrGiveUp, EndReset
<1>3. TypeOK'
  BY <1>1, <1>2 DEF IInv, TypeOK, database, clients, readers, TruncateOrder
<1>4. Room'
  <2>1. generated' = generated /\ req' = req BY DEF database, clients
  <2>2. CASE a > 0 BY <1>1, <2>1, <2>2, AttemptRoom DEF IInv, Room
  <2>3. CASE a = 0
    <3>1. /\ Cardinality(Resetting') \in Nat
          /\ Cardinality(Resetting') = Cardinality(Resetting) - 1
          /\ Rotating' = Rotating
      BY <1>1, <2>1, <2>3, AttemptRoom
    <3>2. QED BY <2>1, <3>1, InRange DEF IInv, Room
  <2>4. QED BY <2>2, <2>3
<1>5. ResetsExclude'
  <2>1. locked'[r] = 0 /\ \A s \in Resetter \ {r} :
          locked'[s] = locked[s] /\ attempt'[s] = attempt[s]
    BY <1>1, <1>2 DEF IInv, TypeOK
  <2>2. \A s \in Resetter \ {r} : Truncated(s)' = Truncated(s)
    BY <2>1 DEF Truncated
  <2>3. QED BY <2>1, <2>2 DEF IInv, ResetsExclude, ResetsAlone, clients
<1>6. QED BY <1>3, <1>4, <1>5, OnlyResets DEF IInv

(* A reset that has all its tables meets no open transaction: whoever is   *)
(* being served has not run a statement.                                   *)
LEMMA NobodyInside ==
  ASSUME IInv, NEW r \in Resetter, Done(r), NEW c \in Client
  PROVE  /\ seen[c] = 0 /\ step[c] \in 0 .. 1 /\ touched[c] = {}
         /\ attempt[r] > 0 /\ locked[r] > 0
<1>1. locked[r] > 0 /\ attempt[r] > 0
  BY DEF IInv, ResetsExclude, Done, TruncateOrder
<1>2. touched[c] = {}
  BY <1>1, AllTables DEF IInv, ResetsExclude, ResetsAlone, TypeOK
<1>3. CASE req[c] = NoRequest BY <1>1, <1>2, <1>3 DEF IInv, Progress
<1>4. CASE req[c] # NoRequest
  <2>1. req[c] \in Request BY <1>4 DEF IInv, TypeOK
  <2>2. step[c] - 1 \in Nat BY <2>1, InRange
  <2>3. step[c] - 1 = 0
    BY <1>2, <1>4, <2>2, UntouchedIsNew DEF IInv, Progress
  <2>4. step[c] \in 0 .. 11 BY DEF IInv, TypeOK
  <2>5. QED BY <1>1, <1>2, <1>4, <2>3, <2>4, NothingYet DEF IInv, Progress
<1>5. QED BY <1>3, <1>4

LEMMA CommitResetKeeps ==
  ASSUME IInv, NEW r \in Resetter, CommitReset(r)
  PROVE  IInv'
<1>1. /\ rows' = [t \in Table |-> {}] /\ seedOf' = [b \in Bet |-> 0]
      /\ generated' = generated + 1 /\ active' = {generated + 1}
      /\ attempt' = [attempt EXCEPT ![r] = 0] /\ locked' = [locked EXCEPT ![r] = 0]
      /\ UNCHANGED <<req, step, touched, written, seen, page, unposted>>
  BY AllTables DEF CommitReset, EndReset, GenerateSeed, clients, readers
<1>2. \A c \in Client : seen[c] = 0 /\ step[c] \in 0 .. 1 /\ touched[c] = {}
  BY NobodyInside DEF CommitReset
<1>3. locked[r] > 0 /\ attempt[r] > 0
  BY DEF IInv, ResetsExclude, CommitReset, Done, TruncateOrder
<1>4. Room' /\ generated + 1 <= MaxSeed
  <2>1. 0 \in 0 .. MaxAttempts BY BoundAssumption
  <2>2. /\ Cardinality(Resetting') \in Nat
        /\ Cardinality(Resetting') = Cardinality(Resetting) - 1
        /\ Rotating' = Rotating
    BY <1>1, <1>3, <2>1, AttemptRoom
  <2>3. QED BY <1>1, <2>2, InRange DEF IInv, Room
<1>5. generated + 1 \in 1 .. MaxSeed /\ generated \in Nat
  BY <1>4, InRange
<1>6. TypeOK'
  <2>1. rows' \in [Table -> SUBSET Request] BY <1>1
  <2>2. 0 \in 0 .. MaxSeed /\ 0 \in 0 .. MaxAttempts BY BoundAssumption
  <2>3. seedOf' \in [Bet -> 0 .. MaxSeed] BY <1>1, <2>2
  <2>4. active' \subseteq 1 .. generated' BY <1>1, <1>5
  <2>5. QED BY <1>1, <1>5, <2>1, <2>2, <2>3, <2>4
            DEF IInv, TypeOK, TruncateOrder
<1>7. OneSeed' /\ RequestsApart' BY <1>1 DEF IInv, OneSeed, RequestsApart
<1>8. ResetsExclude'
  BY <1>1 DEF IInv, TypeOK, ResetsExclude, ResetsAlone, Truncated
<1>9. RowsAgree' BY <1>1 DEF RowsAgree, BetTables, DepositTables, Table
<1>10. \A c \in Client : Progress(c)' BY <1>1, <1>2 DEF IInv, Progress
<1>11. \A c \in Client : NotThere(c)' BY <1>1, <1>2 DEF NotThere
<1>12. QED BY <1>4, <1>6, <1>7, <1>8, <1>9, <1>10, <1>11 DEF IInv

-----------------------------------------------------------------------------
LEMMA StepKeeps ==
  ASSUME IInv, [Next]_vars
  PROVE  IInv'
<1>1. ASSUME NEW c \in Client, NEW q \in Request, Send(c, q) PROVE IInv'
  BY <1>1, SendKeeps
<1>2. ASSUME NEW c \in Client, Replay(c) \/ RollBack(c) \/ RequestIsVictim(c)
      PROVE  IInv'
  BY <1>2, EndKeeps DEF Replay, RollBack, RequestIsVictim
<1>3. ASSUME NEW c \in Client, RunStatement(c) PROVE IInv'
  BY <1>3, StatementKeeps
<1>4. ASSUME NEW c \in Client, Commit(c) PROVE IInv'
  BY <1>4, CommitKeeps
<1>5. ASSUME NEW r \in Resetter, StartReset(r) PROVE IInv'
  BY <1>5, StartKeeps
<1>6. ASSUME NEW r \in Resetter, TakeAdvisory(r) \/ TakeTable(r) PROVE IInv'
  BY <1>6, LockKeeps
<1>7. ASSUME NEW r \in Resetter, CommitReset(r) PROVE IInv'
  BY <1>7, CommitResetKeeps
<1>8. ASSUME NEW r \in Resetter,
             LockTimeout(r) \/ ResetIsVictim(r) \/ FailReset(r)
      PROVE  IInv'
  <2>1. attempt[r] > 0
    BY <1>8 DEF IInv, ResetsExclude, LockTimeout, Waiting, ResetIsVictim,
                Deadlocked, FailReset, TruncateOrder
  <2>2. RetryOrGiveUp(r) \/ EndReset(r)
    BY <1>8 DEF LockTimeout, ResetIsVictim, FailReset
  <2>3. UNCHANGED <<database, clients, readers>>
    BY <1>8 DEF LockTimeout, ResetIsVictim, FailReset
  <2>4. QED BY <2>1, <2>2, <2>3, ReleaseKeeps
<1>9. ASSUME NEW v \in Reader, ListEntries(v) \/ ListPostings(v) PROVE IInv'
  <2>1. UNCHANGED <<database, clients, resets>>
    BY <1>9 DEF ListEntries, ListPostings
  <2>2. page' \in [Reader -> SUBSET Request] /\ unposted' \in [Reader -> SUBSET Request]
    <3>1. "journal_entries" \in Table BY DEF Table
    <3>2. QED BY <1>9, <3>1 DEF IInv, TypeOK, ListEntries, ListPostings
  <2>3. TypeOK' BY <2>1, <2>2 DEF IInv, TypeOK, database, clients, resets
  <2>4. Room' /\ ResetsExclude'
    BY <2>1 DEF IInv, Room, Rotating, Resetting, ResetsExclude, ResetsAlone,
                Truncated, database, clients, resets
  <2>5. QED BY <2>1, <2>3, <2>4, OnlyResets DEF IInv
<1>10. ASSUME UNCHANGED vars PROVE IInv'
  BY <1>10 DEF vars, database, clients, resets, readers, IInv, TypeOK, OneSeed,
       Room, Rotating, Resetting, ResetsExclude, ResetsAlone, Truncated,
       RequestsApart, RowsAgree, Progress, NotThere
<1>11. QED
  BY <1>1, <1>2, <1>3, <1>4, <1>5, <1>6, <1>7, <1>8, <1>9, <1>10
     DEF Next, Proceed, ProceedReset

LEMMA IInvAlways == Spec => []IInv
<1>1. IInv /\ [Next]_vars => IInv' BY StepKeeps
<1>2. QED BY InitHolds, <1>1, PTL DEF Spec

-----------------------------------------------------------------------------
(* A bet has its bet row, its round, its journal entry and its postings,   *)
(* or none of them, and a payment event likewise, in every order in which  *)
(* requests and resets take, wait for and lose their locks                 *)
(* (reset.ts:78-83).                                                       *)
THEOREM RowsComeAndGoTogether == Spec => []WholeOrNothing
<1>1. IInv => WholeOrNothing
  BY DEF IInv, WholeOrNothing, RowsAgree, BetTables, DepositTables
<1>2. QED BY <1>1, IInvAlways, PTL

(* Two resets are never past the advisory lock together, and what one has  *)
(* truncated no open transaction has touched (reset.ts:92-99).             *)
THEOREM ResetsAreAlone == Spec => []ResetsAlone
<1>1. IInv => ResetsAlone BY DEF IInv, ResetsExclude
<1>2. QED BY <1>1, IInvAlways, PTL

-----------------------------------------------------------------------------
(* A commit is a step of the environment: the bet, the payment event or    *)
(* the rotation it is.                                                     *)
LEMMA CommitIsAStep ==
  ASSUME IInv, NEW c \in Client, Commit(c)
  PROVE  Env!EnvironmentNext
<1> DEFINE q == req[c]
<1>1. generated \in 1 .. MaxSeed /\ active = {generated}
  BY InRange DEF IInv, OneSeed
<1>2. "webhook_events" \in Table /\ "webhook_events" \notin BetTables
      /\ "webhook_events" \in DepositTables
  BY DEF Table, BetTables, DepositTables
<1>3. CASE q \in Bet
  <2>1. q \notin Rotation BY <1>3, RequestAssumption
  <2>2. written[c] = BetTables \cup {"server_seeds"} /\ seen[c] = generated
        /\ seedOf[q] = 0
    BY <1>3, CommitRows
  <2>3. rows'["webhook_events"] = rows["webhook_events"]
    BY <1>2, <2>2, CommitRows
  <2>4. UNCHANGED active /\ seedOf' = [seedOf EXCEPT ![q] = generated]
    BY <1>3, <2>1, <2>2 DEF Commit
  <2>5. Env!Settle(q) BY <1>1, <2>2, <2>3, <2>4 DEF Env!Settle
  <2>6. QED BY <1>3, <2>5 DEF Env!EnvironmentNext
<1>4. CASE q \in Deposit
  <2>1. q \notin Rotation /\ q \notin Bet BY <1>4, RequestAssumption
  <2>2. written[c] = DepositTables /\ q \notin rows["webhook_events"]
    BY <1>4, CommitRows
  <2>3. rows'["webhook_events"] = rows["webhook_events"] \cup {q}
    BY <1>2, <2>2, CommitRows
  <2>4. UNCHANGED <<active, seedOf>> BY <2>1 DEF Commit
  <2>5. Env!Credit(q) BY <2>2, <2>3, <2>4 DEF Env!Credit
  <2>6. QED BY <1>4, <2>5 DEF Env!EnvironmentNext
<1>5. CASE q \in Rotation
  <2>1. q \notin Bet BY <1>5, RequestAssumption
  <2>2. written[c] = {"server_seeds"} /\ seen[c] = generated
    BY <1>5, CommitRows
  <2>3. rows'["webhook_events"] = rows["webhook_events"]
    BY <1>2, <2>2, CommitRows
  <2>4. seedOf' = seedOf /\ generated' = generated + 1
        /\ active' = {generated + 1}
    BY <1>1, <1>5, <2>1, <2>2 DEF Commit, GenerateSeed
  <2>5. generated + 1 \in 1 .. MaxSeed
    BY CommitKeeps, <2>4 DEF IInv, TypeOK
  <2>6. Env!Succeed
    BY <1>1, <2>4, <2>5 DEF Env!Succeed, Env!Generated
  <2>7. QED BY <2>3, <2>4, <2>6 DEF Env!EnvironmentNext, Env!Rotate
<1>6. q \in Request BY CommitRows
<1>7. QED BY <1>3, <1>4, <1>5, <1>6 DEF Request

LEMMA CommitResetIsAStep ==
  ASSUME IInv, NEW r \in Resetter, CommitReset(r)
  PROVE  Env!EnvironmentNext
<1>1. /\ rows' = [t \in Table |-> {}] /\ seedOf' = [b \in Bet |-> 0]
      /\ generated' = generated + 1 /\ active' = {generated + 1}
  BY AllTables DEF CommitReset, GenerateSeed
<1>2. generated \in 1 .. MaxSeed /\ active = {generated}
  BY InRange DEF IInv, OneSeed
<1>3. generated + 1 \in 1 .. MaxSeed
  BY <1>1, CommitResetKeeps DEF IInv, TypeOK
<1>4. Env!Succeed BY <1>1, <1>2, <1>3 DEF Env!Succeed, Env!Generated
<1>5. rows'["webhook_events"] = {} BY <1>1 DEF Table
<1>6. QED BY <1>1, <1>4, <1>5 DEF Env!EnvironmentNext, Env!Refresh

(* The requests and resets implement the environment a reset promises:     *)
(* every commit is one of its steps, every other step leaves it alone      *)
(* (reset.ts:67-83).                                                       *)
THEOREM EnvironmentAlwaysKept == Spec => EnvironmentKept
<1>1. Init => Env!Fresh BY DEF Init, Env!Fresh, Table
<1>2. IInv /\ [Next]_vars => [Env!EnvironmentNext]_Env!environment
  <2>1. ASSUME IInv, NEW c \in Client, Commit(c)
        PROVE  [Env!EnvironmentNext]_Env!environment
    BY <2>1, CommitIsAStep
  <2>2. ASSUME IInv, NEW r \in Resetter, CommitReset(r)
        PROVE  [Env!EnvironmentNext]_Env!environment
    BY <2>2, CommitResetIsAStep
  <2>3. ASSUME UNCHANGED database PROVE UNCHANGED Env!environment
    BY <2>3 DEF database, Env!environment
  <2>4. ASSUME NEW c \in Client,
               \/ \E q \in Request : Send(c, q)
               \/ Replay(c) \/ RunStatement(c) \/ RollBack(c)
               \/ RequestIsVictim(c)
        PROVE  UNCHANGED database
    BY <2>4 DEF Send, Replay, RunStatement, RollBack, RequestIsVictim, database
  <2>5. ASSUME NEW r \in Resetter,
               \/ StartReset(r) \/ TakeAdvisory(r) \/ TakeTable(r)
               \/ LockTimeout(r) \/ ResetIsVictim(r) \/ FailReset(r)
        PROVE  UNCHANGED database
    BY <2>5 DEF StartReset, TakeAdvisory, TakeTable, LockTimeout,
                ResetIsVictim, FailReset
  <2>6. ASSUME \/ \E v \in Reader : ListEntries(v) \/ ListPostings(v)
               \/ UNCHANGED vars
        PROVE  UNCHANGED database
    BY <2>6 DEF ListEntries, ListPostings, vars
  <2>7. QED
    BY <2>1, <2>2, <2>3, <2>4, <2>5, <2>6 DEF Next, Proceed, ProceedReset
<1>3. QED
  BY <1>1, <1>2, IInvAlways, PTL DEF Spec, EnvironmentKept, Env!EnvironmentSpec
=============================================================================
