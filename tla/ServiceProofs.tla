--------------------------- MODULE ServiceProofs ----------------------------
(***************************************************************************)
(* What holds of the parts of Service for any number of sessions, callers, *)
(* readers, instances, migration files and deliveries.                     *)
(***************************************************************************)
EXTENDS Service, FiniteSetTheorems, SequenceTheorems, TLAPS

-----------------------------------------------------------------------------
(* A step of Service is a step of each part, or leaves that part alone.    *)
LEMMA PartsStep ==
  ASSUME [Next]_vars
  PROVE  /\ UNCHANGED on
         /\ on # "by hand" => [Rounds!Next]_rounds
         /\ [Boot!Next]_boot
         /\ [Storm!Next]_storm
BY DEF Next, vars

LEMMA PartsInit ==
  ASSUME Init
  PROVE  /\ on # "by hand" => Rounds!Init
         /\ Boot!Init
         /\ Storm!Init
BY DEF Init

-----------------------------------------------------------------------------
(* Rounds.  The history of a round that stands at st.                      *)
History(st) == SubSeq(Rounds!Step, 1, Rounds!Rank(st) - 1)

RoundStatus == {"none", "open", "locked", "resolved", "settled"}

RoundStep == {"bet_lock", "round_resolved", "bet_settle"}

RoundsTyped ==
  /\ status \in [Round -> RoundStatus]
  /\ steps \in [Round -> Seq(RoundStep)]
  /\ roundTx \in [Caller -> [round : Round \cup {NoRound},
                             status : RoundStatus, steps : Seq(RoundStep)]]
  /\ query \in [Reader -> 0 .. 2]
  /\ view \in [Reader -> [round : Round \cup {NoRound},
                          status : RoundStatus, history : Seq(RoundStep)]]

(* Committed steps match the status; so do they together with those of an  *)
(* open transaction, which has the row to itself.                          *)
RoundRecorded(r) == steps[r] = History(status[r])

TxRecorded(c) ==
  LET r == roundTx[c].round
  IN  IF r = NoRound
      THEN roundTx[c] = Rounds!Idle
      ELSE /\ steps[r] \o roundTx[c].steps = History(roundTx[c].status)
           /\ Rounds!Rank(status[r]) <= Rounds!Rank(roundTx[c].status)
           /\ \A d \in Caller \ {c} : roundTx[d].round # r

(* What a reader saw first is not ahead of what it will see next.          *)
ViewBehind(v) ==
  /\ query[v] = 0 => view[v] = Rounds!NoView
  /\ query[v] = 1 =>
       /\ view[v].round \in Round
       /\ Rounds!Rank(view[v].status) <= Rounds!Rank(status[view[v].round])
  /\ query[v] = 2 => Rounds!Rank(view[v].status) - 1 <= Len(view[v].history)

RoundsInv ==
  /\ RoundsTyped
  /\ \A r \in Round : RoundRecorded(r)
  /\ \A c \in Caller : TxRecorded(c)
  /\ \A v \in Reader : ViewBehind(v)

LEMMA StatusRank ==
  /\ Rounds!Rank("none") = 0 /\ Rounds!Rank("open") = 1
  /\ Rounds!Rank("locked") = 2 /\ Rounds!Rank("resolved") = 3
  /\ Rounds!Rank("settled") = 4
  /\ \A i \in 1 .. 4 : /\ Rounds!Status[i] \in RoundStatus \ {"none"}
                       /\ Rounds!Rank(Rounds!Status[i]) = i
<1>1. \A i \in 1 .. 4 : i = 1 \/ i = 2 \/ i = 3 \/ i = 4
  OBVIOUS
<1>2. /\ Rounds!Status[1] = "open" /\ Rounds!Status[2] = "locked"
      /\ Rounds!Status[3] = "resolved" /\ Rounds!Status[4] = "settled"
  BY DEF Rounds!Status
<1>3. ASSUME NEW i \in 1 .. 4
      PROVE  /\ Rounds!Status[i] \in RoundStatus \ {"none"}
             /\ Rounds!Rank(Rounds!Status[i]) = i
  <2> DEFINE st == Rounds!Status[i]
  <2>1. st \in RoundStatus \ {"none"} /\ st \notin Rounds!Absent
    BY <1>1, <1>2 DEF RoundStatus, Rounds!Absent
  <2>2. \A j \in 1 .. 4 : Rounds!Status[j] = st => j = i
    BY <1>1, <1>2
  <2>3. Rounds!Rank(st) = CHOOSE j \in 1 .. 4 : Rounds!Status[j] = st
    BY <2>1 DEF Rounds!Rank
  <2> QED
    BY <2>1, <2>2, <2>3
<1>4. Rounds!Rank("none") = 0
  BY DEF Rounds!Rank, Rounds!Absent
<1> QED
  BY <1>2, <1>3, <1>4

LEMMA StepsAreSeq == Rounds!Step \in Seq(RoundStep) /\ Len(Rounds!Step) = 3
<1>1. Rounds!Step = <<"bet_lock", "round_resolved", "bet_settle">>
  BY DEF Rounds!Step
<1> QED
  BY <1>1 DEF RoundStep

(* One more step is one more entry.                                        *)
LEMMA NextStep ==
  ASSUME NEW i \in 1 .. 3
  PROVE  /\ History(Rounds!Status[i]) \in Seq(RoundStep)
         /\ Rounds!Step[i] \in RoundStep
         /\ Append(History(Rounds!Status[i]), Rounds!Step[i])
              = History(Rounds!Status[i + 1])
<1> DEFINE taken == SubSeq(Rounds!Step, 1, i - 1)
<1>1. /\ Rounds!Rank(Rounds!Status[i]) = i
      /\ Rounds!Rank(Rounds!Status[i + 1]) = i + 1
  BY StatusRank
<1>2. Rounds!Step[i] \in RoundStep
  BY StepsAreSeq, ElementOfSeq
<1>3. taken \in Seq(RoundStep)
  <2>1. \A j \in 1 .. i - 1 : Rounds!Step[j] \in RoundStep
    BY StepsAreSeq, ElementOfSeq
  <2>2. 1 \in Int /\ i - 1 \in Int
    OBVIOUS
  <2> QED
    BY <2>1, <2>2, SubSeqProperties
<1>4. SubSeq(Rounds!Step, 1, i) = taken \o <<Rounds!Step[i]>>
  BY StepsAreSeq, SubSeqRecursiveSecond
<1>5. Append(taken, Rounds!Step[i]) = SubSeq(Rounds!Step, 1, i)
  BY <1>2, <1>3, <1>4, AppendIsConcat
<1> QED
  BY <1>1, <1>2, <1>3, <1>5 DEF History

LEMMA HistoryLength ==
  ASSUME NEW st \in RoundStatus
  PROVE  /\ Rounds!Rank(st) \in 0 .. 4
         /\ History(st) \in Seq(RoundStep)
         /\ Len(History(st)) >= Rounds!Rank(st) - 1
         /\ st = "none" => History(st) = <<>>
<1> DEFINE k == Rounds!Rank(st)
<1>1. k \in 0 .. 4 /\ (st = "none" => k = 0)
  BY StatusRank DEF RoundStatus
<1>2. \A j \in 1 .. k - 1 : Rounds!Step[j] \in RoundStep
  <2>1. \A j \in 1 .. k - 1 : j \in 1 .. 3
    <3> HIDE DEF k
    <3> QED
      BY <1>1
  <2> QED
    BY <2>1, StepsAreSeq, ElementOfSeq
<1>3. /\ SubSeq(Rounds!Step, 1, k - 1) \in Seq(RoundStep)
      /\ Len(SubSeq(Rounds!Step, 1, k - 1)) >= k - 1
  <2> HIDE DEF k
  <2> QED
    BY <1>1, <1>2, SubSeqProperties
<1>4. k = 0 => SubSeq(Rounds!Step, 1, k - 1) = <<>>
  BY SubSeqEmpty
<1> QED
  BY <1>1, <1>3, <1>4 DEF History

LEMMA RoundsInit ==
  ASSUME Rounds!Init
  PROVE  RoundsInv
<1>1. RoundsTyped
  BY EmptySeq DEF Rounds!Init, RoundsTyped, RoundStatus, Rounds!Idle,
     Rounds!NoView
<1>2. \A r \in Round : RoundRecorded(r)
  BY HistoryLength DEF Rounds!Init, RoundRecorded, RoundStatus
<1>3. \A c \in Caller : TxRecorded(c)
  BY DEF Rounds!Init, TxRecorded, Rounds!Idle
<1>4. \A v \in Reader : ViewBehind(v)
  BY DEF Rounds!Init, ViewBehind
<1> QED
  BY <1>1, <1>2, <1>3, <1>4 DEF RoundsInv

(* What a caller's open transaction may become.                            *)
GoodTx(c, n) ==
  /\ n \in [round : Round \cup {NoRound}, status : RoundStatus,
            steps : Seq(RoundStep)]
  /\ IF n.round = NoRound
     THEN n = Rounds!Idle
     ELSE /\ steps[n.round] \o n.steps = History(n.status)
          /\ Rounds!Rank(status[n.round]) <= Rounds!Rank(n.status)
          /\ \A d \in Caller \ {c} : roundTx[d].round # n.round

LEMMA TxStep ==
  ASSUME RoundsInv, NEW c \in Caller, NEW n, GoodTx(c, n),
         roundTx' = [roundTx EXCEPT ![c] = n],
         UNCHANGED <<status, steps, query, view>>
  PROVE  RoundsInv'
<1>1. RoundsTyped'
  BY DEF RoundsInv, RoundsTyped, GoodTx
<1>2. \A r \in Round : RoundRecorded(r)'
  BY DEF RoundsInv, RoundRecorded
<1>3. roundTx'[c] = n /\ \A d \in Caller \ {c} : roundTx'[d] = roundTx[d]
  BY DEF RoundsInv, RoundsTyped
<1>4. ASSUME NEW d \in Caller
      PROVE  TxRecorded(d)'
  <2>1. TxRecorded(d)
    BY DEF RoundsInv
  <2>2. CASE d = c
    BY <1>3, <2>2 DEF TxRecorded, GoodTx
  <2>3. CASE d # c
    BY <1>3, <2>1, <2>3 DEF TxRecorded, GoodTx
  <2> QED
    BY <2>2, <2>3
<1>5. \A v \in Reader : ViewBehind(v)'
  BY DEF RoundsInv, ViewBehind
<1> QED
  BY <1>1, <1>2, <1>4, <1>5 DEF RoundsInv

LEMMA IdleIsGood ==
  ASSUME NEW c \in Caller
  PROVE  GoodTx(c, Rounds!Idle)
BY EmptySeq DEF GoodTx, Rounds!Idle, RoundStatus

LEMMA NewTx ==
  ASSUME NEW c \in Caller, NEW r \in Round, NEW st \in RoundStatus,
         NEW es \in Seq(RoundStep), r # NoRound,
         steps[r] \o es = History(st),
         Rounds!Rank(status[r]) <= Rounds!Rank(st),
         \A d \in Caller \ {c} : roundTx[d].round # r
  PROVE  GoodTx(c, [round |-> r, status |-> st, steps |-> es])
BY DEF GoodTx

LEMMA ConcatAppend ==
  ASSUME NEW s \in Seq(RoundStep), NEW t \in Seq(RoundStep), NEW x \in RoundStep
  PROVE  s \o Append(t, x) = Append(s \o t, x)
<1>1. <<x>> \in Seq(RoundStep) /\ s \o t \in Seq(RoundStep)
  BY ConcatProperties
<1>2. Append(t, x) = t \o <<x>> /\ Append(s \o t, x) = (s \o t) \o <<x>>
  BY <1>1, AppendIsConcat
<1> QED
  BY <1>1, <1>2, ConcatAssociative

LEMMA CreateRoundStep ==
  ASSUME RoundsInv, NEW c \in Caller, NEW r \in Round, Rounds!CreateRound(c, r)
  PROVE  RoundsInv'
<1> DEFINE n == [round |-> r, status |-> "open", steps |-> <<>>]
<1>1. /\ status[r] = "none" /\ \A d \in Caller : roundTx[d].round # r
      /\ roundTx' = [roundTx EXCEPT ![c] = n]
      /\ UNCHANGED <<status, steps, query, view>>
  BY DEF Rounds!CreateRound, Rounds!read
<1>2. r # NoRound
  BY Instances DEF Rounds!NoRoundAssumption
<1>3. steps[r] = <<>> /\ History("open") = <<>>
  <2>1. History("none") = <<>> /\ Rounds!Rank("open") = 1
    BY HistoryLength, StatusRank DEF RoundStatus
  <2>2. History("open") = <<>>
    BY <2>1, SubSeqEmpty DEF History
  <2> QED
    BY <1>1, <2>1, <2>2 DEF RoundsInv, RoundRecorded
<1>4. GoodTx(c, n)
  BY <1>1, <1>2, <1>3, EmptySeq, ConcatEmptySeq, StatusRank DEF GoodTx,
     RoundStatus
<1> QED
  BY <1>1, <1>4, TxStep

LEMMA RollBackStep ==
  ASSUME RoundsInv, NEW c \in Caller, Rounds!RollBack(c)
  PROVE  RoundsInv'
BY IdleIsGood, TxStep DEF Rounds!RollBack, Rounds!read

(* The statement finds a status that matches what the transaction and the  *)
(* journal hold together, and no other transaction has the row.            *)
LEMMA TakeStepStep ==
  ASSUME RoundsInv, NEW c \in Caller, NEW r \in Round, Rounds!TakeStep(c, r)
  PROVE  RoundsInv'
<1> DEFINE t == roundTx[c]
           cur == Rounds!Current(c, r)
<1>0. SUFFICES ASSUME ~Rounds!RollBack(c)
               PROVE  RoundsInv'
  BY RollBackStep
<1>1. PICK i \in 1 .. 3 :
        /\ cur = Rounds!Status[i]
        /\ roundTx' = [roundTx EXCEPT ![c] =
                         [round |-> r, status |-> Rounds!Status[i + 1],
                          steps |-> Append(t.steps, Rounds!Step[i])]]
        /\ UNCHANGED <<status, steps, query, view>>
  BY <1>0 DEF Rounds!TakeStep, Rounds!AssertFrom, Rounds!read
<1> DEFINE n == [round |-> r, status |-> Rounds!Status[i + 1],
                 steps |-> Append(t.steps, Rounds!Step[i])]
<1>2. /\ t.round \in {NoRound, r} /\ Rounds!RowFree(c, r) /\ r # NoRound
      /\ RoundsTyped /\ TxRecorded(c) /\ RoundRecorded(r)
  BY Instances DEF Rounds!TakeStep, RoundsInv, Rounds!NoRoundAssumption
<1>3. t.steps \in Seq(RoundStep) /\ steps[r] \in Seq(RoundStep)
  BY <1>2 DEF RoundsTyped
<1>4. cur # "none" /\ Rounds!Rank(cur) = i
  BY <1>1, StatusRank
<1>5. /\ steps[r] \o t.steps = History(cur)
      /\ Rounds!Rank(status[r]) <= Rounds!Rank(cur)
      /\ \A d \in Caller \ {c} : roundTx[d].round # r
  <2>1. CASE t.round = r
    BY <1>2, <2>1 DEF TxRecorded, Rounds!Current
  <2>2. CASE t.round = NoRound
    <3>1. t = Rounds!Idle /\ cur = status[r]
      BY <1>2, <2>2 DEF TxRecorded, Rounds!Current
    <3>2. steps[r] \o t.steps = steps[r]
      BY <1>3, <3>1, ConcatEmptySeq DEF Rounds!Idle
    <3>3. cur \notin Rounds!Absent
      BY <1>1, StatusRank DEF Rounds!Absent, RoundStatus
    <3> QED
      BY <1>2, <1>4, <3>1, <3>2, <3>3 DEF RoundRecorded, Rounds!RowFree
  <2> QED
    BY <1>2, <2>1, <2>2
<1>6. steps[r] \o Append(t.steps, Rounds!Step[i])
        = History(Rounds!Status[i + 1])
  <2>1. Rounds!Step[i] \in RoundStep
    BY NextStep
  <2>2. steps[r] \o Append(t.steps, Rounds!Step[i])
          = Append(steps[r] \o t.steps, Rounds!Step[i])
    BY <1>3, <2>1, ConcatAppend
  <2> QED
    BY <1>1, <1>5, <2>2, NextStep
<1>7. Append(t.steps, Rounds!Step[i]) \in Seq(RoundStep)
  BY <1>3, NextStep, AppendProperties
<1>8. /\ Rounds!Status[i + 1] \in RoundStatus
      /\ Rounds!Rank(Rounds!Status[i + 1]) = i + 1
      /\ Rounds!Rank(status[r]) \in 0 .. 4
  BY <1>2, StatusRank, HistoryLength DEF RoundsTyped
<1>9. Rounds!Rank(status[r]) <= Rounds!Rank(Rounds!Status[i + 1])
  BY <1>4, <1>5, <1>8
<1>10. GoodTx(c, n)
  BY <1>2, <1>5, <1>6, <1>7, <1>8, <1>9, NewTx
<1> QED
  BY <1>1, <1>10, TxStep

(* The row and the journal take over what the transaction held; nobody     *)
(* else had the row, and a reader's status only falls further behind.      *)
LEMMA CommitStep ==
  ASSUME RoundsInv, NEW c \in Caller, Rounds!Commit(c)
  PROVE  RoundsInv'
<1> DEFINE t == roundTx[c]
           r == t.round
<1>1. /\ t # Rounds!Idle
      /\ status' = [status EXCEPT ![r] = t.status]
      /\ steps' = [steps EXCEPT ![r] = @ \o t.steps]
      /\ roundTx' = [roundTx EXCEPT ![c] = Rounds!Idle]
      /\ query' = query /\ view' = view
  BY DEF Rounds!Commit, Rounds!read
<1>2. RoundsTyped /\ TxRecorded(c)
  BY DEF RoundsInv
<1>3. r \in Round /\ r # NoRound
  BY <1>1, <1>2 DEF TxRecorded, RoundsTyped
<1>4. /\ steps[r] \o t.steps = History(t.status)
      /\ Rounds!Rank(status[r]) <= Rounds!Rank(t.status)
      /\ \A d \in Caller \ {c} : roundTx[d].round # r
  BY <1>2, <1>3 DEF TxRecorded
<1>5. t.status \in RoundStatus /\ steps[r] \o t.steps \in Seq(RoundStep)
  BY <1>2, <1>3, ConcatProperties DEF RoundsTyped
<1>6. /\ status'[r] = t.status /\ steps'[r] = History(t.status)
      /\ \A q \in Round \ {r} : status'[q] = status[q] /\ steps'[q] = steps[q]
  BY <1>1, <1>2, <1>3, <1>4 DEF RoundsTyped
<1>7. /\ roundTx'[c] = Rounds!Idle
      /\ \A d \in Caller \ {c} : roundTx'[d] = roundTx[d]
  BY <1>1, <1>2 DEF RoundsTyped
<1>8. ASSUME NEW q \in Round
      PROVE  Rounds!Rank(status[q]) <= Rounds!Rank(status'[q])
  <2>1. Rounds!Rank(status[q]) \in 0 .. 4
    BY <1>2, HistoryLength DEF RoundsTyped
  <2> QED
    BY <1>4, <1>6, <2>1
<1>9. RoundsTyped'
  <2>1. roundTx' \in [Caller -> [round : Round \cup {NoRound},
                                 status : RoundStatus, steps : Seq(RoundStep)]]
    BY <1>1, <1>2, EmptySeq DEF RoundsTyped, Rounds!Idle, RoundStatus
  <2>2. /\ status' \in [Round -> RoundStatus]
        /\ steps' \in [Round -> Seq(RoundStep)]
    BY <1>1, <1>2, <1>5 DEF RoundsTyped
  <2> QED
    BY <1>1, <1>2, <2>1, <2>2 DEF RoundsTyped
<1>10. ASSUME NEW q \in Round
       PROVE  RoundRecorded(q)'
  <2>1. RoundRecorded(q)
    BY DEF RoundsInv
  <2> QED
    BY <1>6, <2>1 DEF RoundRecorded, History
<1>11. ASSUME NEW d \in Caller
       PROVE  TxRecorded(d)'
  <2>1. CASE d = c
    <3>1. roundTx'[d] = Rounds!Idle /\ Rounds!Idle' = Rounds!Idle
          /\ Rounds!Idle.round = NoRound
      BY <1>7, <2>1 DEF Rounds!Idle
    <3> QED
      BY <3>1 DEF TxRecorded
  <2>2. CASE d # c
    <3> DEFINE q == roundTx[d].round
    <3>1. TxRecorded(d) /\ roundTx'[d] = roundTx[d] /\ q # r
      BY <1>4, <1>7, <2>2 DEF RoundsInv
    <3>2. CASE q = NoRound
      BY <3>1, <3>2 DEF TxRecorded
    <3>3. CASE q # NoRound
      <4>1. q \in Round /\ status'[q] = status[q] /\ steps'[q] = steps[q]
        BY <1>2, <1>6, <3>1, <3>3 DEF RoundsTyped
      <4>2. \A e \in Caller \ {d} : roundTx'[e].round # q
        BY <1>7, <3>1, <3>3 DEF TxRecorded, Rounds!Idle
      <4> QED
        BY <3>1, <3>3, <4>1, <4>2 DEF TxRecorded, History
    <3> QED
      BY <3>2, <3>3
  <2> QED
    BY <2>1, <2>2
<1>12. ASSUME NEW v \in Reader
       PROVE  ViewBehind(v)'
  <2>1. ViewBehind(v)
    BY DEF RoundsInv
  <2>2. query[v] # 1 => ViewBehind(v)'
    BY <1>1, <1>2, <2>1 DEF ViewBehind, RoundsTyped
  <2>3. ASSUME query[v] = 1
        PROVE  ViewBehind(v)'
    <3> DEFINE q == view[v].round
    <3>1. /\ q \in Round
          /\ Rounds!Rank(view[v].status) <= Rounds!Rank(status[q])
      BY <2>1, <2>3 DEF ViewBehind
    <3>2. /\ Rounds!Rank(view[v].status) \in 0 .. 4
          /\ Rounds!Rank(status[q]) \in 0 .. 4
          /\ Rounds!Rank(status'[q]) \in 0 .. 4
      BY <1>2, <1>9, <3>1, HistoryLength DEF RoundsTyped
    <3>3. Rounds!Rank(view[v].status) <= Rounds!Rank(status'[q])
      BY <1>8, <3>1, <3>2
    <3> QED
      BY <1>1, <2>3, <3>1, <3>3 DEF ViewBehind
  <2> QED
    BY <2>2, <2>3
<1> QED
  BY <1>9, <1>10, <1>11, <1>12 DEF RoundsInv

(* What was in the journal when it was read covers the status read before. *)
LEMMA QueryStep ==
  ASSUME RoundsInv, NEW v \in Reader, NEW r \in Round, Rounds!Query(v, r)
  PROVE  RoundsInv'
<1>1. /\ query[v] < 2 /\ view[v].round \in {NoRound, r}
      /\ view' = [view EXCEPT ![v] =
                    IF query[v] = 0
                    THEN [@ EXCEPT !.round = r, !.status = status[r]]
                    ELSE [@ EXCEPT !.round = r, !.history = steps[r]]]
      /\ query' = [query EXCEPT ![v] = query[v] + 1]
      /\ UNCHANGED <<status, steps, roundTx>>
  <2>1. RoundsTyped
    BY DEF RoundsInv
  <2>2. query[v] \in {0, 1} /\ Rounds!Queries = <<"rounds", "journal_entries">>
    BY <2>1 DEF RoundsTyped, Rounds!Query, Rounds!Queries
  <2>3. /\ query[v] = 0 => Rounds!Queries[query[v] + 1] = "rounds"
        /\ query[v] # 0 => Rounds!Queries[query[v] + 1] # "rounds"
    BY <2>2
  <2>4. /\ query[v] < 2 /\ view[v].round \in {NoRound, r}
        /\ view' = [view EXCEPT ![v] =
                      IF Rounds!Queries[query[v] + 1] = "rounds"
                      THEN [@ EXCEPT !.round = r, !.status = status[r]]
                      ELSE [@ EXCEPT !.round = r, !.history = steps[r]]]
        /\ query' = [query EXCEPT ![v] = query[v] + 1]
        /\ UNCHANGED <<status, steps, roundTx>>
    BY DEF Rounds!Query, Rounds!db
  <2>5. CASE query[v] = 0
    BY <2>3, <2>4, <2>5
  <2>6. CASE query[v] # 0
    BY <2>3, <2>4, <2>6
  <2> QED
    BY <2>5, <2>6
<1>2. RoundsTyped /\ RoundRecorded(r) /\ ViewBehind(v)
  BY DEF RoundsInv
<1>3. /\ status[r] \in RoundStatus /\ steps[r] \in Seq(RoundStep)
      /\ steps[r] = History(status[r])
      /\ query[v] \in 0 .. 1
      /\ view[v] \in [round : Round \cup {NoRound},
                      status : RoundStatus, history : Seq(RoundStep)]
  BY <1>1, <1>2 DEF RoundsTyped, RoundRecorded
<1>4. RoundsTyped'
  <2> DEFINE View == [round : Round \cup {NoRound}, status : RoundStatus,
                      history : Seq(RoundStep)]
             new == IF query[v] = 0
                    THEN [view[v] EXCEPT !.round = r, !.status = status[r]]
                    ELSE [view[v] EXCEPT !.round = r, !.history = steps[r]]
  <2>1. new \in View
    <3>1. CASE query[v] = 0
      BY <1>3, <3>1
    <3>2. CASE query[v] # 0
      BY <1>3, <3>2
    <3> QED
      BY <3>1, <3>2
  <2>2. view \in [Reader -> View] /\ view' = [view EXCEPT ![v] = new]
    BY <1>1, <1>2 DEF RoundsTyped
  <2>3. view' \in [Reader -> View]
    <3> HIDE DEF new, View
    <3> QED
      BY <2>1, <2>2
  <2>4. query' \in [Reader -> 0 .. 2]
    BY <1>1, <1>2, <1>3 DEF RoundsTyped
  <2> QED
    BY <1>1, <1>2, <2>3, <2>4 DEF RoundsTyped
<1>5. \A q \in Round : RoundRecorded(q)'
  BY <1>1 DEF RoundsInv, RoundRecorded
<1>6. \A c \in Caller : TxRecorded(c)'
  BY <1>1 DEF RoundsInv, TxRecorded
<1>7. ASSUME NEW w \in Reader
      PROVE  ViewBehind(w)'
  <2>1. CASE w # v
    <3>1. ViewBehind(w) /\ query'[w] = query[w] /\ view'[w] = view[w]
      BY <1>1, <1>2, <2>1 DEF RoundsInv, RoundsTyped
    <3> QED
      BY <1>1, <3>1 DEF ViewBehind
  <2>2. CASE w = v /\ query[v] = 0
    <3>1. /\ query'[v] = 1
          /\ view'[v].round = r /\ view'[v].status = status[r]
      BY <1>1, <1>2, <1>3, <2>2 DEF RoundsTyped
    <3>2. Rounds!Rank(status[r]) \in 0 .. 4 /\ status' = status
      BY <1>1, <1>3, HistoryLength
    <3> QED
      BY <2>2, <3>1, <3>2 DEF ViewBehind
  <2>3. CASE w = v /\ query[v] = 1
    <3>1. /\ query'[v] = 2
          /\ view'[v].status = view[v].status /\ view'[v].history = steps[r]
      BY <1>1, <1>2, <1>3, <2>3 DEF RoundsTyped
    <3>2. Rounds!Rank(view[v].status) <= Rounds!Rank(status[r])
      BY <1>1, <1>2, <2>3, Instances DEF ViewBehind, Rounds!NoRoundAssumption
    <3>3. /\ Len(steps[r]) >= Rounds!Rank(status[r]) - 1
          /\ Rounds!Rank(status[r]) \in 0 .. 4
          /\ Rounds!Rank(view[v].status) \in 0 .. 4
      BY <1>3, HistoryLength
    <3>4. Len(steps[r]) \in Nat
      BY <1>3, LenProperties
    <3>5. Rounds!Rank(view[v].status) - 1 <= Len(steps[r])
      BY <3>2, <3>3, <3>4
    <3> QED
      BY <2>3, <3>1, <3>5 DEF ViewBehind
  <2> QED
    BY <1>3, <2>1, <2>2, <2>3
<1> QED
  BY <1>4, <1>5, <1>6, <1>7 DEF RoundsInv

LEMMA AnswerStep ==
  ASSUME RoundsInv, NEW v \in Reader, Rounds!Answer(v)
  PROVE  RoundsInv'
<1>1. /\ query' = [query EXCEPT ![v] = 0]
      /\ view' = [view EXCEPT ![v] = Rounds!NoView]
      /\ UNCHANGED <<status, steps, roundTx>>
  BY DEF Rounds!Answer, Rounds!db
<1>2. RoundsTyped'
  BY <1>1, EmptySeq DEF RoundsInv, RoundsTyped, Rounds!NoView, RoundStatus
<1>3. \A q \in Round : RoundRecorded(q)'
  BY <1>1 DEF RoundsInv, RoundRecorded
<1>4. \A c \in Caller : TxRecorded(c)'
  BY <1>1 DEF RoundsInv, TxRecorded
<1>5. ASSUME NEW w \in Reader
      PROVE  ViewBehind(w)'
  <2>1. CASE w = v
    BY <1>1, <2>1 DEF RoundsInv, RoundsTyped, ViewBehind
  <2>2. CASE w # v
    <3>1. ViewBehind(w) /\ query'[w] = query[w] /\ view'[w] = view[w]
      BY <1>1, <2>2 DEF RoundsInv, RoundsTyped
    <3> QED
      BY <1>1, <3>1 DEF ViewBehind
  <2> QED
    BY <2>1, <2>2
<1> QED
  BY <1>2, <1>3, <1>4, <1>5 DEF RoundsInv

LEMMA RoundsStep ==
  ASSUME RoundsInv, [Rounds!Next]_rounds
  PROVE  RoundsInv'
<1>1. CASE UNCHANGED rounds
  BY <1>1 DEF rounds, RoundsInv, RoundsTyped, RoundRecorded, TxRecorded,
              ViewBehind, History
<1>2. CASE Rounds!Next
  <2>1. ASSUME NEW c \in Caller, NEW r \in Round, Rounds!RefuseStep(c, r)
        PROVE  RoundsInv'
    BY <2>1, RollBackStep DEF Rounds!RefuseStep
  <2>2. ASSUME NEW c \in Caller, Rounds!Abort(c)
        PROVE  RoundsInv'
    BY <2>2, RollBackStep DEF Rounds!Abort
  <2>3. ~Rounds!Reset
    BY DEF Rounds!Reset
  <2> QED
    BY <1>2, <2>1, <2>2, <2>3, CreateRoundStep, TakeStepStep, CommitStep,
       QueryStep, AnswerStep DEF Rounds!Next
<1> QED
  BY <1>1, <1>2

(* The history of a round is a record of the steps it took                 *)
(* (engine/round.ts:24-28, 95-102).                                        *)
THEOREM StepsAlwaysRecorded == Spec => []StepsRecorded
<1> DEFINE Inv == on # "by hand" => RoundsInv
<1>1. Init => Inv
  BY PartsInit, RoundsInit
<1>2. Inv /\ [Next]_vars => Inv'
  BY PartsStep, RoundsStep
<1>3. Inv => StepsRecorded
  BY DEF StepsRecorded, Rounds!StepsRecorded, RoundsInv, RoundRecorded, History
<1> QED
  BY <1>1, <1>2, <1>3, PTL DEF Spec

(* An answer about a round is not missing a step up to the status it       *)
(* shows, although nothing ties its two queries together                   *)
(* (engine/round.ts:95-102).                                               *)
THEOREM HistoriesCoverStatus == Spec => []HistoryCoversStatus
<1> DEFINE Inv == on # "by hand" => RoundsInv
<1>1. Init => Inv
  BY PartsInit, RoundsInit
<1>2. Inv /\ [Next]_vars => Inv'
  BY PartsStep, RoundsStep
<1>3. Inv => HistoryCoversStatus
  <2>1. ASSUME RoundsInv, NEW v \in Reader, query[v] = 2
        PROVE  Len(view[v].history) >= Rounds!Rank(view[v].status) - 1
    <3>1. /\ Rounds!Rank(view[v].status) - 1 <= Len(view[v].history)
          /\ view[v].status \in RoundStatus
          /\ view[v].history \in Seq(RoundStep)
      BY <2>1 DEF RoundsInv, RoundsTyped, ViewBehind
    <3>2. Rounds!Rank(view[v].status) \in 0 .. 4 /\ Len(view[v].history) \in Nat
      BY <3>1, HistoryLength, LenProperties
    <3> QED
      BY <3>1, <3>2
  <2> QED
    BY <2>1 DEF HistoryCoversStatus, Rounds!HistoryCoversStatus
<1> QED
  BY <1>1, <1>2, <1>3, PTL DEF Spec

-----------------------------------------------------------------------------
(* Boot.  A file is behind an instance if it was applied, or if some       *)
(* release does not ship it.                                               *)
Passed(f) == recorded[f] # 0 \/ \E i \in Instance : Content[i][f] = 0

BootPlace == {"down", "table", "create", "read", "file", "record", "commit",
              "seed", "find", "listen", "serving"}

BootTyped ==
  /\ recorded \in [Boot!File -> Nat] /\ effects \in [Boot!File -> Nat]
  /\ file \in [Instance -> Nat \ {0}]
  /\ bootSeen \in [Instance -> [Boot!File -> Nat]]
  /\ bootPc \in [Instance -> BootPlace]

(* A snapshot may be old, but what it says was applied stays applied.      *)
SeenWasApplied ==
  \A i \in Instance, f \in Boot!File : bootSeen[i][f] # 0 => recorded[f] # 0

FilesBehindPassed ==
  \A i \in Instance, f \in Boot!File : f < file[i] => Passed(f)

(* The record of a file is held by one instance until it commits.          *)
RecordHeld ==
  \A i \in Instance :
    /\ bootPc[i] \in {"record", "commit"} =>
         file[i] \in Boot!File /\ Content[i][file[i]] # 0
    /\ bootPc[i] = "commit" =>
         /\ recorded[file[i]] = 0
         /\ \A j \in Instance \ {i} : bootPc[j] = "commit" => file[j] # file[i]

SeedToFind ==
  /\ \A i \in Instance : bootPc[i] = "find" => active # {}
  /\ "no_seed" \notin errors

BootInv ==
  /\ BootTyped /\ Boot!AppliedOnceInOrder /\ SeenWasApplied
  /\ FilesBehindPassed /\ RecordHeld /\ SeedToFind

LEMMA BootInit ==
  ASSUME Boot!Init
  PROVE  BootInv
BY DEF Boot!Init, BootInv, BootTyped, BootPlace, Boot!AppliedOnceInOrder,
       SeenWasApplied,
       FilesBehindPassed, RecordHeld, SeedToFind, Boot!File

(* The tables stay as they are, and nobody comes to "record" or "commit".  *)
LEMMA QuietBootStep ==
  ASSUME BootInv, NEW i \in Instance, NEW place \in BootPlace,
         place \notin {"record", "commit"},
         bootPc' = [bootPc EXCEPT ![i] = place],
         recorded' = recorded, effects' = effects, active' = active,
         file' \in [Instance -> Nat \ {0}],
         \A j \in Instance \ {i} : file'[j] = file[j],
         \A f \in Boot!File : f < file'[i] => Passed(f),
         bootSeen' = bootSeen \/ bootSeen' = [bootSeen EXCEPT ![i] = recorded],
         place = "find" => active # {}, "no_seed" \notin errors'
  PROVE  BootInv'
<1>1. BootTyped'
  BY DEF BootInv, BootTyped, BootPlace
<1>2. Boot!AppliedOnceInOrder'
  BY DEF BootInv, Boot!AppliedOnceInOrder
<1>3. SeenWasApplied'
  BY DEF BootInv, SeenWasApplied, BootTyped, BootPlace
<1>4. FilesBehindPassed'
  BY DEF BootInv, FilesBehindPassed, Passed
<1>5. RecordHeld'
  BY DEF BootInv, RecordHeld, BootTyped, BootPlace
<1>6. SeedToFind'
  BY DEF BootInv, SeedToFind, BootTyped, BootPlace
<1> QED
  BY <1>1, <1>2, <1>3, <1>4, <1>5, <1>6 DEF BootInv

LEMMA RunFileStep ==
  ASSUME BootInv, NEW i \in Instance, Boot!RunFile(i)
  PROVE  BootInv'
<1>1. /\ file[i] \in Boot!File /\ Content[i][file[i]] # 0
      /\ bootPc' = [bootPc EXCEPT ![i] = "record"]
      /\ UNCHANGED <<recorded, effects, active, file, bootSeen, errors>>
  BY Instances DEF Boot!RunFile, Boot!AtFile, Boot!Goto, Boot!Keep, Boot!schema,
     Boot!seeds, Boot!local, Boot!ContentAssumption, Boot!File, BootInv,
     BootTyped
<1>2. BootTyped' /\ Boot!AppliedOnceInOrder' /\ SeenWasApplied'
      /\ FilesBehindPassed'
  BY <1>1 DEF BootInv, BootTyped, BootPlace, Boot!AppliedOnceInOrder,
     SeenWasApplied,
              FilesBehindPassed, Passed
<1>3. RecordHeld'
  BY <1>1 DEF BootInv, BootTyped, BootPlace, RecordHeld
<1>4. SeedToFind'
  BY <1>1 DEF BootInv, BootTyped, BootPlace, SeedToFind
<1> QED
  BY <1>2, <1>3, <1>4 DEF BootInv

LEMMA RecordFileStep ==
  ASSUME BootInv, NEW i \in Instance, Boot!RecordFile(i)
  PROVE  BootInv'
<1>1. /\ bootPc[i] = "record" /\ recorded[file[i]] = 0
      /\ \A j \in Instance \ {i} : ~(bootPc[j] = "commit" /\ file[j] = file[i])
      /\ bootPc' = [bootPc EXCEPT ![i] = "commit"]
      /\ UNCHANGED <<recorded, effects, active, file, bootSeen, errors>>
  BY DEF Boot!RecordFile, Boot!Goto, Boot!Keep, Boot!schema, Boot!seeds,
         Boot!local
<1>2. BootTyped' /\ Boot!AppliedOnceInOrder' /\ SeenWasApplied'
      /\ FilesBehindPassed'
  BY <1>1 DEF BootInv, BootTyped, BootPlace, Boot!AppliedOnceInOrder,
     SeenWasApplied,
              FilesBehindPassed, Passed
<1>3. RecordHeld'
  BY <1>1 DEF BootInv, BootTyped, BootPlace, RecordHeld
<1>4. SeedToFind'
  BY <1>1 DEF BootInv, BootTyped, BootPlace, SeedToFind
<1> QED
  BY <1>2, <1>3, <1>4 DEF BootInv

(* The file was not recorded, all before it were passed, and nobody else   *)
(* can still commit it.                                                    *)
LEMMA CommitFileStep ==
  ASSUME BootInv, NEW i \in Instance, Boot!CommitFile(i)
  PROVE  BootInv'
<1> DEFINE f == file[i]
<1>1. /\ bootPc[i] = "commit"
      /\ recorded' = [recorded EXCEPT ![f] = Content[i][f]]
      /\ effects' = [effects EXCEPT ![f] = @ + 1]
      /\ file' = [file EXCEPT ![i] = f + 1]
      /\ bootPc' = [bootPc EXCEPT ![i] = "file"]
      /\ UNCHANGED <<active, bootSeen, errors>>
  BY DEF Boot!CommitFile, Boot!Goto, Boot!Keep, Boot!seeds
<1>2. /\ f \in Boot!File /\ Content[i][f] # 0 /\ recorded[f] = 0
      /\ \A j \in Instance \ {i} : bootPc[j] = "commit" => file[j] # f
  BY <1>1 DEF BootInv, RecordHeld
<1>3. Content[i][f] \in Nat /\ Boot!File \subseteq Nat
  BY <1>2, Instances DEF Boot!ContentAssumption, Boot!File
<1>4. BootTyped
  BY DEF BootInv
<1>5. BootTyped'
  <2>1. recorded' \in [Boot!File -> Nat] /\ effects' \in [Boot!File -> Nat]
    BY <1>1, <1>2, <1>3, <1>4 DEF BootTyped, BootPlace
  <2>2. f + 1 \in Nat \ {0}
    <3>1. f \in Nat
      BY <1>4 DEF BootTyped, BootPlace
    <3> HIDE DEF f
    <3> QED
      BY <3>1
  <2>3. file' \in [Instance -> Nat \ {0}]
    BY <1>1, <1>4, <2>2 DEF BootTyped, BootPlace
  <2> QED
    BY <1>1, <1>4, <2>1, <2>3 DEF BootTyped, BootPlace
<1>6. /\ recorded'[f] # 0 /\ effects'[f] = 1
      /\ \A g \in Boot!File \ {f} :
           recorded'[g] = recorded[g] /\ effects'[g] = effects[g]
  BY <1>1, <1>2, <1>3, <1>4 DEF BootInv, BootTyped, BootPlace,
     Boot!AppliedOnceInOrder
<1>7. \A g \in Boot!File : recorded[g] # 0 => recorded'[g] # 0
  BY <1>6
<1>8. \A g \in Boot!File : g < f => Passed(g)
  BY DEF BootInv, FilesBehindPassed
<1>9. Boot!AppliedOnceInOrder'
  <2> SUFFICES ASSUME NEW h \in Boot!File
               PROVE  /\ effects'[h] = IF recorded'[h] = 0 THEN 0 ELSE 1
                      /\ recorded'[h] # 0 =>
                           \A g \in 1 .. h - 1 : Passed(g)'
    BY DEF Boot!AppliedOnceInOrder, Passed, Boot!File
  <2>1. effects'[h] = IF recorded'[h] = 0 THEN 0 ELSE 1
    BY <1>6 DEF BootInv, Boot!AppliedOnceInOrder
  <2>2. ASSUME recorded'[h] # 0, NEW g \in 1 .. h - 1
        PROVE  Passed(g)'
    <3>1. g \in Boot!File /\ g < h
      BY <1>3, <2>2, Instances DEF Boot!File, Boot!ContentAssumption
    <3>2. Passed(g)
      BY <1>6, <1>8, <2>2, <3>1 DEF BootInv, Boot!AppliedOnceInOrder, Passed
    <3> QED
      BY <1>7, <3>1, <3>2 DEF Passed
  <2> QED
    BY <2>1, <2>2
<1>10. SeenWasApplied'
  BY <1>1, <1>7 DEF BootInv, SeenWasApplied
<1>11. FilesBehindPassed'
  <2> SUFFICES ASSUME NEW j \in Instance, NEW g \in Boot!File, g < file'[j]
               PROVE  Passed(g)'
    BY DEF FilesBehindPassed
  <2>1. g < file[j] \/ (j = i /\ g < f + 1)
    <3>1. file'[i] = f + 1 /\ (j # i => file'[j] = file[j])
      BY <1>1, <1>4 DEF BootTyped, BootPlace
    <3> QED
      BY <3>1
  <2>2. g < file[j] => Passed(g)
    BY DEF BootInv, FilesBehindPassed
  <2>3. CASE g = f
    BY <1>6, <2>3 DEF Passed
  <2>4. CASE g # f
    <3>1. g < f + 1 => g < f
      <4>1. g \in Nat /\ f \in Nat
        BY <1>2, <1>3
      <4> HIDE DEF f
      <4> QED
        BY <2>4, <4>1
    <3>2. g < file[j]
      BY <2>1, <3>1
    <3> QED
      BY <1>7, <2>2, <3>2 DEF Passed
  <2> QED
    BY <2>3, <2>4
<1>12. RecordHeld'
  <2> SUFFICES ASSUME NEW j \in Instance, bootPc'[j] \in {"record", "commit"}
               PROVE  /\ file'[j] \in Boot!File /\ Content[j][file'[j]] # 0
                      /\ bootPc'[j] = "commit" =>
                           /\ recorded'[file'[j]] = 0
                           /\ \A k \in Instance \ {j} :
                                bootPc'[k] = "commit" => file'[k] # file'[j]
    BY DEF RecordHeld
  <2>1. /\ j # i /\ bootPc'[j] = bootPc[j] /\ file'[j] = file[j]
        /\ \A k \in Instance : bootPc'[k] = "commit" =>
             k # i /\ bootPc[k] = "commit" /\ file'[k] = file[k]
    BY <1>1, <1>4 DEF BootTyped, BootPlace
  <2> QED
    BY <1>2, <1>6, <2>1 DEF BootInv, RecordHeld
<1>13. SeedToFind'
  BY <1>1, <1>4 DEF BootInv, BootTyped, BootPlace, SeedToFind
<1> QED
  BY <1>5, <1>9, <1>10, <1>11, <1>12, <1>13 DEF BootInv

(* The seed there is may become another one, and no more than that.        *)
LEMMA SeedStep ==
  ASSUME BootInv, NEW i \in Instance,
         Boot!ReplaceSeed(i) \/ Boot!InsertSeed(i)
  PROVE  BootInv'
<1>1. /\ \/ bootPc' = bootPc /\ active' # {}
         \/ bootPc' = [bootPc EXCEPT ![i] = "listen"] /\ active' # {}
         \/ /\ bootPc' = [bootPc EXCEPT ![i] = "find"]
            /\ active # {} /\ active' = active
      /\ UNCHANGED <<recorded, effects, file, bootSeen, errors>>
  BY DEF Boot!ReplaceSeed, Boot!InsertSeed, Boot!NoSeed, Boot!Goto, Boot!Keep,
         Boot!schema, Boot!seeds, Boot!local
<1>2. BootTyped' /\ Boot!AppliedOnceInOrder' /\ SeenWasApplied'
      /\ FilesBehindPassed'
  BY <1>1 DEF BootInv, BootTyped, BootPlace, Boot!AppliedOnceInOrder,
     SeenWasApplied,
              FilesBehindPassed, Passed
<1>3. RecordHeld'
  BY <1>1 DEF BootInv, BootTyped, BootPlace, RecordHeld
<1>4. SeedToFind'
  BY <1>1 DEF BootInv, BootTyped, BootPlace, SeedToFind
<1> QED
  BY <1>2, <1>3, <1>4 DEF BootInv

LEMMA BootStep ==
  ASSUME BootInv, [Boot!Next]_boot
  PROVE  BootInv'
<1> USE DEF Boot!Goto, Boot!Fail, Boot!Keep, Boot!schema, Boot!seeds, Boot!local
<1>0. BootTyped /\ \A i \in Instance : file[i] \in Nat \ {0}
  BY DEF BootInv, BootTyped, BootPlace
<1>1. CASE UNCHANGED boot
  BY <1>1 DEF boot, BootInv, BootTyped, BootPlace, Boot!AppliedOnceInOrder,
     SeenWasApplied,
              FilesBehindPassed, Passed, RecordHeld, SeedToFind
<1>2. ASSUME NEW i \in Instance,
             Boot!Start(i) \/ Boot!LookForTable(i) \/ Boot!CreateTable(i)
               \/ Boot!RejectEdited(i) \/ Boot!FileCollides(i)
               \/ Boot!Migrated(i) \/ Boot!FindSeed(i) \/ Boot!Listen(i)
               \/ Boot!Die(i)
      PROVE  BootInv'
  <2>1. UNCHANGED <<recorded, effects, active, file, bootSeen>>
    BY <1>2 DEF Boot!Start, Boot!LookForTable, Boot!CreateTable,
         Boot!RejectEdited, Boot!FileCollides, Boot!Migrated, Boot!FindSeed,
         Boot!Listen, Boot!Die
  <2>2. \E place \in {"table", "read", "create", "down", "seed", "listen",
                      "serving"} :
          bootPc' = [bootPc EXCEPT ![i] = place]
    BY <1>2 DEF Boot!Start, Boot!LookForTable, Boot!CreateTable,
         Boot!RejectEdited, Boot!FileCollides, Boot!Migrated, Boot!FindSeed,
         Boot!Listen, Boot!Die
  <2>3. "no_seed" \notin errors'
    BY <1>2 DEF Boot!Start, Boot!LookForTable, Boot!CreateTable,
         Boot!RejectEdited, Boot!FileCollides, Boot!Migrated, Boot!FindSeed,
         Boot!Listen, Boot!Die, BootInv, SeedToFind
  <2>4. \A f \in Boot!File : f < file'[i] => Passed(f)
    BY <2>1 DEF BootInv, FilesBehindPassed
  <2>5. file' \in [Instance -> Nat \ {0}]
    BY <1>0, <2>1 DEF BootTyped, BootPlace
  <2>6. PICK place \in {"table", "read", "create", "down", "seed", "listen",
                        "serving"} :
          bootPc' = [bootPc EXCEPT ![i] = place]
    BY <2>2
  <2> QED
    BY <2>1, <2>3, <2>4, <2>5, <2>6, QuietBootStep DEF BootPlace
<1>3. ASSUME NEW i \in Instance, Boot!ReadMigrations(i)
      PROVE  BootInv'
  <2>1. /\ bootPc' = [bootPc EXCEPT ![i] = "file"]
        /\ file' = [file EXCEPT ![i] = 1]
        /\ bootSeen' = [bootSeen EXCEPT ![i] = recorded]
        /\ UNCHANGED <<recorded, effects, active, errors>>
    BY <1>3 DEF Boot!ReadMigrations
  <2>2. \A f \in Boot!File : ~(f < file'[i])
    BY <1>0, <2>1 DEF BootTyped, BootPlace, Boot!File
  <2>3. /\ file' \in [Instance -> Nat \ {0}]
        /\ \A j \in Instance \ {i} : file'[j] = file[j]
    BY <1>0, <2>1 DEF BootTyped, BootPlace
  <2> QED
    BY <2>1, <2>2, <2>3, QuietBootStep DEF BootInv, SeedToFind, BootPlace
<1>4. ASSUME NEW i \in Instance, Boot!SkipFile(i)
      PROVE  BootInv'
  <2> DEFINE f == file[i]
  <2>1. /\ bootPc[i] = "file" /\ f \in Boot!File
        /\ Content[i][f] \in {0, bootSeen[i][f]}
        /\ file' = [file EXCEPT ![i] = f + 1]
        /\ UNCHANGED <<bootPc, bootSeen, recorded, effects, active, errors>>
    BY <1>0, <1>4, Instances DEF Boot!SkipFile, Boot!AtFile, Boot!Skippable,
       Boot!File, Boot!ContentAssumption
  <2>2. Passed(f)
    BY <2>1 DEF BootInv, SeenWasApplied, Passed
  <2>3. \A g \in Boot!File : g < f + 1 => Passed(g)
    <3> SUFFICES ASSUME NEW g \in Boot!File, g < f + 1, g # f
                 PROVE  g < f
      BY <2>2 DEF BootInv, FilesBehindPassed
    <3> QED
      BY <2>1 DEF Boot!File
  <2>4. file' \in [Instance -> Nat \ {0}] /\ file'[i] = f + 1
        /\ \A j \in Instance \ {i} : file'[j] = file[j]
    <3>1. f + 1 \in Nat \ {0}
      <4>1. f \in Nat
        BY <1>0
      <4> HIDE DEF f
      <4> QED
        BY <4>1
    <3> HIDE DEF f
    <3> QED
      BY <1>0, <2>1, <3>1 DEF BootTyped, BootPlace
  <2>5. bootPc' = [bootPc EXCEPT ![i] = "file"]
    BY <1>0, <2>1 DEF BootTyped, BootPlace
  <2>6. \A g \in Boot!File : g < file'[i] => Passed(g)
    BY <2>3, <2>4
  <2>7. "no_seed" \notin errors'
    BY <2>1 DEF BootInv, SeedToFind
  <2> QED
    BY <2>1, <2>4, <2>5, <2>6, <2>7, QuietBootStep DEF BootPlace
<1> QED
  BY <1>1, <1>2, <1>3, <1>4, RunFileStep, RecordFileStep, CommitFileStep,
     SeedStep DEF Boot!Next, Boot!Proceed

(* Whatever the releases ship and whoever dies where, a file takes effect  *)
(* once, with its record and not before the files in front of it           *)
(* (migrate.ts:27-28, 63-71).                                              *)
THEOREM FilesAppliedOnceInOrder == Spec => []AppliedOnceInOrder
<1>1. Init => BootInv
  BY PartsInit, BootInit
<1>2. BootInv /\ [Next]_vars => BootInv'
  BY PartsStep, BootStep
<1>3. BootInv => AppliedOnceInOrder
  BY DEF BootInv, AppliedOnceInOrder
<1> QED
  BY <1>1, <1>2, <1>3, PTL DEF Spec

(* Rotations and resets between the insert and the read leave a seed       *)
(* (fairness/seeds.ts:55-58, 78-82).                                       *)
THEOREM BootAlwaysFindsSeed == Spec => []BootFindsSeed
<1>1. Init => BootInv
  BY PartsInit, BootInit
<1>2. BootInv /\ [Next]_vars => BootInv'
  BY PartsStep, BootStep
<1>3. BootInv => BootFindsSeed
  BY DEF BootInv, BootFindsSeed, Boot!BootFindsSeed, SeedToFind
<1> QED
  BY <1>1, <1>2, <1>3, PTL DEF Spec

(* Booting instances leave the active seed alone, however many there are   *)
(* (fairness/seeds.ts:37-47).                                              *)
THEOREM BootAlwaysKeepsSeed == Spec => BootKeepsSeed
<1> DEFINE Kept == active # {} /\ active' # active =>
                     \E i \in Instance :
                       bootPc[i] = "serving" /\ bootPc' = bootPc
<1>1. [Next]_vars => [Kept]_Boot!vars
  <2>1. ASSUME Boot!Next
        PROVE  Kept
    BY <2>1 DEF Boot!Next, Boot!Proceed, Boot!Start, Boot!LookForTable,
       Boot!CreateTable, Boot!ReadMigrations, Boot!RejectEdited, Boot!SkipFile,
       Boot!RunFile, Boot!FileCollides, Boot!RecordFile, Boot!CommitFile,
       Boot!Migrated, Boot!InsertSeed, Boot!NoSeed, Boot!FindSeed, Boot!Listen,
       Boot!ReplaceSeed, Boot!Die, Boot!Keep, Boot!seeds, Boot!Goto, Boot!Fail
  <2> QED
    BY <2>1, PartsStep DEF boot, Boot!vars
<1> QED
  BY <1>1, PTL DEF Spec, BootKeepsSeed, Boot!BootKeepsSeed

(* What an instance has seen of a file is what is recorded of it; what is  *)
(* behind it is recorded as it ships it, or not shipped; and behind a boot *)
(* that is past its migrations are all the files.                          *)
SeenIsRecorded ==
  \A i \in Instance, f \in Boot!File :
    bootSeen[i][f] # 0 => bootSeen[i][f] = recorded[f]

OwnFilesBehind ==
  \A i \in Instance, f \in Boot!File :
    f < file[i] => Content[i][f] \in {0, recorded[f]}

MigratedFirst ==
  \A i \in Instance :
    bootPc[i] \in {"seed", "find", "listen", "serving"} => file[i] > Files

OneActiveSeed ==
  /\ active = {} \/ \E seed : active = {seed}
  /\ \A i \in Instance : bootPc[i] \in {"listen", "serving"} => active # {}

SchemaInv ==
  SeenIsRecorded /\ OwnFilesBehind /\ MigratedFirst /\ OneActiveSeed

LEMMA SchemaInit ==
  ASSUME Boot!Init
  PROVE  SchemaInv
<1>1. \A f \in Boot!File : ~(f < 1) BY DEF Boot!File
<1> QED
  BY <1>1
  DEF Boot!Init, SchemaInv, SeenIsRecorded, OwnFilesBehind, MigratedFirst,
      OneActiveSeed

(* A boot goes on, or ends, and the tables stay as they are.               *)
LEMMA QuietSchemaStep ==
  ASSUME BootInv, SchemaInv, NEW i \in Instance, NEW place \in BootPlace,
         bootPc' = [bootPc EXCEPT ![i] = place],
         UNCHANGED <<recorded, file, bootSeen>>,
         active' = active \/ \E seed : active' = {seed},
         place \in {"seed", "find", "listen", "serving"} => file[i] > Files,
         place \in {"listen", "serving"} => active' # {}
  PROVE  SchemaInv'
<1>1. SeenIsRecorded' /\ OwnFilesBehind'
  BY DEF SchemaInv, SeenIsRecorded, OwnFilesBehind
<1>2. MigratedFirst'
  BY DEF SchemaInv, MigratedFirst, BootInv, BootTyped
<1>3. OneActiveSeed'
  BY DEF SchemaInv, OneActiveSeed, BootInv, BootTyped
<1> QED BY <1>1, <1>2, <1>3 DEF SchemaInv

(* Boots that come to the next file.                                       *)
LEMMA NextFileBehind ==
  ASSUME BootInv, SchemaInv, NEW i \in Instance, NEW f \in Boot!File,
         file[i] = f, file' = [file EXCEPT ![i] = f + 1],
         Content[i][f] \in {0, recorded'[f]},
         \A j \in Instance, g \in Boot!File :
           g < file[j] => Content[j][g] \in {0, recorded'[g]}
  PROVE  OwnFilesBehind'
<1> SUFFICES ASSUME NEW j \in Instance, NEW g \in Boot!File, g < file'[j]
             PROVE  Content[j][g] \in {0, recorded'[g]}
  BY DEF OwnFilesBehind
<1>1. file'[i] = f + 1 /\ (j # i => file'[j] = file[j])
  BY DEF BootInv, BootTyped
<1>2. f \in Nat /\ g \in Nat
  BY Instances DEF Boot!File, Boot!ContentAssumption
<1>3. g < file[j] \/ (j = i /\ g = f) BY <1>1, <1>2
<1> QED BY <1>3

LEMMA CommitSchemaStep ==
  ASSUME BootInv, SchemaInv, NEW i \in Instance, Boot!CommitFile(i)
  PROVE  SchemaInv'
<1> DEFINE f == file[i]
<1>1. /\ bootPc[i] = "commit"
      /\ recorded' = [recorded EXCEPT ![f] = Content[i][f]]
      /\ file' = [file EXCEPT ![i] = f + 1]
      /\ bootPc' = [bootPc EXCEPT ![i] = "file"]
      /\ UNCHANGED <<active, bootSeen>>
  BY DEF Boot!CommitFile, Boot!Goto, Boot!Keep, Boot!seeds
<1>2. f \in Boot!File /\ recorded[f] = 0
  BY <1>1 DEF BootInv, RecordHeld
<1>3. /\ recorded'[f] = Content[i][f]
      /\ \A g \in Boot!File \ {f} : recorded'[g] = recorded[g]
  BY <1>1, <1>2 DEF BootInv, BootTyped
<1>4. SeenIsRecorded'
  BY <1>1, <1>2, <1>3 DEF SchemaInv, SeenIsRecorded
<1>5. OwnFilesBehind'
  <2>1. \A j \in Instance, g \in Boot!File :
          g < file[j] => Content[j][g] \in {0, recorded'[g]}
    BY <1>2, <1>3 DEF SchemaInv, OwnFilesBehind
  <2> QED BY <1>1, <1>2, <1>3, <2>1, NextFileBehind
<1>6. \A j \in Instance :
        /\ bootPc'[j] \in {"seed", "find", "listen", "serving"} =>
             j # i /\ bootPc'[j] = bootPc[j]
        /\ j # i => file'[j] = file[j]
  BY <1>1 DEF BootInv, BootTyped
<1>7. MigratedFirst' /\ OneActiveSeed'
  BY <1>1, <1>6 DEF SchemaInv, MigratedFirst, OneActiveSeed
<1> QED BY <1>4, <1>5, <1>7 DEF SchemaInv

LEMMA SchemaStep ==
  ASSUME BootInv, SchemaInv, [Boot!Next]_boot
  PROVE  SchemaInv'
<1> USE DEF Boot!Goto, Boot!Fail, Boot!Keep, Boot!schema, Boot!seeds, Boot!local
<1>0. BootTyped BY DEF BootInv
<1>1. CASE UNCHANGED boot
  BY <1>1 DEF boot, SchemaInv, SeenIsRecorded, OwnFilesBehind, MigratedFirst,
              OneActiveSeed
<1>2. ASSUME NEW i \in Instance,
             Boot!Start(i) \/ Boot!LookForTable(i) \/ Boot!CreateTable(i)
               \/ Boot!RejectEdited(i) \/ Boot!RunFile(i) \/ Boot!RecordFile(i)
               \/ Boot!FileCollides(i) \/ Boot!Die(i)
      PROVE  SchemaInv'
  <2>1. UNCHANGED <<recorded, active, file, bootSeen>>
    BY <1>2 DEF Boot!Start, Boot!LookForTable, Boot!CreateTable,
         Boot!RejectEdited, Boot!RunFile, Boot!RecordFile, Boot!FileCollides,
         Boot!Die
  <2>2. PICK place \in {"table", "read", "create", "down", "record", "commit"} :
          bootPc' = [bootPc EXCEPT ![i] = place]
    BY <1>2 DEF Boot!Start, Boot!LookForTable, Boot!CreateTable,
         Boot!RejectEdited, Boot!RunFile, Boot!RecordFile, Boot!FileCollides,
         Boot!Die
  <2> QED BY <2>1, <2>2, QuietSchemaStep DEF BootPlace
<1>3. ASSUME NEW i \in Instance,
             Boot!Migrated(i) \/ Boot!FindSeed(i) \/ Boot!Listen(i)
               \/ Boot!InsertSeed(i)
      PROVE  SchemaInv'
  <2>1. UNCHANGED <<recorded, file, bootSeen>>
    BY <1>3 DEF Boot!Migrated, Boot!FindSeed, Boot!Listen, Boot!InsertSeed
  <2>2. file[i] > Files
    BY <1>3 DEF Boot!Migrated, Boot!FindSeed, Boot!Listen, Boot!InsertSeed,
                SchemaInv, MigratedFirst
  <2>3. active' = active \/ \E seed : active' = {seed}
    BY <1>3 DEF Boot!Migrated, Boot!FindSeed, Boot!Listen, Boot!InsertSeed,
                Boot!NoSeed
  <2>4. PICK place \in {"seed", "find", "listen", "serving", "down"} :
          /\ bootPc' = [bootPc EXCEPT ![i] = place]
          /\ place \in {"listen", "serving"} => active' # {}
    BY <1>3 DEF Boot!Migrated, Boot!FindSeed, Boot!Listen, Boot!InsertSeed,
                SchemaInv, OneActiveSeed
  <2> QED BY <2>1, <2>2, <2>3, <2>4, QuietSchemaStep DEF BootPlace
<1>4. ASSUME NEW i \in Instance, Boot!ReplaceSeed(i)
      PROVE  SchemaInv'
  <2>1. /\ bootPc' = bootPc /\ (\E seed : active' = {seed})
        /\ UNCHANGED <<recorded, file, bootSeen>>
    BY <1>4 DEF Boot!ReplaceSeed
  <2> QED
    BY <2>1 DEF SchemaInv, SeenIsRecorded, OwnFilesBehind, MigratedFirst,
                OneActiveSeed
<1>5. ASSUME NEW i \in Instance, Boot!ReadMigrations(i)
      PROVE  SchemaInv'
  <2>1. /\ bootPc' = [bootPc EXCEPT ![i] = "file"]
        /\ file' = [file EXCEPT ![i] = 1]
        /\ bootSeen' = [bootSeen EXCEPT ![i] = recorded]
        /\ UNCHANGED <<recorded, active>>
    BY <1>5 DEF Boot!ReadMigrations
  <2>2. \A f \in Boot!File : ~(f < file'[i])
    BY <1>0, <2>1 DEF BootTyped, Boot!File
  <2>3. SeenIsRecorded'
    BY <1>0, <2>1 DEF BootTyped, SchemaInv, SeenIsRecorded
  <2>4. OwnFilesBehind'
    BY <1>0, <2>1, <2>2 DEF BootTyped, SchemaInv, OwnFilesBehind
  <2>5. MigratedFirst' /\ OneActiveSeed'
    BY <1>0, <2>1 DEF BootTyped, SchemaInv, MigratedFirst, OneActiveSeed
  <2> QED BY <2>3, <2>4, <2>5 DEF SchemaInv
<1>6. ASSUME NEW i \in Instance, Boot!SkipFile(i)
      PROVE  SchemaInv'
  <2> DEFINE f == file[i]
  <2>1. /\ bootPc[i] = "file" /\ f \in Boot!File
        /\ Content[i][f] \in {0, bootSeen[i][f]}
        /\ file' = [file EXCEPT ![i] = f + 1]
        /\ UNCHANGED <<bootPc, bootSeen, recorded, active>>
    BY <1>0, <1>6, Instances
    DEF Boot!SkipFile, Boot!AtFile, Boot!Skippable, Boot!File, BootTyped,
        Boot!ContentAssumption
  <2>2. Content[i][f] \in {0, recorded[f]}
    BY <2>1 DEF SchemaInv, SeenIsRecorded
  <2>3. \A j \in Instance, g \in Boot!File :
          g < file[j] => Content[j][g] \in {0, recorded[g]}
    BY DEF SchemaInv, OwnFilesBehind
  <2>4. OwnFilesBehind' BY <2>1, <2>2, <2>3, NextFileBehind
  <2>5. MigratedFirst'
    BY <1>0, <2>1 DEF BootTyped, SchemaInv, MigratedFirst
  <2> QED
    BY <2>1, <2>4, <2>5 DEF SchemaInv, SeenIsRecorded, OneActiveSeed
<1> QED
  BY <1>1, <1>2, <1>3, <1>4, <1>5, <1>6, CommitSchemaStep
  DEF Boot!Next, Boot!Proceed

(* Whatever releases boot at the same time, an instance serves only on the *)
(* files it shipped, as it shipped them, and with one active seed          *)
(* (migrate.ts:28-30, server.ts:57-60).                                    *)
THEOREM ServesOnlyItsOwnSchema == Spec => []Boot!ServesItsOwnSchema
<1>1. Init => BootInv /\ SchemaInv
  BY PartsInit, BootInit, SchemaInit
<1>2. BootInv /\ [Next]_vars => BootInv' BY PartsStep, BootStep
<1>3. BootInv /\ SchemaInv /\ [Next]_vars => SchemaInv'
  BY PartsStep, SchemaStep
<1>4. BootInv /\ SchemaInv => Boot!ServesItsOwnSchema
  <2> SUFFICES ASSUME BootInv, SchemaInv, NEW i \in Instance,
                      bootPc[i] = "serving"
               PROVE  /\ \A f \in Boot!File : Content[i][f] \in {0, recorded[f]}
                      /\ Boot!Cardinality(active) = 1
    BY DEF Boot!ServesItsOwnSchema
  <2>1. file[i] > Files /\ file[i] \in Nat /\ Files \in Nat
    BY Instances
    DEF SchemaInv, MigratedFirst, BootInv, BootTyped, Boot!ContentAssumption
  <2>2. \A f \in Boot!File : f < file[i] BY <2>1 DEF Boot!File
  <2>3. \A S : Boot!Cardinality(S) = Cardinality(S)
    BY DEF Boot!Cardinality, Cardinality
  <2>4. PICK seed : active = {seed} BY DEF SchemaInv, OneActiveSeed
  <2> QED
    BY <2>2, <2>3, <2>4, FS_Singleton DEF SchemaInv, OwnFilesBehind
<1> QED BY <1>1, <1>2, <1>3, <1>4, PTL DEF Spec

-----------------------------------------------------------------------------
(* Rounds with sessions that bypass the service, and with resets.          *)
LEMMA SameRank ==
  /\ \A st : ByHand!Rank(st) = Rounds!Rank(st)
  /\ ByHand!Status = Rounds!Status
BY DEF ByHand!Rank, Rounds!Rank, ByHand!Status, Rounds!Status, ByHand!Absent,
       Rounds!Absent

LEMMA RankBound ==
  ASSUME NEW st \in RoundStatus \cup {"gone"}
  PROVE  Rounds!Rank(st) \in 0 .. 4
<1>1. Rounds!Rank("gone") = 0
  BY DEF Rounds!Rank, Rounds!Absent
<1> QED
  BY <1>1, HistoryLength

ByHandTyped ==
  /\ status \in [OtherRound -> RoundStatus \cup {"gone"}]
  /\ roundTx \in [OtherCaller ->
                    [round : OtherRound \cup {NoRound}, status : RoundStatus,
                     steps : Seq(RoundStep)]]
  /\ roundSeen \in [Hand -> [round : OtherRound \cup {NoRound},
                             status : {"none", "open", "locked", "resolved"}]]
  /\ \A h \in Hand :
       roundSeen[h].round # NoRound => roundSeen[h].status # "none"

(* An open transaction has its row to itself and is not behind it.         *)
TxAhead(c) ==
  LET r == roundTx[c].round
  IN  r # NoRound =>
        /\ Rounds!Rank(status[r]) <= Rounds!Rank(roundTx[c].status)
        /\ \A d \in OtherCaller \ {c} : roundTx[d].round # r

ByHandInv == ByHandTyped /\ \A c \in OtherCaller : TxAhead(c)

Forward ==
  \A r \in OtherRound :
    \/ Rounds!Rank(status'[r]) >= Rounds!Rank(status[r])
    \/ status'[r] = "gone"

LEMMA StatusKept ==
  ASSUME ByHandTyped, status' = status
  PROVE  Forward
<1>1. \A r \in OtherRound : Rounds!Rank(status[r]) \in 0 .. 4
  BY RankBound DEF ByHandTyped
<1> QED
  BY <1>1 DEF Forward

LEMMA ByHandInit ==
  ASSUME ByHand!Init
  PROVE  ByHandInv
BY EmptySeq DEF ByHand!Init, ByHandInv, ByHandTyped, TxAhead, ByHand!Idle,
       RoundStatus

(* What a caller's statement leaves in its transaction.                    *)
LEMMA ByHandTxStep ==
  ASSUME ByHandInv, NEW c \in OtherCaller,
         NEW n \in [round : OtherRound \cup {NoRound}, status : RoundStatus,
                    steps : Seq(RoundStep)],
         roundTx' = [roundTx EXCEPT ![c] = n],
         n.round # NoRound =>
           /\ Rounds!Rank(status[n.round]) <= Rounds!Rank(n.status)
           /\ \A d \in OtherCaller \ {c} : roundTx[d].round # n.round,
         UNCHANGED <<status, roundSeen>>
  PROVE  ByHandInv' /\ Forward
<1>1. ByHandTyped'
  BY DEF ByHandInv, ByHandTyped
<1>2. roundTx'[c] = n /\ \A d \in OtherCaller \ {c} : roundTx'[d] = roundTx[d]
  BY DEF ByHandInv, ByHandTyped
<1>3. \A d \in OtherCaller : TxAhead(d)'
  <2> SUFFICES ASSUME NEW d \in OtherCaller, roundTx'[d].round # NoRound
               PROVE  TxAhead(d)'
    BY DEF TxAhead
  <2>1. CASE d = c
    BY <1>2, <2>1 DEF TxAhead
  <2>2. CASE d # c
    BY <1>2, <2>2 DEF TxAhead, ByHandInv
  <2> QED
    BY <2>1, <2>2
<1>4. Forward
  BY StatusKept DEF ByHandInv
<1> QED
  BY <1>1, <1>3, <1>4 DEF ByHandInv

LEMMA ByHandRollBack ==
  ASSUME ByHandInv, NEW c \in OtherCaller, ByHand!RollBack(c)
  PROVE  ByHandInv' /\ Forward
<1>1. /\ ByHand!Idle \in [round : OtherRound \cup {NoRound},
                          status : RoundStatus, steps : Seq(RoundStep)]
      /\ ByHand!Idle.round = NoRound
  BY EmptySeq DEF ByHand!Idle, RoundStatus
<1>2. /\ roundTx' = [roundTx EXCEPT ![c] = ByHand!Idle]
      /\ UNCHANGED <<status, roundSeen>>
  BY DEF ByHand!RollBack, ByHand!hand
<1> QED
  BY <1>1, <1>2, ByHandTxStep

LEMMA ByHandCreate ==
  ASSUME ByHandInv, NEW c \in OtherCaller, NEW r \in OtherRound,
         ByHand!CreateRound(c, r)
  PROVE  ByHandInv' /\ Forward
<1> DEFINE n == [round |-> r, status |-> "open", steps |-> <<>>]
<1>1. /\ status[r] = "none" /\ \A d \in OtherCaller : roundTx[d].round # r
      /\ roundTx' = [roundTx EXCEPT ![c] = n]
      /\ UNCHANGED <<status, roundSeen>>
  BY DEF ByHand!CreateRound, ByHand!hand
<1>2. /\ n \in [round : OtherRound \cup {NoRound}, status : RoundStatus,
                steps : Seq(RoundStep)]
      /\ n.round = r /\ n.status = "open"
  BY EmptySeq DEF RoundStatus
<1>3. /\ Rounds!Rank(status[n.round]) <= Rounds!Rank(n.status)
      /\ \A d \in OtherCaller \ {c} : roundTx[d].round # n.round
  BY <1>1, <1>2, StatusRank
<1> HIDE DEF n
<1> QED
  BY <1>1, <1>2, <1>3, ByHandTxStep

LEMMA ByHandTakeStep ==
  ASSUME ByHandInv, NEW c \in OtherCaller, NEW r \in OtherRound,
         ByHand!TakeStep(c, r)
  PROVE  ByHandInv' /\ Forward
<1> DEFINE t == roundTx[c]
           cur == ByHand!Current(c, r)
<1>0. SUFFICES ASSUME ~ByHand!RollBack(c)
               PROVE  ByHandInv' /\ Forward
  BY ByHandRollBack
<1>1. PICK i \in 1 .. 3 :
        /\ cur = ByHand!Status[i]
        /\ roundTx' = [roundTx EXCEPT ![c] =
                         [round |-> r, status |-> ByHand!Status[i + 1],
                          steps |-> Append(t.steps, ByHand!Step[i])]]
        /\ UNCHANGED <<status, roundSeen>>
  BY <1>0 DEF ByHand!TakeStep, ByHand!AssertFrom, ByHand!hand
<1> DEFINE n == [round |-> r, status |-> ByHand!Status[i + 1],
                 steps |-> Append(t.steps, ByHand!Step[i])]
<1>2. /\ t.round \in {NoRound, r} /\ ByHand!RowFree(c, r)
      /\ ByHandTyped /\ TxAhead(c) /\ r # NoRound
  BY Instances DEF ByHand!TakeStep, ByHandInv, ByHand!NoRoundAssumption
<1>3. Append(t.steps, ByHand!Step[i]) \in Seq(RoundStep)
  <2>1. t.steps \in Seq(RoundStep) /\ ByHand!Step[i] = Rounds!Step[i]
    BY <1>2 DEF ByHandTyped, ByHand!Step, Rounds!Step
  <2> QED
    BY <2>1, NextStep, AppendProperties
<1>4. /\ Rounds!Rank(cur) = i /\ cur \notin ByHand!Absent
      /\ ByHand!Status[i + 1] \in RoundStatus
      /\ Rounds!Rank(ByHand!Status[i + 1]) = i + 1
  BY <1>1, SameRank, StatusRank DEF ByHand!Absent, RoundStatus
<1>5. /\ Rounds!Rank(status[r]) <= i /\ Rounds!Rank(status[r]) \in 0 .. 4
      /\ \A d \in OtherCaller \ {c} : roundTx[d].round # r
  <2>1. Rounds!Rank(status[r]) \in 0 .. 4
    BY <1>2, RankBound DEF ByHandTyped
  <2>2. CASE t.round = r
    BY <1>2, <1>4, <2>1, <2>2 DEF TxAhead, ByHand!Current
  <2>3. CASE t.round # r
    BY <1>2, <1>4, <2>1, <2>3 DEF ByHand!RowFree, ByHand!Current
  <2> QED
    BY <2>1, <2>2, <2>3
<1>6. /\ n \in [round : OtherRound \cup {NoRound}, status : RoundStatus,
                steps : Seq(RoundStep)]
      /\ n.round = r /\ n.status = ByHand!Status[i + 1]
  BY <1>3, <1>4
<1>7. Rounds!Rank(status[r]) <= Rounds!Rank(ByHand!Status[i + 1])
  BY <1>4, <1>5
<1>8. roundTx' = [roundTx EXCEPT ![c] = n] /\ UNCHANGED <<status, roundSeen>>
  BY <1>1
<1> HIDE DEF n
<1> QED
  BY <1>5, <1>6, <1>7, <1>8, ByHandTxStep

LEMMA ByHandCommit ==
  ASSUME ByHandInv, NEW c \in OtherCaller, ByHand!Commit(c)
  PROVE  ByHandInv' /\ Forward
<1> DEFINE t == roundTx[c]
<1>1. /\ status' = [status EXCEPT ![t.round] = t.status]
      /\ roundTx' = [roundTx EXCEPT ![c] = ByHand!Idle]
      /\ UNCHANGED roundSeen
  BY DEF ByHand!Commit, ByHand!hand
<1>2. ByHandTyped /\ TxAhead(c)
  BY DEF ByHandInv
<1>3. \A q \in OtherRound :
        \/ status'[q] = status[q]
        \/ q = t.round /\ q # NoRound /\ status'[q] = t.status
  BY <1>1, <1>2, Instances DEF ByHandTyped, ByHand!NoRoundAssumption
<1>4. Forward
  BY <1>2, <1>3, RankBound DEF Forward, TxAhead, ByHandTyped
<1>5. ByHandTyped'
  <2>1. ByHand!Idle \in [round : OtherRound \cup {NoRound},
                         status : RoundStatus, steps : Seq(RoundStep)]
    BY EmptySeq DEF ByHand!Idle, RoundStatus
  <2>2. t.status \in RoundStatus
    BY <1>2 DEF ByHandTyped
  <2> HIDE DEF t
  <2> QED
    BY <1>1, <1>2, <2>1, <2>2 DEF ByHandTyped
<1>6. /\ roundTx'[c].round = NoRound
      /\ \A d \in OtherCaller \ {c} : roundTx'[d] = roundTx[d]
  BY <1>1, <1>2 DEF ByHandTyped, ByHand!Idle
<1>7. ASSUME NEW d \in OtherCaller
      PROVE  TxAhead(d)'
  <2>1. CASE d = c
    BY <1>6, <2>1 DEF TxAhead
  <2>2. CASE d # c
    <3> DEFINE q == roundTx[d].round
    <3>1. roundTx'[d] = roundTx[d] /\ TxAhead(d)
      BY <1>6, <2>2 DEF ByHandInv
    <3>2. CASE q = NoRound
      BY <3>1, <3>2 DEF TxAhead
    <3>3. CASE q # NoRound
      <4>1. q \in OtherRound /\ q # t.round
        BY <1>2, <2>2, <3>1, <3>3 DEF TxAhead, ByHandTyped
      <4>2. status'[q] = status[q]
        BY <1>3, <4>1
      <4>3. \A e \in OtherCaller \ {d} : roundTx'[e].round # q
        BY <1>6, <3>1, <3>3 DEF TxAhead
      <4> QED
        BY <3>1, <3>3, <4>2, <4>3 DEF TxAhead
    <3> QED
      BY <3>2, <3>3
  <2> QED
    BY <2>1, <2>2
<1> QED
  BY <1>4, <1>5, <1>7 DEF ByHandInv

(* No transaction is open, so none is left ahead of a row that is gone.    *)
LEMMA ByHandReset ==
  ASSUME ByHandInv, ByHand!Reset
  PROVE  ByHandInv' /\ Forward
<1>1. /\ \A c \in OtherCaller : roundTx[c].round = NoRound
      /\ status' = [r \in OtherRound |->
                      IF status[r] = "none" THEN "none" ELSE "gone"]
      /\ UNCHANGED <<roundTx, roundSeen>>
  BY DEF ByHand!Reset, ByHand!Idle, ByHand!hand
<1>2. ByHandTyped'
  BY <1>1 DEF ByHandInv, ByHandTyped, RoundStatus
<1>3. \A c \in OtherCaller : TxAhead(c)'
  BY <1>1 DEF TxAhead
<1>4. Forward
  BY <1>1, StatusRank DEF Forward
<1> QED
  BY <1>2, <1>3, <1>4 DEF ByHandInv

LEMMA ByHandRead ==
  ASSUME ByHandInv, NEW h \in Hand, NEW r \in OtherRound,
         ByHand!ReadByHand(h, r)
  PROVE  ByHandInv' /\ Forward
<1>1. /\ status[r] \in {"open", "locked", "resolved"}
      /\ roundSeen' =
           [roundSeen EXCEPT ![h] = [round |-> r, status |-> status[r]]]
      /\ UNCHANGED <<status, roundTx>>
  BY DEF ByHand!ReadByHand, ByHand!db
<1>2. ByHandTyped'
  BY <1>1 DEF ByHandInv, ByHandTyped
<1>3. \A c \in OtherCaller : TxAhead(c)'
  BY <1>1 DEF TxAhead, ByHandInv
<1>4. Forward
  BY <1>1, StatusKept DEF ByHandInv
<1> QED
  BY <1>2, <1>3, <1>4 DEF ByHandInv

(* The statement waits for the row, and the trigger compares with the      *)
(* row's latest version.                                                   *)
LEMMA ByHandUpdate ==
  ASSUME ByHandInv, NEW h \in Hand, ByHand!UpdateByHand(h)
  PROVE  ByHandInv' /\ Forward
<1> DEFINE r   == roundSeen[h].round
           old == roundSeen[h].status
           new == ByHand!Status[ByHand!Rank(old) + 1]
<1>1. /\ r # NoRound /\ \A c \in OtherCaller : roundTx[c].round # r
      /\ \/ status' = status
         \/ /\ ByHand!TriggerAllows(status[r], new)
            /\ status' = [status EXCEPT ![r] = new]
      /\ roundSeen' = [roundSeen EXCEPT ![h] =
                         [round |-> NoRound, status |-> "none"]]
      /\ UNCHANGED roundTx
  BY DEF ByHand!UpdateByHand
<1>2. /\ ByHandTyped /\ r \in OtherRound
      /\ old \in {"open", "locked", "resolved"}
  BY <1>1 DEF ByHandInv, ByHandTyped
<1>3. new \in RoundStatus
  <2>1. Rounds!Rank(old) \in 1 .. 3
    BY <1>2, StatusRank
  <2>2. Rounds!Rank(old) + 1 \in 1 .. 4
    BY <2>1
  <2> QED
    BY <2>2, SameRank, StatusRank
<1> HIDE DEF new, old
<1>4. \A q \in OtherRound :
        \/ status'[q] = status[q]
        \/ q = r /\ status'[q] = new /\ ByHand!TriggerAllows(status[q], new)
  BY <1>1, <1>2 DEF ByHandTyped
<1>5. Forward
  <2> SUFFICES ASSUME NEW q \in OtherRound
               PROVE  Rounds!Rank(status'[q]) >= Rounds!Rank(status[q])
    BY DEF Forward
  <2>1. Rounds!Rank(status[q]) \in 0 .. 4 /\ Rounds!Rank(new) \in 0 .. 4
    BY <1>2, <1>3, RankBound DEF ByHandTyped
  <2>2. ByHand!TriggerAllows(status[q], new) =>
          Rounds!Rank(new) >= Rounds!Rank(status[q])
    BY <2>1, SameRank DEF ByHand!TriggerAllows
  <2> QED
    BY <1>4, <2>1, <2>2
<1>6. ByHandTyped'
  BY <1>1, <1>2, <1>3 DEF ByHandTyped
<1>7. \A c \in OtherCaller : TxAhead(c)'
  BY <1>1, <1>2, <1>4 DEF ByHandInv, ByHandTyped, TxAhead
<1> QED
  BY <1>5, <1>6, <1>7 DEF ByHandInv

LEMMA ByHandStep ==
  ASSUME ByHandInv, [ByHand!Next]_rounds
  PROVE  ByHandInv' /\ Forward
<1>1. CASE UNCHANGED rounds
  <2>1. Forward
    BY <1>1, StatusKept DEF rounds, ByHandInv
  <2> QED
    BY <1>1, <2>1 DEF rounds, ByHandInv, ByHandTyped, TxAhead
<1>2. CASE ByHand!Next
  <2>1. ASSUME NEW c \in OtherCaller, NEW r \in OtherRound,
               ByHand!RefuseStep(c, r)
        PROVE  ByHandInv' /\ Forward
    BY <2>1, ByHandRollBack DEF ByHand!RefuseStep
  <2>2. ASSUME NEW c \in OtherCaller, ByHand!Abort(c)
        PROVE  ByHandInv' /\ Forward
    BY <2>2, ByHandRollBack DEF ByHand!Abort
  <2> QED
    BY <1>2, <2>1, <2>2, ByHandCreate, ByHandTakeStep, ByHandCommit,
       ByHandReset, ByHandRead, ByHandUpdate DEF ByHand!Next
<1> QED
  BY <1>1, <1>2

(* Callers of the service alone: only a commit writes a status.            *)
LEMMA RoundsForward ==
  ASSUME RoundsInv, [Rounds!Next]_rounds
  PROVE  Forward
<1>0. \A r \in OtherRound : r \in Round /\ Rounds!Rank(status[r]) \in 0 .. 4
  BY Instances, RankBound DEF RoundsInv, RoundsTyped
<1>1. ASSUME NEW c \in Caller, Rounds!Commit(c)
      PROVE  Forward
  <2> DEFINE t == roundTx[c]
  <2>1. status' = [status EXCEPT ![t.round] = t.status] /\ RoundsTyped
          /\ TxRecorded(c)
    BY <1>1 DEF Rounds!Commit, RoundsInv
  <2>2. \A q \in OtherRound :
          \/ status'[q] = status[q]
          \/ q = t.round /\ q # NoRound /\ status'[q] = t.status
    BY <1>0, <2>1, Instances DEF RoundsTyped, Rounds!NoRoundAssumption
  <2>3. t.round # NoRound =>
          Rounds!Rank(status[t.round]) <= Rounds!Rank(t.status)
    BY <2>1 DEF TxRecorded
  <2>4. \A q \in OtherRound : Rounds!Rank(status'[q]) >= Rounds!Rank(status[q])
    <3> SUFFICES ASSUME NEW q \in OtherRound
                 PROVE  Rounds!Rank(status'[q]) >= Rounds!Rank(status[q])
      OBVIOUS
    <3>1. CASE status'[q] = status[q]
      BY <1>0, <3>1
    <3>2. CASE q = t.round /\ q # NoRound /\ status'[q] = t.status
      <4>1. t.status \in RoundStatus
        BY <2>1 DEF RoundsTyped
      <4>2. Rounds!Rank(t.status) \in 0 .. 4
        BY <4>1, HistoryLength
      <4> QED
        BY <1>0, <2>3, <3>2, <4>2
    <3> QED
      BY <2>2, <3>1, <3>2
  <2> QED
    BY <2>4 DEF Forward
<1>2. CASE UNCHANGED status
  BY <1>0, <1>2 DEF Forward
<1> QED
  BY <1>1, <1>2 DEF rounds, Rounds!Next, Rounds!CreateRound, Rounds!RefuseStep,
     Rounds!TakeStep, Rounds!RollBack, Rounds!Abort, Rounds!Reset, Rounds!Query,
     Rounds!Answer, Rounds!db

LEMMA ByHandPart ==
  /\ Init => (on = "by hand" => ByHand!Init)
  /\ [Next]_vars => (on = "by hand" => [ByHand!Next]_rounds)
BY DEF Init, Next, vars

(* A status goes forward one step at a time, whoever writes it             *)
(* (002_triggers.sql:40-60).                                               *)
THEOREM RoundsNeverGoBack == Spec => Linear
<1> DEFINE Inv == IF on = "by hand" THEN ByHandInv ELSE RoundsInv
<1>1. Init => Inv
  BY PartsInit, RoundsInit, ByHandPart, ByHandInit
<1>2. Inv /\ [Next]_vars => Inv'
  BY PartsStep, RoundsStep, ByHandPart, ByHandStep
<1>3. Inv /\ [Next]_vars => Forward
  BY PartsStep, RoundsForward, ByHandPart, ByHandStep
<1>4. Forward => [\A r \in OtherRound :
                    \/ ByHand!Rank(status'[r]) >= ByHand!Rank(status[r])
                    \/ status'[r] = "gone"]_ByHand!vars
  BY SameRank DEF Forward
<1> QED
  BY <1>1, <1>2, <1>3, <1>4, PTL DEF Spec, Linear, ByHand!Linear

-----------------------------------------------------------------------------
(* The storm endpoint.  Its queue is a sequence without repetitions.       *)
Distinct(q) ==
  /\ q \in Seq(Delivery)
  /\ \A i, j \in 1 .. Len(q) : q[i] = q[j] => i = j

LEMMA JoinQueue ==
  ASSUME NEW q, Distinct(q), NEW d \in Delivery,
         \A i \in 1 .. Len(q) : q[i] # d
  PROVE  /\ Distinct(Append(q, d))
         /\ \A k \in 1 .. Len(Append(q, d)) :
              Append(q, d)[k] = d \/ \E j \in 1 .. Len(q) :
                Append(q, d)[k] = q[j]
<1> DEFINE a == Append(q, d)
           n == Len(q)
<1>1. q \in Seq(Delivery) /\ n \in Nat
  BY LenProperties DEF Distinct
<1>2. /\ a \in Seq(Delivery) /\ Len(a) = n + 1 /\ a[n + 1] = d
      /\ \A i \in 1 .. n : a[i] = q[i]
  BY <1>1, AppendProperties
<1> HIDE DEF a, n
<1>3. \A k \in 1 .. n + 1 : k = n + 1 \/ k \in 1 .. n
  BY <1>1
<1>4. \A k \in 1 .. Len(a) : a[k] = d \/ \E j \in 1 .. n : a[k] = q[j]
  BY <1>2, <1>3
<1>5. \A i, j \in 1 .. Len(a) : a[i] = a[j] => i = j
  BY <1>2, <1>3 DEF Distinct, n
<1> QED
  BY <1>2, <1>4, <1>5 DEF Distinct, a, n

LEMMA LeaveQueue ==
  ASSUME NEW q, Distinct(q), NEW i \in 1 .. Len(q)
  PROVE  /\ Distinct(Storm!RemoveAt(q, i))
         /\ \A k \in 1 .. Len(Storm!RemoveAt(q, i)) :
              \E j \in 1 .. Len(q) : j # i /\ Storm!RemoveAt(q, i)[k] = q[j]
<1> DEFINE n == Len(q)
           a == SubSeq(q, 1, i - 1)
           b == SubSeq(q, i + 1, n)
<1>1. q \in Seq(Delivery) /\ n \in Nat /\ i \in 1 .. n
  BY LenProperties DEF Distinct
<1>2. \A k \in 1 .. n : q[k] \in Delivery
  BY <1>1, ElementOfSeq
<1> HIDE DEF n
<1>3. /\ a \in Seq(Delivery) /\ Len(a) = i - 1
      /\ \A k \in 1 .. i - 1 : a[k] = q[k]
  <2>1. 1 \in Int /\ i - 1 \in Int /\ \A k \in 1 .. i - 1 : q[k] \in Delivery
    BY <1>1, <1>2
  <2>2. /\ SubSeq(q, 1, i - 1) \in Seq(Delivery)
        /\ Len(SubSeq(q, 1, i - 1)) = IF 1 <= i - 1 THEN i - 1 - 1 + 1 ELSE 0
        /\ \A k \in 1 .. i - 1 - 1 + 1 : SubSeq(q, 1, i - 1)[k] = q[1 + k - 1]
    BY <2>1, SubSeqProperties
  <2> QED
    BY <1>1, <2>2
<1>4. /\ b \in Seq(Delivery) /\ Len(b) = n - i
      /\ \A k \in 1 .. n - i : b[k] = q[i + k]
  <2>1. i + 1 \in Int /\ n \in Int /\ \A k \in i + 1 .. n : q[k] \in Delivery
    BY <1>1, <1>2
  <2>2. /\ SubSeq(q, i + 1, n) \in Seq(Delivery)
        /\ Len(SubSeq(q, i + 1, n)) = IF i + 1 <= n THEN n - (i + 1) + 1 ELSE 0
        /\ \A k \in 1 .. n - (i + 1) + 1 :
             SubSeq(q, i + 1, n)[k] = q[i + 1 + k - 1]
    BY <2>1, SubSeqProperties
  <2>3. /\ (IF i + 1 <= n THEN n - (i + 1) + 1 ELSE 0) = n - i
        /\ n - (i + 1) + 1 = n - i
        /\ \A k \in 1 .. n - i : i + 1 + k - 1 = i + k
    BY <1>1
  <2> QED
    BY <2>2, <2>3
<1> HIDE DEF a, b
<1>5. /\ a \o b \in Seq(Delivery) /\ Len(a \o b) = n - 1
      /\ \A k \in 1 .. n - 1 :
           (a \o b)[k] = IF k <= i - 1 THEN q[k] ELSE q[k + 1]
  <2>1. /\ a \o b \in Seq(Delivery)
        /\ Len(a \o b) = Len(a) + Len(b)
        /\ \A k \in 1 .. Len(a) + Len(b) :
             (a \o b)[k] = IF k <= Len(a) THEN a[k] ELSE b[k - Len(a)]
    BY <1>3, <1>4, ConcatProperties
  <2>2. Len(a) + Len(b) = n - 1
    BY <1>1, <1>3, <1>4
  <2>3. ASSUME NEW k \in 1 .. n - 1
        PROVE  (a \o b)[k] = IF k <= i - 1 THEN q[k] ELSE q[k + 1]
    <3>1. CASE k <= i - 1
      <4>1. k \in 1 .. i - 1
        BY <1>1, <3>1
      <4> QED
        BY <1>3, <2>1, <2>2, <3>1, <4>1
    <3>2. CASE ~(k <= i - 1)
      <4>1. k - (i - 1) \in 1 .. n - i /\ i + (k - (i - 1)) = k + 1
        BY <1>1, <3>2
      <4>2. b[k - (i - 1)] = q[k + 1]
        BY <1>4, <4>1
      <4> QED
        BY <1>3, <2>1, <2>2, <3>2, <4>2
    <3> QED
      BY <3>1, <3>2
  <2> QED
    BY <2>1, <2>2, <2>3
<1>6. Storm!RemoveAt(q, i) = a \o b
  BY DEF Storm!RemoveAt, a, b, n
<1> DEFINE c == a \o b
<1>7. \A k \in 1 .. n - 1 :
        \E j \in 1 .. n : j # i /\ c[k] = q[j] /\ (j = k \/ j = k + 1)
                          /\ (j = k <=> k <= i - 1)
  <2> SUFFICES ASSUME NEW k \in 1 .. n - 1
               PROVE  \E j \in 1 .. n : /\ j # i /\ c[k] = q[j]
                                        /\ j = k \/ j = k + 1
                                        /\ j = k <=> k <= i - 1
    OBVIOUS
  <2>1. c[k] = IF k <= i - 1 THEN q[k] ELSE q[k + 1]
    BY <1>5
  <2>2. CASE k <= i - 1
    <3>1. k \in 1 .. n /\ k # i
      BY <1>1, <2>2
    <3> QED
      BY <2>1, <2>2, <3>1
  <2>3. CASE ~(k <= i - 1)
    <3>1. k + 1 \in 1 .. n /\ k + 1 # i /\ k + 1 # k
      BY <1>1, <2>3
    <3> QED
      BY <2>1, <2>3, <3>1
  <2> QED
    BY <2>2, <2>3
<1>8. c \in Seq(Delivery) /\ Len(c) = n - 1
  BY <1>5
<1> HIDE DEF c
<1>9. \A k, m \in 1 .. Len(c) : c[k] = c[m] => k = m
  <2> SUFFICES ASSUME NEW k \in 1 .. n - 1, NEW m \in 1 .. n - 1, c[k] = c[m]
               PROVE  k = m
    BY <1>8
  <2>1. PICK j \in 1 .. n : /\ c[k] = q[j] /\ (j = k \/ j = k + 1)
                            /\ (j = k <=> k <= i - 1)
    BY <1>7
  <2>2. PICK l \in 1 .. n : /\ c[m] = q[l] /\ (l = m \/ l = m + 1)
                            /\ (l = m <=> m <= i - 1)
    BY <1>7
  <2>3. j = l
    BY <2>1, <2>2 DEF Distinct, n
  <2> QED
    BY <1>1, <2>1, <2>2, <2>3
<1>10. Distinct(c)
  BY <1>8, <1>9 DEF Distinct
<1>11. \A k \in 1 .. Len(c) : \E j \in 1 .. n : j # i /\ c[k] = q[j]
  BY <1>7, <1>8
<1> QED
  BY <1>6, <1>10, <1>11 DEF c, n

(* Who is served leaves the queue, and nobody else does.                   *)
LEMMA ServeQueue ==
  ASSUME NEW q, Distinct(q), q # <<>>
  PROVE  /\ Head(q) = q[1] /\ 1 \in 1 .. Len(q)
         /\ Distinct(Tail(q))
         /\ \A k \in 1 .. Len(Tail(q)) :
              \E j \in 1 .. Len(q) : j # 1 /\ Tail(q)[k] = q[j]
<1> DEFINE n == Len(q)
           t == Tail(q)
<1>1. q \in Seq(Delivery) /\ n \in Nat \ {0}
  BY LenProperties DEF Distinct
<1>2. /\ t \in Seq(Delivery) /\ Len(t) = n - 1
      /\ \A k \in 1 .. Len(t) : t[k] = q[k + 1]
  BY <1>1, HeadTailProperties
<1>3. Head(q) = q[1]
  BY <1>1
<1> HIDE DEF n, t
<1>4. \A k \in 1 .. n - 1 : k + 1 \in 1 .. n /\ k + 1 # 1
  BY <1>1
<1>5. \A k \in 1 .. Len(t) : \E j \in 1 .. n : j # 1 /\ t[k] = q[j]
  BY <1>2, <1>4
<1>6. \A k, m \in 1 .. Len(t) : t[k] = t[m] => k = m
  <2> SUFFICES ASSUME NEW k \in 1 .. n - 1, NEW m \in 1 .. n - 1, t[k] = t[m]
               PROVE  k = m
    BY <1>2
  <2>1. k + 1 = m + 1
    BY <1>2, <1>4 DEF Distinct, n
  <2> QED
    BY <2>1
<1>7. 1 \in 1 .. n
  BY <1>1
<1> QED
  BY <1>2, <1>3, <1>5, <1>6, <1>7 DEF Distinct, n, t

StormPlace == {"idle", "sent", "check", "checking", "connect", "reserve",
               "post", "commit", "done"}

StormReport == [posted : Nat, deduplicated : Nat, failed : Nat,
                deliveries : Int, ids : SUBSET Nat]

StormAnswer == [kind : Storm!Kind, id : Nat]

StormTyped ==
  /\ stormPc \in [Delivery -> StormPlace]
  /\ answer \in [Delivery -> StormAnswer]
  /\ entry \in [{EventOf[s] : s \in Storms} -> Nat]
  /\ stormId \in Nat /\ holder \subseteq Delivery
  /\ report \in [Storms -> Seq(StormReport)]
  /\ count \in Nat /\ before \in [Storms -> Nat]

QueueWaits ==
  /\ Distinct(queue)
  /\ \A i \in 1 .. Len(queue) : stormPc[queue[i]] \in {"check", "connect"}

Credited(d) == answer[d].id = entry[Storm!Event(d)] /\ answer[d].id # 0

(* The event of a holder has no entry yet and no other holder; whoever has *)
(* an entry to name names the event's, and one of them at most posted it.  *)
DeliveryOk(d) ==
  /\ report[StormOf[d]] = <<>> => stormPc[d] = "idle"
  /\ d \in holder =>
       /\ stormPc[d] \in {"post", "commit"}
       /\ entry[Storm!Event(d)] = 0
       /\ \A o \in holder : Storm!Event(o) = Storm!Event(d) => o = d
  /\ stormPc[d] = "post" => d \in holder
  /\ stormPc[d] = "commit" /\ d \in holder =>
       answer[d].kind = "posted" /\ answer[d].id # 0
  /\ stormPc[d] = "commit" /\ d \notin holder =>
       answer[d].kind = "deduplicated" /\ Credited(d)
  /\ stormPc[d] = "done" /\ answer[d].kind \in {"posted", "deduplicated"} =>
       Credited(d)
  /\ stormPc[d] = "done" /\ answer[d].kind = "posted" =>
       \A o \in Delivery \ {d} :
         stormPc[o] = "done" /\ Storm!Event(o) = Storm!Event(d) =>
           answer[o].kind # "posted"

DeliveriesInv ==
  StormTyped /\ QueueWaits /\ \A d \in Delivery : DeliveryOk(d)

LEMMA StormEvent ==
  ASSUME NEW d \in Delivery
  PROVE  /\ StormOf[d] \in Storms
         /\ Storm!Event(d) \in {EventOf[s] : s \in Storms}
BY Instances DEF Storm!StormAssumption, Storm!Event

LEMMA StormInit ==
  ASSUME Storm!Init
  PROVE  DeliveriesInv
<1>1. StormTyped
  BY EmptySeq DEF Storm!Init, StormTyped, StormPlace, StormAnswer,
     Storm!NoAnswer, Storm!Kind
<1>2. QueueWaits
  BY EmptySeq DEF Storm!Init, QueueWaits, Distinct
<1>3. \A d \in Delivery : DeliveryOk(d)
  BY DEF Storm!Init, DeliveryOk
<1> QED
  BY <1>1, <1>2, <1>3 DEF DeliveriesInv

(* One delivery moves, and no entry or report comes.                       *)
LEMMA DeliveryMoves ==
  ASSUME DeliveriesInv, NEW d \in Delivery,
         NEW p \in StormPlace, stormPc' = [stormPc EXCEPT ![d] = p],
         NEW a \in StormAnswer, answer' = [answer EXCEPT ![d] = a],
         holder' = holder \/ holder' = holder \cup {d}
             \/ holder' = holder \ {d},
         UNCHANGED <<entry, report>>, stormId' \in Nat,
         count' \in Nat, before' = before,
         QueueWaits', DeliveryOk(d)'
  PROVE  DeliveriesInv'
<1>1. StormTyped'
  BY DEF DeliveriesInv, StormTyped
<1>2. /\ stormPc'[d] = p /\ answer'[d] = a
      /\ \A o \in Delivery \ {d} :
           /\ stormPc'[o] = stormPc[o] /\ answer'[o] = answer[o]
           /\ o \in holder' <=> o \in holder
  BY DEF DeliveriesInv, StormTyped
<1>3. ASSUME NEW o \in Delivery, o # d
      PROVE  DeliveryOk(o)'
  <2>1. DeliveryOk(o)
    BY DEF DeliveriesInv
  <2>2. /\ report'[StormOf[o]] = <<>> => stormPc'[o] = "idle"
        /\ stormPc'[o] = "post" => o \in holder'
        /\ stormPc'[o] = "commit" /\ o \in holder' =>
             answer'[o].kind = "posted" /\ answer'[o].id # 0
        /\ stormPc'[o] = "commit" /\ o \notin holder' =>
             answer'[o].kind = "deduplicated" /\ Credited(o)'
        /\ stormPc'[o] = "done"
             /\ answer'[o].kind \in {"posted", "deduplicated"} =>
             Credited(o)'
    BY <1>2, <1>3, <2>1 DEF DeliveryOk, Credited
  <2>3. ASSUME o \in holder'
        PROVE  /\ stormPc'[o] \in {"post", "commit"}
               /\ entry'[Storm!Event(o)] = 0
               /\ \A x \in holder' : Storm!Event(x) = Storm!Event(o) => x = o
    <3>1. /\ o \in holder /\ stormPc[o] \in {"post", "commit"}
          /\ entry[Storm!Event(o)] = 0
          /\ \A x \in holder : Storm!Event(x) = Storm!Event(o) => x = o
      BY <1>2, <1>3, <2>1, <2>3 DEF DeliveryOk
    <3>2. ASSUME d \in holder', Storm!Event(d) = Storm!Event(o)
          PROVE  FALSE
      BY <1>3, <2>3, <3>2 DEF DeliveryOk, Storm!Event
    <3>3. \A x \in holder' : x = d \/ x \in holder
      OBVIOUS
    <3> QED
      BY <1>2, <1>3, <3>1, <3>2, <3>3
  <2>4. ASSUME stormPc'[o] = "done", answer'[o].kind = "posted",
               NEW x \in Delivery \ {o}, stormPc'[x] = "done",
               Storm!Event(x) = Storm!Event(o)
        PROVE  answer'[x].kind # "posted"
    <3>1. CASE x = d
      BY <1>3, <2>4, <3>1 DEF DeliveryOk, Storm!Event
    <3>2. CASE x # d
      BY <1>2, <1>3, <2>1, <2>4, <3>2 DEF DeliveryOk
    <3> QED
      BY <3>1, <3>2
  <2> QED
    BY <2>2, <2>3, <2>4 DEF DeliveryOk, Storm!Event
<1> QED
  BY <1>1, <1>3 DEF DeliveriesInv

(* The queue when d, which is not in it, moves to p.                       *)
LEMMA QueueKept ==
  ASSUME DeliveriesInv, NEW d \in Delivery, NEW p \in StormPlace,
         stormPc' = [stormPc EXCEPT ![d] = p],
         stormPc[d] \notin {"check", "connect"},
         \/ queue' = queue
         \/ p \in {"check", "connect"} /\ queue' = Append(queue, d)
  PROVE  QueueWaits'
<1>1. /\ Distinct(queue) /\ stormPc'[d] = p
      /\ \A o \in Delivery \ {d} : stormPc'[o] = stormPc[o]
      /\ \A i \in 1 .. Len(queue) :
           stormPc[queue[i]] \in {"check", "connect"} /\ queue[i] \in Delivery
  BY ElementOfSeq DEF DeliveriesInv, StormTyped, QueueWaits, Distinct
<1>2. \A i \in 1 .. Len(queue) :
        queue[i] # d /\ stormPc'[queue[i]] \in {"check", "connect"}
  BY <1>1
<1>3. CASE queue' = queue
  BY <1>1, <1>2, <1>3 DEF QueueWaits, Distinct
<1>4. CASE p \in {"check", "connect"} /\ queue' = Append(queue, d)
  <2>1. /\ Distinct(queue')
        /\ \A k \in 1 .. Len(queue') :
             queue'[k] = d \/ \E j \in 1 .. Len(queue) : queue'[k] = queue[j]
    BY <1>1, <1>2, <1>4, JoinQueue
  <2>2. \A k \in 1 .. Len(queue') : stormPc'[queue'[k]] \in {"check", "connect"}
    BY <1>1, <1>2, <1>4, <2>1
  <2> QED
    BY <2>1, <2>2 DEF QueueWaits, Distinct
<1> QED
  BY <1>3, <1>4

(* The queue when the one at position i leaves it.                         *)
LEMMA QueueLeft ==
  ASSUME DeliveriesInv, NEW i \in 1 .. Len(queue), NEW p \in StormPlace,
         stormPc' = [stormPc EXCEPT ![queue[i]] = p],
         Distinct(queue'),
         \A k \in 1 .. Len(queue') :
           \E j \in 1 .. Len(queue) : j # i /\ queue'[k] = queue[j]
  PROVE  QueueWaits'
<1>1. /\ Distinct(queue) /\ DOMAIN stormPc = Delivery
      /\ \A j \in 1 .. Len(queue) :
           /\ stormPc[queue[j]] \in {"check", "connect"}
                                    /\ queue[j] \in Delivery
  BY ElementOfSeq DEF DeliveriesInv, StormTyped, QueueWaits, Distinct
<1>2. \A j \in 1 .. Len(queue) : j # i => queue[j] # queue[i]
  BY <1>1 DEF Distinct
<1>3. \A j \in 1 .. Len(queue) : j # i => stormPc'[queue[j]] = stormPc[queue[j]]
  BY <1>1, <1>2 DEF DeliveriesInv, StormTyped
<1>4. \A k \in 1 .. Len(queue') : stormPc'[queue'[k]] \in {"check", "connect"}
  BY <1>1, <1>3
<1> QED
  BY <1>4 DEF QueueWaits, Distinct

LEMMA StartStormStep ==
  ASSUME DeliveriesInv, NEW s \in Storms, Storm!StartStorm(s)
  PROVE  DeliveriesInv'
<1>1. /\ report[s] = <<>>
      /\ report' = [report EXCEPT ![s] = <<Storm!NoReport>>]
      /\ before' = [before EXCEPT ![s] = count]
      /\ stormPc' = [d \in Delivery |->
                       IF StormOf[d] = s THEN "sent" ELSE stormPc[d]]
      /\ UNCHANGED <<queue, answer, holder, entry, stormId, count>>
  BY DEF Storm!StartStorm, Storm!database
<1>2. StormTyped /\ QueueWaits
  BY DEF DeliveriesInv
<1>3. StormTyped'
  <2>1. <<Storm!NoReport>> \in Seq(StormReport)
    BY DEF Storm!NoReport, StormReport
  <2>2. report' \in [Storms -> Seq(StormReport)]
    BY <1>1, <1>2, <2>1 DEF StormTyped
  <2>3. stormPc' \in [Delivery -> StormPlace]
    BY <1>1, <1>2 DEF StormTyped, StormPlace
  <2> QED
    BY <1>1, <1>2, <2>2, <2>3 DEF StormTyped
<1>4. \A d \in Delivery : StormOf[d] = s => stormPc[d] = "idle"
  BY <1>1 DEF DeliveriesInv, DeliveryOk
<1>5. QueueWaits'
  <2>1. \A i \in 1 .. Len(queue) : queue[i] \in Delivery
    BY <1>2, ElementOfSeq DEF QueueWaits, Distinct
  <2> QED
    BY <1>1, <1>2, <1>4, <2>1 DEF QueueWaits, Distinct
<1>6. /\ report'[s] # <<>>
      /\ \A t \in Storms \ {s} : report'[t] = report[t]
  BY <1>1, <1>2 DEF StormTyped
<1>7. ASSUME NEW d \in Delivery
      PROVE  DeliveryOk(d)'
  <2>1. DeliveryOk(d) /\ StormOf[d] \in Storms
    BY StormEvent DEF DeliveriesInv
  <2>2. CASE StormOf[d] = s
    <3>1. stormPc'[d] = "sent" /\ d \notin holder
      BY <1>1, <1>4, <2>1, <2>2 DEF DeliveryOk
    <3> QED
      BY <1>1, <1>6, <2>2, <3>1 DEF DeliveryOk
  <2>3. CASE StormOf[d] # s
    <3>1. /\ stormPc'[d] = stormPc[d]
          /\ \A o \in Delivery : stormPc'[o] = "done" => stormPc[o] = "done"
      BY <1>1, <2>3
    <3> QED
      BY <1>1, <1>6, <2>1, <2>3, <3>1 DEF DeliveryOk, Credited, Storm!Event
  <2> QED
    BY <2>2, <2>3
<1> QED
  BY <1>3, <1>5, <1>7 DEF DeliveriesInv

LEMMA ArriveStep ==
  ASSUME DeliveriesInv, NEW d \in Delivery, Storm!Arrive(d)
  PROVE  DeliveriesInv'
<1>1. /\ stormPc[d] = "sent" /\ stormPc' = [stormPc EXCEPT ![d] = "check"]
      /\ count' = count + 1 /\ queue' = Append(queue, d)
      /\ UNCHANGED <<answer, holder, entry, stormId, report, before>>
  BY DEF Storm!Arrive, Storm!Goto, Storm!database
<1>2. StormTyped /\ DeliveryOk(d) /\ "check" \in StormPlace
  BY DEF DeliveriesInv, StormPlace
<1>3. QueueWaits'
  BY <1>1, <1>2, QueueKept
<1>4. DeliveryOk(d)'
  BY <1>1, <1>2 DEF StormTyped, DeliveryOk
<1>5. answer[d] \in StormAnswer /\ answer' = [answer EXCEPT ![d] = answer[d]]
  BY <1>1, <1>2 DEF StormTyped
<1>6. count' \in Nat /\ stormId' \in Nat
  BY <1>1, <1>2 DEF StormTyped
<1> QED
  BY <1>1, <1>2, <1>3, <1>4, <1>5, <1>6, DeliveryMoves

LEMMA GrantStep ==
  ASSUME DeliveriesInv, NEW d \in Delivery, Storm!Grant(d)
  PROVE  DeliveriesInv'
<1> DEFINE p == IF stormPc[d] = "check" THEN "checking" ELSE "reserve"
<1>1. /\ queue # <<>> /\ d = Head(queue) /\ queue' = Tail(queue)
      /\ stormPc' = [stormPc EXCEPT ![d] = p]
      /\ UNCHANGED <<answer, holder, entry, stormId, report, count, before>>
  BY DEF Storm!Grant, Storm!Goto, Storm!database, Storm!client
<1>2. StormTyped /\ DeliveryOk(d) /\ p \in StormPlace
  BY DEF DeliveriesInv, StormPlace
<1>3. /\ d = queue[1] /\ 1 \in 1 .. Len(queue) /\ Distinct(queue')
      /\ \A k \in 1 .. Len(queue') :
           \E j \in 1 .. Len(queue) : j # 1 /\ queue'[k] = queue[j]
  BY <1>1, ServeQueue DEF DeliveriesInv, QueueWaits
<1>4. stormPc[d] \in {"check", "connect"}
  BY <1>3 DEF DeliveriesInv, QueueWaits
<1>5. DeliveryOk(d)'
  BY <1>1, <1>2, <1>4 DEF StormTyped, DeliveryOk
<1> HIDE DEF p
<1>6. QueueWaits'
  BY <1>1, <1>2, <1>3, QueueLeft
<1>7. answer[d] \in StormAnswer /\ answer' = [answer EXCEPT ![d] = answer[d]]
  BY <1>1, <1>2 DEF StormTyped
<1>8. count' \in Nat /\ stormId' \in Nat
  BY <1>1, <1>2 DEF StormTyped
<1> QED
  BY <1>1, <1>2, <1>5, <1>6, <1>7, <1>8, DeliveryMoves

LEMMA FailedAnswer ==
  Storm!Failed \in StormAnswer /\ Storm!Failed.kind = "failed"
BY DEF Storm!Failed, StormAnswer, Storm!Kind

LEMMA CheckAccountStep ==
  ASSUME DeliveriesInv, NEW d \in Delivery, Storm!CheckAccount(d)
  PROVE  DeliveriesInv'
<1>1. /\ stormPc[d] = "checking"
      /\ UNCHANGED <<holder, entry, stormId, report, count, before>>
  BY DEF Storm!CheckAccount, Storm!database, Storm!client
<1>2. StormTyped /\ DeliveryOk(d)
  BY DEF DeliveriesInv
<1>3. count' \in Nat /\ stormId' \in Nat
  BY <1>1, <1>2 DEF StormTyped
<1>4. CASE /\ stormPc' = [stormPc EXCEPT ![d] = "connect"]
           /\ queue' = Append(queue, d) /\ answer' = answer
  <2>1. QueueWaits' /\ "connect" \in StormPlace
    BY <1>1, <1>4, QueueKept DEF StormPlace
  <2>2. DeliveryOk(d)'
    BY <1>1, <1>2, <1>4 DEF StormTyped, DeliveryOk
  <2>3. answer[d] \in StormAnswer /\ answer' = [answer EXCEPT ![d] = answer[d]]
    BY <1>2, <1>4 DEF StormTyped
  <2> QED
    BY <1>1, <1>3, <1>4, <2>1, <2>2, <2>3, DeliveryMoves
<1>5. CASE /\ stormPc' = [stormPc EXCEPT ![d] = "done"]
           /\ answer' = [answer EXCEPT ![d] = Storm!Failed] /\ queue' = queue
  <2>1. QueueWaits' /\ "done" \in StormPlace
    BY <1>1, <1>5, QueueKept DEF StormPlace
  <2>2. DeliveryOk(d)'
    BY <1>1, <1>2, <1>5, FailedAnswer DEF StormTyped, DeliveryOk
  <2> QED
    BY <1>1, <1>3, <1>5, <2>1, <2>2, FailedAnswer, DeliveryMoves
<1> QED
  BY <1>4, <1>5 DEF Storm!CheckAccount, Storm!Goto, Storm!Answer

(* Nobody else holds the event, or it has an entry to name.                *)
LEMMA ReserveStep ==
  ASSUME DeliveriesInv, NEW d \in Delivery, Storm!Reserve(d)
  PROVE  DeliveriesInv'
<1> DEFINE e == entry[Storm!Event(d)]
           dup == [kind |-> "deduplicated", id |-> e]
<1>1. /\ stormPc[d] = "reserve"
      /\ \A o \in holder : Storm!Event(o) # Storm!Event(d)
      /\ UNCHANGED <<queue, entry, stormId, report, count, before>>
  BY DEF Storm!Reserve, Storm!Reservable, Storm!client
<1>2. StormTyped /\ DeliveryOk(d)
  BY DEF DeliveriesInv
<1>3. count' \in Nat /\ stormId' \in Nat
  BY <1>1, <1>2 DEF StormTyped
<1>4. CASE /\ e = 0 /\ holder' = holder \cup {d} /\ answer' = answer
           /\ stormPc' = [stormPc EXCEPT ![d] = "post"]
  <2>1. QueueWaits' /\ "post" \in StormPlace
    BY <1>1, <1>4, QueueKept DEF StormPlace
  <2>2. DeliveryOk(d)'
    BY <1>1, <1>2, <1>4 DEF StormTyped, DeliveryOk, Storm!Event
  <2>3. answer[d] \in StormAnswer /\ answer' = [answer EXCEPT ![d] = answer[d]]
    BY <1>2, <1>4 DEF StormTyped
  <2> QED
    BY <1>1, <1>3, <1>4, <2>1, <2>2, <2>3, DeliveryMoves
<1>5. CASE /\ e # 0 /\ holder' = holder /\ answer' = [answer EXCEPT ![d] = dup]
           /\ stormPc' = [stormPc EXCEPT ![d] = "commit"]
  <2>1. QueueWaits' /\ "commit" \in StormPlace
    BY <1>1, <1>5, QueueKept DEF StormPlace
  <2>2. dup \in StormAnswer /\ dup.kind = "deduplicated" /\ dup.id = e
    BY <1>2, StormEvent DEF StormTyped, StormAnswer, Storm!Kind
  <2>3. stormPc'[d] = "commit" /\ answer'[d] = dup /\ d \notin holder'
    BY <1>1, <1>2, <1>5 DEF StormTyped, DeliveryOk
  <2>4. DeliveryOk(d)'
    <3> HIDE DEF dup
    <3> QED
      BY <1>1, <1>2, <1>5, <2>2, <2>3 DEF DeliveryOk, Credited, Storm!Event
  <2> HIDE DEF dup
  <2> QED
    BY <1>1, <1>3, <1>5, <2>1, <2>2, <2>4, DeliveryMoves
<1> QED
  BY <1>4, <1>5 DEF Storm!Reserve, Storm!Goto, Storm!Answer

LEMMA PostStep ==
  ASSUME DeliveriesInv, NEW d \in Delivery, Storm!Post(d)
  PROVE  DeliveriesInv'
<1> DEFINE posted == [kind |-> "posted", id |-> stormId']
<1>1. /\ stormPc[d] = "post" /\ stormPc' = [stormPc EXCEPT ![d] = "commit"]
      /\ stormId' = stormId + 1 /\ answer' = [answer EXCEPT ![d] = posted]
      /\ UNCHANGED <<queue, holder, entry, report, count, before>>
  BY DEF Storm!Post, Storm!Goto, Storm!Answer, Storm!client
<1>2. StormTyped /\ DeliveryOk(d) /\ "commit" \in StormPlace
  BY DEF DeliveriesInv, StormPlace
<1>3. count' \in Nat /\ stormId' \in Nat \ {0}
  BY <1>1, <1>2 DEF StormTyped
<1>4. posted \in StormAnswer /\ posted.kind = "posted" /\ posted.id # 0
  BY <1>3 DEF StormAnswer, Storm!Kind
<1> HIDE DEF posted
<1>5. QueueWaits'
  BY <1>1, <1>2, QueueKept
<1>6. DeliveryOk(d)'
  BY <1>1, <1>2, <1>4 DEF StormTyped, DeliveryOk, Storm!Event
<1> QED
  BY <1>1, <1>2, <1>3, <1>4, <1>5, <1>6, DeliveryMoves

(* The holder's id becomes the entry of its event.  Nobody can have named  *)
(* an entry of that event before, for there was none.                      *)
LEMMA CommitHolderStep ==
  ASSUME DeliveriesInv, NEW d \in Delivery, d \in holder, stormPc[d] = "commit",
         stormPc' = [stormPc EXCEPT ![d] = "done"], holder' = holder \ {d},
         entry' = [entry EXCEPT ![Storm!Event(d)] = answer[d].id],
         UNCHANGED <<queue, answer, stormId, report, count, before>>
  PROVE  DeliveriesInv'
<1> DEFINE e == Storm!Event(d)
<1>1. StormTyped /\ DeliveryOk(d) /\ e \in {EventOf[s] : s \in Storms}
  BY StormEvent DEF DeliveriesInv
<1>2. /\ answer[d].kind = "posted" /\ answer[d].id # 0 /\ entry[e] = 0
      /\ \A o \in holder : Storm!Event(o) = e => o = d
  BY <1>1 DEF DeliveryOk
<1>3. /\ stormPc'[d] = "done"
      /\ \A o \in Delivery \ {d} : stormPc'[o] = stormPc[o]
      /\ entry'[e] = answer[d].id
      /\ \A x \in {EventOf[s] : s \in Storms} : x # e => entry'[x] = entry[x]
  BY <1>1 DEF StormTyped
<1>4. StormTyped'
  <2>1. answer[d].id \in Nat
    BY <1>1 DEF StormTyped, StormAnswer
  <2>2. entry' \in [{EventOf[s] : s \in Storms} -> Nat]
    BY <1>1, <2>1 DEF StormTyped
  <2>3. stormPc' \in [Delivery -> StormPlace]
    BY <1>1 DEF StormTyped, StormPlace
  <2> QED
    BY <1>1, <2>2, <2>3 DEF StormTyped
<1>5. QueueWaits'
  <2>1. "done" \in StormPlace
    BY DEF StormPlace
  <2> QED
    BY <2>1, QueueKept
<1>6. ASSUME NEW o \in Delivery, o # d, Storm!Event(o) = e
      PROVE  /\ o \notin holder /\ stormPc[o] # "commit" /\ stormPc[o] # "post"
             /\ ~(/\ stormPc[o] = "done"
                  /\ answer[o].kind \in {"posted", "deduplicated"})
  BY <1>2, <1>6 DEF DeliveriesInv, DeliveryOk, Credited
<1>7. DeliveryOk(d)'
  <2>1. report[StormOf[d]] # <<>>
    BY <1>1 DEF DeliveryOk
  <2>2. Credited(d)'
    BY <1>2, <1>3 DEF Credited, Storm!Event
  <2>3. \A o \in Delivery \ {d} :
          stormPc'[o] = "done" /\ Storm!Event(o) = e
              => answer'[o].kind # "posted"
    BY <1>3, <1>6
  <2> QED
    BY <1>2, <1>3, <2>1, <2>2, <2>3 DEF DeliveryOk, Storm!Event
<1>8. ASSUME NEW o \in Delivery, o # d
      PROVE  DeliveryOk(o)'
  <2>1. DeliveryOk(o) /\ stormPc'[o] = stormPc[o]
          /\ (o \in holder' <=> o \in holder)
    BY <1>3, <1>8 DEF DeliveriesInv
  <2>2. CASE Storm!Event(o) = e
    <3>1. /\ o \notin holder /\ stormPc[o] # "commit" /\ stormPc[o] # "post"
          /\ ~(/\ stormPc[o] = "done"
               /\ answer[o].kind \in {"posted", "deduplicated"})
      BY <1>6, <1>8, <2>2
    <3> QED
      BY <2>1, <3>1 DEF DeliveryOk
  <2>3. CASE Storm!Event(o) # e
    <3>1. entry'[Storm!Event(o)] = entry[Storm!Event(o)]
      BY <1>3, <2>3, StormEvent
    <3>2. \A x \in Delivery : Storm!Event(x) = Storm!Event(o) =>
            stormPc'[x] = stormPc[x]
      BY <1>3, <2>3
    <3> QED
      BY <1>8, <2>1, <2>3, <3>1, <3>2 DEF DeliveryOk, Credited, Storm!Event
  <2> QED
    BY <2>2, <2>3
<1> QED
  BY <1>4, <1>5, <1>7, <1>8 DEF DeliveriesInv

LEMMA StormCommitStep ==
  ASSUME DeliveriesInv, NEW d \in Delivery, Storm!Commit(d)
  PROVE  DeliveriesInv'
<1>1. /\ stormPc[d] = "commit" /\ stormPc' = [stormPc EXCEPT ![d] = "done"]
      /\ holder' = holder \ {d}
      /\ entry' = IF d \in holder
                  THEN [entry EXCEPT ![Storm!Event(d)] = answer[d].id]
                  ELSE entry
      /\ UNCHANGED <<queue, answer, stormId, report, count, before>>
  BY DEF Storm!Commit, Storm!Goto, Storm!client
<1>2. StormTyped /\ DeliveryOk(d) /\ "done" \in StormPlace
  BY DEF DeliveriesInv, StormPlace
<1>3. CASE d \in holder
  BY <1>1, <1>3, CommitHolderStep
<1>4. CASE d \notin holder
  <2>1. QueueWaits'
    BY <1>1, <1>2, QueueKept
  <2>2. DeliveryOk(d)'
    BY <1>1, <1>2, <1>4 DEF StormTyped, DeliveryOk, Credited, Storm!Event
  <2>3. answer[d] \in StormAnswer /\ answer' = [answer EXCEPT ![d] = answer[d]]
    BY <1>1, <1>2 DEF StormTyped
  <2>4. count' \in Nat /\ stormId' \in Nat
    BY <1>1, <1>2 DEF StormTyped
  <2> QED
    BY <1>1, <1>2, <1>4, <2>1, <2>2, <2>3, <2>4, DeliveryMoves
<1> QED
  BY <1>3, <1>4

(* A 500, a timeout in the pool's queue, a request or an answer lost.      *)
LEMMA BreakStep ==
  ASSUME DeliveriesInv, NEW d \in Delivery, Storm!Break(d)
  PROVE  DeliveriesInv'
<1>1. /\ stormPc' = [stormPc EXCEPT ![d] = "done"]
      /\ answer' = [answer EXCEPT ![d] = Storm!Failed]
      /\ UNCHANGED <<entry, stormId, report, count, before>>
  BY DEF Storm!Break, Storm!Abort, Storm!TimeOut, Storm!Lose, Storm!Goto,
         Storm!Answer, Storm!database, Storm!client
<1>2. StormTyped /\ DeliveryOk(d) /\ "done" \in StormPlace
  BY DEF DeliveriesInv, StormPlace
<1>3. report[StormOf[d]] # <<>>
  BY <1>2 DEF Storm!Break, Storm!Abort, Storm!TimeOut, Storm!Lose, DeliveryOk
<1>4. /\ holder' = holder \/ holder' = holder \ {d}
      /\ d \notin holder'
  BY <1>2 DEF Storm!Break, Storm!Abort, Storm!TimeOut, Storm!Lose, DeliveryOk,
              Storm!database
<1>5. QueueWaits'
  <2>1. CASE Storm!Abort(d) \/ Storm!Lose(d)
    <3>1. stormPc[d] \notin {"check", "connect"} /\ queue' = queue
      BY <2>1 DEF Storm!Abort, Storm!Lose
    <3> QED
      BY <1>1, <1>2, <3>1, QueueKept
  <2>2. CASE Storm!TimeOut(d)
    <3>1. DOMAIN queue = 1 .. Len(queue)
      BY LenProperties DEF DeliveriesInv, QueueWaits, Distinct
    <3>2. PICK i \in 1 .. Len(queue) :
            queue[i] = d /\ queue' = Storm!RemoveAt(queue, i)
      BY <2>2, <3>1 DEF Storm!TimeOut
    <3>3. /\ Distinct(queue')
          /\ \A k \in 1 .. Len(queue') :
               \E j \in 1 .. Len(queue) : j # i /\ queue'[k] = queue[j]
      BY <3>2, LeaveQueue DEF DeliveriesInv, QueueWaits
    <3> QED
      BY <1>1, <1>2, <3>2, <3>3, QueueLeft
  <2> QED
    BY <2>1, <2>2 DEF Storm!Break
<1>6. DeliveryOk(d)'
  BY <1>1, <1>2, <1>3, <1>4, FailedAnswer DEF StormTyped, DeliveryOk
<1>7. count' \in Nat /\ stormId' \in Nat
  BY <1>1, <1>2 DEF StormTyped
<1> QED
  BY <1>1, <1>2, <1>4, <1>5, <1>6, <1>7, FailedAnswer, DeliveryMoves

LEMMA SameCardinality == \A S : Storm!Cardinality(S) = Cardinality(S)
BY DEF Storm!Cardinality, Cardinality

LEMMA StormSetFinite ==
  ASSUME NEW S, S \subseteq Delivery
  PROVE  IsFiniteSet(S) /\ Cardinality(S) \in Nat
<1>1. IsFiniteSet(Delivery)
  BY Instances DEF Storm!StormAssumption, Storm!IsFiniteSet, IsFiniteSet
<1>2. IsFiniteSet(S)
  BY <1>1, FS_Subset
<1> QED
  BY <1>2, FS_CardinalityType

(* What a storm reports on its deliveries.                                 *)
Reporting(s) ==
  [posted       |-> Cardinality(Storm!Of(s, "posted")),
   deduplicated |-> Cardinality(Storm!Of(s, "deduplicated")),
   failed       |-> Cardinality(Storm!Of(s, "failed")),
   deliveries   |-> count - before[s],
   ids |-> {answer[d].id : d \in Storm!Of(s, "posted")
                                 \cup Storm!Of(s, "deduplicated")}]

LEMMA ReportingTyped ==
  ASSUME StormTyped, NEW s \in Storms
  PROVE  Reporting(s) \in StormReport
<1>1. \A kind : Storm!Of(s, kind) \subseteq Delivery
  BY DEF Storm!Of
<1>2. \A kind : Cardinality(Storm!Of(s, kind)) \in Nat
  BY <1>1, StormSetFinite
<1>3. count - before[s] \in Int
  <2>1. count \in Nat /\ before[s] \in Nat
    BY DEF StormTyped
  <2> QED
    BY <2>1
<1>4. \A d \in Delivery : answer[d].id \in Nat
  BY DEF StormTyped, StormAnswer
<1> QED
  BY <1>1, <1>2, <1>3, <1>4 DEF Reporting, StormReport

LEMMA ReportStep ==
  ASSUME DeliveriesInv, NEW s \in Storms, Storm!Report(s)
  PROVE  /\ DeliveriesInv'
         /\ report' = [report EXCEPT ![s] = <<Reporting(s)>>]
<1>1. /\ report[s] = <<Storm!NoReport>>
      /\ report' = [report EXCEPT ![s] = <<Reporting(s)>>]
      /\ UNCHANGED <<stormPc, queue, answer, holder, entry, stormId, count,
                     before>>
  BY SameCardinality DEF Storm!Report, Storm!database, Reporting
<1>2. StormTyped /\ QueueWaits /\ Reporting(s) \in StormReport
  BY ReportingTyped DEF DeliveriesInv
<1>3. <<Reporting(s)>> \in Seq(StormReport) /\ report[s] # <<>>
  BY <1>1, <1>2
<1>4. StormTyped'
  BY <1>1, <1>2, <1>3 DEF StormTyped
<1>5. QueueWaits'
  BY <1>1, <1>2 DEF QueueWaits, Distinct
<1>6. \A t \in Storms : report'[t] = <<>> => report[t] = <<>>
  <2>1. <<Reporting(s)>> # <<>>
    OBVIOUS
  <2> QED
    BY <1>1, <1>2, <2>1 DEF StormTyped
<1>7. ASSUME NEW d \in Delivery
      PROVE  DeliveryOk(d)'
  BY <1>1, <1>6, StormEvent DEF DeliveriesInv, DeliveryOk, Credited, Storm!Event
<1> QED
  BY <1>1, <1>4, <1>5, <1>7 DEF DeliveriesInv

LEMMA DeliveriesStep ==
  ASSUME DeliveriesInv, [Storm!Next]_storm
  PROVE  DeliveriesInv'
<1>1. CASE UNCHANGED storm
  BY <1>1 DEF storm, DeliveriesInv, StormTyped, QueueWaits, Distinct,
     DeliveryOk,
              Credited, Storm!Event
<1>2. CASE Storm!Next
  BY <1>2, StartStormStep, ReportStep, ArriveStep, GrantStep, CheckAccountStep,
     ReserveStep, PostStep, StormCommitStep, BreakStep
     DEF Storm!Next, Storm!Serve
<1> QED
  BY <1>1, <1>2

(* Of the deliveries that carry an event, however many storms sent them    *)
(* and however they failed, one at most is credited                        *)
(* (payments/webhook.ts:17-39, routes/payments.ts:80-92).                  *)
THEOREM EventsCreditedOnce == Spec => []CreditedOnce
<1>1. Init => DeliveriesInv
  BY PartsInit, StormInit
<1>2. DeliveriesInv /\ [Next]_vars => DeliveriesInv'
  BY PartsStep, DeliveriesStep
<1>3. DeliveriesInv => CreditedOnce
  BY DEF DeliveriesInv, DeliveryOk, Credited, CreditedOnce, Storm!CreditedOnce
<1> QED
  BY <1>1, <1>2, <1>3, PTL DEF Spec

-----------------------------------------------------------------------------
(* What a report says.  The counter is shared by all storms, so the        *)
(* deliveries of one that arrived are at most what it has moved since.     *)
Counted(s) ==
  {d \in Delivery :
     /\ StormOf[d] = s /\ stormPc[d] \notin {"idle", "sent"}
     /\ ~(stormPc[d] = "done" /\ answer[d].kind = "failed")}

CountOk(s) ==
  report[s] = <<Storm!NoReport>> => Cardinality(Counted(s)) <= count - before[s]

GoodReport(s, r) ==
  /\ r.posted + r.deduplicated <= r.deliveries
  /\ r.posted + r.deduplicated > 0 =>
       r.ids = {entry[EventOf[s]]} /\ entry[EventOf[s]] # 0

ReportOk(s) == report[s] # <<>> => GoodReport(s, report[s][1])

ReportsInv == DeliveriesInv /\ \A s \in Storms : CountOk(s) /\ ReportOk(s)

LEMMA NoReportIsGood ==
  ASSUME NEW s
  PROVE  GoodReport(s, Storm!NoReport)
BY DEF GoodReport, Storm!NoReport

LEMMA CountKept ==
  ASSUME DeliveriesInv, NEW s \in Storms, CountOk(s), report'[s] = report[s],
         Counted(s)' \subseteq Counted(s), count' = count,
         before'[s] = before[s]
  PROVE  CountOk(s)'
<1> DEFINE S == Counted(s)
           T == Counted(s)'
<1>1. S \subseteq Delivery /\ T \subseteq Delivery
  BY DEF Counted
<1> HIDE DEF S, T
<1>2. IsFiniteSet(S) /\ Cardinality(S) \in Nat /\ Cardinality(T) \in Nat
  BY <1>1, StormSetFinite
<1>3. Cardinality(T) <= Cardinality(S)
  BY <1>2, FS_Subset DEF S, T
<1>4. count \in Nat /\ before[s] \in Nat
  BY DEF DeliveriesInv, StormTyped
<1>5. report[s] = <<Storm!NoReport>> => Cardinality(S) <= count - before[s]
  BY DEF CountOk, S
<1>6. report[s] = <<Storm!NoReport>> => Cardinality(T) <= count - before[s]
  BY <1>2, <1>3, <1>4, <1>5
<1> QED
  BY <1>6 DEF CountOk, T

LEMMA EntryFixed ==
  ASSUME DeliveriesInv, [Storm!Next]_storm
  PROVE  \A s \in Storms : entry[EventOf[s]] # 0 =>
           entry'[EventOf[s]] = entry[EventOf[s]]
<1>1. ASSUME NEW d \in Delivery, Storm!Commit(d), NEW s \in Storms,
             entry[EventOf[s]] # 0
      PROVE  entry'[EventOf[s]] = entry[EventOf[s]]
  <2>1. entry' = IF d \in holder
                 THEN [entry EXCEPT ![Storm!Event(d)] = answer[d].id] ELSE entry
    BY <1>1 DEF Storm!Commit
  <2>2. d \in holder => entry[Storm!Event(d)] = 0
    BY DEF DeliveriesInv, DeliveryOk
  <2>3. EventOf[s] \in DOMAIN entry
    BY DEF DeliveriesInv, StormTyped
  <2> QED
    BY <1>1, <2>1, <2>2, <2>3
<1>2. CASE entry' = entry
  BY <1>2
<1> QED
  BY <1>1, <1>2 DEF storm, Storm!Next, Storm!StartStorm, Storm!Report,
     Storm!Serve, Storm!Arrive, Storm!Grant, Storm!CheckAccount, Storm!Reserve,
     Storm!Post, Storm!Break, Storm!Abort, Storm!TimeOut, Storm!Lose,
     Storm!database

(* A report stays true: the entry it names is there for good.              *)
LEMMA ReportKept ==
  ASSUME DeliveriesInv, [Storm!Next]_storm, NEW s \in Storms, ReportOk(s),
         report'[s] = report[s]
  PROVE  ReportOk(s)'
<1>1. entry[EventOf[s]] # 0 => entry'[EventOf[s]] = entry[EventOf[s]]
  BY EntryFixed
<1> DEFINE r == report[s][1]
<1>2. report[s] # <<>> => GoodReport(s, r)
  BY DEF ReportOk
<1>3. GoodReport(s, r) => GoodReport(s, r)'
  BY <1>1 DEF GoodReport
<1> QED
  BY <1>2, <1>3 DEF ReportOk, GoodReport

LEMMA StartStormCount ==
  ASSUME ReportsInv, NEW s \in Storms, Storm!StartStorm(s)
  PROVE  \A t \in Storms : CountOk(t)' /\ ReportOk(t)'
<1>0. DeliveriesInv /\ StormTyped /\ [Storm!Next]_storm
  BY DEF ReportsInv, DeliveriesInv, Storm!Next
<1>1. /\ report' = [report EXCEPT ![s] = <<Storm!NoReport>>]
      /\ before' = [before EXCEPT ![s] = count] /\ count' = count
      /\ stormPc' = [d \in Delivery |->
                       IF StormOf[d] = s THEN "sent" ELSE stormPc[d]]
      /\ answer' = answer
  BY DEF Storm!StartStorm
<1>2. ASSUME NEW t \in Storms, t # s
      PROVE  CountOk(t)' /\ ReportOk(t)'
  <2>1. report'[t] = report[t] /\ before'[t] = before[t]
    BY <1>0, <1>1, <1>2 DEF StormTyped
  <2>2. Counted(t)' \subseteq Counted(t)
    BY <1>1, <1>2 DEF Counted
  <2> QED
    BY <1>0, <1>1, <2>1, <2>2, CountKept, ReportKept DEF ReportsInv
<1>3. CountOk(s)'
  <2>1. Counted(s)' = {}
    BY <1>1 DEF Counted
  <2>2. Cardinality(Counted(s))' = 0
    BY <2>1, FS_EmptySet
  <2>3. count' - before'[s] = 0
    <3>1. before'[s] = count /\ count \in Nat
      BY <1>0, <1>1 DEF StormTyped
    <3> QED
      BY <1>1, <3>1
  <2> QED
    BY <2>2, <2>3 DEF CountOk
<1>4. ReportOk(s)'
  <2>1. report'[s][1] = Storm!NoReport
    BY <1>0, <1>1 DEF StormTyped
  <2>2. GoodReport(s, Storm!NoReport)'
    BY DEF GoodReport, Storm!NoReport
  <2> QED
    BY <2>1, <2>2 DEF ReportOk, GoodReport
<1> QED
  BY <1>2, <1>3, <1>4

LEMMA ArriveCount ==
  ASSUME ReportsInv, NEW d \in Delivery, Storm!Arrive(d)
  PROVE  \A t \in Storms : CountOk(t)' /\ ReportOk(t)'
<1>0. DeliveriesInv /\ StormTyped /\ [Storm!Next]_storm
  BY DEF ReportsInv, DeliveriesInv, Storm!Next, Storm!Serve
<1>1. /\ stormPc' = [stormPc EXCEPT ![d] = "check"]
      /\ count' = count + 1 /\ UNCHANGED <<answer, report, before>>
  BY DEF Storm!Arrive, Storm!Goto
<1>2. ASSUME NEW t \in Storms
      PROVE  CountOk(t)'
  <2> DEFINE S == Counted(t)
             T == Counted(t)'
  <2>1. S \subseteq Delivery /\ T \subseteq Delivery /\ T \subseteq S \cup {d}
    BY <1>0, <1>1 DEF Counted, StormTyped
  <2> HIDE DEF S, T
  <2>2. /\ IsFiniteSet(S) /\ Cardinality(S) \in Nat /\ Cardinality(T) \in Nat
        /\ IsFiniteSet(S \cup {d})
        /\ Cardinality(S \cup {d}) <= Cardinality(S) + 1
    <3>1. IsFiniteSet(S) /\ Cardinality(S) \in Nat /\ Cardinality(T) \in Nat
      BY <2>1, StormSetFinite
    <3>2. /\ IsFiniteSet(S \cup {d})
          /\ Cardinality(S \cup {d}) =
               IF d \in S THEN Cardinality(S) ELSE Cardinality(S) + 1
      BY <3>1, FS_AddElement
    <3> QED
      BY <3>1, <3>2
  <2>3. Cardinality(T) <= Cardinality(S \cup {d})
          /\ Cardinality(S \cup {d}) \in Nat
    BY <2>1, <2>2, FS_Subset, FS_CardinalityType
  <2>4. count \in Nat /\ before[t] \in Nat
    BY <1>0 DEF StormTyped
  <2>5. report[t] = <<Storm!NoReport>> => Cardinality(S) <= count - before[t]
    BY DEF ReportsInv, CountOk, S
  <2>6. report[t] = <<Storm!NoReport>>
          => Cardinality(T) <= count + 1 - before[t]
    BY <2>2, <2>3, <2>4, <2>5
  <2>7. report'[t] = <<Storm!NoReport>> => Cardinality(T) <= count' - before'[t]
    <3>1. report'[t] = report[t] /\ before'[t] = before[t] /\ count' = count + 1
      BY <1>1
    <3>2. count' - before'[t] = count + 1 - before[t]
      BY <2>4, <3>1
    <3> QED
      BY <2>6, <3>1, <3>2
  <2> QED
    BY <2>7 DEF CountOk, T, Storm!NoReport
<1> QED
  BY <1>0, <1>1, <1>2, ReportKept DEF ReportsInv

(* Of the rest, who is counted was counted, or fails.                      *)
LEMMA OtherCount ==
  ASSUME ReportsInv, NEW d \in Delivery, Storm!Serve(d) \/ Storm!Break(d),
         ~Storm!Arrive(d)
  PROVE  \A t \in Storms : CountOk(t)' /\ ReportOk(t)'
<1>0. DeliveriesInv /\ StormTyped /\ QueueWaits /\ [Storm!Next]_storm
  BY DEF ReportsInv, DeliveriesInv, Storm!Next
<1>1. UNCHANGED <<report, count, before>>
  BY DEF Storm!Serve, Storm!Grant, Storm!CheckAccount, Storm!Reserve,
         Storm!Post, Storm!Commit, Storm!Break, Storm!Abort, Storm!TimeOut,
         Storm!Lose, Storm!client
<1>2. \A o \in Delivery \ {d} :
        stormPc'[o] = stormPc[o] /\ answer'[o] = answer[o]
  BY <1>0 DEF Storm!Serve, Storm!Grant, Storm!CheckAccount, Storm!Reserve,
         Storm!Post, Storm!Commit, Storm!Break, Storm!Abort, Storm!TimeOut,
         Storm!Lose, Storm!Goto, Storm!Answer, StormTyped
<1>3. \/ stormPc[d] \notin {"idle", "sent", "done"}
      \/ stormPc'[d] = "done" /\ answer'[d].kind = "failed"
  <2>1. CASE Storm!Grant(d)
    <3>1. d = queue[1] /\ 1 \in 1 .. Len(queue)
      BY <1>0, <2>1, ServeQueue DEF QueueWaits, Storm!Grant
    <3> QED
      BY <1>0, <3>1 DEF QueueWaits
  <2>2. CASE Storm!Break(d)
    BY <1>0, <2>2, FailedAnswer DEF Storm!Break, Storm!Abort, Storm!TimeOut,
       Storm!Lose, Storm!Goto, Storm!Answer, StormTyped
  <2> QED
    BY <2>1, <2>2 DEF Storm!Serve, Storm!CheckAccount, Storm!Reserve,
       Storm!Post, Storm!Commit
<1>4. ASSUME NEW t \in Storms
      PROVE  Counted(t)' \subseteq Counted(t)
  BY <1>2, <1>3 DEF Counted
<1> QED
  BY <1>0, <1>1, <1>4, CountKept, ReportKept DEF ReportsInv

(* All deliveries are answered, and those that were answered well arrived  *)
(* and name the event's entry.                                             *)
LEMMA ReportCount ==
  ASSUME ReportsInv, NEW s \in Storms, Storm!Report(s)
  PROVE  \A t \in Storms : CountOk(t)' /\ ReportOk(t)'
<1>0. DeliveriesInv /\ StormTyped /\ [Storm!Next]_storm
  BY DEF ReportsInv, DeliveriesInv, Storm!Next
<1>1. /\ report[s] = <<Storm!NoReport>>
      /\ \A d \in Delivery : StormOf[d] = s => stormPc[d] = "done"
      /\ report' = [report EXCEPT ![s] = <<Reporting(s)>>]
      /\ UNCHANGED <<stormPc, answer, entry, count, before>>
  BY <1>0, ReportStep DEF Storm!Report, Storm!database
<1>2. \A t \in Storms : Counted(t)' = Counted(t)
  BY <1>1 DEF Counted
<1>3. ASSUME NEW t \in Storms, t # s
      PROVE  CountOk(t)' /\ ReportOk(t)'
  <2>1. report'[t] = report[t]
    BY <1>0, <1>1, <1>3 DEF StormTyped
  <2>2. CountOk(t) /\ ReportOk(t) /\ before'[t] = before[t] /\ count' = count
        /\ Counted(t)' \subseteq Counted(t)
    BY <1>1, <1>2 DEF ReportsInv
  <2> QED
    BY <1>0, <2>1, <2>2, CountKept, ReportKept
<1>4. CountOk(s)'
  BY <1>1, <1>2 DEF ReportsInv, CountOk
<1>5. GoodReport(s, Reporting(s))
  <2> DEFINE P == Storm!Of(s, "posted")
             D == Storm!Of(s, "deduplicated")
             C == Counted(s)
  <2>1. /\ P \subseteq Delivery /\ D \subseteq Delivery /\ C \subseteq Delivery
        /\ P \cup D \subseteq C /\ P \cap D = {}
        /\ \A d \in P \cup D :
             /\ d \in Delivery /\ StormOf[d] = s /\ stormPc[d] = "done"
             /\ answer[d].kind \in {"posted", "deduplicated"}
    BY <1>1 DEF Counted, Storm!Of
  <2>2. \A d \in P \cup D : answer[d].id = entry[EventOf[s]] /\ answer[d].id # 0
    BY <1>0, <2>1 DEF DeliveriesInv, DeliveryOk, Credited, Storm!Event
  <2>3. Cardinality(C) <= count - before[s] /\ count \in Nat
          /\ before[s] \in Nat
    BY <1>0, <1>1 DEF ReportsInv, CountOk, StormTyped
  <2>4. /\ Reporting(s).posted = Cardinality(P)
        /\ Reporting(s).deduplicated = Cardinality(D)
        /\ Reporting(s).deliveries = count - before[s]
        /\ Reporting(s).ids = {answer[d].id : d \in P \cup D}
    BY DEF Reporting
  <2> HIDE DEF P, D, C
  <2>5. /\ IsFiniteSet(P) /\ IsFiniteSet(D) /\ IsFiniteSet(C)
        /\ Cardinality(P) \in Nat /\ Cardinality(D) \in Nat
        /\ Cardinality(C) \in Nat
    BY <2>1, StormSetFinite
  <2>6. Cardinality(P \cup D) = Cardinality(P) + Cardinality(D)
    <3>1. Cardinality(P \cup D)
            = Cardinality(P) + Cardinality(D) - Cardinality(P \cap D)
      BY <2>5, FS_Union
    <3>2. Cardinality(P \cap D) = 0
      BY <2>1, FS_EmptySet
    <3> QED
      BY <2>5, <3>1, <3>2
  <2>7. Cardinality(P \cup D) <= Cardinality(C)
    BY <2>1, <2>5, FS_Subset
  <2>8. Cardinality(P) + Cardinality(D) <= count - before[s]
    BY <2>3, <2>5, <2>6, <2>7
  <2>9. ASSUME Cardinality(P) + Cardinality(D) > 0
        PROVE  {answer[d].id : d \in P \cup D} = {entry[EventOf[s]]}
               /\ entry[EventOf[s]] # 0
    <3>1. P \cup D # {}
      <4> SUFFICES ASSUME P \cup D = {}
                   PROVE  FALSE
        OBVIOUS
      <4>1. Cardinality(P \cup D) = 0
        BY FS_EmptySet
      <4> QED
        BY <2>5, <2>6, <2>9, <4>1
    <3> QED
      BY <2>2, <3>1
  <2> QED
    BY <2>4, <2>8, <2>9 DEF GoodReport
<1>6. ReportOk(s)'
  <2>1. report'[s][1] = Reporting(s)
    BY <1>0, <1>1 DEF StormTyped
  <2>2. GoodReport(s, report[s][1])'
    BY <1>1, <1>5, <2>1 DEF GoodReport
  <2> QED
    BY <2>2 DEF ReportOk
<1> QED
  BY <1>3, <1>4, <1>6

LEMMA ReportsStep ==
  ASSUME ReportsInv, [Storm!Next]_storm
  PROVE  ReportsInv'
<1>1. DeliveriesInv'
  BY DeliveriesStep DEF ReportsInv
<1>2. CASE UNCHANGED storm
  BY <1>1, <1>2 DEF storm, ReportsInv, CountOk, Counted, ReportOk, GoodReport
<1>3. CASE Storm!Next
  BY <1>1, <1>3, StartStormCount, ArriveCount, OtherCount, ReportCount
     DEF ReportsInv, Storm!Next
<1> QED
  BY <1>2, <1>3

(* Whatever is lost, a report that names deliveries answered well counted  *)
(* them all and names the one entry they led to                            *)
(* (routes/payments.ts:122-152).                                           *)
THEOREM StormReportsHold == Spec => []ReportHolds
<1>1. Init => ReportsInv
  <2>1. Storm!Init => \A s \in Storms : CountOk(s) /\ ReportOk(s)
    BY DEF Storm!Init, CountOk, ReportOk
  <2> QED
    BY <2>1, PartsInit, StormInit DEF ReportsInv
<1>2. ReportsInv /\ [Next]_vars => ReportsInv'
  BY PartsStep, ReportsStep
<1>3. ReportsInv => ReportHolds
  BY DEF ReportsInv, ReportOk, GoodReport, ReportHolds, Storm!ReportHolds,
         Storm!Reported
<1> QED
  BY <1>1, <1>2, <1>3, PTL DEF Spec
=============================================================================
