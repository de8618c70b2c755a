---------------------------- MODULE AuditProofs -----------------------------
(***************************************************************************)
(* The books reconcile after every commit, for any number of users, bets   *)
(* and payment events.  The statement-level service implements the serial  *)
(* one (SettlementTheorems), so the sums of Audit need following only      *)
(* through the three steps of that one.                                    *)
(***************************************************************************)
EXTENDS SettlementTheorems, Audit, SumProofs

-----------------------------------------------------------------------------
(* The columns of a table t over the rows B: the operators of Audit with   *)
(* the table as a parameter, to speak of it before and after a step.       *)
Paid(t, B) == SumFunction([b \in B |-> t[b].payout])
Staked(t, B) == SumFunction([b \in B |-> t[b].amount])
Earned(t, B) ==
  SumFunction([b \in {x \in B : t[x].payout = 0} |->
                 CommissionOn(t[b].user, t[b].amount)])

LEMMA RowValues ==
  ASSUME NEW row \in BetRow
  PROVE  /\ row.amount \in Nat \ {0} /\ row.payout \in Nat /\ row.user \in User
         /\ CommissionOn(row.user, row.amount) \in Nat
<1>1. row.amount \in Nat \ {0} /\ row.payout \in Nat /\ row.user \in User
  BY AmountsPositive DEF BetRow
<1> QED
  BY <1>1, CommissionInt

(* The rows B of a table, before and after a step that adds the row y.     *)
RowAdded(t, n, B, y, Row) ==
  /\ IsFiniteSet(B) /\ y \notin B
  /\ \A x \in B : n[x] = t[x] /\ t[x] \in Row
  /\ n[y] \in Row

(* A table that keeps its rows keeps its sums, and a new row adds its own. *)
LEMMA StakedGrows ==
  ASSUME NEW t, NEW n, NEW B, NEW y, RowAdded(t, n, B, y, BetRow)
  PROVE  /\ Staked(t, B) \in Int
         /\ Staked(n, B) = Staked(t, B)
         /\ Staked(n, B \cup {y}) = Staked(t, B) + n[y].amount
<1> DEFINE f == [b \in B |-> t[b].amount]
           g == [b \in B \cup {y} |-> n[b].amount]
<1>1. SumFunction(f) \in Int /\ SumFunction(g) = SumFunction(f) + g[y]
  BY SumExtends, RowValues DEF RowAdded
<1>2. [b \in B |-> n[b].amount] = f
  BY DEF RowAdded
<1> QED
  BY <1>1, <1>2 DEF Staked

LEMMA PaidGrows ==
  ASSUME NEW t, NEW n, NEW B, NEW y, RowAdded(t, n, B, y, BetRow)
  PROVE  /\ Paid(t, B) \in Int
         /\ Paid(n, B) = Paid(t, B)
         /\ Paid(n, B \cup {y}) = Paid(t, B) + n[y].payout
<1> DEFINE f == [b \in B |-> t[b].payout]
           g == [b \in B \cup {y} |-> n[b].payout]
<1>1. SumFunction(f) \in Int /\ SumFunction(g) = SumFunction(f) + g[y]
  BY SumExtends, RowValues DEF RowAdded
<1>2. [b \in B |-> n[b].payout] = f
  BY DEF RowAdded
<1> QED
  BY <1>1, <1>2 DEF Paid

LEMMA EarnedGrows ==
  ASSUME NEW t, NEW n, NEW B, NEW y, RowAdded(t, n, B, y, BetRow)
  PROVE  /\ Earned(t, B) \in Int
         /\ Earned(n, B \cup {y}) =
              Earned(t, B) + (IF n[y].payout = 0
                              THEN CommissionOn(n[y].user, n[y].amount) ELSE 0)
<1> DEFINE L == {x \in B : t[x].payout = 0}
           M == {x \in B \cup {y} : n[x].payout = 0}
           f == [b \in L |-> CommissionOn(t[b].user, t[b].amount)]
           g == [b \in M |-> CommissionOn(n[b].user, n[b].amount)]
           h == [b \in L \cup {y} |-> CommissionOn(n[b].user, n[b].amount)]
<1> USE DEF RowAdded
<1>1. IsFiniteSet(L) BY FS_Subset
<1>2. \A x \in L : f[x] \in Int /\ h[x] = f[x] BY RowValues
<1>3. h[y] \in Int BY RowValues
<1>4. SumFunction(f) \in Int /\ SumFunction(h) = SumFunction(f) + h[y]
  <2>1. DOMAIN f = L /\ DOMAIN h = L \cup {y} /\ y \notin L OBVIOUS
  <2> HIDE DEF f, h, L
  <2> QED BY <1>1, <1>2, <1>3, <2>1, SumExtends
<1>5. CASE n[y].payout = 0
  <2>1. M = L \cup {y} BY <1>5
  <2> QED BY <1>4, <1>5, <2>1 DEF Earned
<1>6. CASE n[y].payout # 0
  <2>1. M = L /\ y \notin M BY <1>6
  <2>2. g = f BY <2>1
  <2> QED BY <1>4, <1>6, <2>2 DEF Earned
<1> QED
  BY <1>5, <1>6

LEMMA BetColumns ==
  ASSUME NEW t, NEW n, NEW B, NEW y, RowAdded(t, n, B, y, BetRow)
  PROVE  /\ Staked(t, B) \in Int /\ Paid(t, B) \in Int /\ Earned(t, B) \in Int
         /\ Staked(n, B) = Staked(t, B) /\ Paid(n, B) = Paid(t, B)
         /\ Staked(n, B \cup {y}) = Staked(t, B) + n[y].amount
         /\ Paid(n, B \cup {y}) = Paid(t, B) + n[y].payout
         /\ Earned(n, B \cup {y}) =
              Earned(t, B) + (IF n[y].payout = 0
                              THEN CommissionOn(n[y].user, n[y].amount) ELSE 0)
BY StakedGrows, PaidGrows, EarnedGrows

LEMMA EventColumn ==
  ASSUME NEW t, NEW n, NEW B, NEW y, RowAdded(t, n, B, y, EventRow)
  PROVE  /\ Staked(t, B) \in Int /\ Staked(n, B) = Staked(t, B)
         /\ Staked(n, B \cup {y}) = Staked(t, B) + n[y].amount
<1> DEFINE f == [b \in B |-> t[b].amount]
           g == [b \in B \cup {y} |-> n[b].amount]
<1>1. \A r \in EventRow : r.amount \in Int
  BY AmountsPositive DEF EventRow
<1>2. SumFunction(f) \in Int /\ SumFunction(g) = SumFunction(f) + g[y]
  BY <1>1, SumExtends DEF RowAdded
<1>3. [b \in B |-> n[b].amount] = f
  BY DEF RowAdded
<1> QED
  BY <1>2, <1>3 DEF Staked

LEMMA DepositsTyped ==
  ASSUME NEW t, NEW B, IsFiniteSet(B), \A x \in B : t[x] \in EventRow
  PROVE  Staked(t, B) \in Int
<1> DEFINE f == [x \in B |-> t[x].amount]
<1>1. \A x \in B : f[x] \in Int
  BY AmountsPositive DEF EventRow
<1>2. SumFunctionOnSet(f, B) \in Int
  <2> HIDE DEF f
  <2> QED
    BY <1>1, SumTakesOut
<1> QED
  BY <1>2 DEF Staked, SumFunction

LEMMA BetSumsTyped ==
  ASSUME NEW t, NEW B, IsFiniteSet(B), \A x \in B : t[x] \in BetRow
  PROVE  Staked(t, B) \in Int /\ Paid(t, B) \in Int
<1> DEFINE f == [x \in B |-> t[x].amount]
           g == [x \in B |-> t[x].payout]
<1>1. \A x \in B : f[x] \in Int /\ g[x] \in Int
  BY RowValues
<1>2. SumFunctionOnSet(f, B) \in Int /\ SumFunctionOnSet(g, B) \in Int
  <2> HIDE DEF f, g
  <2> QED
    BY <1>1, SumTakesOut
<1> QED
  BY <1>2 DEF Staked, Paid, SumFunction

-----------------------------------------------------------------------------
(* BooksReconcile is inductive for the serial service once the tables are  *)
(* known to hold finitely many rows: without that the sums mean nothing.   *)
Reconciled == BooksReconcile /\ IsFiniteSet(Settled) /\ IsFiniteSet(Received)

BetsOf(u) == {b \in Settled : bets[b].user = u}
EventsOf(u) == {e \in Received : events[e].user = u}

Columns ==
  /\ \A u \in User : balance[u] = Staked(events, EventsOf(u))
                         - Staked(bets, BetsOf(u)) + Paid(bets, BetsOf(u))
  /\ balance["gateway"] = -Staked(events, Received)
  /\ balance["pending_bets"] = 0
  /\ balance["affiliate"] = Earned(bets, Settled)
  /\ balance["treasury"] = Staked(bets, Settled) - Paid(bets, Settled)
                             - Earned(bets, Settled)

LEMMA ReconciledColumns ==
  /\ BooksReconcile <=> Columns
  /\ BooksReconcile' <=> Columns'
BY DEF PayoutsOf, StakesOf, EarnedOn, DepositsOf, Paid, Staked, Earned,
       BooksReconcile, BetsOf, EventsOf, Columns

(* Winning pays something, so what a row paid tells whether the bet lost.  *)
LEMMA WinsPay ==
  ASSUME NEW amount \in Stake, NEW target \in Target, NEW roll \in Roll
  PROVE  /\ PayoutOf(amount, target, roll) \in Nat
         /\ PayoutOf(amount, target, roll) = 0 <=> ~IsWin(roll, target)
<1>1. amount \in Nat \ {0}
  BY AmountsPositive
<1>2. target \in 100 .. 9800 /\ roll \in Nat
  BY InputAssumption DEF InputAssumption
<1>3. PayoutOf(amount, target, roll) \in Nat
  BY <1>2, PayoutNat
<1>4. ASSUME NEW x \in Nat, x >= target
      PROVE  x \div target # 0
  BY <1>2, <1>4
<1>5. amount * 9900 \in Nat /\ amount * 9900 >= target
  BY <1>1, <1>2
<1>6. PayoutFor(amount, target) # 0
  BY <1>4, <1>5 DEF PayoutFor
<1> QED
  BY <1>3, <1>6 DEF PayoutOf

LEMMA BetReconciles ==
  ASSUME TablesTypeOK, Reconciled,
         NEW b \in BetId, NEW u \in User, NEW amount \in Stake,
         NEW target \in Target, NEW roll \in Roll, NEW s \in Seed, NEW d \in Day,
         Serial!SettleBet(b, u, amount, target, roll, s, d)
  PROVE  Reconciled'
<1> DEFINE payout == PayoutOf(amount, target, roll)
           fee == IF payout = 0 THEN CommissionOn(u, amount) ELSE 0
           row == [user |-> u, amount |-> amount, target |-> target,
                   roll |-> roll, payout |-> payout, seed |-> s,
                   nonce |-> seedNonce[s], day |-> d]
<1>1. /\ bets[b] = NoRow /\ bets' = [bets EXCEPT ![b] = row]
      /\ balance' = Plus(balance, Serial!BetMovement(u, amount, payout, fee))
      /\ events' = events
  <2> DEFINE due == IF IsWin(roll, target) THEN 0 ELSE CommissionOn(u, amount)
  <2>1. /\ Serial!PayoutOf(amount, target, roll) = payout
        /\ Serial!IsWin(roll, target) = IsWin(roll, target)
        /\ Serial!CommissionOn(u, amount) = CommissionOn(u, amount)
        /\ \A m, n : Serial!Plus(m, n) = Plus(m, n)
    BY SameBooks
  <2>2. fee = due
    BY WinsPay
  <2> HIDE DEF payout, fee
  <2>3. balance' = Plus(balance, Serial!BetMovement(u, amount, payout, due))
    BY <2>1 DEF Serial!SettleBet
  <2> QED
    BY <2>1, <2>2, <2>3 DEF Serial!SettleBet
<1>2. payout \in Nat /\ amount \in Nat /\ fee \in Nat
  BY WinsPay, AmountsPositive, CommissionInt
<1>3. row \in BetRow /\ row # NoRow
  <2>1. seedNonce[s] \in Nat
    BY DEF TablesTypeOK
  <2>2. row \in BetRow
    BY <1>2, <2>1 DEF BetRow
  <2> QED
    BY <2>2, NoRowAssumption DEF NoRowAssumption
<1>4. /\ row.user = u /\ row.amount = amount /\ row.payout = payout
      /\ fee = IF row.payout = 0 THEN CommissionOn(row.user, row.amount) ELSE 0
  OBVIOUS
<1> HIDE DEF payout, fee, row
<1>5. bets'[b] = row /\ \A c \in BetId \ {b} : bets'[c] = bets[c]
  BY <1>1 DEF TablesTypeOK
<1>6. /\ b \notin Settled /\ Settled' = Settled \cup {b}
      /\ \A c \in Settled : bets'[c] = bets[c] /\ bets[c] \in BetRow
  BY <1>1, <1>3, <1>5 DEF Settled, TablesTypeOK
<1>7. IsFiniteSet(Settled) /\ IsFiniteSet(Settled') /\ IsFiniteSet(Received')
  BY <1>1, <1>6, FS_AddElement DEF Reconciled, Received
<1>8. RowAdded(bets, bets', Settled, b, BetRow)
  BY <1>3, <1>5, <1>6, <1>7 DEF RowAdded
<1>9. /\ Staked(bets', Settled') = Staked(bets, Settled) + amount
      /\ Paid(bets', Settled') = Paid(bets, Settled) + payout
      /\ Earned(bets', Settled') = Earned(bets, Settled) + fee
      /\ Staked(bets, Settled) \in Int /\ Paid(bets, Settled) \in Int
      /\ Earned(bets, Settled) \in Int
  BY <1>4, <1>5, <1>6, <1>8, BetColumns
<1>10. ASSUME NEW x \in User
       PROVE  /\ RowAdded(bets, bets', BetsOf(x), b, BetRow)
              /\ BetsOf(x)' = IF x = u THEN BetsOf(x) \cup {b} ELSE BetsOf(x)
  <2>1. IsFiniteSet(BetsOf(x))
    BY <1>7, FS_Subset DEF BetsOf
  <2>2. RowAdded(bets, bets', BetsOf(x), b, BetRow)
    BY <1>3, <1>5, <1>6, <2>1 DEF RowAdded, BetsOf
  <2> QED
    BY <1>4, <1>5, <1>6, <2>2 DEF BetsOf
<1>11. ASSUME NEW x \in User
       PROVE  /\ Staked(bets', BetsOf(x)') = Staked(bets, BetsOf(x))
                                             + (IF x = u THEN amount ELSE 0)
              /\ Paid(bets', BetsOf(x)') = Paid(bets, BetsOf(x))
                                           + (IF x = u THEN payout ELSE 0)
              /\ Staked(bets, BetsOf(x)) \in Int /\ Paid(bets, BetsOf(x)) \in Int
  <2> DEFINE B == BetsOf(x)
  <2>1. RowAdded(bets, bets', B, b, BetRow)
    BY <1>10
  <2>2. /\ Staked(bets, B) \in Int /\ Paid(bets, B) \in Int
        /\ Staked(bets', B) = Staked(bets, B) /\ Paid(bets', B) = Paid(bets, B)
        /\ Staked(bets', B \cup {b}) = Staked(bets, B) + bets'[b].amount
        /\ Paid(bets', B \cup {b}) = Paid(bets, B) + bets'[b].payout
    BY <2>1, BetColumns
  <2>3. Staked(bets, B) + 0 = Staked(bets, B) /\ Paid(bets, B) + 0 = Paid(bets, B)
    BY <2>2
  <2>4. B' = IF x = u THEN B \cup {b} ELSE B
    BY <1>10
  <2> QED
    BY <1>4, <1>5, <2>2, <2>3, <2>4
<1>12. /\ balance'[u] = balance[u] + (payout - amount)
       /\ \A x \in User \ {u} : balance'[x] = balance[x]
       /\ balance'["gateway"] = balance["gateway"]
       /\ balance'["pending_bets"] = balance["pending_bets"]
       /\ balance'["affiliate"] = balance["affiliate"] + fee
       /\ balance'["treasury"] = balance["treasury"] + (amount - payout - fee)
  <2>1. /\ User \subseteq Account /\ u \notin HouseAccount
        /\ \A x \in User : x \notin HouseAccount
        /\ HouseAccount \subseteq Account
    BY AccountAssumption DEF AccountAssumption, Account
  <2>2. \A a \in Account : balance[a] \in Int
    BY DEF TablesTypeOK
  <2> QED
    BY <1>1, <2>1, <2>2, SerialAccount
    DEF Plus, Serial!BetMovement, HouseAccount
<1>13. /\ Received' = Received /\ \A x \in User : EventsOf(x)' = EventsOf(x)
  BY <1>1 DEF Received, EventsOf
<1>14. balance["treasury"] \in Int /\ \A x \in User : balance[x] \in Int
  BY DEF TablesTypeOK, Account, HouseAccount
<1>15. Columns
  BY ReconciledColumns DEF Reconciled
<1>16. ASSUME NEW x \in User
       PROVE  balance'[x] = Staked(events', EventsOf(x)')
                - Staked(bets', BetsOf(x)') + Paid(bets', BetsOf(x)')
  <2> DEFINE In == Staked(events, EventsOf(x))
             Mine == Staked(bets, BetsOf(x))
             Back == Paid(bets, BetsOf(x))
  <2>1. balance[x] = In - Mine + Back /\ balance[x] \in Int
    BY <1>14, <1>15 DEF Columns
  <2>2. Staked(events', EventsOf(x)') = In
    BY <1>1, <1>13
  <2>3. In \in Int
    <3>1. EventsOf(x) \in SUBSET Received /\ IsFiniteSet(Received)
      BY DEF EventsOf, Reconciled
    <3>2. \A e \in EventsOf(x) : events[e] \in EventRow
      BY DEF EventsOf, Received, TablesTypeOK
    <3> QED
      BY <3>1, <3>2, FS_Subset, DepositsTyped
  <2> QED
    BY <1>2, <1>11, <1>12, <2>1, <2>2, <2>3
<1> QED
  <2>1. balance'["gateway"] = -Staked(events', Received')
        /\ balance'["pending_bets"] = 0
    BY <1>1, <1>12, <1>13, <1>15 DEF Columns
  <2>2. /\ balance'["affiliate"] = Earned(bets', Settled')
        /\ balance'["treasury"] = Staked(bets', Settled') - Paid(bets', Settled')
                                   - Earned(bets', Settled')
    BY <1>2, <1>9, <1>12, <1>15 DEF Columns
  <2>3. Columns'
    BY <1>16, <2>1, <2>2 DEF Columns
  <2> QED
    BY <1>7, <2>3, ReconciledColumns DEF Reconciled

LEMMA DepositReconciles ==
  ASSUME TablesTypeOK, Reconciled,
         NEW e \in EventId, NEW u \in User, NEW amount \in Amount,
         Serial!CreditDeposit(e, u, amount)
  PROVE  Reconciled'
<1> DEFINE row == [user |-> u, amount |-> amount, posted |-> TRUE]
<1>1. /\ events[e] = NoRow /\ events' = [events EXCEPT ![e] = row]
      /\ balance' = Plus(balance, DepositLegs(u, amount))
      /\ bets' = bets
  BY SameBooks DEF Serial!CreditDeposit
<1>2. amount \in Nat
  BY AmountsPositive
<1>3. row \in EventRow /\ row # NoRow
  <2>1. row \in EventRow
    BY DEF EventRow
  <2> QED
    BY <2>1, NoRowAssumption DEF NoRowAssumption
<1>4. row.user = u /\ row.amount = amount
  OBVIOUS
<1> HIDE DEF row
<1>5. events'[e] = row /\ \A c \in EventId \ {e} : events'[c] = events[c]
  BY <1>1 DEF TablesTypeOK
<1>6. /\ e \notin Received /\ Received' = Received \cup {e}
      /\ \A c \in Received : events'[c] = events[c] /\ events[c] \in EventRow
  BY <1>1, <1>3, <1>5 DEF Received, TablesTypeOK
<1>7. IsFiniteSet(Received) /\ IsFiniteSet(Received') /\ IsFiniteSet(Settled')
  BY <1>1, <1>6, FS_AddElement DEF Reconciled, Settled
<1>8. RowAdded(events, events', Received, e, EventRow)
  BY <1>3, <1>5, <1>6, <1>7 DEF RowAdded
<1>9. /\ Staked(events', Received') = Staked(events, Received) + amount
      /\ Staked(events, Received) \in Int
  BY <1>4, <1>5, <1>6, <1>8, EventColumn
<1>10. ASSUME NEW x \in User
       PROVE  /\ Staked(events', EventsOf(x)') = Staked(events, EventsOf(x))
                                                 + (IF x = u THEN amount ELSE 0)
              /\ Staked(events, EventsOf(x)) \in Int
  <2> DEFINE B == EventsOf(x)
  <2>1. IsFiniteSet(B)
    BY <1>7, FS_Subset DEF EventsOf
  <2>2. RowAdded(events, events', B, e, EventRow)
    BY <1>3, <1>5, <1>6, <2>1 DEF RowAdded, EventsOf
  <2>3. B' = IF x = u THEN B \cup {e} ELSE B
    BY <1>4, <1>5, <1>6 DEF EventsOf
  <2>4. /\ Staked(events, B) \in Int
        /\ Staked(events', B) = Staked(events, B)
        /\ Staked(events', B \cup {e}) = Staked(events, B) + events'[e].amount
    BY <2>2, EventColumn
  <2>5. Staked(events, B) + 0 = Staked(events, B)
    BY <2>4
  <2> QED
    BY <1>4, <1>5, <2>3, <2>4, <2>5
<1>11. /\ balance'[u] = balance[u] + amount
       /\ \A x \in User \ {u} : balance'[x] = balance[x]
       /\ balance'["gateway"] = balance["gateway"] - amount
       /\ balance'["pending_bets"] = balance["pending_bets"]
       /\ balance'["affiliate"] = balance["affiliate"]
       /\ balance'["treasury"] = balance["treasury"]
  <2>1. /\ User \subseteq Account /\ HouseAccount \subseteq Account
        /\ \A x \in User : x \notin HouseAccount
    BY AccountAssumption DEF AccountAssumption, Account
  <2>2. \A a \in Account : balance[a] \in Int
    BY DEF TablesTypeOK
  <2> QED
    BY <1>1, <1>2, <2>1, <2>2 DEF Plus, DepositLegs, HouseAccount
<1>12. Settled' = Settled /\ \A x \in User : BetsOf(x)' = BetsOf(x)
  BY <1>1 DEF Settled, BetsOf
<1>13. Columns
  BY ReconciledColumns DEF Reconciled
<1>14. ASSUME NEW x \in User
       PROVE  balance'[x] = Staked(events', EventsOf(x)')
                - Staked(bets', BetsOf(x)') + Paid(bets', BetsOf(x)')
  <2> DEFINE In == Staked(events, EventsOf(x))
             Mine == Staked(bets, BetsOf(x))
             Back == Paid(bets, BetsOf(x))
  <2>1. balance[x] = In - Mine + Back
    BY <1>13 DEF Columns
  <2>2. Mine \in Int /\ Back \in Int
    <3>1. IsFiniteSet(BetsOf(x))
      BY FS_Subset DEF BetsOf, Reconciled
    <3>2. \A b \in BetsOf(x) : bets[b] \in BetRow
      BY DEF BetsOf, Settled, TablesTypeOK
    <3> QED
      BY <3>1, <3>2, BetSumsTyped
  <2>3. /\ Staked(events', EventsOf(x)') = In + (IF x = u THEN amount ELSE 0)
        /\ In \in Int
        /\ Staked(bets', BetsOf(x)') = Mine /\ Paid(bets', BetsOf(x)') = Back
    BY <1>1, <1>10, <1>12
  <2>4. balance'[x] = balance[x] + (IF x = u THEN amount ELSE 0)
    <3>1. balance[x] \in Int
      BY <2>1, <2>2, <2>3
    <3> QED
      BY <1>11, <3>1
  <2> HIDE DEF In, Mine, Back
  <2> QED
    BY <1>2, <2>1, <2>2, <2>3, <2>4
<1> QED
  <2>1. balance'["gateway"] = -Staked(events', Received')
    BY <1>2, <1>9, <1>11, <1>13 DEF Columns
  <2>2. /\ balance'["affiliate"] = Earned(bets', Settled')
        /\ balance'["pending_bets"] = 0
        /\ balance'["treasury"] = Staked(bets', Settled') - Paid(bets', Settled')
                                   - Earned(bets', Settled')
    BY <1>1, <1>11, <1>12, <1>13 DEF Columns
  <2>3. Columns'
    BY <1>14, <2>1, <2>2 DEF Columns
  <2> QED
    BY <1>7, <2>3, ReconciledColumns DEF Reconciled

LEMMA NothingReconciles ==
  ASSUME Reconciled, UNCHANGED <<balance, bets, events>>
  PROVE  Reconciled'
BY DEF Reconciled, BooksReconcile, Settled, Received, PayoutsOf, StakesOf,
       DepositsOf, EarnedOn

LEMMA EmptyReconciles ==
  ASSUME TablesInit
  PROVE  Reconciled
<1>1. Settled = {} /\ Received = {}
  BY DEF TablesInit, Settled, Received
<1>2. \A u \in User : BetsOf(u) = {} /\ EventsOf(u) = {}
  BY <1>1 DEF BetsOf, EventsOf
<1>3. \A a \in Account : balance[a] = 0
  BY DEF TablesInit, NoMovement
<1>4. Staked(bets, {}) = 0 /\ Paid(bets, {}) = 0 /\ Staked(events, {}) = 0
  BY SumOfNothing DEF Staked, Paid, SumFunction
<1>5. Earned(bets, {}) = 0
  BY SumOfNothing DEF Earned, SumFunction
<1>6. Columns
  <2>1. ASSUME NEW u \in User
        PROVE  balance[u] = Staked(events, EventsOf(u))
                             - Staked(bets, BetsOf(u)) + Paid(bets, BetsOf(u))
    <3>1. balance[u] = 0 /\ Staked(events, EventsOf(u)) = 0
          /\ Staked(bets, BetsOf(u)) = 0 /\ Paid(bets, BetsOf(u)) = 0
      BY <1>2, <1>3, <1>4 DEF Account
    <3> QED
      BY <3>1
  <2>2. \A a \in HouseAccount : balance[a] = 0
    BY <1>3 DEF Account
  <2>3. /\ Staked(events, Received) = 0 /\ Staked(bets, Settled) = 0
        /\ Paid(bets, Settled) = 0 /\ Earned(bets, Settled) = 0
    BY <1>1, <1>4, <1>5
  <2>4. balance["gateway"] = -Staked(events, Received)
    <3> DEFINE i == balance["gateway"]
               j == Staked(events, Received)
    <3>1. i \in Int /\ j \in Int /\ i + j = 0
      BY <2>2, <2>3 DEF HouseAccount
    <3> HIDE DEF i, j
    <3>2. i = -j
      BY <3>1
    <3> QED
      BY <3>2 DEF i, j
  <2> QED
    BY <2>1, <2>2, <2>3, <2>4 DEF Columns, HouseAccount
<1> QED
  BY <1>1, <1>6, ReconciledColumns, FS_EmptySet DEF Reconciled

-----------------------------------------------------------------------------
(* Every account always holds exactly what the committed bets and payment  *)
(* events say, whatever the interleaving, the retries and the crashes      *)
(* (post.ts:25-46, webhook.ts:17-39, bet.ts:174-181).                      *)
THEOREM BooksAlwaysReconcile == Spec => []BooksReconcile
<1>1. TypeOK => TablesTypeOK
  BY DEF TypeOK
<1>2. TablesTypeOK /\ Reconciled /\ [Serial!SerialNext]_Serial!tables
        => Reconciled'
  <2>1. ASSUME TablesTypeOK, Reconciled, Serial!SerialNext
        PROVE  Reconciled'
    <3>1. ASSUME NEW old \in Seed, NEW new \in Seed, Serial!Rotate(old, new)
          PROVE  Reconciled'
      BY <2>1, <3>1, NothingReconciles DEF Serial!Rotate
    <3> QED
      BY <2>1, <3>1, BetReconciles, DepositReconciles, SameTables
      DEF Serial!SerialNext
  <2>2. ASSUME Reconciled, UNCHANGED Serial!tables
        PROVE  Reconciled'
    BY <2>2, NothingReconciles DEF Serial!tables
  <2> QED
    BY <2>1, <2>2
<1>3. Init => TablesInit
  BY DEF Init
<1>4. Init => Reconciled
  BY <1>3, EmptyReconciles
<1>5. Reconciled => BooksReconcile
  BY DEF Reconciled
<1> QED
  BY <1>1, <1>2, <1>4, <1>5, TypeCorrect, SerialisesAlways, PTL
  DEF Spec, Serialises, Serial!SerialSpec
=============================================================================
