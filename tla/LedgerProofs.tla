---------------------------- MODULE LedgerProofs ----------------------------
(***************************************************************************)
(* What holds of the ledger, of a bet's figures and of its verification,   *)
(* for any number of sessions, accounts, entries and ids, for every        *)
(* target, stake and roll, and for any client seeds, bets and rotations.   *)
(***************************************************************************)
EXTENDS Service, SumProofs, SequenceTheorems

-----------------------------------------------------------------------------
(* A step of Service is a step of each part, or leaves that part alone.    *)
LEMMA PartsStep ==
  ASSUME [Next]_vars
  PROVE  /\ [Ledger!Next]_ledger
         /\ [Figures!Next]_figures
         /\ [Verify!Next]_verify
BY DEF Next, vars

LEMMA PartsInit ==
  ASSUME Init
  PROVE  Ledger!Init /\ Figures!Init /\ Verify!Init
BY DEF Init

-----------------------------------------------------------------------------
(* The ledger.  Its sums are those of SumProofs.                           *)
LEMMA LedgerSum ==
  /\ \A f, S : Ledger!SumFunctionOnSet(f, S) = SumFunctionOnSet(f, S)
  /\ \A f : Ledger!SumFunction(f) = SumFunctionOnSet(f, DOMAIN f)
BY DEF Ledger!SumFunction, Ledger!SumFunctionOnSet, Ledger!FoldFunctionOnSet,
       Ledger!MapThenFoldSet, SumFunctionOnSet, FoldFunctionOnSet,
       MapThenFoldSet

Legs == Entry \cup {<<>>}
Row == [id : Nat, legs : Legs]

LEMMA LegsFinite ==
  ASSUME NEW legs \in Legs
  PROVE  /\ IsFiniteSet(DOMAIN legs)
         /\ \A i \in DOMAIN legs : legs[i].amount \in Int
<1>1. CASE legs = <<>>
  <2>1. DOMAIN legs = {} BY <1>1
  <2> QED BY <2>1, FS_EmptySet
<1>2. CASE legs \in Entry
  <2>1. /\ legs \in Seq({legs[i] : i \in DOMAIN legs})
        /\ \A i \in DOMAIN legs : legs[i].amount \in Int
    BY <1>2, Instances DEF Ledger!EntryAssumption
  <2>2. DOMAIN legs = 1 .. Len(legs) /\ Len(legs) \in Nat
    BY <2>1, LenProperties
  <2> QED BY <2>1, <2>2, FS_Interval
<1> QED BY <1>1, <1>2 DEF Legs

(* An entry moves whole amounts, and only on the accounts it names.        *)
LEMMA LegsMove ==
  ASSUME NEW legs \in Legs, NEW a
  PROVE  /\ Ledger!Movement(legs, a) \in Int
         /\ a \notin Ledger!AccountsOf(legs) =>
              Ledger!Movement(legs, a) = 0 /\ Ledger!Debits(legs, a) = 0
<1> DEFINE f == [i \in DOMAIN legs |->
                   IF legs[i].account = a THEN legs[i].amount ELSE 0]
           g == [i \in DOMAIN legs |->
                   IF legs[i].account = a /\ legs[i].amount < 0
                   THEN -legs[i].amount ELSE 0]
<1>1. IsFiniteSet(DOMAIN legs) /\ \A i \in DOMAIN legs : legs[i].amount \in Int
  BY LegsFinite
<1>2. /\ Ledger!Movement(legs, a) = SumFunctionOnSet(f, DOMAIN legs)
      /\ Ledger!Debits(legs, a) = SumFunctionOnSet(g, DOMAIN legs)
  BY LedgerSum DEF Ledger!Movement, Ledger!Debits
<1>3. \A i \in DOMAIN legs : f[i] \in Int
  BY <1>1
<1>4. a \notin Ledger!AccountsOf(legs) =>
        \A i \in DOMAIN legs : f[i] = 0 /\ g[i] = 0
  BY DEF Ledger!AccountsOf
<1> HIDE DEF f, g
<1>5. SumFunctionOnSet(f, DOMAIN legs) \in Int
  BY <1>1, <1>3, SumTakesOut
<1>6. ASSUME a \notin Ledger!AccountsOf(legs)
      PROVE  /\ SumFunctionOnSet(f, DOMAIN legs) = 0
             /\ SumFunctionOnSet(g, DOMAIN legs) = 0
  BY <1>1, <1>4, <1>6, SumOfZeros
<1> QED
  BY <1>2, <1>5, <1>6

(* What the first n entries of a journal add to an account.                *)
Movements(q, a) == [i \in DOMAIN q |-> Ledger!Movement(q[i].legs, a)]
Before(q, n, a) == SumFunctionOnSet(Movements(q, a), 1 .. n)

LEMMA MovementsTyped ==
  ASSUME NEW q \in Seq(Row), NEW a
  PROVE  \A i \in 1 .. Len(q) : Movements(q, a)[i] \in Int
<1>1. \A i \in 1 .. Len(q) : q[i] \in Row /\ i \in DOMAIN q
  BY LenProperties
<1> QED
  BY <1>1, LegsMove DEF Movements, Row

LEMMA BalanceBefore ==
  ASSUME NEW q \in Seq(Row), NEW a, NEW n \in 0 .. Len(q)
  PROVE  Ledger!Balance(SubSeq(q, 1, n), a) = Before(q, n, a)
<1> DEFINE p == SubSeq(q, 1, n)
           f == [i \in DOMAIN p |-> Ledger!Movement(p[i].legs, a)]
<1>1. Len(q) \in Nat /\ DOMAIN q = 1 .. Len(q) /\ n \in Nat
  BY LenProperties
<1>2. \A i \in 1 .. n : q[i] \in Row
  BY <1>1, LenProperties
<1>3. 1 \in Int /\ n \in Int
  BY <1>1
<1>4. /\ p \in Seq(Row) /\ Len(p) = IF 1 <= n THEN n - 1 + 1 ELSE 0
      /\ \A i \in 1 .. (n - 1 + 1) : p[i] = q[1 + i - 1]
  BY <1>2, <1>3, SubSeqProperties
<1>5. DOMAIN p = 1 .. n /\ \A i \in 1 .. n : p[i] = q[i]
  <2>1. Len(p) = n
    BY <1>1, <1>4
  <2>2. n - 1 + 1 = n
    BY <1>1
  <2>3. \A i \in 1 .. n : 1 + i - 1 = i
    BY <1>1
  <2> QED
    BY <1>4, <2>1, <2>2, <2>3, LenProperties
<1> HIDE DEF p
<1>6. \A i \in 1 .. n : f[i] = Movements(q, a)[i]
  <2>1. \A i \in 1 .. n : i \in DOMAIN q
    BY <1>1
  <2> QED
    BY <1>5, <2>1 DEF Movements
<1>7. DOMAIN f = 1 .. n /\ IsFiniteSet(1 .. n)
  BY <1>1, <1>5, FS_Interval
<1>8. Ledger!Balance(p, a) = SumFunctionOnSet(f, 1 .. n)
  BY <1>7, LedgerSum DEF Ledger!Balance
<1> HIDE DEF f
<1>9. SumFunctionOnSet(f, 1 .. n) = SumFunctionOnSet(Movements(q, a), 1 .. n)
  BY <1>6, <1>7, SumSame
<1> QED
  BY <1>8, <1>9 DEF Before, p

(* In a good sequence of entries, ids grow along each account and debits   *)
(* are covered by what comes before them.                                  *)
Share(legs, others) ==
  Ledger!AccountsOf(legs) \cap Ledger!AccountsOf(others) # {}

Ordered(q) ==
  \A i, j \in DOMAIN q :
    i < j /\ Share(q[i].legs, q[j].legs) => q[i].id < q[j].id

Covered(q, i) ==
  \A u \in User : Ledger!Debits(q[i].legs, u) > 0 =>
                    Ledger!Debits(q[i].legs, u) <= Before(q, i - 1, u)

Good(q) == Ordered(q) /\ \A i \in DOMAIN q : Covered(q, i)

LEMMA RowsAssociative ==
  ASSUME NEW q \in Seq(Row), NEW r \in Seq(Row), NEW t \in Seq(Row)
  PROVE  (q \o r) \o t = q \o (r \o t)
BY ConcatAssociative

LEMMA NothingIsGood == Good(<<>>)
<1>1. DOMAIN <<>> = {}
  OBVIOUS
<1> QED
  BY <1>1 DEF Good, Ordered

(* Before depends on the entries before only.                              *)
LEMMA SameBefore ==
  ASSUME NEW q \in Seq(Row), NEW r \in Seq(Row), NEW n \in Nat,
         n <= Len(q), n <= Len(r), \A i \in 1 .. n : q[i] = r[i], NEW a
  PROVE  Before(q, n, a) = Before(r, n, a)
<1>1. \A i \in 1 .. n : i \in DOMAIN q /\ i \in DOMAIN r
  BY LenProperties
<1>2. \A i \in 1 .. n : Movements(q, a)[i] = Movements(r, a)[i]
  BY <1>1 DEF Movements
<1>3. IsFiniteSet(1 .. n)
  BY FS_Interval
<1> QED
  BY <1>2, <1>3, SumSame DEF Before

(* An entry may follow that is newer than all and covered by all.          *)
LEMMA GoodAppend ==
  ASSUME NEW q \in Seq(Row), Good(q), NEW e \in Row,
         \A i \in DOMAIN q : q[i].id < e.id,
         \A u \in User : Ledger!Debits(e.legs, u) > 0 =>
           Ledger!Debits(e.legs, u) <= Before(q, Len(q), u)
  PROVE  Good(Append(q, e))
<1> DEFINE r == Append(q, e)
           n == Len(q)
<1>1. /\ r \in Seq(Row) /\ Len(r) = n + 1 /\ r[n + 1] = e
      /\ \A i \in 1 .. n : r[i] = q[i]
  BY AppendProperties
<1>2. /\ n \in Nat /\ DOMAIN q = 1 .. n /\ DOMAIN r = 1 .. (n + 1)
      /\ \A i \in DOMAIN q : q[i] \in Row
  BY <1>1, LenProperties
<1> HIDE DEF r, n
<1>3. Ordered(r)
  <2> SUFFICES ASSUME NEW i \in 1 .. (n + 1), NEW j \in 1 .. (n + 1), i < j,
                      Share(r[i].legs, r[j].legs)
               PROVE  r[i].id < r[j].id
    BY <1>2 DEF Ordered
  <2>1. i \in 1 .. n /\ r[i] = q[i]
    BY <1>1, <1>2
  <2>2. CASE j = n + 1
    BY <1>1, <1>2, <2>1, <2>2
  <2>3. CASE j # n + 1
    <3>1. j \in 1 .. n /\ r[j] = q[j]
      BY <1>1, <1>2, <2>3
    <3> QED
      BY <1>2, <2>1, <3>1 DEF Good, Ordered
  <2> QED
    BY <2>2, <2>3
<1>4. ASSUME NEW i \in 1 .. (n + 1)
      PROVE  Covered(r, i)
  <2>1. ASSUME NEW u
        PROVE  Before(r, i - 1, u) = Before(q, i - 1, u)
    <3>1. /\ i - 1 \in Nat /\ i - 1 <= n /\ i - 1 <= n + 1
          /\ \A k \in 1 .. (i - 1) : k \in 1 .. n
      BY <1>2
    <3>2. \A k \in 1 .. (i - 1) : r[k] = q[k]
      BY <1>1, <3>1
    <3>3. i - 1 <= Len(q) /\ i - 1 <= Len(r)
      BY <1>1, <3>1 DEF n
    <3> QED
      BY <1>1, <3>1, <3>2, <3>3, SameBefore
  <2>2. CASE i = n + 1
    <3>1. r[i] = e /\ i - 1 = n
      BY <1>1, <1>2, <2>2
    <3> QED
      BY <2>1, <3>1 DEF Covered, n
  <2>3. CASE i # n + 1
    <3>1. i \in 1 .. n /\ r[i] = q[i]
      BY <1>1, <1>2, <2>3
    <3>2. Covered(q, i)
      BY <1>2, <3>1 DEF Good
    <3> QED
      BY <2>1, <3>1, <3>2 DEF Covered
  <2> QED
    BY <2>2, <2>3
<1> QED
  BY <1>2, <1>3, <1>4 DEF Good, r

(* Entries T between a journal J and entries X that share no account with  *)
(* them.                                                                   *)
LEMMA Between ==
  ASSUME NEW J \in Seq(Row), NEW T \in Seq(Row), NEW X \in Seq(Row)
  PROVE  LET n == Len(J)
             m == Len(T)
             p == Len(X)
             q == (J \o T) \o X
         IN  /\ n \in Nat /\ m \in Nat /\ p \in Nat
             /\ q \in Seq(Row) /\ J \o T \in Seq(Row) /\ J \o X \in Seq(Row)
             /\ Len(q) = n + m + p /\ Len(J \o T) = n + m
             /\ Len(J \o X) = n + p
             /\ \A i \in 1 .. n : q[i] = (J \o X)[i]
             /\ \A i \in 1 .. (n + m) : q[i] = (J \o T)[i]
             /\ \A i \in 1 .. m : q[n + i] = T[i]
             /\ \A i \in 1 .. p : /\ q[n + m + i] = X[i]
                                  /\ (J \o X)[n + i] = X[i]
<1> DEFINE n == Len(J)
           m == Len(T)
           p == Len(X)
           Y == J \o T
           Z == J \o X
           q == Y \o X
<1>1. n \in Nat /\ m \in Nat /\ p \in Nat
  BY LenProperties
<1>2. /\ Y \in Seq(Row) /\ Len(Y) = n + m
      /\ \A i \in 1 .. (n + m) : Y[i] = IF i <= n THEN J[i] ELSE T[i - n]
  BY ConcatProperties
<1>3. /\ Z \in Seq(Row) /\ Len(Z) = n + p
      /\ \A i \in 1 .. (n + p) : Z[i] = IF i <= n THEN J[i] ELSE X[i - n]
  BY ConcatProperties
<1> HIDE DEF Y, Z
<1>4. /\ q \in Seq(Row) /\ Len(q) = n + m + p
      /\ \A i \in 1 .. (n + m + p) :
           q[i] = IF i <= n + m THEN Y[i] ELSE X[i - (n + m)]
  <2>1. /\ q \in Seq(Row) /\ Len(q) = Len(Y) + Len(X)
        /\ \A i \in 1 .. (Len(Y) + Len(X)) :
             q[i] = IF i <= Len(Y) THEN Y[i] ELSE X[i - Len(Y)]
    <3>1. Y \in Seq(Row) /\ X \in Seq(Row)
      BY <1>2
    <3> QED
      BY <3>1, ConcatProperties
  <2>2. Len(Y) = n + m /\ Len(X) = p
    BY <1>2
  <2> QED
    BY <2>1, <2>2
<1> HIDE DEF n, m, p, q
<1>5. \A i \in 1 .. (n + m) : q[i] = Y[i]
  BY <1>1, <1>4
<1>6. \A i \in 1 .. n : q[i] = Z[i]
  <2> SUFFICES ASSUME NEW i \in 1 .. n
               PROVE  q[i] = Z[i]
    OBVIOUS
  <2>1. i \in 1 .. (n + m) /\ i \in 1 .. (n + p) /\ i <= n
    BY <1>1
  <2> QED
    BY <1>2, <1>3, <1>5, <2>1
<1>7. \A i \in 1 .. m : q[n + i] = T[i]
  <2> SUFFICES ASSUME NEW i \in 1 .. m
               PROVE  q[n + i] = T[i]
    OBVIOUS
  <2>1. n + i \in 1 .. (n + m) /\ ~ (n + i <= n) /\ (n + i) - n = i
    BY <1>1
  <2> QED
    BY <1>2, <1>5, <2>1
<1>8. \A i \in 1 .. p : q[n + m + i] = X[i] /\ Z[n + i] = X[i]
  <2> SUFFICES ASSUME NEW i \in 1 .. p
               PROVE  q[n + m + i] = X[i] /\ Z[n + i] = X[i]
    OBVIOUS
  <2>1. /\ n + m + i \in 1 .. (n + m + p) /\ ~ (n + m + i <= n + m)
        /\ (n + m + i) - (n + m) = i
        /\ n + i \in 1 .. (n + p) /\ ~ (n + i <= n) /\ (n + i) - n = i
    BY <1>1
  <2> QED
    BY <1>3, <1>4, <2>1
<1> QED
  BY <1>1, <1>2, <1>3, <1>4, <1>5, <1>6, <1>7, <1>8 DEF n, m, p, q, Y, Z

(* Neither is the order along an account disturbed, nor what is there to   *)
(* cover the debits of X, which are on other accounts than those of T.     *)
LEMMA GoodBetween ==
  ASSUME NEW J \in Seq(Row), NEW T \in Seq(Row), NEW X \in Seq(Row),
         Good(J \o T), Good(J \o X),
         \A i \in DOMAIN T, j \in DOMAIN X : ~ Share(T[i].legs, X[j].legs)
  PROVE  Good((J \o T) \o X)
<1> DEFINE n == Len(J)
           m == Len(T)
           p == Len(X)
           Y == J \o T
           Z == J \o X
           q == Y \o X
<1>1. /\ n \in Nat /\ m \in Nat /\ p \in Nat
      /\ q \in Seq(Row) /\ Y \in Seq(Row) /\ Z \in Seq(Row)
      /\ Len(q) = n + m + p /\ Len(Y) = n + m /\ Len(Z) = n + p
      /\ \A i \in 1 .. n : q[i] = Z[i]
      /\ \A i \in 1 .. (n + m) : q[i] = Y[i]
      /\ \A i \in 1 .. m : q[n + i] = T[i]
      /\ \A i \in 1 .. p : q[n + m + i] = X[i] /\ Z[n + i] = X[i]
  BY Between
<1>2. /\ DOMAIN T = 1 .. m /\ DOMAIN X = 1 .. p /\ DOMAIN q = 1 .. (n + m + p)
      /\ DOMAIN Y = 1 .. (n + m) /\ DOMAIN Z = 1 .. (n + p)
  BY <1>1, LenProperties
<1>3. /\ Good(Y) /\ Good(Z)
      /\ \A i \in 1 .. m, j \in 1 .. p : ~ Share(T[i].legs, X[j].legs)
  BY <1>2
<1> HIDE DEF n, m, p, Y, Z, q
<1>0. n \in Nat /\ m \in Nat /\ p \in Nat
  BY <1>1
<1>4. ASSUME NEW i \in 1 .. (n + m + p)
      PROVE  \/ i \in 1 .. (n + m)
             \/ \E k \in 1 .. p : i = n + m + k
  <2>1. CASE i <= n + m
    BY <1>1, <2>1
  <2>2. CASE n + m < i
    <3>1. i - (n + m) \in 1 .. p /\ i = n + m + (i - (n + m))
      BY <1>1, <2>2
    <3> QED
      BY <3>1
  <2> QED
    BY <1>1, <2>1, <2>2
<1>5. ASSUME NEW i \in 1 .. (n + m)
      PROVE  i \in 1 .. n \/ \E l \in 1 .. m : i = n + l
  <2>1. CASE i <= n
    BY <1>1, <2>1
  <2>2. CASE n < i
    <3>1. i - n \in 1 .. m /\ i = n + (i - n)
      BY <1>1, <2>2
    <3> QED
      BY <3>1
  <2> QED
    BY <1>1, <2>1, <2>2
<1>6. Ordered(q)
  <2> SUFFICES ASSUME NEW i \in 1 .. (n + m + p), NEW j \in 1 .. (n + m + p),
                      i < j, Share(q[i].legs, q[j].legs)
               PROVE  q[i].id < q[j].id
    BY <1>2 DEF Ordered
  <2>1. CASE j \in 1 .. (n + m)
    <3>1. i \in 1 .. (n + m)
      BY <1>1, <2>1
    <3>2. q[i] = Y[i] /\ q[j] = Y[j]
      BY <1>1, <2>1, <3>1
    <3> QED
      BY <1>2, <1>3, <2>1, <3>1, <3>2 DEF Good, Ordered
  <2>2. ASSUME NEW k \in 1 .. p, j = n + m + k
        PROVE  q[i].id < q[j].id
    <3>0. n + k \in 1 .. (n + p)
      BY <1>0
    <3>1. q[j] = X[k] /\ q[j] = Z[n + k] /\ n + k \in 1 .. (n + p)
      BY <1>1, <2>2, <3>0
    <3>2. CASE i \in 1 .. n
      <4>0. i \in 1 .. (n + p) /\ i < n + k
        BY <1>0, <3>2
      <4>1. q[i] = Z[i] /\ i \in 1 .. (n + p) /\ i < n + k
        BY <1>1, <3>2, <4>0
      <4> QED
        BY <1>2, <1>3, <3>1, <4>1 DEF Good, Ordered
    <3>3. CASE \E l \in 1 .. m : i = n + l
      <4>1. PICK l \in 1 .. m : i = n + l
        BY <3>3
      <4>2. q[i] = T[l]
        BY <1>1, <4>1
      <4> QED
        BY <1>3, <3>1, <4>2
    <3>4. CASE \E l \in 1 .. p : i = n + m + l
      <4>1. PICK l \in 1 .. p : i = n + m + l
        BY <3>4
      <4>0. n + l \in 1 .. (n + p) /\ n + l < n + k
        BY <1>0, <2>2, <4>1
      <4>2. q[i] = Z[n + l] /\ n + l \in 1 .. (n + p) /\ n + l < n + k
        BY <1>1, <4>0, <4>1
      <4> QED
        BY <1>2, <1>3, <3>1, <4>2 DEF Good, Ordered
    <3> QED
      BY <1>4, <1>5, <3>2, <3>3, <3>4
  <2> QED
    BY <1>4, <2>1, <2>2
<1>7. ASSUME NEW i \in 1 .. (n + m)
      PROVE  Covered(q, i)
  <2>1. /\ i - 1 \in Nat /\ i - 1 <= Len(q) /\ i - 1 <= Len(Y)
        /\ \A k \in 1 .. (i - 1) : k \in 1 .. (n + m)
    BY <1>1
  <2>2. \A k \in 1 .. (i - 1) : q[k] = Y[k]
    BY <1>1, <2>1
  <2>3. \A u : Before(q, i - 1, u) = Before(Y, i - 1, u)
    BY <1>1, <2>1, <2>2, SameBefore
  <2>4. q[i] = Y[i] /\ Covered(Y, i)
    BY <1>1, <1>2, <1>3 DEF Good
  <2> QED
    BY <2>3, <2>4 DEF Covered
<1>8. ASSUME NEW k \in 1 .. p, NEW j, j = n + m + k
      PROVE  Covered(q, j)
  <2> SUFFICES ASSUME NEW u \in User, Ledger!Debits(q[j].legs, u) > 0
               PROVE  Ledger!Debits(q[j].legs, u) <= Before(q, j - 1, u)
    BY DEF Covered
  <2> DEFINE z == n + k
  <2>0. z \in 1 .. (n + p) /\ k \in 1 .. Len(X)
    BY <1>0 DEF p
  <2>1. q[j] = X[k] /\ Z[z] = X[k] /\ X[k] \in Row
    BY <1>1, <1>8, <2>0, ElementOfSeq
  <2>2. u \in Ledger!AccountsOf(X[k].legs)
    <3>1. X[k].legs \in Legs
      BY <2>1 DEF Row
    <3> QED
      BY <2>1, <3>1, LegsMove
  <2> DEFINE f == Movements(Z, u)
             g == Movements(q, u)
  <2>3. \A i \in 1 .. (n + p) : f[i] \in Int
    BY <1>1, MovementsTyped
  <2>4. \A i \in 1 .. n : g[i] = f[i]
    <3>1. \A i \in 1 .. n : i \in 1 .. (n + m + p) /\ i \in 1 .. (n + p)
      BY <1>1
    <3> QED
      BY <1>1, <1>2, <3>1 DEF Movements
  <2>5. \A i \in 1 .. m : g[n + i] = 0
    <3> SUFFICES ASSUME NEW i \in 1 .. m
                 PROVE  g[n + i] = 0
      OBVIOUS
    <3>1. n + i \in 1 .. (n + m + p) /\ q[n + i] = T[i] /\ T[i] \in Row
      BY <1>1, <1>2, LenProperties
    <3>2. ~ Share(T[i].legs, X[k].legs)
      BY <1>3
    <3>3. u \notin Ledger!AccountsOf(T[i].legs)
      BY <2>2, <3>2 DEF Share
    <3>4. T[i].legs \in Legs
      BY <3>1 DEF Row
    <3>5. Ledger!Movement(T[i].legs, u) = 0
      BY <3>3, <3>4, LegsMove
    <3> QED
      BY <1>2, <3>1, <3>5 DEF Movements
  <2>6. \A i \in 1 .. p : g[n + m + i] = f[n + i]
    <3>1. \A i \in 1 .. p :
            n + m + i \in 1 .. (n + m + p) /\ n + i \in 1 .. (n + p)
      BY <1>0
    <3> QED
      BY <1>1, <1>2, <3>1 DEF Movements
  <2> HIDE DEF f, g
  <2>7. \A i \in 0 .. p : SumFunctionOnSet(g, 1 .. (n + m + i))
                            = SumFunctionOnSet(f, 1 .. (n + i))
    <3>1. Skips(f, g, n, m, p)
      BY <2>3, <2>4, <2>5, <2>6 DEF Skips
    <3>2. SumsSkip(f, g, n, m, p)
      BY <1>0, <3>1, SumSkips
    <3> QED
      BY <3>2 DEF SumsSkip
  <2>8. /\ k - 1 \in 0 .. p
        /\ n + m + (k - 1) = j - 1 /\ n + (k - 1) = z - 1
    BY <1>0, <1>8
  <2>9. SumFunctionOnSet(g, 1 .. (n + m + (k - 1)))
          = SumFunctionOnSet(f, 1 .. (n + (k - 1)))
    BY <2>7, <2>8
  <2>10. Before(q, j - 1, u) = Before(Z, z - 1, u)
    BY <2>8, <2>9 DEF Before, f, g
  <2> HIDE DEF z
  <2>11. Covered(Z, z)
    BY <1>2, <1>3, <2>0 DEF Good
  <2>12. Ledger!Debits(X[k].legs, u) > 0 =>
           Ledger!Debits(X[k].legs, u) <= Before(Z, z - 1, u)
    BY <2>1, <2>11 DEF Covered
  <2> QED
    BY <2>1, <2>10, <2>12
<1>9. ASSUME NEW i \in 1 .. (n + m + p)
      PROVE  Covered(q, i)
  BY <1>4, <1>7, <1>8
<1> QED
  BY <1>2, <1>6, <1>9 DEF Good, q, Y

-----------------------------------------------------------------------------
(* The transactions.  Entries keep the rows of their accounts locked, and  *)
(* a session about to write has locked the rows of what it writes.         *)
LedgerTyped ==
  /\ journal \in Seq(Row) /\ lastId \in Nat
  /\ ledgerPc \in [Session -> {"idle", "open", "lock", "write"}]
  /\ posting \in [Session -> Legs]
  /\ ledgerTx \in [Session -> Seq(Row)]
  /\ ledgerHeld \in [Session -> SUBSET Account]

RowsLocked(s) ==
  /\ \A i \in DOMAIN ledgerTx[s] :
       Ledger!AccountsOf(ledgerTx[s][i].legs) \subseteq ledgerHeld[s]
  /\ ledgerPc[s] = "write" =>
       Ledger!AccountsOf(posting[s]) \subseteq ledgerHeld[s]

LockedAlone ==
  \A s, t \in Session : s # t => ledgerHeld[s] \cap ledgerHeld[t] = {}

IdsTaken(q) == \A i \in DOMAIN q : q[i].id <= lastId

(* What is committed is good, and so it would be after the next COMMIT,    *)
(* whosever it is.                                                         *)
LedgerInv ==
  /\ LedgerTyped /\ LockedAlone
  /\ IdsTaken(journal) /\ Good(journal)
  /\ \A s \in Session :
       RowsLocked(s) /\ IdsTaken(ledgerTx[s]) /\ Good(journal \o ledgerTx[s])

LEMMA LedgerInit == Ledger!Init => LedgerInv
<1> SUFFICES ASSUME Ledger!Init
             PROVE  LedgerInv
  OBVIOUS
<1>1. /\ journal = <<>> /\ lastId = 0
      /\ \A s \in Session : /\ ledgerTx[s] = <<>> /\ ledgerPc[s] = "idle"
                            /\ ledgerHeld[s] = {}
  BY DEF Ledger!Init
<1>2. <<>> \in Seq(Row) /\ <<>> \in Legs /\ DOMAIN <<>> = {}
  BY EmptySeq DEF Legs
<1>3. LedgerTyped
  BY <1>2 DEF LedgerTyped, Ledger!Init
<1>4. journal \o <<>> = <<>>
  BY <1>1, <1>2, ConcatEmptySeq
<1> QED
  BY <1>1, <1>2, <1>3, <1>4, NothingIsGood
     DEF LedgerInv, LockedAlone, IdsTaken, RowsLocked

(* The journal and the transactions stay, and no row is locked.            *)
LEMMA QuietLedgerStep ==
  ASSUME LedgerInv, NEW s \in Session,
         UNCHANGED <<journal, lastId, ledgerTx, ledgerHeld>>,
         NEW place \in {"idle", "open", "lock"},
         ledgerPc' = [ledgerPc EXCEPT ![s] = place],
         NEW legs \in Legs,
         posting' = posting \/ posting' = [posting EXCEPT ![s] = legs]
  PROVE  LedgerInv'
<1>1. LedgerTyped'
  BY DEF LedgerInv, LedgerTyped
<1>2. \A t \in Session : RowsLocked(t)'
  BY <1>1 DEF LedgerInv, LedgerTyped, RowsLocked
<1> QED
  BY <1>1, <1>2 DEF LedgerInv, LockedAlone, IdsTaken

(* ROLLBACK: the transaction is as if it had never been.                   *)
LEMMA LedgerRollBack ==
  ASSUME LedgerInv, NEW s \in Session, Ledger!RollBack(s)
  PROVE  LedgerInv'
<1>1. <<>> \in Seq(Row) /\ <<>> \in Legs /\ DOMAIN <<>> = {}
  BY EmptySeq DEF Legs
<1>2. LedgerTyped'
  BY <1>1 DEF LedgerInv, LedgerTyped, Ledger!RollBack, Ledger!EndTx
<1>3. UNCHANGED <<journal, lastId>>
  BY DEF Ledger!RollBack, Ledger!EndTx
<1>4. ASSUME NEW t \in Session
      PROVE  IF t = s
             THEN /\ ledgerTx'[t] = <<>> /\ ledgerPc'[t] = "idle"
                  /\ ledgerHeld'[t] = {}
             ELSE /\ ledgerTx'[t] = ledgerTx[t] /\ ledgerPc'[t] = ledgerPc[t]
                  /\ ledgerHeld'[t] = ledgerHeld[t]
                  /\ posting'[t] = posting[t]
  BY DEF LedgerInv, LedgerTyped, Ledger!RollBack, Ledger!EndTx
<1>5. LockedAlone'
  BY <1>4 DEF LedgerInv, LockedAlone
<1>6. Good(journal \o <<>>)
  BY ConcatEmptySeq DEF LedgerInv, LedgerTyped
<1>7. ASSUME NEW t \in Session
      PROVE  (RowsLocked(t) /\ IdsTaken(ledgerTx[t])
              /\ Good(journal \o ledgerTx[t]))'
  <2>1. CASE t = s
    BY <1>1, <1>3, <1>4, <1>6, <2>1 DEF RowsLocked, IdsTaken
  <2>2. CASE t # s
    BY <1>3, <1>4, <2>2 DEF LedgerInv, RowsLocked, IdsTaken
  <2> QED
    BY <2>1, <2>2
<1> QED
  BY <1>2, <1>3, <1>5, <1>7 DEF LedgerInv, IdsTaken

LEMMA LockAccountsStep ==
  ASSUME LedgerInv, NEW s \in Session, Ledger!LockAccounts(s)
  PROVE  LedgerInv'
<1> DEFINE rows == Ledger!AccountsOf(posting[s])
<1>1. /\ rows \subseteq Account
      /\ \A t \in Session \ {s} : rows \cap ledgerHeld[t] = {}
      /\ ledgerHeld' = [ledgerHeld EXCEPT ![s] = @ \cup rows]
      /\ ledgerPc' = [ledgerPc EXCEPT ![s] = "write"]
      /\ UNCHANGED <<journal, lastId, posting, ledgerTx>>
  BY DEF Ledger!LockAccounts, Ledger!WellFormed
<1> HIDE DEF rows
<1>2. LedgerTyped'
  BY <1>1 DEF LedgerInv, LedgerTyped
<1>3. /\ ledgerHeld'[s] = ledgerHeld[s] \cup rows
      /\ \A t \in Session \ {s} :
           ledgerHeld'[t] = ledgerHeld[t] /\ ledgerPc'[t] = ledgerPc[t]
  BY <1>1 DEF LedgerInv, LedgerTyped
<1>4. LockedAlone'
  BY <1>1, <1>3 DEF LedgerInv, LockedAlone
<1>5. \A t \in Session : RowsLocked(t)'
  <2>1. RowsLocked(s)'
    BY <1>1, <1>3 DEF LedgerInv, RowsLocked, rows
  <2>2. \A t \in Session \ {s} : RowsLocked(t)'
    BY <1>1, <1>3 DEF LedgerInv, RowsLocked
  <2> QED
    BY <2>1, <2>2
<1> QED
  BY <1>1, <1>2, <1>4, <1>5 DEF LedgerInv, IdsTaken

(* The next id is above all, and the rows of the entry are locked.         *)
LEMMA InsertStep ==
  ASSUME LedgerInv, NEW s \in Session, NEW legs \in Legs,
         Ledger!Insert(s, legs),
         Ledger!AccountsOf(legs) \subseteq ledgerHeld[s],
         \A u \in User : Ledger!Debits(legs, u) > 0 =>
           Ledger!Debits(legs, u) <= Ledger!StartingBalance(s, u)
  PROVE  LedgerInv'
<1> DEFINE e == [id |-> lastId + 1, legs |-> legs]
           q == journal \o ledgerTx[s]
           n == Len(q)
<1>0. /\ journal \in Seq(Row) /\ lastId \in Nat
      /\ \A t \in Session : ledgerTx[t] \in Seq(Row)
  BY DEF LedgerInv, LedgerTyped
<1>1. e \in Row /\ e.legs = legs /\ e.id = lastId + 1
  BY <1>0 DEF Row
<1>2. /\ lastId' = lastId + 1
      /\ ledgerTx' = [ledgerTx EXCEPT ![s] = Append(@, e)]
      /\ ledgerPc' = [ledgerPc EXCEPT ![s] = "open"]
      /\ posting' = [posting EXCEPT ![s] = <<>>]
      /\ UNCHANGED <<journal, ledgerHeld>>
  BY DEF Ledger!Insert
<1> HIDE DEF e
<1>3. Append(ledgerTx[s], e) \in Seq(Row)
  BY <1>0, <1>1, AppendProperties
<1>4. LedgerTyped'
  <2>1. <<>> \in Legs
    BY DEF Legs
  <2> QED
    BY <1>0, <1>2, <1>3, <2>1 DEF LedgerInv, LedgerTyped
<1>5. /\ ledgerTx'[s] = Append(ledgerTx[s], e) /\ ledgerPc'[s] = "open"
      /\ \A t \in Session \ {s} :
           /\ ledgerTx'[t] = ledgerTx[t] /\ ledgerPc'[t] = ledgerPc[t]
           /\ posting'[t] = posting[t]
  BY <1>2 DEF LedgerInv, LedgerTyped
<1>6. /\ DOMAIN ledgerTx[s] = 1 .. Len(ledgerTx[s])
      /\ DOMAIN Append(ledgerTx[s], e) = 1 .. (Len(ledgerTx[s]) + 1)
      /\ Len(ledgerTx[s]) \in Nat
      /\ \A i \in 1 .. Len(ledgerTx[s]) :
           Append(ledgerTx[s], e)[i] = ledgerTx[s][i]
      /\ Append(ledgerTx[s], e)[Len(ledgerTx[s]) + 1] = e
  BY <1>0, <1>1, <1>3, AppendProperties, LenProperties
<1>7. \A i \in DOMAIN ledgerTx'[s] :
        \/ i \in DOMAIN ledgerTx[s] /\ ledgerTx'[s][i] = ledgerTx[s][i]
        \/ ledgerTx'[s][i] = e
  BY <1>5, <1>6
<1>8. \A t \in Session : RowsLocked(t)'
  <2>1. RowsLocked(s)'
    BY <1>1, <1>2, <1>5, <1>7 DEF LedgerInv, RowsLocked
  <2>2. \A t \in Session \ {s} : RowsLocked(t)'
    BY <1>2, <1>5 DEF LedgerInv, RowsLocked
  <2> QED
    BY <2>1, <2>2
<1>9. ASSUME NEW r \in Seq(Row), IdsTaken(r)
      PROVE  \A i \in DOMAIN r : r[i].id < lastId + 1 /\ r[i].id <= lastId'
  <2> SUFFICES ASSUME NEW i \in DOMAIN r
               PROVE  r[i].id < lastId + 1 /\ r[i].id <= lastId'
    OBVIOUS
  <2>1. r[i] \in Row
    BY LenProperties
  <2>2. r[i].id \in Nat /\ r[i].id <= lastId
    BY <1>9, <2>1 DEF IdsTaken, Row
  <2> QED
    BY <1>0, <1>2, <2>2
<1>10. \A t \in Session : IdsTaken(ledgerTx[t])'
  <2>1. IdsTaken(ledgerTx[s])'
    <3>1. e.id <= lastId'
      BY <1>0, <1>1, <1>2
    <3> QED
      BY <1>0, <1>7, <1>9, <3>1 DEF LedgerInv, IdsTaken
  <2>2. \A t \in Session \ {s} : IdsTaken(ledgerTx[t])'
    BY <1>0, <1>5, <1>9 DEF LedgerInv, IdsTaken
  <2> QED
    BY <2>1, <2>2
<1>11. /\ q \in Seq(Row) /\ n \in Nat /\ DOMAIN q = 1 .. n
       /\ \A i \in DOMAIN q : q[i].id < e.id
  <2>1. /\ q \in Seq(Row)
        /\ Len(q) = Len(journal) + Len(ledgerTx[s])
        /\ \A i \in 1 .. (Len(journal) + Len(ledgerTx[s])) :
             q[i] = IF i <= Len(journal) THEN journal[i]
                    ELSE ledgerTx[s][i - Len(journal)]
    BY <1>0, ConcatProperties
  <2>2. /\ n \in Nat /\ DOMAIN q = 1 .. n
        /\ Len(journal) \in Nat /\ DOMAIN journal = 1 .. Len(journal)
    BY <1>0, <2>1, LenProperties
  <2>3. /\ \A i \in DOMAIN journal : journal[i].id < lastId + 1
        /\ \A i \in DOMAIN ledgerTx[s] : ledgerTx[s][i].id < lastId + 1
    BY <1>0, <1>9 DEF LedgerInv
  <2> HIDE DEF q
  <2>4. ASSUME NEW i \in 1 .. n
        PROVE  q[i].id < lastId + 1
    <3>1. CASE i <= Len(journal)
      BY <2>1, <2>2, <2>3, <3>1
    <3>2. CASE ~ (i <= Len(journal))
      <4>1. i - Len(journal) \in 1 .. Len(ledgerTx[s])
        BY <1>6, <2>1, <2>2, <3>2
      <4> QED
        BY <1>6, <2>1, <2>3, <3>2, <4>1
    <3> QED
      BY <3>1, <3>2
  <2> QED
    BY <1>1, <2>1, <2>2, <2>4
<1>12. Good(Append(q, e))
  <2>1. \A u \in User : Ledger!StartingBalance(s, u) = Before(q, n, u)
    <3> SUFFICES ASSUME NEW u \in User
                 PROVE  Ledger!StartingBalance(s, u) = Before(q, n, u)
      OBVIOUS
    <3>1. n \in 0 .. Len(q) /\ SubSeq(q, 1, n) = q
      BY <1>11, SubSeqFull
    <3>2. Ledger!Balance(q, u) = Before(q, n, u)
      BY <1>11, <3>1, BalanceBefore
    <3> QED
      BY <3>2 DEF Ledger!StartingBalance
  <2>2. Good(q)
    BY DEF LedgerInv
  <2> HIDE DEF q
  <2>3. \A u \in User : Ledger!Debits(e.legs, u) > 0 =>
          Ledger!Debits(e.legs, u) <= Before(q, Len(q), u)
    BY <1>1, <2>1
  <2> QED
    BY <1>1, <1>11, <2>2, <2>3, GoodAppend
<1>13. Append(q, e) = journal \o Append(ledgerTx[s], e)
  <2>1. <<e>> \in Seq(Row)
    BY <1>1
  <2>2. Append(q, e) = q \o <<e>>
    BY <1>1, <1>11, AppendIsConcat
  <2>3. Append(ledgerTx[s], e) = ledgerTx[s] \o <<e>>
    BY <1>0, <1>1, AppendIsConcat
  <2>4. (journal \o ledgerTx[s]) \o <<e>> = journal \o (ledgerTx[s] \o <<e>>)
    BY <1>0, <2>1, RowsAssociative
  <2> QED
    BY <2>2, <2>3, <2>4
<1>14. \A t \in Session : Good(journal \o ledgerTx[t])'
  <2>1. Good(journal \o ledgerTx[s])'
    BY <1>2, <1>5, <1>12, <1>13
  <2>2. \A t \in Session \ {s} : Good(journal \o ledgerTx[t])'
    BY <1>2, <1>5 DEF LedgerInv
  <2> QED
    BY <2>1, <2>2
<1>15. IdsTaken(journal)' /\ LockedAlone' /\ Good(journal)'
  BY <1>0, <1>2, <1>9 DEF LedgerInv, IdsTaken, LockedAlone
<1> QED
  BY <1>4, <1>8, <1>10, <1>14, <1>15 DEF LedgerInv

(* An entry of postings is covered by the guard, and a marker moves        *)
(* nothing.                                                                *)
LEMMA InsertEntryStep ==
  ASSUME LedgerInv, NEW s \in Session, Ledger!InsertEntry(s)
  PROVE  LedgerInv'
<1>1. /\ posting[s] \in Legs /\ Ledger!Insert(s, posting[s])
      /\ Ledger!AccountsOf(posting[s]) \subseteq ledgerHeld[s]
  BY DEF LedgerInv, LedgerTyped, RowsLocked, Ledger!InsertEntry
<1>2. ASSUME NEW u \in User, Ledger!Debits(posting[s], u) > 0
      PROVE  Ledger!Debits(posting[s], u) <= Ledger!StartingBalance(s, u)
  <2>1. CASE u \in Ledger!AccountsOf(posting[s])
    BY <1>2, <2>1 DEF Ledger!InsertEntry, Ledger!Funded
  <2>2. CASE u \notin Ledger!AccountsOf(posting[s])
    <3>1. Ledger!Debits(posting[s], u) = 0
      BY <1>1, <2>2, LegsMove
    <3> QED
      BY <1>2, <3>1
  <2> QED
    BY <2>1, <2>2
<1> QED
  BY <1>1, <1>2, InsertStep

LEMMA InsertMarkerStep ==
  ASSUME LedgerInv, NEW s \in Session, Ledger!InsertMarker(s)
  PROVE  LedgerInv'
<1>1. Ledger!Insert(s, <<>>) /\ <<>> \in Legs
  BY DEF Ledger!InsertMarker, Legs
<1>2. DOMAIN <<>> = {}
  OBVIOUS
<1>3. Ledger!AccountsOf(<<>>) = {}
  BY <1>2 DEF Ledger!AccountsOf
<1>4. \A u \in User : Ledger!Debits(<<>>, u) = 0
  BY <1>1, <1>3, LegsMove
<1> QED
  BY <1>1, <1>3, <1>4, InsertStep

(* COMMIT: the entries of the others share no account with those that go   *)
(* into the journal.                                                       *)
LEMMA LedgerCommitStep ==
  ASSUME LedgerInv, NEW s \in Session, Ledger!Commit(s)
  PROVE  LedgerInv'
<1>0. /\ journal \in Seq(Row) /\ <<>> \in Seq(Row) /\ DOMAIN <<>> = {}
      /\ \A t \in Session : ledgerTx[t] \in Seq(Row)
  BY EmptySeq DEF LedgerInv, LedgerTyped
<1>1. /\ journal' = journal \o ledgerTx[s] /\ journal' \in Seq(Row)
      /\ UNCHANGED lastId
  BY <1>0, ConcatProperties DEF Ledger!Commit, Ledger!EndTx
<1>2. LedgerTyped'
  <2>1. <<>> \in Legs
    BY DEF Legs
  <2> QED
    BY <1>0, <1>1, <2>1
       DEF LedgerInv, LedgerTyped, Ledger!Commit, Ledger!EndTx
<1>3. ASSUME NEW t \in Session
      PROVE  IF t = s
             THEN /\ ledgerTx'[t] = <<>> /\ ledgerPc'[t] = "idle"
                  /\ ledgerHeld'[t] = {}
             ELSE /\ ledgerTx'[t] = ledgerTx[t] /\ ledgerPc'[t] = ledgerPc[t]
                  /\ ledgerHeld'[t] = ledgerHeld[t]
                  /\ posting'[t] = posting[t]
  BY DEF LedgerInv, LedgerTyped, Ledger!Commit, Ledger!EndTx
<1>4. LockedAlone'
  BY <1>3 DEF LedgerInv, LockedAlone
<1>5. IdsTaken(journal)'
  <2>1. /\ Len(journal) \in Nat /\ DOMAIN journal = 1 .. Len(journal)
        /\ Len(ledgerTx[s]) \in Nat
        /\ DOMAIN ledgerTx[s] = 1 .. Len(ledgerTx[s])
        /\ DOMAIN journal' = 1 .. (Len(journal) + Len(ledgerTx[s]))
        /\ \A i \in 1 .. (Len(journal) + Len(ledgerTx[s])) :
             journal'[i] = IF i <= Len(journal) THEN journal[i]
                           ELSE ledgerTx[s][i - Len(journal)]
    BY <1>0, <1>1, LenProperties, ConcatProperties
  <2>2. ASSUME NEW i \in DOMAIN journal'
        PROVE  journal'[i].id <= lastId
    <3>1. CASE i <= Len(journal)
      BY <2>1, <3>1 DEF LedgerInv, IdsTaken
    <3>2. CASE ~ (i <= Len(journal))
      <4>1. i - Len(journal) \in DOMAIN ledgerTx[s]
        BY <2>1, <3>2
      <4> QED
        BY <2>1, <3>2, <4>1 DEF LedgerInv, IdsTaken
    <3> QED
      BY <3>1, <3>2
  <2> QED
    BY <1>1, <2>2 DEF IdsTaken
<1>6. Good(journal')
  BY <1>1 DEF LedgerInv
<1>7. \A t \in Session : RowsLocked(t)' /\ IdsTaken(ledgerTx[t])'
  BY <1>0, <1>1, <1>3 DEF LedgerInv, RowsLocked, IdsTaken
<1>8. ASSUME NEW t \in Session
      PROVE  Good(journal' \o ledgerTx'[t])
  <2>1. CASE t = s
    <3>1. journal' \o <<>> = journal'
      BY <1>1, ConcatEmptySeq
    <3> QED
      BY <1>3, <1>6, <2>1, <3>1
  <2>2. CASE t # s
    <3>1. ASSUME NEW i \in DOMAIN ledgerTx[s], NEW j \in DOMAIN ledgerTx[t]
          PROVE  ~ Share(ledgerTx[s][i].legs, ledgerTx[t][j].legs)
      <4>1. /\ Ledger!AccountsOf(ledgerTx[s][i].legs) \subseteq ledgerHeld[s]
            /\ Ledger!AccountsOf(ledgerTx[t][j].legs) \subseteq ledgerHeld[t]
        BY DEF LedgerInv, RowsLocked
      <4>2. ledgerHeld[s] \cap ledgerHeld[t] = {}
        BY <2>2 DEF LedgerInv, LockedAlone
      <4> QED
        BY <4>1, <4>2 DEF Share
    <3>2. Good(journal \o ledgerTx[s]) /\ Good(journal \o ledgerTx[t])
      BY DEF LedgerInv
    <3>3. Good((journal \o ledgerTx[s]) \o ledgerTx[t])
      BY <1>0, <3>1, <3>2, GoodBetween
    <3> QED
      BY <1>1, <1>3, <2>2, <3>3
  <2> QED
    BY <2>1, <2>2
<1> QED
  BY <1>2, <1>4, <1>5, <1>6, <1>7, <1>8 DEF LedgerInv

LEMMA LedgerStep ==
  ASSUME LedgerInv, [Ledger!Next]_ledger
  PROVE  LedgerInv'
<1>1. CASE UNCHANGED ledger
  BY <1>1 DEF ledger, LedgerInv, LedgerTyped, LockedAlone, RowsLocked, IdsTaken
<1>2. ASSUME NEW s \in Session, Ledger!Begin(s)
      PROVE  LedgerInv'
  <2>1. <<>> \in Legs
    BY DEF Legs
  <2> QED
    BY <1>2, <2>1, QuietLedgerStep DEF Ledger!Begin
<1>3. ASSUME NEW s \in Session, Ledger!CallPostEntry(s)
      PROVE  LedgerInv'
  <2>1. PICK legs \in Entry : posting' = [posting EXCEPT ![s] = legs]
    BY <1>3 DEF Ledger!CallPostEntry
  <2>2. legs \in Legs
    BY DEF Legs
  <2> QED
    BY <1>3, <2>1, <2>2, QuietLedgerStep DEF Ledger!CallPostEntry
<1>4. ASSUME NEW s \in Session,
             Ledger!RejectEntry(s) \/ Ledger!RefuseEntry(s)
             \/ Ledger!RaiseUnbalanced(s) \/ Ledger!Abort(s)
      PROVE  LedgerInv'
  BY <1>4, LedgerRollBack
     DEF Ledger!RejectEntry, Ledger!RefuseEntry, Ledger!RaiseUnbalanced,
         Ledger!Abort
<1>5. CASE Ledger!Next
  BY <1>2, <1>3, <1>4, <1>5, LockAccountsStep, InsertEntryStep,
     InsertMarkerStep, LedgerCommitStep DEF Ledger!Next
<1> QED
  BY <1>1, <1>5

LEMMA LedgerAlways == Spec => []LedgerInv
<1>1. Init => LedgerInv
  BY PartsInit, LedgerInit
<1>2. LedgerInv /\ [Next]_vars => LedgerInv'
  BY PartsStep, LedgerStep
<1> QED
  BY <1>1, <1>2, PTL DEF Spec

(* Ids along an account grow with the commits, however many sessions post  *)
(* (ledger/post.ts:33-39).                                                 *)
THEOREM IdsAlwaysFollowCommits == Spec => []IdsFollowCommits
<1>1. LedgerInv => IdsFollowCommits
  BY DEF LedgerInv, Good, Ordered, Share, IdsFollowCommits,
         Ledger!IdsFollowCommits
<1> QED
  BY <1>1, LedgerAlways, PTL

(* Whoever else debits and credits at the same time, a user's debit was    *)
(* covered by what had been committed before it (ledger/post.ts:67-102).   *)
THEOREM DebitsAlwaysFunded == Spec => []FundedByThePast
<1>1. LedgerInv => FundedByThePast
  <2> SUFFICES ASSUME LedgerInv, NEW i \in DOMAIN journal, NEW u \in User,
                      Ledger!Debits(journal[i].legs, u) > 0
               PROVE  Ledger!Debits(journal[i].legs, u)
                        <= Ledger!Balance(SubSeq(journal, 1, i - 1), u)
    BY DEF FundedByThePast, Ledger!FundedByThePast
  <2>1. journal \in Seq(Row)
    BY DEF LedgerInv, LedgerTyped
  <2>2. i - 1 \in 0 .. Len(journal)
    BY <2>1, LenProperties
  <2>3. Ledger!Balance(SubSeq(journal, 1, i - 1), u)
          = Before(journal, i - 1, u)
    BY <2>1, <2>2, BalanceBefore
  <2>4. Covered(journal, i)
    BY DEF LedgerInv, Good
  <2> QED
    BY <2>3, <2>4 DEF Covered
<1> QED
  BY <1>1, LedgerAlways, PTL

-----------------------------------------------------------------------------
(* The figures.  Numbers with two decimals survive their conversions.      *)
LEMMA RoundHundredths ==
  ASSUME NEW h \in Nat
  PROVE  \A below : Figures!Rounded(10 * h, below) = h
<1>1. (10 * h) % 10 = 0 /\ (10 * h + 5) \div 10 = h
  OBVIOUS
<1> QED
  BY <1>1 DEF Figures!Rounded

LEMMA RoundedTyped ==
  ASSUME NEW x \in Nat
  PROVE  \A below : Figures!Rounded(x, below) \in Nat
<1>1. x \div 10 \in Nat /\ (x + 5) \div 10 \in Nat
  OBVIOUS
<1> QED
  BY <1>1 DEF Figures!Rounded

DecimalText == [whole : Nat, frac : Seq(0 .. 9)]

(* The text of two digits after the point, and of one.                     *)
LEMMA TextRead ==
  ASSUME NEW w \in Nat, NEW f \in Seq(0 .. 9)
  PROVE  LET t == [whole |-> w, frac |-> f]
         IN  /\ Len(f) = 2 =>
                  /\ Figures!ParseHundredths(t) = 100 * w + (10 * f[1] + f[2])
                  /\ Figures!Value(t) = 1000 * w + 100 * f[1] + 10 * f[2] + 0
             /\ Len(f) = 1 => Figures!ParseHundredths(t) = 100 * w + 10 * f[1]
             /\ Len(f) = 0 => Figures!ParseHundredths(t) = 100 * w + 0
<1> DEFINE t == [whole |-> w, frac |-> f]
<1>1. t.whole = w /\ t.frac = f
  OBVIOUS
<1> HIDE DEF t
<1>2. ASSUME Len(f) = 2
      PROVE  Figures!ParseHundredths(t) = 100 * w + (10 * f[1] + f[2])
  <2>1. Len(f) # 0 /\ Len(f) # 1
    BY <1>2
  <2> QED
    BY <1>1, <2>1 DEF Figures!ParseHundredths
<1>3. ASSUME Len(f) = 2
      PROVE  Figures!Value(t) = 1000 * w + 100 * f[1] + 10 * f[2] + 0
  <2>1. 1 <= Len(f) /\ 2 <= Len(f) /\ ~ (3 <= Len(f))
    BY <1>3
  <2> QED
    BY <1>1, <2>1 DEF Figures!Value
<1>4. Len(f) = 1 => Figures!ParseHundredths(t) = 100 * w + 10 * f[1]
  BY <1>1 DEF Figures!ParseHundredths
<1>5. Len(f) = 0 => Figures!ParseHundredths(t) = 100 * w + 0
  BY <1>1 DEF Figures!ParseHundredths
<1> QED
  BY <1>2, <1>3, <1>4, <1>5 DEF t

LEMMA FormatTyped ==
  ASSUME NEW h \in Nat
  PROVE  /\ Figures!FormatHundredths(h) \in DecimalText
         /\ Figures!ParseHundredths(Figures!FormatHundredths(h)) = h
         /\ Figures!Value(Figures!FormatHundredths(h)) = 10 * h
<1> DEFINE w == h \div 100
           a == (h % 100) \div 10
           b == h % 10
           f == <<a, b>>
<1>1. /\ w \in Nat /\ a \in 0 .. 9 /\ b \in 0 .. 9
      /\ h = 100 * w + 10 * a + b
  OBVIOUS
<1>2. Figures!FormatHundredths(h) = [whole |-> w, frac |-> f]
  BY DEF Figures!FormatHundredths
<1> HIDE DEF w, a, b
<1>3. f \in Seq(0 .. 9) /\ Len(f) = 2 /\ f[1] = a /\ f[2] = b
  BY <1>1
<1> HIDE DEF f
<1>4. [whole |-> w, frac |-> f] \in DecimalText
  BY <1>1, <1>3 DEF DecimalText
<1>5. Figures!ParseHundredths([whole |-> w, frac |-> f]) = h
  <2>1. Figures!ParseHundredths([whole |-> w, frac |-> f])
          = 100 * w + (10 * a + b)
    BY <1>1, <1>3, TextRead
  <2> QED
    BY <1>1, <2>1
<1>6. Figures!Value([whole |-> w, frac |-> f]) = 10 * h
  <2>1. Figures!Value([whole |-> w, frac |-> f])
          = 1000 * w + 100 * a + 10 * b + 0
    BY <1>1, <1>3, TextRead
  <2> QED
    BY <1>1, <2>1
<1> QED
  BY <1>2, <1>4, <1>5, <1>6

(* The digits of a number in thousandths, and where the zeros begin.       *)
LEMMA ShortestTyped ==
  ASSUME NEW x \in Nat
  PROVE  /\ Figures!Shortest(x) \in DecimalText
         /\ x % 10 = 0 =>
              Figures!ParseHundredths(Figures!Shortest(x)) = x \div 10
<1> DEFINE w == x \div 1000
           a == (x % 1000) \div 100
           b == (x % 100) \div 10
           c == x % 10
           all == <<a, b, c>>
           Ends(n) == /\ \A i \in n + 1 .. 3 : all[i] = 0
                      /\ n > 0 => all[n] # 0
           len == CHOOSE n \in 0 .. 3 : Ends(n)
           f == SubSeq(all, 1, len)
<1>1. /\ w \in Nat /\ a \in 0 .. 9 /\ b \in 0 .. 9 /\ c \in 0 .. 9
      /\ x % 10 = 0 => c = 0 /\ x \div 10 = 100 * w + 10 * a + b
  OBVIOUS
<1>2. Figures!Shortest(x) = [whole |-> w, frac |-> f]
  BY DEF Figures!Shortest
<1> HIDE DEF w, a, b, c
<1>3. /\ all \in Seq(0 .. 9) /\ Len(all) = 3
      /\ all[1] = a /\ all[2] = b /\ all[3] = c
  BY <1>1
<1> HIDE DEF all
<1>4. len \in 0 .. 3 /\ Ends(len)
  <2>1. \E n \in 0 .. 3 : Ends(n)
    <3>1. CASE c # 0
      <4>1. Ends(3)
        BY <1>3, <3>1
      <4> QED
        BY <4>1
    <3>2. CASE c = 0 /\ b # 0
      <4>1. Ends(2)
        BY <1>3, <3>2
      <4> QED
        BY <4>1
    <3>3. CASE c = 0 /\ b = 0 /\ a # 0
      <4>1. Ends(1)
        BY <1>3, <3>3
      <4> QED
        BY <4>1
    <3>4. CASE c = 0 /\ b = 0 /\ a = 0
      <4>1. Ends(0)
        BY <1>3, <3>4
      <4> QED
        BY <4>1
    <3> QED
      BY <3>1, <3>2, <3>3, <3>4
  <2> HIDE DEF Ends
  <2> QED
    BY <2>1
<1> HIDE DEF len
<1>5. /\ f \in Seq(0 .. 9) /\ Len(f) = len
      /\ \A i \in 1 .. len : f[i] = all[i]
  <2>1. \A i \in 1 .. len : all[i] \in 0 .. 9
    BY <1>1, <1>3, <1>4
  <2>2. /\ 1 \in Int /\ len \in Int /\ len - 1 + 1 = len
        /\ \A i \in 1 .. len : 1 + i - 1 = i
    BY <1>4
  <2>3. /\ f \in Seq(0 .. 9)
        /\ Len(f) = IF 1 <= len THEN len - 1 + 1 ELSE 0
        /\ \A i \in 1 .. (len - 1 + 1) : f[i] = all[1 + i - 1]
    BY <2>1, <2>2, SubSeqProperties
  <2>4. Len(f) = len
    BY <1>4, <2>2, <2>3
  <2> QED
    BY <2>2, <2>3, <2>4
<1> HIDE DEF f
<1>6. [whole |-> w, frac |-> f] \in DecimalText
  BY <1>1, <1>5 DEF DecimalText
<1>7. ASSUME x % 10 = 0
      PROVE  Figures!ParseHundredths([whole |-> w, frac |-> f]) = x \div 10
  <2>1. c = 0 /\ len # 3
    BY <1>1, <1>3, <1>4, <1>7
  <2>2. CASE len = 0
    <3>1. a = 0 /\ b = 0
      BY <1>3, <1>4, <2>2
    <3>2. Figures!ParseHundredths([whole |-> w, frac |-> f]) = 100 * w + 0
      <4> DEFINE t == [whole |-> w, frac |-> f]
      <4>1. t.whole = w /\ Len(t.frac) = 0
        BY <1>5, <2>2
      <4> HIDE DEF t
      <4>2. Figures!ParseHundredths(t) = 100 * w + 0
        BY <4>1 DEF Figures!ParseHundredths
      <4> QED
        BY <4>2 DEF t
    <3> QED
      BY <1>1, <1>7, <3>1, <3>2
  <2>3. CASE len = 1
    <3>1. b = 0 /\ f[1] = a
      BY <1>3, <1>4, <1>5, <2>3
    <3>2. Figures!ParseHundredths([whole |-> w, frac |-> f])
            = 100 * w + 10 * a
      BY <1>1, <1>5, <2>3, <3>1, TextRead
    <3> QED
      BY <1>1, <1>7, <3>1, <3>2
  <2>4. CASE len = 2
    <3>1. f[1] = a /\ f[2] = b
      BY <1>3, <1>5, <2>4
    <3>2. Figures!ParseHundredths([whole |-> w, frac |-> f])
            = 100 * w + (10 * a + b)
      BY <1>1, <1>5, <2>4, <3>1, TextRead
    <3> QED
      BY <1>1, <1>7, <3>2
  <2> QED
    BY <1>4, <2>1, <2>2, <2>3, <2>4
<1> QED
  BY <1>2, <1>6, <1>7

(* A number typed with two decimals at most, in hundredths.                *)
Whole == typed % 10 = 0
Cents == typed \div 10

FiguresTyped ==
  /\ stage \in {"typing", "shown", "moved", "sent", "refused", "read",
                "settled", "verified"}
  /\ typed \in Nat /\ stake \in Nat
  /\ text \in DecimalText /\ hundredths \in Nat /\ roll \in Nat
  /\ rollText = Figures!FormatHundredths(roll)

(* They are what is shown, sent, read and settled.                         *)
ShownTyped ==
  Whole /\ stage # "typing" => shown = Figures!Preview(stake, Cents)

SentTyped ==
  Whole /\ stage = "sent" => Figures!ParseHundredths(text) = Cents

ReadTyped ==
  stage \in {"read", "settled", "verified"} =>
    Figures!InRange(hundredths) /\ (Whole => hundredths = Cents)

SettledRight ==
  stage \in {"settled", "verified"} =>
    /\ stake > 0
    /\ won = Figures!IsWin(roll, hundredths)
    /\ payout = IF won THEN Figures!PayoutFor(stake, hundredths) ELSE 0

CheckedRight ==
  stage = "verified" =>
    /\ checked[1].listed = roll /\ checked[1].browser = roll
    /\ checked[1].route = 10 * roll /\ checked[1].routeWon = won

FiguresInv ==
  FiguresTyped /\ ShownTyped /\ SentTyped /\ ReadTyped /\ SettledRight
  /\ CheckedRight

LEMMA FiguresInit == Figures!Init => FiguresInv
<1>1. Figures!FormatHundredths(0) \in DecimalText
  BY FormatTyped
<1> QED
  BY <1>1 DEF Figures!Init, FiguresInv, FiguresTyped, ShownTyped, SentTyped,
              ReadTyped, SettledRight, CheckedRight

LEMMA SameTyped == UNCHANGED typed => (Whole' <=> Whole) /\ Cents' = Cents
BY DEF Whole, Cents

LEMMA StakeAccepted ==
  ASSUME NEW x \in Figures!MinBet .. Figures!MaxBet
  PROVE  x > 0 /\ x >= 100
BY DEF Figures!MinBet

LEMMA OnSlider ==
  ASSUME NEW h \in Figures!TargetMin .. Figures!TargetMax
  PROVE  h \in Nat
BY DEF Figures!TargetMin

LEMMA RollNat == Roll \subseteq Nat
<1> DEFINE top == 9999
<1>1. Figures!RollSpace = 0 .. top
  BY DEF Figures!RollSpace
<1> HIDE DEF top
<1>2. Roll \subseteq Figures!RollSpace
  BY Instances DEF Figures!FiguresAssumption
<1> QED
  BY <1>1, <1>2

LEMMA TargetAccepted ==
  ASSUME NEW h \in Nat, Figures!InRange(h)
  PROVE  h > 0 /\ h < 10000 /\ h <= 9999
BY DEF Figures!InRange, Figures!TargetMin, Figures!TargetMax

(* As many rolls win as there are below the target.                        *)
LEMMA WinningRolls ==
  ASSUME NEW h \in Nat, Figures!InRange(h)
  PROVE  Cardinality({r \in Figures!RollSpace : Figures!IsWin(r, h)}) = h
<1> DEFINE top == 9999
<1>1. Figures!RollSpace = 0 .. top /\ top \in Nat /\ h > 0 /\ h <= top
  BY TargetAccepted DEF Figures!RollSpace
<1> HIDE DEF top
<1>2. {r \in Figures!RollSpace : Figures!IsWin(r, h)} = 0 .. (h - 1)
  BY <1>1 DEF Figures!IsWin
<1>3. /\ 0 \in Int /\ h - 1 \in Int /\ ~ (0 > h - 1)
      /\ (h - 1) - 0 + 1 = h
  BY <1>1
<1>4. Cardinality(0 .. (h - 1)) = IF 0 > h - 1 THEN 0 ELSE (h - 1) - 0 + 1
  BY <1>3, FS_Interval
<1> QED
  BY <1>2, <1>3, <1>4

LEMMA WholeRounded ==
  ASSUME NEW x \in Nat, x % 10 = 0
  PROVE  \A below : Figures!Rounded(x, below) = x \div 10
<1>1. x = 10 * (x \div 10) /\ x \div 10 \in Nat
  OBVIOUS
<1> QED
  BY <1>1, RoundHundredths

LEMMA TypeStep ==
  ASSUME FiguresInv, Figures!Type
  PROVE  FiguresInv'
<1>1. PICK x \in Typed, a \in Stake :
        typed' = x /\ stake' = a
        /\ shown' = Figures!Preview(a, Figures!MathRound(x))
  BY DEF Figures!Type
<1>2. x \in Nat /\ a \in Nat
  BY <1>1, Instances DEF Figures!FiguresAssumption
<1>3. stage' = "shown" /\ UNCHANGED <<text, hundredths, rollText, roll>>
  BY DEF Figures!Type, Figures!outcome
<1>4. Whole' => Figures!MathRound(x) = Cents'
  <2>1. x % 10 = 0 => Figures!MathRound(x) = x \div 10
    BY <1>2, WholeRounded DEF Figures!MathRound
  <2> QED
    BY <1>1, <2>1 DEF Whole, Cents
<1>5. FiguresTyped'
  BY <1>1, <1>2, <1>3 DEF FiguresInv, FiguresTyped
<1>6. ShownTyped'
  BY <1>1, <1>4 DEF ShownTyped
<1> QED
  BY <1>3, <1>5, <1>6
     DEF FiguresInv, SentTyped, ReadTyped, SettledRight, CheckedRight

LEMMA SlideStep ==
  ASSUME FiguresInv, Figures!Slide
  PROVE  FiguresInv'
<1>1. PICK h \in Figures!TargetMin .. Figures!TargetMax :
        typed' = 10 * h /\ shown' = Figures!Preview(stake, h)
  BY DEF Figures!Slide
<1>2. typed' \in Nat /\ Cents' = h
  <2>1. 10 * h \in Nat /\ (10 * h) \div 10 = h
    <3>1. h \in Nat
      BY <1>1, OnSlider
    <3> QED
      BY <3>1
  <2> QED
    BY <1>1, <2>1 DEF Cents
<1>3. stage' = "moved" /\ UNCHANGED <<stake, text, hundredths, rollText, roll>>
  BY DEF Figures!Slide, Figures!outcome
<1>4. FiguresTyped'
  BY <1>2, <1>3 DEF FiguresInv, FiguresTyped
<1>5. ShownTyped'
  BY <1>1, <1>2, <1>3 DEF ShownTyped
<1> QED
  BY <1>3, <1>4, <1>5
     DEF FiguresInv, SentTyped, ReadTyped, SettledRight, CheckedRight

(* Both ways of sending the number keep its hundredths.                    *)
LEMMA SendStep ==
  ASSUME FiguresInv, Figures!SendFixed \/ Figures!SendNumber
  PROVE  FiguresInv'
<1>1. stage' = "sent" /\ stage \in {"shown", "moved"}
      /\ UNCHANGED <<typed, stake, shown, hundredths, rollText, roll>>
  BY DEF Figures!SendFixed, Figures!SendNumber, Figures!outcome,
         Figures!request
<1>2. typed \in Nat
  BY DEF FiguresInv, FiguresTyped
<1>3. ASSUME Figures!SendFixed
      PROVE  /\ text' \in DecimalText
             /\ Whole => Figures!ParseHundredths(text') = Cents
  <2> DEFINE h == Figures!Rounded(typed, Below)
  <2>1. h \in Nat
    BY <1>2, RoundedTyped
  <2>2. text' = Figures!FormatHundredths(h)
    BY <1>3 DEF Figures!SendFixed, Figures!ToFixed
  <2>3. Whole => h = Cents
    BY <1>2, WholeRounded DEF Whole, Cents
  <2> HIDE DEF h
  <2>4. text' \in DecimalText /\ Figures!ParseHundredths(text') = h
    BY <2>1, <2>2, FormatTyped
  <2> QED
    BY <2>3, <2>4
<1>4. ASSUME Figures!SendNumber
      PROVE  /\ text' \in DecimalText
             /\ Whole => Figures!ParseHundredths(text') = Cents
  <2>1. text' = Figures!Shortest(typed)
    BY <1>4 DEF Figures!SendNumber
  <2> QED
    BY <1>2, <2>1, ShortestTyped DEF Whole, Cents
<1>5. text' \in DecimalText /\ (Whole => Figures!ParseHundredths(text') = Cents)
  BY <1>3, <1>4
<1>6. (Whole' <=> Whole) /\ Cents' = Cents
  BY <1>1, SameTyped
<1>7. FiguresTyped'
  BY <1>1, <1>5 DEF FiguresInv, FiguresTyped
<1>8. ShownTyped' /\ SentTyped'
  BY <1>1, <1>5, <1>6 DEF FiguresInv, ShownTyped, SentTyped
<1> QED
  BY <1>1, <1>7, <1>8 DEF FiguresInv, ReadTyped, SettledRight, CheckedRight

LEMMA ParseTyped ==
  ASSUME NEW t \in DecimalText, Figures!WellFormed(t)
  PROVE  Figures!ParseHundredths(t) \in Nat
<1> DEFINE w == t.whole
           k == Len(t.frac)
           a == t.frac[1]
           b == t.frac[2]
<1>1. w \in Nat /\ t.frac \in Seq(0 .. 9) /\ k \in Nat /\ k <= 2
  BY LenProperties DEF DecimalText, Figures!WellFormed
<1>2. /\ 1 <= k => a \in 0 .. 9
      /\ 2 <= k => b \in 0 .. 9
  <2>1. \A i \in 1 .. k : t.frac[i] \in 0 .. 9
    BY <1>1, ElementOfSeq
  <2> HIDE DEF k
  <2> QED
    BY <1>1, <2>1
<1>3. Figures!ParseHundredths(t)
        = 100 * w + (CASE k = 0 -> 0 [] k = 1 -> 10 * a [] OTHER -> 10 * a + b)
  BY DEF Figures!ParseHundredths
<1> HIDE DEF w, k, a, b
<1>4. CASE k = 0
  <2>1. Figures!ParseHundredths(t) = 100 * w + 0
    BY <1>3, <1>4
  <2> QED
    BY <1>1, <2>1
<1>5. CASE k = 1
  <2>1. Figures!ParseHundredths(t) = 100 * w + 10 * a
    BY <1>3, <1>5
  <2> QED
    BY <1>1, <1>2, <1>5, <2>1
<1>6. CASE k = 2
  <2>1. Figures!ParseHundredths(t) = 100 * w + (10 * a + b)
    BY <1>3, <1>6
  <2>2. a \in Nat /\ b \in Nat
    BY <1>2, <1>6
  <2>3. 100 * w + (10 * a + b) \in Nat
    BY <1>1, <2>2
  <2> QED
    BY <2>1, <2>3
<1> QED
  BY <1>1, <1>4, <1>5, <1>6

LEMMA AcceptTargetStep ==
  ASSUME FiguresInv, Figures!AcceptTarget
  PROVE  FiguresInv'
<1>1. /\ stage = "sent" /\ stage' = "read"
      /\ hundredths' = Figures!ParseHundredths(text)
      /\ Figures!InRange(hundredths')
      /\ UNCHANGED <<typed, stake, shown, text, rollText, roll>>
  BY DEF Figures!AcceptTarget, Figures!outcome, Figures!request
<1>2. hundredths' \in Nat
  <2>1. text \in DecimalText /\ Figures!WellFormed(text)
    BY DEF Figures!AcceptTarget, FiguresInv, FiguresTyped
  <2> QED
    BY <1>1, <2>1, ParseTyped
<1>3. (Whole' <=> Whole) /\ Cents' = Cents
  BY <1>1, SameTyped
<1>4. FiguresTyped'
  BY <1>1, <1>2 DEF FiguresInv, FiguresTyped
<1>5. ShownTyped' /\ ReadTyped'
  BY <1>1, <1>3 DEF FiguresInv, ShownTyped, SentTyped, ReadTyped
<1> QED
  BY <1>1, <1>4, <1>5 DEF FiguresInv, SentTyped, SettledRight, CheckedRight

LEMMA SettleStep ==
  ASSUME FiguresInv, Figures!Settle
  PROVE  FiguresInv'
<1>1. /\ stage = "read" /\ stage' = "settled"
      /\ stake \in Figures!MinBet .. Figures!MaxBet
      /\ roll' \in Roll
      /\ won' = Figures!IsWin(roll', hundredths)
      /\ payout' = IF won' THEN Figures!PayoutFor(stake, hundredths) ELSE 0
      /\ rollText' = Figures!FormatHundredths(roll')
      /\ UNCHANGED <<typed, stake, shown, text, hundredths>>
  BY DEF Figures!Settle, Figures!request
<1>2. roll' \in Nat /\ stake > 0
  BY <1>1, RollNat, StakeAccepted
<1>3. (Whole' <=> Whole) /\ Cents' = Cents
  BY <1>1, SameTyped
<1>4. FiguresTyped'
  BY <1>1, <1>2 DEF FiguresInv, FiguresTyped
<1>5. ShownTyped' /\ ReadTyped'
  BY <1>1, <1>3 DEF FiguresInv, ShownTyped, ReadTyped
<1>6. SettledRight'
  BY <1>1, <1>2 DEF SettledRight
<1> QED
  BY <1>1, <1>4, <1>5, <1>6 DEF FiguresInv, SentTyped, CheckedRight

LEMMA VerifyStep ==
  ASSUME FiguresInv, Figures!Verify
  PROVE  FiguresInv'
<1>1. /\ roll \in Nat /\ hundredths \in Nat
      /\ rollText = Figures!FormatHundredths(roll)
  BY DEF FiguresInv, FiguresTyped
<1>2. /\ stage = "settled" /\ stage' = "verified"
      /\ UNCHANGED <<typed, stake, shown, text, hundredths, rollText, roll,
                     won, payout>>
  BY DEF Figures!Verify, Figures!outcome, Figures!request
<1>3. Figures!ParseHundredths(Figures!ToFixed(Figures!Value(rollText))) = roll
  <2>1. Figures!Value(rollText) = 10 * roll
    BY <1>1, FormatTyped
  <2>2. Figures!Rounded(10 * roll, Below) = roll
    BY <1>1, RoundHundredths
  <2> QED
    BY <1>1, <2>1, <2>2, FormatTyped DEF Figures!ToFixed
<1>4. /\ Figures!Value(Figures!FormatHundredths(roll)) = 10 * roll
      /\ Figures!ParseHundredths(Figures!FormatHundredths(hundredths))
           = hundredths
  BY <1>1, FormatTyped
<1>5. checked' = <<[listed |-> roll, browser |-> roll, route |-> 10 * roll,
                    routeWon |-> Figures!IsWin(roll, hundredths)]>>
  BY <1>3, <1>4 DEF Figures!Verify
<1>6. (Whole' <=> Whole) /\ Cents' = Cents
  BY <1>2, SameTyped
<1>7. FiguresTyped'
  BY <1>2 DEF FiguresInv, FiguresTyped
<1>8. ShownTyped' /\ ReadTyped' /\ SentTyped'
  BY <1>2, <1>6 DEF FiguresInv, ShownTyped, ReadTyped, SentTyped
<1>9. SettledRight' /\ CheckedRight'
  BY <1>2, <1>5 DEF FiguresInv, SettledRight, CheckedRight
<1> QED
  BY <1>7, <1>8, <1>9 DEF FiguresInv

LEMMA FiguresStep ==
  ASSUME FiguresInv, [Figures!Next]_figures
  PROVE  FiguresInv'
<1>1. CASE UNCHANGED figures
  BY <1>1, SameTyped
     DEF figures, FiguresInv, FiguresTyped, ShownTyped, SentTyped, ReadTyped,
         SettledRight, CheckedRight
<1>2. ASSUME Figures!RefuseTarget \/ Figures!RefuseStake
      PROVE  FiguresInv'
  <2>1. /\ stage' = "refused" /\ stage \in {"sent", "read"}
        /\ UNCHANGED <<typed, stake, shown, text, hundredths, rollText, roll>>
    BY <1>2 DEF Figures!RefuseTarget, Figures!RefuseStake, Figures!outcome,
                Figures!request
  <2> QED
    BY <2>1, SameTyped
       DEF FiguresInv, FiguresTyped, ShownTyped, SentTyped, ReadTyped,
           SettledRight, CheckedRight
<1>3. ASSUME Figures!Again
      PROVE  FiguresInv'
  <2>1. /\ stage' = "typing" /\ typed' = 0 /\ stake' = 0 /\ hundredths' = 0
        /\ text' = Figures!FormatHundredths(0) /\ roll' = 0
        /\ rollText' = Figures!FormatHundredths(0)
    BY <1>3 DEF Figures!Again
  <2>2. Figures!FormatHundredths(0) \in DecimalText
    BY FormatTyped
  <2> QED
    BY <2>1, <2>2
       DEF FiguresInv, FiguresTyped, ShownTyped, SentTyped, ReadTyped,
           SettledRight, CheckedRight
<1> QED
  BY <1>1, <1>2, <1>3, TypeStep, SlideStep, SendStep, AcceptTargetStep,
     SettleStep, VerifyStep DEF Figures!Next

LEMMA FiguresAlways == Spec => []FiguresInv
<1>1. Init => FiguresInv
  BY PartsInit, FiguresInit
<1>2. FiguresInv /\ [Next]_vars => FiguresInv'
  BY PartsStep, FiguresStep
<1> QED
  BY <1>1, <1>2, PTL DEF Spec

LEMMA SameFiguresCardinality ==
  \A S : Figures!Cardinality(S) = Cardinality(S)
BY DEF Figures!Cardinality, Cardinality

(* Every target of at most two decimals, every stake and every roll: the   *)
(* chance and the payout shown are those settled (format-credits.ts:9-27,  *)
(* outcome.ts:47-60, 82-87).                                               *)
THEOREM FiguresAlwaysAsShown == Spec => []SettledAsShown
<1>1. ASSUME FiguresInv, Figures!Settled, Whole
      PROVE  /\ won => payout = shown.payout
             /\ Cardinality({r \in Figures!RollSpace :
                              Figures!IsWin(r, hundredths)}) = shown.chance
  <2>1. /\ hundredths \in Nat /\ Figures!InRange(hundredths)
        /\ stake \in Nat /\ stake > 0
    BY <1>1 DEF FiguresInv, FiguresTyped, ReadTyped, SettledRight,
                Figures!Settled
  <2>2. /\ shown = Figures!Preview(stake, hundredths)
        /\ won => payout = Figures!PayoutFor(stake, hundredths)
    BY <1>1 DEF FiguresInv, ShownTyped, ReadTyped, SettledRight,
                Figures!Settled
  <2>3. /\ shown.payout = Figures!PayoutFor(stake, hundredths)
        /\ shown.chance = hundredths
    <3>1. /\ ~ (stake <= 0 \/ hundredths <= 0) /\ ~ (hundredths <= 0)
          /\ hundredths < 10000
      BY <2>1, TargetAccepted
    <3> QED
      BY <2>2, <3>1 DEF Figures!Preview, Figures!PayoutFor
  <2> QED
    BY <2>1, <2>2, <2>3, WinningRolls
<1>2. FiguresInv => SettledAsShown
  BY <1>1, SameFiguresCardinality
     DEF SettledAsShown, Figures!SettledAsShown, Whole
<1> QED
  BY <1>2, FiguresAlways, PTL

(* Nobody who verifies a bet finds another roll or another winner          *)
(* (journey.ts:45-66, routes/fairness.ts:86-105).                          *)
THEOREM VerifiersAlwaysAgree == Spec => []VerifiersAgree
<1>1. FiguresInv => VerifiersAgree
  BY DEF FiguresInv, CheckedRight, VerifiersAgree, Figures!VerifiersAgree
<1> QED
  BY <1>1, FiguresAlways, PTL

(* A win pays more than the stake up to the highest target, and rounds the *)
(* odds less one percent down.                                             *)
LEMMA PayoutBounds ==
  ASSUME NEW x \in Nat, x >= 100, NEW h \in Nat, Figures!InRange(h)
  PROVE  /\ Figures!PayoutFor(x, h) > x
         /\ Figures!PayoutFor(x, h) * h <= x * 9900
<1> DEFINE n == x * 9900
           q == n \div h
<1>1. 100 <= h /\ h <= 9800
  BY DEF Figures!InRange, Figures!TargetMin, Figures!TargetMax
<1>2. n \in Nat OBVIOUS
<1> HIDE DEF n
<1>3. /\ q \in Nat /\ q * h <= n /\ n < (q + 1) * h
  <2>1. h \in Nat \ {0} BY <1>1
  <2>2. q \in Nat /\ n % h \in 0 .. h - 1 /\ n = h * q + (n % h)
    BY <1>2, <2>1
  <2> HIDE DEF q
  <2> QED BY <2>1, <2>2
<1> HIDE DEF q
<1>4. q > x
  <2> SUFFICES ASSUME q <= x PROVE FALSE BY <1>3
  <2>1. (q + 1) * h <= (x + 1) * h BY <1>3
  <2>2. (x + 1) * h <= (x + 1) * 9800 BY <1>1
  <2>3. (x + 1) * 9800 <= n BY DEF n
  <2> QED BY <1>2, <1>3, <2>1, <2>2, <2>3
<1> QED BY <1>3, <1>4 DEF Figures!PayoutFor, n, q

StakeInLimits ==
  stage \in {"settled", "verified"} => stake \in Figures!MinBet .. Figures!MaxBet

LEMMA StakeStep ==
  ASSUME StakeInLimits, [Figures!Next]_figures
  PROVE  StakeInLimits'
<1>1. CASE Figures!Settle
  BY <1>1 DEF Figures!Settle, Figures!request, StakeInLimits
<1>2. CASE Figures!Verify
  BY <1>2 DEF Figures!Verify, Figures!request, StakeInLimits
<1>3. CASE UNCHANGED figures
  BY <1>3 DEF figures, StakeInLimits
<1>4. CASE stage' \notin {"settled", "verified"}
  BY <1>4 DEF StakeInLimits
<1> QED
  BY <1>1, <1>2, <1>3, <1>4
  DEF Figures!Next, Figures!Type, Figures!Slide, Figures!SendFixed,
      Figures!SendNumber, Figures!RefuseTarget, Figures!AcceptTarget,
      Figures!RefuseStake, Figures!Again

(* Every stake and target the server accepts: whoever wins gets back more  *)
(* than was staked, and no more than the odds less one percent             *)
(* (bet.ts:71-82, 303-315).                                                *)
THEOREM WinsAlwaysPayMore == Spec => []Figures!WinPaysMore
<1>1. Init => StakeInLimits
  <2> SUFFICES ASSUME Init PROVE StakeInLimits OBVIOUS
  <2>1. Figures!Init BY PartsInit
  <2> QED BY <2>1 DEF Figures!Init, StakeInLimits
<1>2. StakeInLimits /\ [Next]_vars => StakeInLimits'
  BY PartsStep, StakeStep
<1>3. FiguresInv /\ StakeInLimits => Figures!WinPaysMore
  <2> SUFFICES ASSUME FiguresInv, StakeInLimits, Figures!Settled, won
               PROVE  payout > stake /\ payout * hundredths <= stake * 9900
    BY DEF Figures!WinPaysMore
  <2>1. /\ hundredths \in Nat /\ Figures!InRange(hundredths)
        /\ stake \in Nat /\ payout = Figures!PayoutFor(stake, hundredths)
    BY DEF FiguresInv, FiguresTyped, ReadTyped, SettledRight, Figures!Settled
  <2>2. stake >= 100
    BY StakeAccepted DEF StakeInLimits, Figures!Settled
  <2>3. /\ Figures!PayoutFor(stake, hundredths) > stake
        /\ Figures!PayoutFor(stake, hundredths) * hundredths <= stake * 9900
    BY <2>1, <2>2, PayoutBounds
  <2> QED BY <2>1, <2>3
<1> QED BY <1>1, <1>2, <1>3, FiguresAlways, PTL DEF Spec

-----------------------------------------------------------------------------
(* Verification. A numeral is defined by recursion; Spelt says what one    *)
(* step of it writes.                                                      *)
Spelt(f, n) ==
  IF n < Base
    THEN <<Verify!Digit[n + 1]>>
    ELSE Append(f[n \div Base], Verify!Digit[(n % Base) + 1])

LEMMA BaseDivides ==
  /\ Base \in Nat /\ 1 < Base /\ Base <= 10
  /\ \A n \in Nat : n \div Base \in Nat /\ n % Base \in Nat /\ n % Base < Base
  /\ \A n \in Nat : Base <= n => n \div Base < n
  /\ \A n, m \in Nat : n \div Base = m \div Base /\ n % Base = m % Base => n = m
<1>1. \/ Base = 2 \/ Base = 3 \/ Base = 4 \/ Base = 5 \/ Base = 6
      \/ Base = 7 \/ Base = 8 \/ Base = 9 \/ Base = 10
  BY Instances DEF Verify!VerifyAssumption
<1>2. CASE Base = 2 BY <1>2
<1>3. CASE Base = 3 BY <1>3
<1>4. CASE Base = 4 BY <1>4
<1>5. CASE Base = 5 BY <1>5
<1>6. CASE Base = 6 BY <1>6
<1>7. CASE Base = 7 BY <1>7
<1>8. CASE Base = 8 BY <1>8
<1>9. CASE Base = 9 BY <1>9
<1>10. CASE Base = 10 BY <1>10
<1> QED
  BY <1>1, <1>2, <1>3, <1>4, <1>5, <1>6, <1>7, <1>8, <1>9, <1>10

SpeltUpTo(h, N) == h = [n \in 0 .. N |-> Spelt(h, n)]

(* What is spelt for n depends on smaller numbers only.                    *)
LEMMA SpeltAlike ==
  ASSUME NEW f, NEW g, NEW n \in Nat, \A m \in Nat : m < n => f[m] = g[m]
  PROVE  Spelt(f, n) = Spelt(g, n)
<1>1. CASE n < Base BY <1>1 DEF Spelt
<1>2. CASE ~(n < Base)
  <2>1. Base <= n BY <1>2, BaseDivides
  <2>2. n \div Base \in Nat /\ n \div Base < n BY <2>1, BaseDivides
  <2>3. f[n \div Base] = g[n \div Base] BY <2>2
  <2> QED BY <1>2, <2>3 DEF Spelt
<1> QED BY <1>1, <1>2

LEMMA SpeltOnce ==
  ASSUME NEW N \in Nat, NEW M \in Nat, NEW h, NEW k,
         SpeltUpTo(h, N), SpeltUpTo(k, M), NEW n \in Nat, n <= N, n <= M
  PROVE  h[n] = k[n]
<1> DEFINE Holding == {p \in Nat : \A m \in Nat : m <= p /\ m <= N /\ m <= M
                                  => h[m] = k[m]}
<1>1. ASSUME NEW m \in Nat, m <= N, m <= M,
             \A q \in Nat : q < m => h[q] = k[q]
      PROVE  h[m] = k[m]
  <2>1. Spelt(h, m) = Spelt(k, m) BY <1>1, SpeltAlike
  <2>2. m \in 0 .. N /\ m \in 0 .. M BY <1>1
  <2> QED BY <2>1, <2>2 DEF SpeltUpTo
<1>2. 0 \in Holding
  <2>1. ASSUME NEW m \in Nat, m <= 0 , m <= N, m <= M PROVE h[m] = k[m]
    <3>1. \A q \in Nat : ~(q < m) BY <2>1
    <3> QED BY <1>1, <2>1, <3>1
  <2> QED BY <2>1
<1>3. ASSUME NEW p \in Holding PROVE p + 1 \in Holding
  <2>0. p \in Nat /\ p + 1 \in Nat OBVIOUS
  <2>1. ASSUME NEW m \in Nat, m <= p + 1, m <= N, m <= M PROVE h[m] = k[m]
    <3>1. ASSUME NEW q \in Nat, q < m PROVE h[q] = k[q]
      <4>1. q <= p /\ q <= N /\ q <= M BY <2>0, <2>1, <3>1
      <4> QED BY <1>3, <4>1
    <3> QED BY <1>1, <2>1, <3>1
  <2> QED BY <2>0, <2>1
<1> HIDE DEF Holding
<1>4. Holding = Nat
  <2>1. Holding \in SUBSET Nat BY DEF Holding
  <2> QED BY <1>2, <1>3, <2>1, UpToAll
<1>5. n \in Holding /\ n <= n BY <1>4
<1> QED BY <1>5 DEF Holding

LEMMA SpellingExists ==
  ASSUME NEW N \in Nat
  PROVE  \E h : SpeltUpTo(h, N)
<1> DEFINE Holding == {p \in Nat : \E h : SpeltUpTo(h, p)}
<1>1. 0 \in Holding
  <2> DEFINE h == [n \in 0 .. 0 |-> Spelt(<<>>, n)]
  <2>1. ASSUME NEW n \in 0 .. 0 PROVE h[n] = Spelt(h, n)
    <3>1. n \in Nat /\ \A m \in Nat : ~(m < n) BY <2>1
    <3>2. h[n] = Spelt(<<>>, n) OBVIOUS
    <3> HIDE DEF h
    <3>3. Spelt(<<>>, n) = Spelt(h, n) BY <3>1, SpeltAlike
    <3> QED BY <3>2, <3>3
  <2>2. SpeltUpTo(h, 0) BY <2>1 DEF SpeltUpTo
  <2> QED BY <2>2
<1>2. ASSUME NEW p \in Holding PROVE p + 1 \in Holding
  <2>1. p \in Nat /\ p + 1 \in Nat OBVIOUS
  <2>2. PICK k : SpeltUpTo(k, p) OBVIOUS
  <2> DEFINE h == [n \in 0 .. (p + 1) |-> Spelt(k, n)]
  <2>3. ASSUME NEW m \in Nat, m <= p PROVE h[m] = k[m]
    <3>1. m \in 0 .. p /\ m \in 0 .. (p + 1) BY <2>1, <2>3
    <3> QED BY <2>2, <3>1 DEF SpeltUpTo
  <2>4. ASSUME NEW n \in 0 .. (p + 1) PROVE h[n] = Spelt(h, n)
    <3>1. h[n] = Spelt(k, n) OBVIOUS
    <3>2. n \in Nat BY <2>1
    <3>3. \A m \in Nat : m < n => m <= p BY <2>1, <3>2, <2>4
    <3> HIDE DEF h
    <3>4. \A m \in Nat : m < n => k[m] = h[m] BY <2>3, <3>3
    <3>5. Spelt(k, n) = Spelt(h, n) BY <3>2, <3>4, SpeltAlike
    <3> QED BY <3>1, <3>5
  <2>5. SpeltUpTo(h, p + 1) BY <2>4 DEF SpeltUpTo
  <2> QED BY <2>1, <2>5
<1> HIDE DEF Holding
<1>3. Holding = Nat
  <2>1. Holding \in SUBSET Nat BY DEF Holding
  <2> QED BY <1>1, <1>2, <2>1, UpToAll
<1> QED BY <1>3 DEF Holding

(* The recursion has a solution, so a numeral is what it says.             *)
LEMMA NumeralSpelt ==
  \A n \in Nat : Verify!Numeral[n] = Spelt(Verify!Numeral, n)
<1> DEFINE part(N) == CHOOSE h : SpeltUpTo(h, N)
           f == [n \in Nat |-> part(n)[n]]
<1>1. \A n \in Nat : SpeltUpTo(part(n), n) BY SpellingExists
<1>2. ASSUME NEW n \in Nat PROVE f[n] = Spelt(f, n)
  <2>1. f[n] = Spelt(part(n), n)
    <3>1. n \in 0 .. n OBVIOUS
    <3>2. part(n)[n] = Spelt(part(n), n) BY <1>1, <3>1 DEF SpeltUpTo
    <3> QED BY <3>2
  <2>2. ASSUME NEW m \in Nat, m < n PROVE part(n)[m] = f[m]
    <3>1. f[m] = part(m)[m] OBVIOUS
    <3>2. m <= m /\ m <= n BY <2>2
    <3> HIDE DEF part
    <3>3. part(n)[m] = part(m)[m] BY <1>1, <3>2, SpeltOnce
    <3> QED BY <3>1, <3>3
  <2> HIDE DEF f, part
  <2>3. Spelt(part(n), n) = Spelt(f, n) BY <2>2, SpeltAlike
  <2> QED BY <2>1, <2>3
<1>3. f = [n \in Nat |-> Spelt(f, n)] BY <1>2
<1> HIDE DEF f
<1>4. \E g : g = [n \in Nat |-> Spelt(g, n)] BY <1>3
<1>5. Verify!Numeral = CHOOSE g : g = [n \in Nat |-> Spelt(g, n)]
  BY DEF Verify!Numeral, Spelt
<1>6. Verify!Numeral = [n \in Nat |-> Spelt(Verify!Numeral, n)]
  <2> DEFINE g == CHOOSE g : g = [n \in Nat |-> Spelt(g, n)]
  <2>1. g = [n \in Nat |-> Spelt(g, n)] BY <1>4
  <2> QED BY <1>5, <2>1
<1> HIDE DEF part
<1>7. ASSUME NEW n \in Nat PROVE Verify!Numeral[n] = Spelt(Verify!Numeral, n)
  BY <1>6
<1> QED BY <1>7

(* A numeral is a row of digits, none of them the separator.               *)
Digits == {Verify!Digit[i] : i \in 1 .. 10}

LEMMA DigitsDiffer ==
  /\ \A i, j \in 1 .. 10 : Verify!Digit[i] = Verify!Digit[j] => i = j
  /\ ":" \notin Digits
  /\ \A n \in Nat :
       n < Base => n + 1 \in 1 .. 10 /\ Verify!Digit[n + 1] \in Digits
<1>1. ASSUME NEW i \in 1 .. 10
      PROVE  \/ i = 1 \/ i = 2 \/ i = 3 \/ i = 4 \/ i = 5
             \/ i = 6 \/ i = 7 \/ i = 8 \/ i = 9 \/ i = 10
  OBVIOUS
<1>2. /\ Verify!Digit[1] = "0" /\ Verify!Digit[2] = "1" /\ Verify!Digit[3] = "2"
      /\ Verify!Digit[4] = "3" /\ Verify!Digit[5] = "4" /\ Verify!Digit[6] = "5"
      /\ Verify!Digit[7] = "6" /\ Verify!Digit[8] = "7" /\ Verify!Digit[9] = "8"
      /\ Verify!Digit[10] = "9"
  BY DEF Verify!Digit
<1>3. ASSUME NEW i \in 1 .. 10, NEW j \in 1 .. 10,
             Verify!Digit[i] = Verify!Digit[j]
      PROVE  i = j
  BY <1>1, <1>2, <1>3
<1>4. ASSUME NEW i \in 1 .. 10 PROVE Verify!Digit[i] # ":"
  BY <1>1, <1>2
<1>5. ":" \notin Digits BY <1>4 DEF Digits
<1>6. ASSUME NEW n \in Nat, n < Base
      PROVE  n + 1 \in 1 .. 10 /\ Verify!Digit[n + 1] \in Digits
  <2>1. n + 1 \in 1 .. 10 BY <1>6, BaseDivides
  <2> QED BY <2>1 DEF Digits
<1> QED BY <1>3, <1>5, <1>6

LEMMA NumeralIsDigits ==
  \A n \in Nat : Verify!Numeral[n] \in Seq(Digits) /\ Len(Verify!Numeral[n]) > 0
<1> DEFINE Written(s) == s \in Seq(Digits) /\ Len(s) > 0
           Holding == {p \in Nat : \A n \in Nat : n <= p => Written(Verify!Numeral[n])}
<1>1. ASSUME NEW n \in Nat,
             \A m \in Nat : m < n => Written(Verify!Numeral[m])
      PROVE  Written(Verify!Numeral[n])
  <2>1. Verify!Numeral[n] = Spelt(Verify!Numeral, n) BY NumeralSpelt
  <2>2. CASE n < Base
    <3>1. Verify!Numeral[n] = <<Verify!Digit[n + 1]>> BY <2>1, <2>2 DEF Spelt
    <3>2. Verify!Digit[n + 1] \in Digits BY <2>2, DigitsDiffer
    <3> QED BY <3>1, <3>2
  <2>3. CASE ~(n < Base)
    <3>1. Verify!Numeral[n] =
            Append(Verify!Numeral[n \div Base], Verify!Digit[(n % Base) + 1])
      BY <2>1, <2>3 DEF Spelt
    <3>2. n \div Base \in Nat /\ n \div Base < n BY <2>3, BaseDivides
    <3>3. Written(Verify!Numeral[n \div Base]) BY <1>1, <3>2
    <3>4. Verify!Digit[(n % Base) + 1] \in Digits BY BaseDivides, DigitsDiffer
    <3> QED BY <3>1, <3>3, <3>4
  <2> QED BY <2>2, <2>3
<1> HIDE DEF Written
<1>2. 0 \in Holding
  <2>1. ASSUME NEW n \in Nat, n <= 0 PROVE Written(Verify!Numeral[n])
    <3>1. \A m \in Nat : ~(m < n) BY <2>1
    <3> QED BY <1>1, <3>1
  <2> QED BY <2>1
<1>3. ASSUME NEW p \in Holding PROVE p + 1 \in Holding
  <2>0. p \in Nat /\ p + 1 \in Nat OBVIOUS
  <2>1. ASSUME NEW n \in Nat, n <= p + 1 PROVE Written(Verify!Numeral[n])
    <3>1. \A m \in Nat : m < n => m <= p BY <2>0, <2>1
    <3>2. \A m \in Nat : m < n => Written(Verify!Numeral[m]) BY <1>3, <3>1
    <3> QED BY <1>1, <3>2
  <2> QED BY <2>0, <2>1
<1> HIDE DEF Holding
<1>4. Holding = Nat
  <2>1. Holding \in SUBSET Nat BY DEF Holding
  <2> QED BY <1>2, <1>3, <2>1, UpToAll
<1>5. ASSUME NEW n \in Nat PROVE Written(Verify!Numeral[n])
  <2>1. n \in Holding /\ n <= n BY <1>4
  <2> QED BY <2>1 DEF Holding
<1> QED BY <1>5 DEF Written

(* Two numbers never share a numeral.                                      *)
LEMMA NumeralsDiffer ==
  \A n, m \in Nat : Verify!Numeral[n] = Verify!Numeral[m] => n = m
<1> DEFINE Known(n) ==
             \A m \in Nat : Verify!Numeral[n] = Verify!Numeral[m] => n = m
           Holding == {p \in Nat : \A n \in Nat : n <= p => Known(n)}
<1>0. ASSUME NEW n \in Nat
      PROVE  \/ /\ n < Base
                /\ Verify!Numeral[n] = <<Verify!Digit[n + 1]>>
                /\ n + 1 \in 1 .. 10
             \/ /\ ~(n < Base)
                /\ Verify!Numeral[n] =
                     Append(Verify!Numeral[n \div Base],
                            Verify!Digit[(n % Base) + 1])
                /\ n \div Base \in Nat /\ n \div Base < n
                /\ n % Base \in Nat /\ (n % Base) + 1 \in 1 .. 10
  <2>1. Verify!Numeral[n] = Spelt(Verify!Numeral, n) BY NumeralSpelt
  <2>2. CASE n < Base BY <2>1, <2>2, DigitsDiffer DEF Spelt
  <2>3. CASE ~(n < Base)
    <3>1. /\ n \div Base \in Nat /\ n \div Base < n
          /\ n % Base \in Nat /\ n % Base < Base
      BY <2>3, BaseDivides
    <3>2. (n % Base) + 1 \in 1 .. 10 BY <3>1, DigitsDiffer
    <3>3. Verify!Numeral[n] =
            Append(Verify!Numeral[n \div Base], Verify!Digit[(n % Base) + 1])
      BY <2>1, <2>3 DEF Spelt
    <3> QED BY <2>3, <3>1, <3>2, <3>3
  <2> QED BY <2>2, <2>3
<1>1. ASSUME NEW n \in Nat, \A q \in Nat : q < n => Known(q)
      PROVE  Known(n)
  <2> SUFFICES ASSUME NEW m \in Nat, Verify!Numeral[n] = Verify!Numeral[m]
               PROVE  n = m
    OBVIOUS
  <2>1. CASE n < Base /\ m < Base
    <3>1. /\ Verify!Numeral[n] = <<Verify!Digit[n + 1]>> /\ n + 1 \in 1 .. 10
          /\ Verify!Numeral[m] = <<Verify!Digit[m + 1]>> /\ m + 1 \in 1 .. 10
      BY <1>0, <2>1
    <3> DEFINE x == Verify!Digit[n + 1]
               y == Verify!Digit[m + 1]
    <3>2. x = y
      <4>1. <<x>> = <<y>> BY <3>1
      <4> HIDE DEF x, y
      <4>2. <<x>>[1] = x /\ <<y>>[1] = y OBVIOUS
      <4> QED BY <4>1, <4>2
    <3>3. n + 1 = m + 1 BY <3>1, <3>2, DigitsDiffer
    <3> QED BY <3>3
  <2>2. ASSUME NEW k \in Nat, NEW l \in Nat, k < Base, ~(l < Base),
               Verify!Numeral[k] = Verify!Numeral[l]
        PROVE  FALSE
    <3>1. Verify!Numeral[k] = <<Verify!Digit[k + 1]>> BY <1>0, <2>2
    <3>2. /\ Verify!Numeral[l] =
               Append(Verify!Numeral[l \div Base], Verify!Digit[(l % Base) + 1])
          /\ l \div Base \in Nat
      BY <1>0, <2>2
    <3>3. /\ Verify!Numeral[l \div Base] \in Seq(Digits)
          /\ Len(Verify!Numeral[l \div Base]) > 0
      BY <3>2, NumeralIsDigits
    <3>4. Verify!Digit[(l % Base) + 1] \in Digits BY BaseDivides, DigitsDiffer
    <3> DEFINE a == Verify!Numeral[l \div Base]
    <3>5. Len(Verify!Numeral[l]) = Len(a) + 1 BY <3>2, <3>3, <3>4
    <3>6. Len(Verify!Numeral[k]) = 1 BY <3>1
    <3>7. Len(a) \in Nat /\ Len(a) > 0 BY <3>3
    <3>8. Len(Verify!Numeral[k]) = Len(Verify!Numeral[l]) BY <2>2
    <3> DEFINE long == Len(a)
               one == Len(Verify!Numeral[k])
               more == Len(Verify!Numeral[l])
    <3>9. one = 1 /\ more = long + 1 /\ long \in Nat /\ long > 0 /\ one = more
      BY <3>5, <3>6, <3>7, <3>8
    <3> HIDE DEF long, one, more
    <3> QED BY <3>9
  <2>3. CASE ~(n < Base) /\ ~(m < Base)
    <3> DEFINE a == Verify!Numeral[n \div Base]
               b == Verify!Numeral[m \div Base]
               x == Verify!Digit[(n % Base) + 1]
               y == Verify!Digit[(m % Base) + 1]
    <3>1. /\ Verify!Numeral[n] = Append(a, x)
          /\ n \div Base \in Nat /\ n \div Base < n
          /\ n % Base \in Nat /\ (n % Base) + 1 \in 1 .. 10
      BY <1>0, <2>3
    <3>2. /\ Verify!Numeral[m] = Append(b, y)
          /\ m \div Base \in Nat
          /\ m % Base \in Nat /\ (m % Base) + 1 \in 1 .. 10
      BY <1>0, <2>3
    <3>3. a \in Seq(Digits) /\ b \in Seq(Digits)
      BY <3>1, <3>2, NumeralIsDigits
    <3>4. x \in Digits /\ y \in Digits BY <3>1, <3>2 DEF Digits
    <3>5. Append(a, x) = Append(b, y) BY <3>1, <3>2
    <3>6. Known(n \div Base) BY <1>1, <3>1
    <3>7. n \div Base = m \div Base /\ n % Base = m % Base => n = m
      BY BaseDivides
    <3> HIDE DEF a, b, x, y
    <3>8. a = b /\ x = y
      <4>1. Len(a) = Len(b) /\ Len(a) \in Nat
        <5>1. Len(Append(a, x)) = Len(a) + 1 /\ Len(Append(b, y)) = Len(b) + 1
          BY <3>3, <3>4
        <5>2. Len(a) \in Nat /\ Len(b) \in Nat BY <3>3
        <5> QED BY <3>5, <5>1, <5>2
      <4>2. Append(a, x)[Len(a) + 1] = x /\ Append(b, y)[Len(a) + 1] = y
        BY <3>3, <3>4, <4>1
      <4>3. ASSUME NEW i \in 1 .. Len(a) PROVE a[i] = b[i]
        <5>1. Append(a, x)[i] = a[i] /\ Append(b, y)[i] = b[i]
          BY <3>3, <3>4, <4>1
        <5> QED BY <3>5, <5>1
      <4>4. a = b BY <3>3, <4>1, <4>3, SeqEqual
      <4> QED BY <3>5, <4>2, <4>4
    <3>9. (n % Base) + 1 = (m % Base) + 1
      BY <3>1, <3>2, <3>8, DigitsDiffer DEF x, y
    <3>10. n % Base = m % Base BY <3>1, <3>2, <3>9
    <3>11. n \div Base = m \div Base BY <3>2, <3>6, <3>8 DEF a, b
    <3> QED BY <3>7, <3>10, <3>11
  <2> QED BY <2>1, <2>2, <2>3
<1> HIDE DEF Known
<1>2. 0 \in Holding
  <2>1. ASSUME NEW n \in Nat, n <= 0 PROVE Known(n)
    <3>1. \A q \in Nat : ~(q < n) BY <2>1
    <3> QED BY <1>1, <3>1
  <2> QED BY <2>1
<1>3. ASSUME NEW p \in Holding PROVE p + 1 \in Holding
  <2>0. p \in Nat /\ p + 1 \in Nat OBVIOUS
  <2>1. ASSUME NEW n \in Nat, n <= p + 1 PROVE Known(n)
    <3>1. \A q \in Nat : q < n => q <= p BY <2>0, <2>1
    <3>2. \A q \in Nat : q < n => Known(q) BY <1>3, <3>1
    <3> QED BY <1>1, <3>2
  <2> QED BY <2>0, <2>1
<1> HIDE DEF Holding
<1>4. Holding = Nat
  <2>1. Holding \in SUBSET Nat BY DEF Holding
  <2> QED BY <1>2, <1>3, <2>1, UpToAll
<1>5. ASSUME NEW n \in Nat PROVE Known(n)
  <2>1. n \in Holding /\ n <= n BY <1>4
  <2> QED BY <2>1 DEF Holding
<1> QED BY <1>5 DEF Known

(* The separator keeps the nonce from running into the client seed.        *)
LEMMA ClientsAreRows ==
  ASSUME NEW c \in Client
  PROVE  c \in Seq({c[i] : i \in DOMAIN c})
BY Instances DEF Verify!VerifyAssumption

LEMMA MessagesTell ==
  ASSUME NEW c \in Client, NEW d \in Client, NEW n \in Nat, NEW m \in Nat,
         Verify!Message(c, n) = Verify!Message(d, m)
  PROVE  n = m
<1> DEFINE x == Verify!Numeral[n]
           y == Verify!Numeral[m]
           S == ({c[i] : i \in DOMAIN c} \cup {d[i] : i \in DOMAIN d})
                  \cup (Digits \cup {":"})
           p == c \o <<":">>
           q == d \o <<":">>
<1>1. x \in Seq(Digits) /\ y \in Seq(Digits) BY NumeralIsDigits
<1>2. Digits \subseteq S /\ ":" \in S OBVIOUS
<1>3. c \in Seq(S) /\ d \in Seq(S)
  <2>1. c \in Seq({c[i] : i \in DOMAIN c}) /\ d \in Seq({d[i] : i \in DOMAIN d})
    BY ClientsAreRows
  <2>2. /\ {c[i] : i \in DOMAIN c} \subseteq S
        /\ {d[i] : i \in DOMAIN d} \subseteq S
    OBVIOUS
  <2> HIDE DEF S
  <2> QED BY <2>1, <2>2, SeqMonotonic
<1>4. p \o x = q \o y BY DEF Verify!Message
<1> HIDE DEF x, y, S
<1>5. x \in Seq(S) /\ y \in Seq(S) BY <1>1, <1>2, SeqMonotonic
<1>6. <<":">> \in Seq(S) /\ Len(<<":">>) = 1 /\ <<":">>[1] = ":" BY <1>2
<1>7. /\ p \in Seq(S) /\ Len(p) = Len(c) + 1 /\ p[Len(c) + 1] = ":"
      /\ q \in Seq(S) /\ Len(q) = Len(d) + 1 /\ q[Len(d) + 1] = ":"
      /\ Len(c) \in Nat /\ Len(d) \in Nat /\ Len(x) \in Nat /\ Len(y) \in Nat
  <2>1. Len(c) \in Nat /\ Len(d) \in Nat /\ Len(x) \in Nat /\ Len(y) \in Nat
    BY <1>3, <1>5, LenProperties
  <2>2. ASSUME NEW s \in Seq(S), Len(s) \in Nat
        PROVE  /\ s \o <<":">> \in Seq(S) /\ Len(s \o <<":">>) = Len(s) + 1
               /\ (s \o <<":">>)[Len(s) + 1] = ":"
    <3>1. /\ s \o <<":">> \in Seq(S)
          /\ Len(s \o <<":">>) = Len(s) + Len(<<":">>)
          /\ \A i \in 1 .. Len(s) + Len(<<":">>) : (s \o <<":">>)[i] =
               IF i <= Len(s) THEN s[i] ELSE <<":">>[i - Len(s)]
      BY <1>6, ConcatProperties
    <3>2. Len(s) + 1 \in 1 .. Len(s) + 1 /\ ~(Len(s) + 1 <= Len(s))
          /\ (Len(s) + 1) - Len(s) = 1
      BY <2>2
    <3> QED BY <1>6, <3>1, <3>2
  <2> QED BY <1>3, <2>1, <2>2
<1> HIDE DEF p, q
<1>8. /\ Len(p \o x) = Len(p) + Len(x)
      /\ \A i \in 1 .. Len(p) + Len(x) :
           (p \o x)[i] = IF i <= Len(p) THEN p[i] ELSE x[i - Len(p)]
  BY <1>5, <1>7, ConcatProperties
<1>9. /\ Len(q \o y) = Len(q) + Len(y)
      /\ \A i \in 1 .. Len(q) + Len(y) :
           (q \o y)[i] = IF i <= Len(q) THEN q[i] ELSE y[i - Len(q)]
  BY <1>5, <1>7, ConcatProperties
<1>10. Len(p) + Len(x) = Len(q) + Len(y) BY <1>4, <1>8, <1>9
<1>11. \A i \in 1 .. Len(x) : x[i] # ":"
  BY <1>1, ElementOfSeq, DigitsDiffer
<1>12. \A i \in 1 .. Len(y) : y[i] # ":"
  BY <1>1, ElementOfSeq, DigitsDiffer
(* If one prefix were shorter, the longer one's colon would be a digit of  *)
(* the other's numeral.                                                    *)
<1>13. Len(p) = Len(q)
  <2>1. CASE Len(p) < Len(q)
    <3>1. /\ Len(q) \in 1 .. Len(q) + Len(y) /\ Len(q) <= Len(q)
          /\ Len(q) \in 1 .. Len(p) + Len(x) /\ ~(Len(q) <= Len(p))
          /\ Len(q) - Len(p) \in 1 .. Len(x)
      BY <1>7, <1>10, <2>1
    <3>2. (q \o y)[Len(q)] = ":" BY <1>7, <1>9, <3>1
    <3>3. (p \o x)[Len(q)] = x[Len(q) - Len(p)] BY <1>8, <3>1
    <3> QED BY <1>4, <1>11, <3>1, <3>2, <3>3
  <2>2. CASE Len(q) < Len(p)
    <3>1. /\ Len(p) \in 1 .. Len(p) + Len(x) /\ Len(p) <= Len(p)
          /\ Len(p) \in 1 .. Len(q) + Len(y) /\ ~(Len(p) <= Len(q))
          /\ Len(p) - Len(q) \in 1 .. Len(y)
      BY <1>7, <1>10, <2>2
    <3>2. (p \o x)[Len(p)] = ":" BY <1>7, <1>8, <3>1
    <3>3. (q \o y)[Len(p)] = y[Len(p) - Len(q)] BY <1>9, <3>1
    <3> QED BY <1>4, <1>12, <3>1, <3>2, <3>3
  <2> QED BY <1>7, <2>1, <2>2
<1>14. Len(x) = Len(y) BY <1>7, <1>10, <1>13
<1>15. ASSUME NEW i \in 1 .. Len(x) PROVE x[i] = y[i]
  <2>1. /\ i + Len(p) \in 1 .. Len(p) + Len(x)
        /\ i + Len(p) \in 1 .. Len(q) + Len(y)
        /\ ~(i + Len(p) <= Len(p)) /\ (i + Len(p)) - Len(p) = i
    BY <1>7, <1>10
  <2>2. (p \o x)[i + Len(p)] = x[i] BY <1>8, <2>1
  <2>3. (q \o y)[i + Len(p)] = y[i] BY <1>9, <1>13, <2>1
  <2> QED BY <1>4, <2>2, <2>3
<1>16. x = y BY <1>1, <1>14, <1>15, SeqEqual
<1> QED BY <1>16, NumeralsDiffer DEF x, y

-----------------------------------------------------------------------------
(* A bet is what it was settled as; no nonce of a secret is used again.    *)
IsBet(b) ==
  /\ b.client \in Client /\ b.secret \in Nat /\ b.nonce \in Nat
  /\ b.roll = Verify!ComputeOutcome(Verify!Text(b.secret), b.client, b.nonce)

VerifyInv ==
  /\ seeds \in Seq([secret : Nat, revealed : BOOLEAN]) /\ Len(seeds) > 0
  /\ made \in Nat /\ nonce \in Nat /\ seeds[Len(seeds)].secret = made
  /\ bets \subseteq settled
  /\ \A b \in settled : IsBet(b)
  /\ \A b \in settled : b.secret <= made /\ (b.secret = made => b.nonce < nonce)
  /\ \A a, b \in settled : a.secret = b.secret /\ a.nonce = b.nonce => a = b
  /\ check.stage \in {"asked", "served"} => check.row \in settled
  /\ verdict.state = "done" => verdict.commitmentOk /\ verdict.matches

LEMMA VerifyInvInit ==
  ASSUME Init
  PROVE  VerifyInv
<1>1. Verify!Init BY PartsInit
<1>2. seeds = <<[secret |-> 1, revealed |-> FALSE]>> BY <1>1 DEF Verify!Init
<1>3. /\ seeds \in Seq([secret : Nat, revealed : BOOLEAN]) /\ Len(seeds) = 1
      /\ seeds[1].secret = 1
  BY <1>2
<1> QED BY <1>1, <1>3 DEF Verify!Init, VerifyInv

(* The last of a row of things replaced, and another one put after it.      *)
LEMMA ReplacedAndAppended ==
  ASSUME NEW S, NEW row \in Seq(S), Len(row) > 0, NEW last \in S, NEW new \in S
  PROVE  LET longer == Append([row EXCEPT ![Len(row)] = last], new)
         IN  /\ longer \in Seq(S) /\ Len(longer) > 0
             /\ longer[Len(longer)] = new
<1> DEFINE list == [row EXCEPT ![Len(row)] = last]
<1>1. Len(row) \in Nat BY LenProperties
<1>2. Len(row) \in 1 .. Len(row) BY <1>1
<1>3. list \in Seq(S) BY <1>2, ExceptSeq
<1> HIDE DEF list
<1>4. /\ Append(list, new) \in Seq(S)
      /\ Len(Append(list, new)) = Len(list) + 1
      /\ Len(list) \in Nat /\ Append(list, new)[Len(list) + 1] = new
  BY <1>3
<1>5. Len(Append(list, new)) > 0 BY <1>4
<1> QED BY <1>4, <1>5 DEF list

LEMMA SeedsAppended ==
  ASSUME VerifyInv, NEW seed \in [secret : Nat, revealed : BOOLEAN]
  PROVE  LET new == Append([seeds EXCEPT ![Len(seeds)].revealed = TRUE], seed)
         IN  /\ new \in Seq([secret : Nat, revealed : BOOLEAN])
             /\ Len(new) > 0 /\ new[Len(new)] = seed
<1> DEFINE Seed == [secret : Nat, revealed : BOOLEAN]
           last == [seeds[Len(seeds)] EXCEPT !.revealed = TRUE]
<1>1. seeds \in Seq(Seed) /\ Len(seeds) > 0 BY DEF VerifyInv
<1>2. last \in Seed
  <2> HIDE DEF Seed
  <2>1. Len(seeds) \in Nat BY <1>1, LenProperties
  <2>2. Len(seeds) \in 1 .. Len(seeds) BY <1>1, <2>1
  <2>3. seeds[Len(seeds)] \in Seed BY <1>1, <2>2, ElementOfSeq
  <2> QED BY <2>3 DEF Seed
<1>3. [seeds EXCEPT ![Len(seeds)].revealed = TRUE] =
        [seeds EXCEPT ![Len(seeds)] = last]
  OBVIOUS
<1>4. seed \in Seed OBVIOUS
<1> HIDE DEF Seed, last
<1>5. LET new == Append([seeds EXCEPT ![Len(seeds)] = last], seed)
      IN  new \in Seq(Seed) /\ Len(new) > 0 /\ new[Len(new)] = seed
  BY <1>1, <1>2, <1>4, ReplacedAndAppended
<1> QED BY <1>3, <1>5 DEF Seed

LEMMA VerifyInvStep ==
  ASSUME VerifyInv, [Next]_vars
  PROVE  VerifyInv'
<1>1. [Verify!Next]_verify BY PartsStep
<1>2. CASE UNCHANGED verify BY <1>2 DEF verify, VerifyInv, IsBet
<1>3. ASSUME NEW client \in Client, Verify!PlaceBet(client) PROVE VerifyInv'
  <2> DEFINE bet == [n |-> Cardinality(settled) + 1,
                     secret |-> Verify!Active.secret, client |-> client,
                     nonce |-> nonce,
                     roll |-> Verify!ComputeOutcome(
                                Verify!Text(Verify!Active.secret), client,
                                nonce)]
  <2>1. /\ settled' = settled \cup {bet} /\ bets' = bets \cup {bet}
        /\ nonce' = nonce + 1
        /\ UNCHANGED <<seeds, made, check, verdict>>
    <3>1. \A S : Verify!Cardinality(S) = Cardinality(S)
      BY DEF Verify!Cardinality, Cardinality
    <3> QED BY <1>3, <3>1 DEF Verify!PlaceBet
  <2>2. Verify!Active.secret = made /\ made \in Nat /\ nonce \in Nat
    BY DEF VerifyInv, Verify!Active
  <2>3. bet.secret = made /\ bet.nonce = nonce /\ IsBet(bet)
    BY <2>2 DEF IsBet
  <2> HIDE DEF bet
  <2>4. \A b \in settled' : IsBet(b) BY <2>1, <2>3 DEF VerifyInv
  <2>5. \A b \in settled' :
          b.secret <= made /\ (b.secret = made => b.nonce < nonce')
    <3>1. ASSUME NEW b \in settled
          PROVE  b.secret <= made /\ (b.secret = made => b.nonce < nonce')
      <4>1. /\ b.secret <= made /\ (b.secret = made => b.nonce < nonce)
            /\ b.nonce \in Nat
        BY DEF VerifyInv, IsBet
      <4> QED BY <2>1, <2>2, <4>1
    <3>2. bet.secret <= made /\ bet.nonce < nonce' BY <2>1, <2>2, <2>3
    <3> QED BY <2>1, <3>1, <3>2
  <2>6. ASSUME NEW b \in settled, b.secret = bet.secret, b.nonce = bet.nonce
        PROVE  FALSE
    <3>1. b.nonce < nonce /\ b.nonce = nonce BY <2>3, <2>6 DEF VerifyInv
    <3> QED BY <2>2, <3>1
  <2>7. ASSUME NEW a \in settled', NEW b \in settled',
               a.secret = b.secret, a.nonce = b.nonce
        PROVE  a = b
    <3>1. CASE a \in settled /\ b \in settled BY <2>7, <3>1 DEF VerifyInv
    <3> QED BY <2>1, <2>6, <2>7, <3>1
  <2>8. \A b \in settled' : (IsBet(b))' BY <2>4 DEF IsBet
  <2>9. bets' \subseteq settled' BY <2>1 DEF VerifyInv
  <2>10. nonce' \in Nat BY <2>1, <2>2
  <2>11. /\ seeds' \in Seq([secret : Nat, revealed : BOOLEAN])
         /\ Len(seeds') > 0
         /\ made' \in Nat /\ seeds'[Len(seeds')].secret = made'
         /\ check'.stage \in {"asked", "served"} => check'.row \in settled'
         /\ verdict'.state = "done" => verdict'.commitmentOk /\ verdict'.matches
    BY <2>1 DEF VerifyInv
  <2>12. \A b \in settled' :
           b.secret <= made' /\ (b.secret = made' => b.nonce < nonce')
    BY <2>1, <2>5
  <2> QED BY <2>7, <2>8, <2>9, <2>10, <2>11, <2>12 DEF VerifyInv
<1>4. ASSUME Verify!Rotate \/ Verify!Reset PROVE VerifyInv'
  <2>1. /\ made' = made + 1 /\ nonce' = 0 /\ settled' = settled
        /\ bets' \subseteq bets /\ UNCHANGED <<check, verdict>>
    BY <1>4 DEF Verify!Rotate, Verify!Reset
  <2>2. made \in Nat BY DEF VerifyInv
  <2> DEFINE new == [secret |-> made + 1, revealed |-> FALSE]
  <2>3. new \in [secret : Nat, revealed : BOOLEAN] BY <2>2
  <2>4. /\ seeds' \in Seq([secret : Nat, revealed : BOOLEAN]) /\ Len(seeds') > 0
        /\ seeds'[Len(seeds')] = new
    <3>1. CASE Verify!Rotate
      <4>1. seeds' = Append([seeds EXCEPT ![Len(seeds)].revealed = TRUE], new)
        BY <3>1 DEF Verify!Rotate
      <4> HIDE DEF new
      <4> QED BY <2>3, <4>1, SeedsAppended
    <3>2. CASE Verify!Reset
      <4>1. seeds' = <<new>> BY <3>2 DEF Verify!Reset
      <4> HIDE DEF new
      <4> QED BY <2>3, <4>1
    <3> QED BY <1>4, <3>1, <3>2
  <2>5. ASSUME NEW b \in settled
        PROVE  b.secret <= made' /\ b.secret # made'
    <3>1. b.secret <= made /\ b.secret \in Nat BY DEF VerifyInv, IsBet
    <3> QED BY <2>1, <2>2, <3>1
  <2>6. made' \in Nat /\ nonce' \in Nat /\ seeds'[Len(seeds')].secret = made'
    BY <2>1, <2>2, <2>4
  <2>7. \A b \in settled' : (IsBet(b))' BY <2>1 DEF VerifyInv, IsBet
  <2> HIDE DEF new
  <2> QED BY <2>1, <2>4, <2>5, <2>6, <2>7 DEF VerifyInv
<1>5. ASSUME NEW secret, NEW bet, Verify!AskServer(secret, bet) PROVE VerifyInv'
  BY <1>5 DEF Verify!AskServer, VerifyInv, IsBet
<1>6. ASSUME NEW row \in bets, Verify!StartCheck(row) PROVE VerifyInv'
  <2>1. check'.row = row /\ row \in settled
    BY <1>6 DEF Verify!StartCheck, VerifyInv
  <2> QED BY <1>6, <2>1 DEF Verify!StartCheck, VerifyInv, IsBet
<1>7. CASE Verify!ServeSeeds
  <2>1. check'.row = check.row /\ check.row \in settled
    BY <1>7 DEF Verify!ServeSeeds, VerifyInv
  <2> QED BY <1>7, <2>1 DEF Verify!ServeSeeds, VerifyInv, IsBet
<1>8. CASE Verify!Conclude
  <2> DEFINE row == check.row
             hash == Verify!SeedHashOf(row.secret)
  <2>1. row \in settled /\ IsBet(row)
    BY <1>8 DEF Verify!Conclude, VerifyInv
  <2>2. \/ verdict'.state = "unrevealed"
        \/ \E seed \in Verify!Match(check.revealed, hash) :
             /\ verdict'.commitmentOk =
                  (Verify!BrowserSha256(Verify!Text(seed.secret)) = hash)
             /\ verdict'.matches =
                  (Verify!BrowserOutcome(Verify!Text(seed.secret), row.client,
                                         row.nonce) = row.roll)
    BY <1>8 DEF Verify!Conclude
  <2>3. ASSUME NEW seed \in Verify!Match(check.revealed, hash)
        PROVE  /\ Verify!BrowserSha256(Verify!Text(seed.secret)) = hash
               /\ Verify!BrowserOutcome(Verify!Text(seed.secret), row.client,
                                        row.nonce) = row.roll
    <3>1. Verify!SeedHashOf(seed.secret) = hash BY DEF Verify!Match
    <3>2. seed.secret = row.secret
      BY <3>1 DEF Verify!SeedHashOf, Verify!Sha256, Verify!Text
    <3> QED BY <2>1, <3>1, <3>2
        DEF IsBet, Verify!SeedHashOf, Verify!Sha256, Verify!BrowserSha256,
            Verify!BrowserOutcome, Verify!ComputeOutcome, Verify!Message
  <2> HIDE DEF row, hash
  <2>4. verdict'.state = "done" => verdict'.commitmentOk /\ verdict'.matches
    BY <2>2, <2>3
  <2>5. /\ check'.stage = "idle"
        /\ UNCHANGED <<seeds, nonce, made, bets, settled>>
    BY <1>8 DEF Verify!Conclude
  <2> QED BY <2>4, <2>5 DEF VerifyInv, IsBet
<1> QED BY <1>1, <1>2, <1>3, <1>4, <1>5, <1>6, <1>7, <1>8 DEF Verify!Next

LEMMA AlwaysVerifyInv == Spec => []VerifyInv
<1>1. Init => VerifyInv BY VerifyInvInit
<1>2. VerifyInv /\ [Next]_vars => VerifyInv' BY VerifyInvStep
<1> QED BY <1>1, <1>2, PTL DEF Spec

(* No two bets of one secret share a message (outcome.ts:33-38): they have *)
(* different nonces, and whatever client seeds come before them, the       *)
(* colon and the numerals tell these apart.                                *)
THEOREM MessagesAlwaysDiffer == Spec => []MessagesDiffer
<1>1. ASSUME VerifyInv PROVE MessagesDiffer
  <2> SUFFICES ASSUME NEW a \in settled, NEW b \in settled, a # b,
                      a.secret = b.secret, a.roll = b.roll
               PROVE  FALSE
    BY DEF MessagesDiffer, Verify!MessagesDiffer
  <2>1. IsBet(a) /\ IsBet(b) BY <1>1 DEF VerifyInv
  <2>2. Verify!Message(a.client, a.nonce) = Verify!Message(b.client, b.nonce)
    <3>1. ASSUME NEW k, NEW l, NEW x, NEW y,
                 <<"hmac", k, x>> = <<"hmac", l, y>>
          PROVE  x = y
      <4>1. <<"hmac", k, x>>[3] = x /\ <<"hmac", l, y>>[3] = y OBVIOUS
      <4> QED BY <3>1, <4>1
    <3>2. /\ a.roll = <<"hmac", Verify!Text(a.secret),
                        Verify!Message(a.client, a.nonce)>>
          /\ b.roll = <<"hmac", Verify!Text(b.secret),
                        Verify!Message(b.client, b.nonce)>>
      BY <2>1 DEF IsBet, Verify!ComputeOutcome
    <3> QED BY <3>1, <3>2
  <2>3. a.nonce = b.nonce BY <2>1, <2>2, MessagesTell DEF IsBet
  <2> QED BY <1>1, <2>3 DEF VerifyInv
<1>2. VerifyInv => MessagesDiffer BY <1>1
<1> QED BY <1>2, AlwaysVerifyInv, PTL

(* A check that concludes never accuses the server (journey.ts:50-70):     *)
(* the seed whose hash is the bet's is the seed the bet was settled with,  *)
(* whatever was revealed or erased while the check ran.                    *)
THEOREM ChecksAlwaysAgree == Spec => []ConcludedChecksAgree
<1>1. VerifyInv => ConcludedChecksAgree
  BY DEF VerifyInv, ConcludedChecksAgree, Verify!ConcludedChecksAgree
<1> QED BY <1>1, AlwaysVerifyInv, PTL

-----------------------------------------------------------------------------
(* A seed is revealed in the step that hands its secret out.               *)
RevealedIsDisclosed ==
  \A i \in DOMAIN seeds : seeds[i].revealed => seeds[i].secret \in disclosed

VouchInv ==
  /\ RevealedIsDisclosed
  /\ Verify!VouchedIsDisclosed

LEMMA RotateDiscloses ==
  ASSUME VerifyInv, RevealedIsDisclosed, Verify!Rotate
  PROVE  RevealedIsDisclosed'
<1> DEFINE revealing == [seeds EXCEPT ![Len(seeds)].revealed = TRUE]
           new == [secret |-> made + 1, revealed |-> FALSE]
           Seed == [secret : Nat, revealed : BOOLEAN]
<1>1. /\ seeds' = Append(revealing, new)
      /\ disclosed' = disclosed \cup {seeds[Len(seeds)].secret}
  BY DEF Verify!Rotate, Verify!Active
<1>2. /\ seeds \in Seq(Seed) /\ Len(seeds) \in Nat
      /\ DOMAIN seeds = 1 .. Len(seeds)
  BY LenProperties DEF VerifyInv
<1>3. /\ DOMAIN revealing = DOMAIN seeds
      /\ \A i \in DOMAIN seeds :
           /\ i # Len(seeds) => revealing[i] = seeds[i]
           /\ revealing[i].secret = seeds[i].secret
  BY <1>2
<1>4. revealing \in Seq(Seed) /\ new \in Seed
  <2>1. \A i \in 1 .. Len(seeds) : seeds[i] \in Seed BY <1>2, ElementOfSeq
  <2>2. \A i \in 1 .. Len(seeds) : revealing[i] \in Seed BY <1>2, <2>1
  <2>3. made + 1 \in Nat BY DEF VerifyInv
  <2>4. revealing \in [1 .. Len(seeds) -> Seed] BY <1>2, <2>2
  <2> HIDE DEF revealing
  <2> QED BY <1>2, <2>3, <2>4, SeqDef
<1> HIDE DEF revealing, new
<1>5. ASSUME NEW i \in DOMAIN seeds', seeds'[i].revealed
      PROVE  seeds'[i].secret \in disclosed'
  <2>1. Len(revealing) = Len(seeds)
    BY <1>2, <1>3, <1>4, LenProperties
  <2>2. /\ DOMAIN seeds' = 1 .. Len(seeds) + 1
        /\ \A j \in 1 .. Len(seeds) : seeds'[j] = revealing[j]
        /\ seeds'[Len(seeds) + 1] = new
    BY <1>1, <1>2, <1>4, <2>1, AppendProperties, LenProperties
  <2>3. i # Len(seeds) + 1 BY <1>5, <2>2 DEF new
  <2>4. i \in 1 .. Len(seeds) /\ seeds'[i] = revealing[i]
    BY <1>2, <2>2, <2>3
  <2> QED BY <1>1, <1>2, <1>3, <1>5, <2>4 DEF RevealedIsDisclosed
<1> QED BY <1>5 DEF RevealedIsDisclosed

LEMMA AnswerVouches ==
  ASSUME VerifyInv, RevealedIsDisclosed, NEW secret, NEW bet \in settled,
         Verify!AskServer(secret, bet)
  PROVE  Verify!VouchedIsDisclosed'
<1>1. told' =
        [secret |-> secret, bet |-> bet, known |-> secret \in disclosed,
         roll |-> Verify!ComputeOutcome(Verify!Text(secret), bet.client,
                                        bet.nonce),
         matchesHash |->
           Verify!IsRevealedCommitment(Verify!SeedHashOf(secret))]
  BY DEF Verify!AskServer
<1>2. bet.roll = Verify!ComputeOutcome(Verify!Text(bet.secret), bet.client,
                                       bet.nonce)
  BY DEF VerifyInv, IsBet
<1>3. ASSUME Verify!IsRevealedCommitment(Verify!SeedHashOf(secret))
      PROVE  secret \in disclosed
  <2>1. PICK i \in 1 .. Len(seeds) :
          /\ Verify!SeedHashOf(seeds[i].secret) = Verify!SeedHashOf(secret)
          /\ seeds[i].revealed
    BY <1>3 DEF Verify!IsRevealedCommitment
  <2>2. seeds[i].secret = secret
    BY <2>1 DEF Verify!SeedHashOf, Verify!Sha256, Verify!Text
  <2>3. i \in DOMAIN seeds BY LenProperties DEF VerifyInv
  <2> QED BY <2>1, <2>2, <2>3 DEF RevealedIsDisclosed
<1>4. /\ told'.matchesHash =>
           Verify!IsRevealedCommitment(Verify!SeedHashOf(secret))
      /\ secret \in disclosed => told'.known
      /\ told'.bet = bet /\ told'.secret = secret
      /\ told'.roll = Verify!ComputeOutcome(Verify!Text(secret), bet.client,
                                            bet.nonce)
  BY <1>1
<1> QED BY <1>2, <1>3, <1>4 DEF Verify!VouchedIsDisclosed

LEMMA VouchStep ==
  ASSUME VerifyInv, VouchInv, [Next]_vars
  PROVE  VouchInv'
<1>1. [Verify!Next]_verify BY PartsStep
<1>2. CASE UNCHANGED verify
  BY <1>2
  DEF verify, VouchInv, RevealedIsDisclosed, Verify!VouchedIsDisclosed
<1>3. CASE UNCHANGED <<seeds, disclosed, told>>
  BY <1>3 DEF VouchInv, RevealedIsDisclosed, Verify!VouchedIsDisclosed
<1>4. CASE Verify!Rotate
  BY <1>4, RotateDiscloses
  DEF VouchInv, Verify!VouchedIsDisclosed, Verify!Rotate
<1>5. CASE Verify!Reset
  <2>1. /\ seeds' = <<[secret |-> made + 1, revealed |-> FALSE]>>
        /\ told' = told
    BY <1>5 DEF Verify!Reset
  <2>2. DOMAIN seeds' = {1} /\ seeds'[1].revealed = FALSE BY <2>1
  <2> QED
    BY <2>1, <2>2
    DEF VouchInv, RevealedIsDisclosed, Verify!VouchedIsDisclosed
<1>6. ASSUME NEW secret, NEW bet \in settled, Verify!AskServer(secret, bet)
      PROVE  VouchInv'
  <2>1. UNCHANGED <<seeds, disclosed>> BY <1>6 DEF Verify!AskServer
  <2> QED
    BY <1>6, <2>1, AnswerVouches DEF VouchInv, RevealedIsDisclosed
<1>7. ASSUME \/ \E client \in Client : Verify!PlaceBet(client)
             \/ \E row \in bets : Verify!StartCheck(row)
             \/ Verify!ServeSeeds \/ Verify!Conclude
      PROVE  UNCHANGED <<seeds, disclosed, told>>
  BY <1>7
  DEF Verify!PlaceBet, Verify!StartCheck, Verify!ServeSeeds, Verify!Conclude
<1> QED BY <1>1, <1>2, <1>3, <1>4, <1>5, <1>6, <1>7 DEF Verify!Next

(* GET /fairness/verify vouches for no secret that was not disclosed       *)
(* before, be it the active one or a stranger's, and with the bet's own    *)
(* secret it answers the bet's roll (fairness.ts:66-74, seeds.ts:143-148). *)
THEOREM VouchedIsAlwaysDisclosed == Spec => []Verify!VouchedIsDisclosed
<1>1. Init => VouchInv
  <2> SUFFICES ASSUME Init PROVE VouchInv OBVIOUS
  <2>1. Verify!Init BY PartsInit
  <2>2. /\ seeds = <<[secret |-> 1, revealed |-> FALSE]>>
        /\ told = [matchesHash |-> FALSE]
    BY <2>1 DEF Verify!Init
  <2>3. DOMAIN seeds = {1} /\ seeds[1].revealed = FALSE BY <2>2
  <2>4. told.matchesHash = FALSE BY <2>2
  <2> QED
    BY <2>3, <2>4
    DEF VouchInv, RevealedIsDisclosed, Verify!VouchedIsDisclosed
<1>2. VerifyInv /\ VouchInv /\ [Next]_vars => VouchInv' BY VouchStep
<1>3. VouchInv => Verify!VouchedIsDisclosed BY DEF VouchInv
<1> QED BY <1>1, <1>2, <1>3, AlwaysVerifyInv, PTL DEF Spec
=============================================================================
