----------------------------- MODULE MCService -----------------------------
(* Small instances of the parts of Service for TLC.                        *)
EXTENDS Service

Leg(a, n) == [account |-> a, amount |-> n]

(* A deposit, a stake, two debits of one account, a debit its own credit   *)
(* would pay for, one leg of a transfer and the other, and what postEntry  *)
(* rejects.                                                                *)
Entries ==
  {<<Leg("gateway", -2), Leg("u", 2)>>,
   <<Leg("u", -2), Leg("pending", 2)>>,
   <<Leg("u", -2), Leg("u", -1), Leg("pending", 3)>>,
   <<Leg("u", -2), Leg("u", 2)>>,
   <<Leg("gateway", -1)>>, <<Leg("pending", 1)>>,
   <<>>, <<Leg("u", 0)>>, <<Leg("nobody", 1)>>}

(* A rolling deployment: b adds a file, c has edited the first one.        *)
Releases ==
  [i \in {"a", "b", "c"} |->
     CASE i = "a" -> <<1, 0>> [] i = "b" -> <<1, 1>> [] i = "c" -> <<2, 1>>]

(* Two storms of one event, of users, of two deliveries each.              *)
Deliveries == {"d1", "d2", "d3", "d4"}
StormOfEach ==
  [d \in Deliveries |-> IF d \in {"d3", "d4"} THEN "s2" ELSE "s1"]
OneEvent == [s \in {"s1", "s2"} |-> "e"]
AllUsers == [s \in {"s1", "s2"} |-> TRUE]

(* Two client seeds that only a separator keeps apart: "a" and "a1".       *)
(* Numerals are binary, so the third nonce already has two digits.         *)
Clients == {<<"a">>, <<"a", "1">>}

(* Targets of one and two decimals at the ends of the range and beyond, a  *)
(* zero first; stakes and rolls at theirs.  Numbers are in thousandths.    *)
Hundredths ==
  {10 * h : h \in {1, 99, 100, 101, 105, 110, 999, 1001, 5000, 5963, 9799,
                   9800, 9801, 9900, 9999, 10000, 100000}}
Stakes == {0, 99, 100, 101, 777, 50000, 50001}
Rolls ==
  {0, 1, 9, 10, 99, 100, 104, 105, 999, 5962, 5963, 9799, 9800, 9999}
=============================================================================
