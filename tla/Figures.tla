------------------------------ MODULE Figures ------------------------------
(***************************************************************************)
(* The figures of one bet on their way from the console through the server *)
(* and back: typed, shown before the bet, sent as a decimal text, parsed   *)
(* to hundredths, rolled, paid, stored, listed and verified again.         *)
(*                                                                         *)
(* A number is kept in thousandths, so that a third decimal can be typed.  *)
(* A binary number is off by so little that it matters only at a third     *)
(* decimal of 5: toFixed rounds down if the double of x is below x, and    *)
(* Math.round if that of the product is below the half.                    *)
(***************************************************************************)
EXTENDS Integers, Sequences, FiniteSets

CONSTANTS
  Typed,   \* the targets somebody types, in thousandths
  Below,        \* of those: whose double is less than the number
  ProductBelow, \* of those: whose double times 100 is less than the half
  Stake,   \* the stakes, in minor units
  Roll     \* the rolls an HMAC selects, in hundredths

MinBet    == 100
MaxBet    == 50000
TargetMin == 100    \* in hundredths
TargetMax == 9800
Digit     == 0 .. 9
RollSpace == 0 .. 9999

FiguresAssumption ==
  /\ Typed \subseteq Nat
  /\ ProductBelow \subseteq Below /\ Below \subseteq Typed
  /\ Stake \subseteq Nat
  /\ Roll \subseteq RollSpace

VARIABLES
  stage,      \* where the bet is
  typed, stake,
  shown,      \* potential payout and win chance, as shown
  text,       \* targetUnder of the request
  hundredths, \* what the server reads in it
  rollText,   \* bets.roll
  roll, won, payout,
  checked     \* what the browser and GET /fairness/verify make of the bet

vars == <<stage, typed, stake, shown, text, hundredths, rollText, roll, won,
          payout, checked>>
request == <<typed, stake, shown>>
outcome == <<rollText, roll, won, payout>>

-----------------------------------------------------------------------------
Rounded(x, below) ==
  IF x % 10 = 5 /\ x \in below THEN x \div 10 ELSE (x + 5) \div 10

(* Math.round(x * 100).                                                    *)
MathRound(x) == Rounded(x, ProductBelow)

(* A decimal text is its whole part and its digits after the point.        *)
Value(t) ==
  LET d(i) == IF i <= Len(t.frac) THEN t.frac[i] ELSE 0
  IN  1000 * t.whole + 100 * d(1) + 10 * d(2) + d(3)

(* Altered: the fraction is not padded.                                    *)
FormatUnpadded(h) ==
  [whole |-> h \div 100,
   frac  |-> IF h % 100 < 10 THEN <<h % 10>>
             ELSE <<(h % 100) \div 10, h % 10>>]

(* formatHundredths, of the server and of the browser.                     *)
FormatHundredths(h) ==
  [whole |-> h \div 100, frac |-> <<(h % 100) \div 10, h % 10>>]

(* x.toFixed(2).                                                           *)
ToFixed(x) == FormatHundredths(Rounded(x, Below))

(* String(v) of a JSON number: no trailing zeros.                          *)
Shortest(x) ==
  [whole |-> x \div 1000,
   frac  |-> LET all == <<(x % 1000) \div 100, (x % 100) \div 10, x % 10>>
                 len == CHOOSE n \in 0 .. 3 :
                          /\ \A i \in n + 1 .. 3 : all[i] = 0
                          /\ n > 0 => all[n] # 0
             IN  SubSeq(all, 1, len)]

WellFormed(t) == t.whole <= 999 /\ Len(t.frac) <= 2

(* parseHundredths: the fraction padded to two digits.                     *)
ParseHundredths(t) ==
  100 * t.whole +
    (CASE Len(t.frac) = 0 -> 0
       [] Len(t.frac) = 1 -> 10 * t.frac[1]
       [] OTHER -> 10 * t.frac[1] + t.frac[2])

InRange(h) == TargetMin <= h /\ h <= TargetMax

PayoutFor(amount, h) == (amount * 9900) \div h

(* Altered: a roll on the target wins.                                     *)
IsWinAtTarget(r, h) == r <= h

IsWin(r, h) == r < h

(* potentialPayoutMinor and winChance.                                     *)
Preview(amount, h) ==
  [payout |-> IF amount <= 0 \/ h <= 0 THEN 0 ELSE (amount * 9900) \div h,
   chance |-> IF h <= 0 THEN 0 ELSE IF h < 10000 THEN h ELSE 10000]

-----------------------------------------------------------------------------
Init ==
  /\ stage = "typing"
  /\ typed = 0 /\ stake = 0 /\ shown = Preview(0, 0)
  /\ text = FormatHundredths(0) /\ hundredths = 0
  /\ rollText = FormatHundredths(0)
  /\ roll = 0 /\ won = FALSE /\ payout = 0
  /\ checked = <<>>

(* BetCard: canBet asks for a positive amount and target, no more.         *)
Type ==
  /\ stage = "typing"
  /\ \E x \in Typed, a \in Stake :
       /\ x > 0 /\ a > 0
       /\ typed' = x /\ stake' = a
       /\ shown' = Preview(a, MathRound(x))
  /\ stage' = "shown"
  /\ UNCHANGED <<text, hundredths, outcome, checked>>

(* The slider stands at the nearest hundredth of its range and moves by    *)
(* one.  Once, here.                                                       *)
SliderAt(x) ==
  LET h == MathRound(x)
  IN  IF h < TargetMin THEN TargetMin ELSE IF h > TargetMax THEN TargetMax ELSE h

Slide ==
  /\ stage = "shown"
  /\ \E h \in {SliderAt(typed) - 1, SliderAt(typed) + 1}
                \cap TargetMin .. TargetMax :
       /\ typed' = 10 * h
       /\ shown' = Preview(stake, h)
  /\ stage' = "moved"
  /\ UNCHANGED <<stake, text, hundredths, outcome, checked>>

(* The console sends targetUnder.toFixed(2) ...                            *)
SendFixed ==
  /\ stage \in {"shown", "moved"}
  /\ text' = ToFixed(typed)
  /\ stage' = "sent"
  /\ UNCHANGED <<request, hundredths, outcome, checked>>

(* ... other clients send the number itself.                               *)
SendNumber ==
  /\ stage \in {"shown", "moved"}
  /\ text' = Shortest(typed)
  /\ stage' = "sent"
  /\ UNCHANGED <<request, hundredths, outcome, checked>>

(* POST /bets.                                                             *)
RefuseTarget ==
  /\ stage = "sent"
  /\ ~WellFormed(text) \/ ~InRange(ParseHundredths(text))
  /\ stage' = "refused"
  /\ UNCHANGED <<request, text, hundredths, outcome, checked>>

AcceptTarget ==
  /\ stage = "sent"
  /\ WellFormed(text) /\ InRange(ParseHundredths(text))
  /\ hundredths' = ParseHundredths(text)
  /\ stage' = "read"
  /\ UNCHANGED <<request, text, outcome, checked>>

(* placeBet.                                                               *)
RefuseStake ==
  /\ stage = "read"
  /\ stake \notin MinBet .. MaxBet
  /\ stage' = "refused"
  /\ UNCHANGED <<request, text, hundredths, outcome, checked>>

Settle ==
  /\ stage = "read"
  /\ stake \in MinBet .. MaxBet
  /\ roll' \in Roll
  /\ won' = IsWin(roll', hundredths)
  /\ payout' = IF won' THEN PayoutFor(stake, hundredths) ELSE 0
  /\ rollText' = FormatHundredths(roll')
  /\ stage' = "settled"
  /\ UNCHANGED <<request, text, hundredths, checked>>

(* verifyBet: the roll as listed, through Number and toFixed(2), against   *)
(* the browser's own; GET /fairness/verify: the target as text, the roll   *)
(* as a number.                                                            *)
Verify ==
  /\ stage = "settled"
  /\ checked' = <<[listed  |-> ParseHundredths(ToFixed(Value(rollText))),
                   browser |-> roll,
                   route   |-> Value(FormatHundredths(roll)),
                   routeWon |-> IsWin(roll, ParseHundredths(
                                              FormatHundredths(hundredths)))]>>
  /\ stage' = "verified"
  /\ UNCHANGED <<request, text, hundredths, outcome>>

Again ==
  /\ stage \in {"refused", "verified"}
  /\ stage' = "typing"
  /\ typed' = 0 /\ stake' = 0 /\ shown' = Preview(0, 0)
  /\ text' = FormatHundredths(0) /\ hundredths' = 0
  /\ rollText' = FormatHundredths(0)
  /\ roll' = 0 /\ won' = FALSE /\ payout' = 0
  /\ checked' = <<>>

Next ==
  \/ Type \/ Slide \/ SendFixed \/ SendNumber \/ RefuseTarget \/ AcceptTarget
  \/ RefuseStake \/ Settle \/ Verify \/ Again

Spec == Init /\ [][Next]_vars

-----------------------------------------------------------------------------
Settled == stage \in {"settled", "verified"}

(* A bet that was accepted is won on exactly as many of the 10,000 rolls   *)
(* as the chance shown, and pays what was shown, if its target was typed   *)
(* with at most two decimals (format-credits.ts:9-27, outcome.ts:47-60,    *)
(* 82-87).                                                                 *)
SettledAsShown ==
  Settled /\ typed % 10 = 0 =>
    /\ won => payout = shown.payout
    /\ Cardinality({r \in RollSpace : IsWin(r, hundredths)}) = shown.chance

(* The browser and the route find the roll the server stored, to the       *)
(* hundredth, and the route finds the same winner (journey.ts:45-66,       *)
(* fairness.ts:86-105).                                                    *)
VerifiersAgree ==
  stage = "verified" =>
    /\ checked[1].listed = checked[1].browser
    /\ checked[1].route = 10 * roll
    /\ checked[1].routeWon = won

(* A win pays more than the stake, however close the target is to its      *)
(* upper end, and never more than the odds less one percent (bet.ts:71-82, *)
(* 303-315).                                                               *)
WinPaysMore ==
  Settled /\ won => payout > stake /\ payout * hundredths <= stake * 9900

(* format-credits.ts:12-13: "the figure shown before a bet is the figure   *)
(* the server settles".                                                    *)
ShownIsSettled == Settled /\ won => payout = shown.payout
=============================================================================
