------------------------------ MODULE Console ------------------------------
(***************************************************************************)
(* One open console: the actions of useEngine, each a run that waits for   *)
(* one or two answers, and what App.tsx shows and reloads.  Another tab    *)
(* deposits, bets, rotates and resets on the same server.  Busy is one     *)
(* name, so a run of another name may start before the first has ended.    *)
(***************************************************************************)
EXTENDS Integers, Sequences

CONSTANTS
  Slot,       \* runs that may overlap
  MaxBets,    \* bound: bet ids ever generated
  MaxSeed,    \* bound: seeds generated
  MaxFunds,   \* bound: the balance, in stakes
  MaxFaults,  \* bound: answers lost
  MaxForeign  \* bound: requests of other tabs

VARIABLES
  bets,       \* the server's bets, newest last: id and seed
  active,     \* the active seed
  erased,     \* the last seed a reset has deleted, 0 if none
  funds,      \* the user's balance
  runs,       \* the runs that wait for an answer
  busy,       \* the name of a run, or none
  bet,        \* the bet shown as settled, and the commitment shown with it
  lastBetId, reveal, verification,
  shown,      \* App.tsx: the last bet, the commitment and the balance
  stale,      \* what is being reloaded
  lastId,     \* the last bet id generated, by whichever tab
  faults, foreign

server  == <<bets, active, erased, funds>>
outcome == <<bet, lastBetId, reveal, verification>>
page    == <<shown, stale>>
bounds  == <<faults, foreign>>
vars == <<server, runs, busy, outcome, page, lastId, bounds>>

NoRow == [id |-> 0, seed |-> 0]
NoBet == [row |-> NoRow, on |-> 0]
Idle  == [name |-> "none"]
NoVerification == [row |-> NoRow, state |-> "none"]
NoBalance == -1
All == {"me", "bets", "seed"}

Newest == IF bets = <<>> THEN NoRow ELSE bets[Len(bets)]
Known(id) == \E n \in 1 .. Len(bets) : bets[n].id = id
Revealed == erased + 1 .. active - 1

-----------------------------------------------------------------------------
(* run: the button is disabled only while busy has its name.               *)
Start(s, run) ==
  /\ runs[s] = Idle /\ busy # run.name
  /\ runs' = [runs EXCEPT ![s] = run]
  /\ busy' = run.name

(* finally: busy is cleared, whoever set it.                               *)
End(s) ==
  /\ runs' = [runs EXCEPT ![s] = Idle]
  /\ busy' = "none"

Step(s, run) == runs' = [runs EXCEPT ![s] = run] /\ UNCHANGED busy

BetRun(id, seed, how) ==
  [name |-> "bet", at |-> "sent", id |-> id, seed |-> seed, how |-> how,
   on |-> IF how = "card" THEN shown.seed ELSE 0, row |-> NoRow]

NewId == lastId < MaxBets /\ lastId' = lastId + 1

(* Altered: the commitment shown does not go with the bet.                 *)
ClickBetBlind(s) ==
  /\ shown.me # 0
  /\ NewId
  /\ Start(s, BetRun(lastId', 0, "card"))
  /\ UNCHANGED <<server, outcome, page, bounds>>

(* BetCard: the commitment shown goes with the bet, if one is shown.       *)
ClickBet(s) ==
  /\ shown.me # 0
  /\ NewId
  /\ Start(s, BetRun(lastId', shown.seed, "card"))
  /\ UNCHANGED <<server, outcome, page, bounds>>

(* AdvancedProofs: a stake or target out of range, and a bet when the      *)
(* balance shown is less than the stake.                                   *)
ClickRule(s) ==
  /\ NewId
  /\ \/ Start(s, BetRun(lastId', 0, "limit"))
     \/ shown.me = 0 /\ Start(s, BetRun(lastId', 0, "spend"))
  /\ UNCHANGED <<server, outcome, page, bounds>>

ClickReplay(s) ==
  /\ lastBetId # 0
  /\ Start(s, BetRun(lastBetId, 0, "replay"))
  /\ UNCHANGED <<server, outcome, page, lastId, bounds>>

ClickFairness(s) ==
  /\ shown.row # NoRow
  /\ Start(s, [name |-> "fairness", at |-> "rotate", row |-> shown.row,
               seed |-> 0])
  /\ UNCHANGED <<server, outcome, page, lastId, bounds>>

ClickOther(s) ==
  /\ \E name \in {"deposit", "reset"} :
       Start(s, [name |-> name, at |-> "sent"])
  /\ UNCHANGED <<server, outcome, page, lastId, bounds>>

-----------------------------------------------------------------------------
(* placeBet, without its amounts: a known id, a rotated seed, a stake or a *)
(* target out of range and an empty wallet are refused.                    *)
Accepts(run) ==
  /\ ~Known(run.id)
  /\ run.how # "limit"
  /\ run.seed \in {0, active}
  /\ funds > 0

ServeBet(s) ==
  /\ runs[s].name = "bet" /\ runs[s].at = "sent"
  /\ IF Accepts(runs[s])
     THEN LET row == [id |-> runs[s].id, seed |-> active] IN
          /\ bets' = Append(bets, row)
          /\ funds' \in {funds - 1, funds + 1} \cap 0 .. MaxFunds
          /\ Step(s, [runs[s] EXCEPT !.at = "placed", !.row = row])
     ELSE Step(s, [runs[s] EXCEPT !.at = "refused"]) /\ UNCHANGED <<bets, funds>>
  /\ UNCHANGED <<active, erased, outcome, page, lastId, bounds>>

BetPlaced(s) ==
  /\ runs[s].name = "bet" /\ runs[s].at = "placed"
  /\ bet' = [row |-> runs[s].row, on |-> runs[s].on]
  /\ verification' = NoVerification
  /\ lastBetId' = IF runs[s].how = "replay" THEN lastBetId ELSE runs[s].id
  /\ stale' = All
  /\ End(s)
  /\ UNCHANGED <<server, reveal, shown, lastId, bounds>>

(* Altered: the id is remembered when the bet was refused.                 *)
BetRefusedRemembered(s) ==
  /\ runs[s].name = "bet" /\ runs[s].at = "refused"
  /\ lastBetId' = runs[s].id
  /\ End(s)
  /\ UNCHANGED <<server, bet, reveal, verification, page, lastId, bounds>>

BetRefused(s) ==
  /\ runs[s].name = "bet" /\ runs[s].at = "refused"
  /\ End(s)
  /\ UNCHANGED <<server, outcome, page, lastId, bounds>>

-----------------------------------------------------------------------------
Rotate == active < MaxSeed /\ active' = active + 1

(* rotateAndCheck: the old seed comes back.                                *)
ServeRotate(s) ==
  /\ runs[s].name = "fairness" /\ runs[s].at = "rotate"
  /\ Rotate
  /\ Step(s, [runs[s] EXCEPT !.at = "rotated", !.seed = active])
  /\ UNCHANGED <<bets, erased, funds, outcome, page, lastId, bounds>>

SeedRevealed(s) ==
  /\ runs[s].name = "fairness" /\ runs[s].at = "rotated"
  /\ reveal' = runs[s].seed
  /\ Step(s, [runs[s] EXCEPT !.at = "list"])
  /\ UNCHANGED <<server, bet, lastBetId, verification, page, lastId, bounds>>

(* Altered: the seeds are listed while the rotation is under way.          *)
ListableEarly(run) == run.at \in {"rotate", "rotated", "list"}

Listable(run) == run.at = "list"

(* verifyBet: the seeds are listed, and the bet recomputed if its seed is  *)
(* among them.                                                             *)
ServeSeeds(s) ==
  /\ runs[s].name = "fairness" /\ Listable(runs[s])
  /\ Step(s, [runs[s] EXCEPT
       !.at = IF runs[s].row.seed \in Revealed THEN "done" ELSE "unrevealed"])
  /\ UNCHANGED <<server, outcome, page, lastId, bounds>>

Verified(s) ==
  /\ runs[s].name = "fairness" /\ runs[s].at \in {"done", "unrevealed"}
  /\ verification' = [row |-> runs[s].row, state |-> runs[s].at]
  /\ stale' = stale \cup {"seed"}
  /\ End(s)
  /\ UNCHANGED <<server, bet, lastBetId, reveal, shown, lastId, bounds>>

-----------------------------------------------------------------------------
EraseAll ==
  /\ active < MaxSeed
  /\ bets' = <<>> /\ funds' = 0
  /\ erased' = active /\ active' = active + 1

Deposit ==
  funds < MaxFunds /\ funds' = funds + 1 /\ UNCHANGED <<bets, active, erased>>

ServeOther(s) ==
  /\ runs[s].name \in {"deposit", "reset"} /\ runs[s].at = "sent"
  /\ IF runs[s].name = "reset" THEN EraseAll ELSE Deposit
  /\ Step(s, [runs[s] EXCEPT !.at = "served"])
  /\ UNCHANGED <<outcome, page, lastId, bounds>>

Deposited(s) ==
  /\ runs[s].name = "deposit" /\ runs[s].at = "served"
  /\ stale' = stale \cup {"me"}
  /\ End(s)
  /\ UNCHANGED <<server, outcome, shown, lastId, bounds>>

WasReset(s) ==
  /\ runs[s].name = "reset" /\ runs[s].at = "served"
  /\ bet' = NoBet /\ lastBetId' = 0 /\ reveal' = 0
  /\ verification' = NoVerification
  /\ stale' = All
  /\ End(s)
  /\ UNCHANGED <<server, shown, lastId, bounds>>

(* The answer is lost, whether or not the request was served.              *)
Lose(s) ==
  /\ runs[s] # Idle
  /\ faults < MaxFaults /\ faults' = faults + 1
  /\ End(s)
  /\ UNCHANGED <<server, outcome, page, lastId, foreign>>

-----------------------------------------------------------------------------
(* The answer of a reload: what the server has now.                        *)
Reload(what) ==
  /\ what \in stale
  /\ stale' = stale \ {what}
  /\ shown' = [shown EXCEPT !.row  = IF what = "bets" THEN Newest ELSE @,
                            !.seed = IF what = "seed" THEN active ELSE @,
                            !.me   = IF what = "me" THEN funds ELSE @]
  /\ UNCHANGED <<server, runs, busy, outcome, lastId, bounds>>

(* playAgain.                                                              *)
Restart ==
  /\ bet # NoBet
  /\ bet' = NoBet /\ reveal' = 0 /\ verification' = NoVerification
  /\ UNCHANGED <<server, runs, busy, lastBetId, page, lastId, bounds>>

(* Another tab's requests.                                                 *)
Elsewhere ==
  /\ foreign < MaxForeign /\ foreign' = foreign + 1
  /\ \/ Deposit /\ UNCHANGED lastId
     \/ Rotate /\ UNCHANGED <<bets, erased, funds, lastId>>
     \/ EraseAll /\ UNCHANGED lastId
     \/ /\ funds > 0 /\ NewId
        /\ bets' = Append(bets, [id |-> lastId', seed |-> active])
        /\ funds' = funds - 1
        /\ UNCHANGED <<active, erased>>
  /\ UNCHANGED <<runs, busy, outcome, page, faults>>

Init ==
  /\ bets = <<>> /\ active = 1 /\ erased = 0 /\ funds = 0
  /\ runs = [s \in Slot |-> Idle] /\ busy = "none"
  /\ bet = NoBet /\ lastBetId = 0 /\ reveal = 0
  /\ verification = NoVerification
  /\ shown = [row |-> NoRow, seed |-> 0, me |-> NoBalance]
  /\ stale = All /\ lastId = 0 /\ faults = 0 /\ foreign = 0

Click(s) ==
  \/ ClickBet(s) \/ ClickRule(s) \/ ClickReplay(s) \/ ClickFairness(s)
  \/ ClickOther(s)

Serve(s) ==
  ServeBet(s) \/ ServeRotate(s) \/ ServeSeeds(s) \/ ServeOther(s)

Answer(s) ==
  \/ BetPlaced(s) \/ BetRefused(s) \/ SeedRevealed(s) \/ Verified(s)
  \/ Deposited(s) \/ WasReset(s)

Next ==
  \/ \E s \in Slot : Click(s) \/ Serve(s) \/ Answer(s) \/ Lose(s)
  \/ \E what \in All : Reload(what)
  \/ Restart
  \/ Elsewhere

Spec == Init /\ [][Next]_vars

-----------------------------------------------------------------------------
(* Reveal & verify ends without a verdict only for a bet whose seed a      *)
(* reset has deleted: whatever other tabs rotate, revealing first makes    *)
(* the check conclusive (useEngine.ts:160-181, journey.ts:50-54).          *)
CheckIsConclusive ==
  verification.state = "unrevealed" => verification.row.seed <= erased

(* The bet shown as settled was settled under the commitment the page      *)
(* showed when it was placed, whoever rotated since (BetCard.tsx:181-186). *)
CommitmentShownIsUsed ==
  bet.on # 0 => bet.row.seed = bet.on

(* A replay moves no money unless a reset has erased the bet it repeats:   *)
(* only the id of a bet that was placed is remembered (useEngine.ts:107-   *)
(* 135).                                                                   *)
ReplayIsFree ==
  \A s \in Slot :
    runs[s].name = "bet" /\ runs[s].how = "replay" /\ bets' # bets
      /\ runs[s] # runs'[s] => erased > 0

ReplayMovesNothing == [][ReplayIsFree]_vars

(* AdvancedProofs.tsx:249: "Each button breaks one rule."                  *)
EachButtonRefused ==
  \A s \in Slot :
    runs[s].name = "bet" /\ runs[s].at = "placed" => runs[s].how = "card"

(* FairnessSection.tsx:63: "That bet's secret is still in use".            *)
UnrevealedIsInUse ==
  verification.state = "unrevealed" => verification.row.seed = active

(* FairnessSection.tsx:14-15: "the cryptography is named in the progress   *)
(* line and shown in full underneath": the secret shown is the secret the  *)
(* check used.                                                             *)
SecretShownIsUsed ==
  verification.state = "done" /\ reveal # 0 => reveal = verification.row.seed
=============================================================================
