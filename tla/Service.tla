------------------------------ MODULE Service ------------------------------
(***************************************************************************)
(* The ledger, the rounds, boot, the storm endpoint, verification and the  *)
(* figures of a bet, side by side. These parts share no state: one of them *)
(* runs in each behaviour and the others stay in their initial states, so  *)
(* that their state spaces add up instead of multiplying.                  *)
(***************************************************************************)
EXTENDS Integers

CONSTANTS
  Session, Account, User, Entry, MaxEntries, MaxId,     \* Ledger
  Caller, Reader, Round, NoRound,                       \* Rounds
  OtherCaller, Hand, OtherRound,                        \* Rounds, by hand
  Instance, Files, Content, MaxRetries, MaxSeed, MaxCrashes,  \* Boot
  Storms, Delivery, StormOf, EventOf, IsUser, PoolMax, MaxFaults,
  Client, Base, MaxBets, MaxSeeds, MaxResets,           \* Verify
  Typed, Below, ProductBelow, Stake, Roll               \* Figures

VARIABLES
  on,  \* the component that runs
  (* Ledger *)
  journal, lastId, ledgerPc, posting, ledgerTx, ledgerHeld,
  (* Rounds *)
  status, steps, roundTx, roundSeen, outcome, raised, query, view,
  (* Boot *)
  table, recorded, effects, active, generated, bootPc, file, bootSeen,
  failures, errors, crashes,
  (* Storm *)
  stormPc, stormHeld, queue, answer, holder, entry, stormId, count, before,
  report, faults,
  (* Verify *)
  seeds, nonce, made, bets, settled, disclosed, resets, check, verdict, told,
  (* Figures *)
  stage, typed, stake, shown, text, hundredths, rollText, roll, won, payout,
  checked

-----------------------------------------------------------------------------
Ledger == INSTANCE Ledger WITH pc <- ledgerPc, tx <- ledgerTx, held <- ledgerHeld

(* Callers and readers of rounds, and no other writer.                     *)
Rounds == INSTANCE Rounds WITH
  Hand <- {}, Resets <- FALSE, tx <- roundTx, seen <- roundSeen

(* Callers, sessions that bypass the service, and resets.                  *)
ByHand == INSTANCE Rounds WITH
  Caller <- OtherCaller, Round <- OtherRound, Reader <- {}, Resets <- TRUE,
  tx <- roundTx, seen <- roundSeen

Boot == INSTANCE Boot WITH pc <- bootPc, seen <- bootSeen

Storm == INSTANCE Storm WITH
  Storm <- Storms, pc <- stormPc, held <- stormHeld, lastId <- stormId

Verify == INSTANCE Verify WITH answer <- told

Figures == INSTANCE Figures

ASSUME Instances ==
  /\ Ledger!UserAssumption /\ Ledger!EntryAssumption /\ Ledger!BoundAssumption
  /\ Rounds!NoRoundAssumption /\ Rounds!ResetsAssumption
  /\ ByHand!NoRoundAssumption /\ ByHand!ResetsAssumption
  /\ OtherRound \subseteq Round
  /\ Boot!ContentAssumption
  /\ Storm!StormAssumption
  /\ Verify!VerifyAssumption
  /\ Figures!FiguresAssumption

-----------------------------------------------------------------------------
ledger == <<journal, lastId, ledgerPc, posting, ledgerTx, ledgerHeld>>
rounds == <<status, steps, roundTx, roundSeen, outcome, raised, query, view>>
boot == <<table, recorded, effects, active, generated, bootPc, file, bootSeen,
          failures, errors, crashes>>
storm == <<stormPc, stormHeld, queue, answer, holder, entry, stormId, count,
           before, report, faults>>
verify == <<seeds, nonce, made, bets, settled, disclosed, resets, check,
            verdict, told>>
figures == <<stage, typed, stake, shown, text, hundredths, rollText, roll,
             won, payout, checked>>
vars == <<on, ledger, rounds, boot, storm, verify, figures>>

Init ==
  /\ on \in {"ledger", "rounds", "by hand", "boot", "storm", "verify",
            "figures"}
  /\ Ledger!Init
  /\ IF on = "by hand" THEN ByHand!Init ELSE Rounds!Init
  /\ Boot!Init
  /\ Storm!Init
  /\ Verify!Init
  /\ Figures!Init

Next ==
  \/ on = "ledger" /\ Ledger!Next
     /\ UNCHANGED <<on, rounds, boot, storm, verify, figures>>
  \/ on = "rounds" /\ Rounds!Next
     /\ UNCHANGED <<on, ledger, boot, storm, verify, figures>>
  \/ on = "by hand" /\ ByHand!Next
     /\ UNCHANGED <<on, ledger, boot, storm, verify, figures>>
  \/ on = "boot" /\ Boot!Next
     /\ UNCHANGED <<on, ledger, rounds, storm, verify, figures>>
  \/ on = "storm" /\ Storm!Next
     /\ UNCHANGED <<on, ledger, rounds, boot, verify, figures>>
  \/ on = "verify" /\ Verify!Next
     /\ UNCHANGED <<on, ledger, rounds, boot, storm, figures>>
  \/ on = "figures" /\ Figures!Next
     /\ UNCHANGED <<on, ledger, rounds, boot, storm, verify>>

Spec == Init /\ [][Next]_vars

-----------------------------------------------------------------------------
(* Every debit of a user was covered by what was committed before it:      *)
(* neither two debits of one entry, nor its own credits, nor a concurrent  *)
(* transaction can spend the same money twice (ledger/post.ts:67-102).     *)
FundedByThePast == Ledger!FundedByThePast

(* On one account, entry ids tell the order of the commits, although they  *)
(* are handed out before it (ledger/post.ts:33-39): the rows locked first  *)
(* stay locked until COMMIT.                                               *)
IdsFollowCommits == Ledger!IdsFollowCommits

(* Every step a round took through the service is in the journal, once and *)
(* in order, although two callers raced for it (engine/round.ts:24-28,     *)
(* 95-102). A session that writes statuses by hand records nothing.        *)
StepsRecorded == on # "by hand" => Rounds!StepsRecorded

(* An answer to GET /rounds/:id shows every step up to the status it       *)
(* shows, although the two are read by two queries, as long as no reset    *)
(* commits in between (engine/round.ts:95-102).                            *)
HistoryCoversStatus == on # "by hand" => Rounds!HistoryCoversStatus

(* Whatever caller or session writes it, a round moves forward or is       *)
(* truncated; it never goes back (002_triggers.sql:40-60).                 *)
Linear == ByHand!Linear

(* Migration files take effect in order and without a gap, exactly once    *)
(* each, and are recorded if and only if they did, whoever dies in between *)
(* (migrate.ts:27-28, 63-71).                                              *)
AppliedOnceInOrder == Boot!AppliedOnceInOrder

(* Between the insert that found an active seed and the read of that seed  *)
(* there may be a rotation, but never no seed (fairness/seeds.ts:55-58,    *)
(* 78-82).                                                                 *)
BootFindsSeed == Boot!BootFindsSeed

(* A boot never replaces an active seed, nor adds a second one: only a     *)
(* rotation or a reset does (fairness/seeds.ts:37-47).                     *)
BootKeepsSeed == Boot!BootKeepsSeed

(* However many storms and deliveries carry an event, and whichever of     *)
(* them fail or lose their answer, one entry at most is credited for it    *)
(* and every answer that names an entry names that one                     *)
(* (payments/webhook.ts:17-39, routes/payments.ts:80-92).                  *)
CreditedOnce == Storm!CreditedOnce

(* A storm's report counts at least the deliveries that were answered      *)
(* well, and names one entry if there were any                             *)
(* (routes/payments.ts:122-152).                                           *)
ReportHolds == Storm!ReportHolds

(* No two bets of one secret are settled from the same message, whatever   *)
(* client seeds they bring: the nonce is used once and the colon keeps it  *)
(* from running into the client seed (fairness/outcome.ts:33-38,           *)
(* engine/bet.ts:281).                                                     *)
MessagesDiffer == Verify!MessagesDiffer

(* A check in the browser that concludes never accuses the server:         *)
(* whatever was rotated or reset since the bet and while the check ran,    *)
(* the secret it finds is the bet's (journey.ts:50-70, verify.ts:58-72).   *)
ConcludedChecksAgree == Verify!ConcludedChecksAgree

(* A bet that was accepted is won on exactly as many of the 10,000 rolls   *)
(* as the chance shown, and pays what was shown, if its target was typed   *)
(* with at most two decimals (format-credits.ts:9-27, outcome.ts:47-60,    *)
(* 82-87).                                                                 *)
SettledAsShown == Figures!SettledAsShown

(* The browser and the route find the roll the server stored, to the       *)
(* hundredth, and the route finds the same winner (journey.ts:45-66,       *)
(* routes/fairness.ts:86-105).                                             *)
VerifiersAgree == Figures!VerifiersAgree
=============================================================================
