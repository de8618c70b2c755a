------------------------------- MODULE MCLive -------------------------------
(***************************************************************************)
(* What must eventually happen, in the parts of the service where somebody *)
(* waits for somebody.  The parts share no state here: one of them runs in *)
(* each behaviour and the others stay in their initial states, so that     *)
(* their state spaces add up instead of multiplying.                       *)
(***************************************************************************)
EXTENDS Integers

CONSTANTS NullRow, NullSeed, NullRequest  \* model values

VARIABLES
  on,  \* the component that runs
  (* Settlement *)
  balance, net, bets, events, seedStatus, seedNonce,
  day, workerPc, workerReq, workerHeld, draft, view, failed,
  (* DemoReset *)
  rows, seedOf, resetActive, resetGenerated, req, step, touched, written,
  seen, attempt, locked, page, unposted,
  (* Boot *)
  table, recorded, effects, active, generated, bootPc, file, bootSeen,
  failures, errors, crashes,
  (* Storm *)
  stormPc, stormHeld, queue, answer, holder, entry, lastId, count, before,
  report, faults

(* Two connections serve a bet, a payment event and a rotation.            *)
Settlement == INSTANCE Settlement WITH
  User <- {"demo"}, Referred <- {"demo"}, MinBet <- 100, MaxBet <- 200,
  DailyLossLimit <- 150, BetId <- {"b1"}, EventId <- {"e1"},
  Seed <- {"s1", "s2"}, Stake <- {100}, Amount <- {200}, Target <- {4950},
  Roll <- {4949, 4950}, MaxDay <- 0,
  Worker <- {"w1", "w2"}, NoRow <- NullRow, NoSeed <- NullSeed,
  pc <- workerPc, req <- workerReq, held <- workerHeld

(* A bet, a rotation and a reset that may try twice.                       *)
DemoReset == INSTANCE DemoReset WITH
  Client <- {"c1", "c2"}, Resetter <- {"x1"}, Reader <- {"v"},
  Bet <- {"b1"}, Deposit <- {}, Rotation <- {"r1"}, MaxSeed <- 3,
  MaxAttempts <- 2, NoRequest <- NullRequest,
  active <- resetActive, generated <- resetGenerated

(* Two instances of one release on an empty database: each of the two      *)
(* files may be lost to the other instance, and so may the seed.           *)
Boot == INSTANCE Boot WITH
  Instance <- {"a", "b"}, Files <- 2,
  Content <- [i \in {"a", "b"} |-> <<1, 1>>],
  MaxRetries <- 3, MaxSeed <- 2, MaxCrashes <- 0, pc <- bootPc,
  seen <- bootSeen

(* A storm of two deliveries and one for an account that is not a user, on *)
(* a pool of two connections.                                              *)
Storm == INSTANCE Storm WITH
  Storm <- {"s1", "s2"}, Delivery <- {"d1", "d2", "d3"},
  StormOf <- [d \in {"d1", "d2", "d3"} |->
                IF d = "d3" THEN "s2" ELSE "s1"],
  EventOf <- [s \in {"s1", "s2"} |-> s],
  IsUser <- [s \in {"s1", "s2"} |-> s = "s1"],
  PoolMax <- 2, MaxFaults <- 0,
  pc <- stormPc, held <- stormHeld

ASSUME Instances ==
  /\ Boot!ContentAssumption
  /\ Storm!StormAssumption

-----------------------------------------------------------------------------
settlement == <<balance, net, bets, events, seedStatus, seedNonce, day,
  workerPc, workerReq, workerHeld, draft, view, failed>>
demoReset == <<rows, seedOf, resetActive, resetGenerated, req, step, touched,
  written, seen, attempt, locked, page, unposted>>
boot == <<table, recorded, effects, active, generated, bootPc, file, bootSeen,
  failures, errors, crashes>>
storm == <<stormPc, stormHeld, queue, answer, holder, entry, lastId, count,
  before, report, faults>>
vars == <<on, settlement, demoReset, boot, storm>>

Init ==
  /\ on \in {"settlement", "demo reset", "boot", "storm"}
  /\ Settlement!Init /\ DemoReset!Init /\ Boot!Init /\ Storm!Init

InSettlement(A) ==
  on = "settlement" /\ A /\ UNCHANGED <<on, demoReset, boot, storm>>
InReset(A) == on = "demo reset" /\ A /\ UNCHANGED <<on, settlement, boot, storm>>
InBoot(A)  == on = "boot" /\ A /\ UNCHANGED <<on, settlement, demoReset, storm>>
InStorm(A) == on = "storm" /\ A /\ UNCHANGED <<on, settlement, demoReset, boot>>

Next ==
  \/ InSettlement(Settlement!Next)
  \/ InReset(DemoReset!Next)
  \/ InBoot(Boot!Next)
  \/ InStorm(Storm!Next)

(* Strong fairness where a lock is granted among competitors, weak         *)
(* fairness where nobody can take a step away: a process runs, the         *)
(* platform restarts a dead one, the event loop and the database get on.   *)
FairSpec ==
  /\ Init /\ [][Next]_vars
  /\ \A w \in {"w1", "w2"} : SF_vars(InSettlement(Settlement!Serve(w)))
  /\ \A c \in {"c1", "c2"} : SF_vars(InReset(DemoReset!Proceed(c)))
  /\ WF_vars(InReset(DemoReset!ProceedReset("x1")))
  /\ \A i \in {"a", "b"} : WF_vars(InBoot(Boot!Proceed(i)))
  /\ \A d \in {"d1", "d2", "d3"} : WF_vars(InStorm(Storm!Serve(d)))
  /\ \A s \in {"s1", "s2"} : WF_vars(InStorm(Storm!Report(s)))

-----------------------------------------------------------------------------
(* Every request in progress is eventually committed, refused, failed or   *)
(* cut off: no lock is kept by a request that is over (db.ts:48-73).       *)
EveryRequestEnds == Settlement!EveryRequestEnds

(* A reset ends within its attempts, with a fresh environment or with an   *)
(* error (demo/reset.ts:139-158).                                          *)
ResetEnds == DemoReset!ResetEnds

(* A request that meets a reset ends too: it goes on when the reset has    *)
(* committed or given up, or is rolled back (demo/reset.ts:126-137).       *)
RequestEnds == DemoReset!RequestEnds

(* However the races between booting instances end, every one of them      *)
(* serves: the restarts the platform grants are enough (migrate.ts:27-30,  *)
(* server.ts:87-90).                                                       *)
EveryInstanceServes == on = "boot" => Boot!EveryInstanceServes

(* Every storm is reported on, however small the pool: no delivery keeps a *)
(* connection while it waits for another one (db.ts:12-17,                 *)
(* payments.ts:46-68).                                                     *)
StormAnswered == Storm!StormAnswered
=============================================================================
