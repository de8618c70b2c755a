------------------------------ MODULE Browser ------------------------------
(***************************************************************************)
(* The console: its sessions, its actions, what its resources show and     *)
(* what its components keep, side by side, the last three for several      *)
(* choices of their constants.  These parts share no state: one of them    *)
(* runs in each behaviour and the others stay in their initial states, so  *)
(* that their state spaces add up instead of multiplying.                  *)
(***************************************************************************)
EXTENDS Integers

CONSTANTS
  Tab, TTL, MaxTime, MaxRows, MaxMoney, MaxLost,  \* Sessions
  Engines,  \* the constants of each instance of Console, by its name
  Loads,    \* the same of Resources
  Pages     \* the same of Page

VARIABLES
  on,  \* the instance that runs
  (* Sessions *)
  clock, expires, jar, money, page, attempt, inFlight, waits, auth,
  sessionMe, mountedAt, sessionBet, made, lost, faulted, sessionFaults,
  (* Console *)
  bets, active, erased, funds, runs, consoleBusy, bet, lastBetId, reveal,
  verification, consoleShown, stale, lastId, faults, foreign,
  (* Resources *)
  stamp, resourcesUp, app, shown, me, asked, acts, told,
  (* Page *)
  journal, placed, nextId, resets, up, tab, menu, dialog, entries, rows,
  asking, running, busy, result, open, seen, fresh, timer, opened, dialogs,
  sent

-----------------------------------------------------------------------------
Sessions == INSTANCE Sessions WITH
  MaxFaults <- MaxLost,
  me <- sessionMe, bet <- sessionBet, faults <- sessionFaults

Engine(e) == INSTANCE Console WITH
  Slot <- Engines[e].Slot, MaxBets <- Engines[e].MaxBets,
  MaxSeed <- Engines[e].MaxSeed, MaxFunds <- Engines[e].MaxFunds,
  MaxFaults <- Engines[e].MaxFaults, MaxForeign <- Engines[e].MaxForeign,
  busy <- consoleBusy, shown <- consoleShown

Load(l) == INSTANCE Resources WITH
  Resource <- Loads[l].Resource, Account <- Loads[l].Account,
  Act <- Loads[l].Act, Foreign <- Loads[l].Foreign,
  MaxChanges <- Loads[l].MaxChanges, MaxMounts <- Loads[l].MaxMounts,
  Effects <- Loads[l].Effects, up <- resourcesUp

Page(p) == INSTANCE Page WITH
  Bet <- Pages[p].Bet, RowLimit <- Pages[p].RowLimit,
  BetLimit <- Pages[p].BetLimit, EntryLimit <- Pages[p].EntryLimit,
  MaxResets <- Pages[p].MaxResets, MaxMounts <- Pages[p].MaxMounts,
  MaxOpens <- Pages[p].MaxOpens, NoBet <- Pages[p].NoBet

ASSUME Instances ==
  /\ Sessions!SessionsAssumption
  /\ \A l \in DOMAIN Loads : Load(l)!ResourcesAssumption
  /\ \A p \in DOMAIN Pages : Page(p)!PageAssumption

-----------------------------------------------------------------------------
sessions == <<clock, expires, jar, money, page, attempt, inFlight, waits,
  auth, sessionMe, mountedAt, sessionBet, made, lost, faulted, sessionFaults>>
console == <<bets, active, erased, funds, runs, consoleBusy, bet, lastBetId,
  reveal, verification, consoleShown, stale, lastId, faults, foreign>>
resources == <<stamp, resourcesUp, app, shown, me, asked, acts, told>>
lists == <<journal, placed, nextId, resets, up, tab, menu, dialog, entries,
  rows, asking, running, busy, result, open, seen, fresh, timer, opened,
  dialogs, sent>>
vars == <<on, sessions, console, resources, lists>>

(* The instance that runs, or any where another component runs.            *)
Chosen(instances) ==
  IF on \in DOMAIN instances THEN {on}
  ELSE {CHOOSE i \in DOMAIN instances : TRUE}

Init ==
  /\ on \in {"sessions"} \cup DOMAIN Engines \cup DOMAIN Loads \cup DOMAIN Pages
  /\ Sessions!Init
  /\ \E e \in DOMAIN Engines \cap Chosen(Engines) : Engine(e)!Init
  /\ \E l \in DOMAIN Loads \cap Chosen(Loads) : Load(l)!Init
  /\ \E p \in DOMAIN Pages \cap Chosen(Pages) : Page(p)!Init

Next ==
  /\ UNCHANGED on
  /\ \/ /\ on = "sessions" /\ Sessions!Next
        /\ UNCHANGED <<console, resources, lists>>
     \/ /\ \E e \in DOMAIN Engines : on = e /\ Engine(e)!Next
        /\ UNCHANGED <<sessions, resources, lists>>
     \/ /\ \E l \in DOMAIN Loads : on = l /\ Load(l)!Next
        /\ UNCHANGED <<sessions, console, lists>>
     \/ /\ \E p \in DOMAIN Pages : on = p /\ Page(p)!Next
        /\ UNCHANGED <<sessions, console, resources>>

Spec == Init /\ [][Next]_vars

-----------------------------------------------------------------------------
(* However often a tab mounts the console, it makes one session, and       *)
(* another only for each whose answer it lost; a session that has expired  *)
(* may be replaced (bootstrap.ts:9-21, App.tsx:58-60).                     *)
OneRowPerBoot == Sessions!OneRowPerBoot

(* A console that shows a failure met one since it was mounted: an earlier *)
(* failure is not handed out again (bootstrap.ts:19-21, 39-41).            *)
FailsForAReason == Sessions!FailsForAReason

(* The bet shown as settled was settled under the commitment the page      *)
(* showed when it was placed, whoever rotated since (BetCard.tsx:181-186). *)
CommitmentShownIsUsed ==
  \A e \in DOMAIN Engines : Engine(e)!CommitmentShownIsUsed

(* A replay moves no money unless a reset has erased the bet it repeats:   *)
(* only the id of a bet that was placed is remembered                      *)
(* (useEngine.ts:107-135).                                                 *)
ReplayMovesNothing ==
  [][\A e \in DOMAIN Engines : on = e => Engine(e)!ReplayIsFree]_vars

(* Reveal & verify ends without a verdict only for a bet whose seed a      *)
(* reset has deleted: whatever other tabs rotate, revealing first makes    *)
(* the check conclusive (useEngine.ts:160-181, journey.ts:50-54).          *)
CheckIsConclusive == \A e \in DOMAIN Engines : Engine(e)!CheckIsConclusive

(* A resource that is neither loading nor in error shows at least every    *)
(* change this tab was answered about: onChanged asks again for all that   *)
(* an action touches, and no late answer takes its place (App.tsx:93-126,  *)
(* useApi.ts:14-17, 36-50).                                                *)
UpToDate == \A l \in DOMAIN Loads : on = l => Load(l)!UpToDate

(* While a page stays open, no resource goes back to an earlier state of   *)
(* the database (useApi.ts:14-17, 36-46).                                  *)
NeverBack == [][\A l \in DOMAIN Loads : on = l => Load(l)!Advances]_vars

(* An entry that was already on the screen never turns new afterwards: not *)
(* on a refresh, not when the tab is opened again, not after a reset       *)
(* reused its id (LedgerView.tsx:97-113).                                  *)
OldNeverTurnsNew == [][\A p \in DOMAIN Pages : Page(p)!OldStaysOld]_vars
=============================================================================
