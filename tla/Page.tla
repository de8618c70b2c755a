-------------------------------- MODULE Page --------------------------------
(***************************************************************************)
(* What the console page keeps of its own while lists change underneath:   *)
(* the open proof of RecentBets, the highlights of the journal, the result *)
(* card, the reset dialog, the mobile menu, the proofs tab and the page    *)
(* switch.  Lists arrive late but in order (module Resources).  A bet      *)
(* posts its stake, its outcome marker and its settlement; a reset empties *)
(* the tables and starts the entry ids again from 1.                       *)
(***************************************************************************)
EXTENDS Integers, Sequences, Functions

CONSTANTS
  Bet,         \* the bets that may be placed
  RowLimit,    \* rows RecentBets shows of the bets it is given: 10
  BetLimit,    \* bets the page asks for: 20
  EntryLimit,  \* journal entries the page asks for: 50
  MaxResets,   \* bound: resets, of this tab and of others
  MaxMounts,   \* bound: times the page is opened
  MaxOpens,    \* bound: times the reset dialog is opened
  NoBet        \* null

PageAssumption ==
  /\ NoBet \notin Bet
  /\ {RowLimit, BetLimit, EntryLimit} \subseteq Nat \ {0}
  /\ {MaxResets, MaxMounts, MaxOpens} \subseteq Nat

NoResult == [bet |-> NoBet, ids |-> <<0, 0>>]

VARIABLES
  journal, placed, nextId,  \* the database: entries and bets, newest first
  resets,                   \* resets committed
  up, tab,                  \* the console is mounted; the proofs tab shown
  menu, dialog,             \* the mobile menu and the reset dialog are open
  entries, rows,            \* the lists as last received
  asking,                   \* lists being loaded
  running, busy,            \* engine requests not answered; engine.busy
  result,                   \* engine.bet
  open,                     \* RecentBets: the bet whose proof is shown
  seen, fresh, timer,       \* LedgerView: known ids, lit ids, unlighting due
  opened, dialogs, sent     \* times opened; resets sent

server == <<journal, placed, nextId, resets>>
chrome == <<up, tab, menu, dialog, opened, dialogs>>
lists == <<entries, rows, asking>>
ledgerView == <<seen, fresh, timer>>
engine == <<running, busy>>
vars == <<server, chrome, lists, engine, result, open, ledgerView, sent>>

Init ==
  /\ journal = <<>> /\ placed = <<>> /\ nextId = 1 /\ resets = 0
  /\ up = FALSE /\ tab = "ledger" /\ menu = FALSE /\ dialog = FALSE
  /\ entries = <<>> /\ rows = <<>> /\ asking = {}
  /\ running = {} /\ busy = "no"
  /\ result = NoResult
  /\ open = NoBet
  /\ seen = {} /\ fresh = {} /\ timer = FALSE
  /\ opened = 0 /\ dialogs = 0 /\ sent = 0

(***************************************************************************)
(* The page and its overlays                                               *)
(***************************************************************************)
(* "/" is opened: every component starts afresh and every list is asked    *)
(* for.                                                                    *)
Mount ==
  /\ ~up
  /\ opened < MaxMounts
  /\ up' = TRUE /\ tab' = "ledger" /\ menu' = FALSE /\ dialog' = FALSE
  /\ opened' = opened + 1
  /\ entries' = <<>> /\ rows' = <<>> /\ asking' = {"bets", "entries"}
  /\ busy' = "no"
  /\ result' = NoResult
  /\ open' = NoBet
  /\ seen' = {} /\ fresh' = {} /\ timer' = FALSE
  /\ UNCHANGED <<server, dialogs, running, sent>>

(* navigate('/review'), from the header, the menu or the footer, or the    *)
(* back button: App is unmounted with all it keeps.                        *)
ToReview ==
  /\ up
  /\ up' = FALSE /\ menu' = FALSE /\ dialog' = FALSE
  /\ asking' = {}
  /\ UNCHANGED <<server, tab, opened, dialogs, entries, rows, engine,
                 result, open, ledgerView, sent>>

(* The reset dialog opens from the header or from the wallet.              *)
AskReset ==
  /\ up /\ ~dialog
  /\ dialogs < MaxOpens
  /\ dialog' = TRUE
  /\ dialogs' = dialogs + 1
  /\ UNCHANGED <<server, up, tab, menu, opened, lists, engine, result,
                 open, ledgerView, sent>>

OpenMenu ==
  /\ up /\ ~menu
  /\ menu' = TRUE
  /\ UNCHANGED <<server, up, tab, dialog, opened, dialogs, lists, engine,
                 result, open, ledgerView, sent>>

(* Escape, the backdrop, a link or the close button; with the menu's own   *)
(* reset button the dialog takes its place.                                *)
LeaveMenu(reset) ==
  /\ up /\ menu
  /\ reset => dialogs < MaxOpens
  /\ menu' = FALSE
  /\ dialog' = (dialog \/ reset)
  /\ dialogs' = IF reset THEN dialogs + 1 ELSE dialogs
  /\ UNCHANGED <<server, up, tab, opened, lists, engine, result, open,
                 ledgerView, sent>>

(* Escape, the backdrop or Cancel.                                         *)
CancelReset ==
  /\ up /\ dialog
  /\ dialog' = FALSE
  /\ UNCHANGED <<server, up, tab, menu, opened, dialogs, lists, engine,
                 result, open, ledgerView, sent>>

ResetRequest == [what |-> "reset", of |-> opened, bet |-> NoBet,
                 n |-> sent + 1, done |-> FALSE, ids |-> <<0, 0>>]

(* The dialog closes and the reset is sent, unless the last thing this     *)
(* page sent is a reset still running.                                     *)
ConfirmReset ==
  /\ up /\ dialog /\ busy # "reset"
  /\ dialog' = FALSE
  /\ sent <= MaxOpens
  /\ sent' = sent + 1
  /\ running' = running \union {ResetRequest}
  /\ busy' = "reset"
  /\ UNCHANGED <<server, up, tab, menu, opened, dialogs, lists, result,
                 open, ledgerView>>

(***************************************************************************)
(* Requests of the engine                                                  *)
(***************************************************************************)
Unused == Bet \ (Range(placed)
                 \union {q.bet : q \in running} \union {result.bet})

(* One name is kept for what is running, so a bet can be placed while      *)
(* another is, once anything else was sent in between.                     *)
PlaceBet(b) ==
  /\ up /\ b \in Unused /\ busy # "bet"
  /\ busy' = "bet"
  /\ running' = running \union
       {[what |-> "bet", of |-> opened, bet |-> b, n |-> 0,
         done |-> FALSE, ids |-> <<0, 0>>]}
  /\ UNCHANGED <<server, chrome, lists, result, open, ledgerView, sent>>

Entry(b, kind, id) == [id |-> id, bet |-> b, kind |-> kind]

Post(b) ==
  /\ placed' = <<b>> \o placed
  /\ journal' = <<Entry(b, "bet_settle", nextId + 2),
                  Entry(b, "round_resolved", nextId + 1),
                  Entry(b, "bet_lock", nextId)>> \o journal
  /\ nextId' = nextId + 3
  /\ UNCHANGED resets

(* TRUNCATE ... RESTART IDENTITY.                                          *)
Erase ==
  /\ resets < MaxResets
  /\ journal' = <<>> /\ placed' = <<>> /\ nextId' = 1
  /\ resets' = resets + 1

Serve(q) ==
  /\ ~q.done
  /\ IF q.what = "bet" THEN Post(q.bet) ELSE Erase
  /\ running' = (running \ {q}) \union
       {[q EXCEPT !.done = TRUE, !.ids = <<nextId, nextId + 2>>]}
  /\ UNCHANGED busy
  /\ UNCHANGED <<chrome, lists, result, open, ledgerView, sent>>

(* Another tab bets or resets.                                             *)
BetElsewhere(b) ==
  /\ b \in Unused
  /\ Post(b)
  /\ UNCHANGED <<chrome, lists, engine, result, open, ledgerView, sent>>

ResetElsewhere ==
  /\ Erase
  /\ UNCHANGED <<chrome, lists, engine, result, open, ledgerView, sent>>

(* run's `finally`: whichever request ends, nothing is busy any more.      *)
Ended(q) ==
  /\ running' = running \ {q}
  /\ busy' = IF up /\ q.of = opened THEN "no" ELSE busy

(* A bet's answer becomes the result, a reset's clears it; both ask for    *)
(* the lists again.  The page that sent it may be gone.                    *)
Answer(q) ==
  /\ q.done
  /\ Ended(q)
  /\ IF up /\ q.of = opened
       THEN /\ result' = IF q.what = "bet"
                           THEN [bet |-> q.bet, ids |-> q.ids]
                           ELSE NoResult
            /\ asking' = {"bets", "entries"}
       ELSE UNCHANGED <<result, asking>>
  /\ UNCHANGED <<server, chrome, entries, rows, open, ledgerView, sent>>

Fail(q) ==
  /\ Ended(q)
  /\ UNCHANGED <<server, chrome, lists, result, open, ledgerView, sent>>

(* "Place another bet".                                                    *)
PlayAgain ==
  /\ up /\ result # NoResult
  /\ result' = NoResult
  /\ UNCHANGED <<server, chrome, lists, engine, open, ledgerView, sent>>

(***************************************************************************)
(* RecentBets                                                              *)
(***************************************************************************)
FirstOf(s, n) == SubSeq(s, 1, IF Len(s) < n THEN Len(s) ELSE n)

ShownRows == FirstOf(rows, RowLimit)

ShowBets ==
  /\ up /\ "bets" \in asking
  /\ rows' = FirstOf(placed, BetLimit)
  /\ asking' = asking \ {"bets"}
  /\ UNCHANGED <<server, chrome, entries, engine, result, open,
                 ledgerView, sent>>

Toggle(b) ==
  /\ up /\ b \in Range(ShownRows)
  /\ open' = IF open = b THEN NoBet ELSE b
  /\ UNCHANGED <<server, chrome, lists, engine, result, ledgerView, sent>>

(***************************************************************************)
(* LedgerView                                                              *)
(***************************************************************************)
Ids(s) == {s[i].id : i \in 1 .. Len(s)}

(* Altered: what has been shown is not remembered past the first load.     *)
NotedFirstOnly(known, incoming) ==
  IF known = {} THEN incoming ELSE known

Noted(known, incoming) == known \union incoming

(* The effect of a new list: what was not there before is lit until a      *)
(* timer ends it, except on the first load.  Its cleanup stops the timer   *)
(* of the list before, whether or not this one starts another.             *)
Light(incoming) ==
  LET added == incoming \ seen
      lights == seen # {} /\ added # {}
  IN  /\ seen' = Noted(seen, incoming)
      /\ fresh' = IF lights THEN added ELSE fresh
      /\ timer' = lights

ShowEntries ==
  /\ up /\ "entries" \in asking
  /\ entries' = FirstOf(journal, EntryLimit)
  /\ asking' = asking \ {"entries"}
  /\ IF tab = "ledger"
       THEN Light(Ids(entries'))
       ELSE UNCHANGED ledgerView
  /\ UNCHANGED <<server, chrome, rows, engine, result, open, sent>>

(* A refresh fails: the list stays as it was.                              *)
ListLost(r) ==
  /\ up /\ r \in asking
  /\ asking' = asking \ {r}
  /\ UNCHANGED <<server, chrome, entries, rows, engine, result, open,
                 ledgerView, sent>>

Unlight ==
  /\ up /\ timer
  /\ fresh' = {} /\ timer' = FALSE
  /\ UNCHANGED <<server, chrome, lists, engine, result, open, seen, sent>>

(* Leaving the tab unmounts LedgerView; coming back is a first load.       *)
SelectTab(t) ==
  /\ up /\ t # tab
  /\ tab' = t
  /\ fresh' = {} /\ timer' = FALSE
  /\ seen' = IF t = "ledger" THEN Ids(entries) ELSE {}
  /\ UNCHANGED <<server, up, menu, dialog, opened, dialogs, lists, engine,
                 result, open, sent>>

Next ==
  \/ Mount \/ ToReview
  \/ AskReset \/ OpenMenu \/ CancelReset \/ ConfirmReset
  \/ \E reset \in BOOLEAN : LeaveMenu(reset)
  \/ \E b \in Bet : PlaceBet(b) \/ BetElsewhere(b) \/ Toggle(b)
  \/ ResetElsewhere
  \/ \E q \in running : Serve(q) \/ Answer(q) \/ Fail(q)
  \/ PlayAgain
  \/ ShowBets \/ ShowEntries \/ Unlight
  \/ \E r \in {"bets", "entries"} : ListLost(r)
  \/ \E t \in {"ledger", "rules"} : SelectTab(t)

Spec == Init /\ [][Next]_vars

(***************************************************************************)
(* What is on the screen                                                   *)
(***************************************************************************)
(* byId, and "Where the money went" under the result.                      *)
ById(id) == {e \in Range(entries) : e.id = id}
MoneyShown == ById(result.ids[1]) \union ById(result.ids[2])

(* The row the open proof is rendered from, while there are rows at all.   *)
ProofRow == {b \in Range(ShownRows) : b = open}
ProofRendered == up /\ open # NoBet /\ ShownRows # <<>>

Lit(e) == tab = "ledger" /\ e.id \in fresh
OnScreen == Range(entries)

-----------------------------------------------------------------------------
(***************************************************************************)
(* Properties                                                              *)
(***************************************************************************)

(* A reset destroys server state, so each one sent answers a dialog of its *)
(* own: no double click sends two (ResetDialog.tsx:4-8, App.tsx:281-290).  *)
EachResetAsked == sent <= dialogs

(* An entry that was already on the screen never turns new afterwards:     *)
(* not on a refresh, not when the tab is opened again, not after a reset   *)
(* reused its id (LedgerView.tsx:97-113).                                  *)
OldStaysOld == \A e \in OnScreen \cap OnScreen' : Lit(e)' => Lit(e)

OldNeverTurnsNew == [][OldStaysOld]_vars

(* The proof of a bet is rendered from its row: rows.find(...)! asserts    *)
(* there is one, and throws while rendering when there is not              *)
(* (RecentBets.tsx:109-117).                                               *)
ProofHasItsRow == ProofRendered => ProofRow # {}

(* "Where the money went" shows the entries of the bet it is under         *)
(* (ResultCard.tsx:14-18, 32-34).                                          *)
MoneyIsTheBets ==
  up /\ result # NoResult => \A e \in MoneyShown : e.bet = result.bet
=============================================================================
