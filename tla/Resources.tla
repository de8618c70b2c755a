----------------------------- MODULE Resources -----------------------------
(***************************************************************************)
(* What the console shows of the server and how it is kept up to date: one *)
(* useApi per resource, the account, and the refreshes that follow an      *)
(* action.  What a resource shows is abstracted to the number of the last  *)
(* change to the database it reflects.  Requests overlap, are answered in  *)
(* any order or not at all, and outlive the page that sent them; other     *)
(* tabs change the same database.                                          *)
(***************************************************************************)
EXTENDS Integers, FiniteSets, FiniteSetsExt

CONSTANTS
  Resource,    \* the resources of the page that are modelled
  Account,     \* {"me"}, or {} where the account is not modelled
  Act,         \* the actions of this tab
  Foreign,     \* the changes other tabs make
  MaxChanges,  \* bound: changes to the database
  MaxMounts,   \* bound: times the console page is opened
  Effects      \* times React runs an effect on mount: 2 in development

ResourcesAssumption ==
  /\ Resource \subseteq {"accounts", "entries", "invariants", "bets",
                         "commitment", "revealed", "affiliate"}
  /\ Account \subseteq {"me"}
  /\ Act \union Foreign \subseteq {"deposit", "bet", "seed", "reset"}
  /\ MaxChanges \in Nat /\ MaxMounts \in Nat /\ Effects \in {1, 2}

Me == "me"
Nothing == -1   \* null: not loaded

(* The postings of commissions are told from the others.                   *)
Table == {"postings", "commissions", "bets", "nonce", "seeds"}

(* What each kind of action writes.                                        *)
Writes(what) ==
  CASE what = "deposit" -> {"postings"}
    [] what = "bet"     -> {"postings", "commissions", "bets", "nonce"}
    [] what = "seed"    -> {"seeds"}
    [] what = "reset"   -> Table

(* What each GET reads.                                                    *)
Reads(r) ==
  CASE r \in {"accounts", "entries", "invariants", Me} -> {"postings"}
    [] r = "affiliate"  -> {"commissions"}
    [] r = "bets"       -> {"bets"}
    [] r = "commitment" -> {"seeds", "nonce"}
    [] r = "revealed"   -> {"seeds"}

VARIABLES
  stamp,   \* per table, the last change that wrote it
  up,      \* the console page is mounted
  app,     \* which mount this is
  shown,   \* per resource [data, loading, error, latest]
  me,      \* the account shown
  asked,   \* GETs in flight: [app, of, id, value]
  acts,    \* committed actions of this tab not answered yet: [app, what, at]
  told     \* per resource and the account, the last change this tab was
           \* answered about

vars == <<stamp, up, app, shown, me, asked, acts, told>>

Changes == Max({stamp[t] : t \in Table})

NewRequest(r, id) == [app |-> app, of |-> r, id |-> id, value |-> Nothing]

(* useApi's state on mount: the effect of `deps` has asked already, twice  *)
(* where React runs effects twice.                                         *)
Mounted == [data |-> Nothing, loading |-> TRUE, error |-> FALSE,
            latest |-> Effects]

Init ==
  /\ stamp = [t \in Table |-> 0]
  /\ up = FALSE
  /\ app = 0
  /\ shown = [r \in Resource |-> Mounted]
  /\ me = Nothing
  /\ asked = {}
  /\ acts = {}
  /\ told = [r \in Resource \union Account |-> Nothing]

(* The console page opens; bootstrapSession ends with a GET /me.           *)
Mount ==
  /\ ~up
  /\ app < MaxMounts
  /\ up' = TRUE
  /\ app' = app + 1
  /\ shown' = [r \in Resource |-> Mounted]
  /\ me' = Nothing
  /\ asked' = asked \union
       {[NewRequest(r, i) EXCEPT !.app = app + 1] :
          r \in Resource, i \in 1 .. Effects}
       \union {[NewRequest(a, 1) EXCEPT !.app = app + 1] : a \in Account}
  /\ UNCHANGED <<stamp, acts, told>>

(* The console makes way for /review: alive.current is false from then on. *)
Unmount ==
  /\ up
  /\ up' = FALSE
  /\ UNCHANGED <<stamp, app, shown, me, asked, acts, told>>

Record(what) ==
  /\ Changes < MaxChanges
  /\ stamp' = [t \in Table |->
       IF t \in Writes(what) THEN Changes + 1 ELSE stamp[t]]

(* An action of this tab commits; its answer is still to come.             *)
Commit(what) ==
  /\ up
  /\ Record(what)
  /\ acts' = acts \union {[app |-> app, what |-> what, at |-> Changes + 1]}
  /\ UNCHANGED <<up, app, shown, me, asked, told>>

Elsewhere(what) ==
  /\ Record(what)
  /\ UNCHANGED <<up, app, shown, me, asked, acts, told>>

(* Altered: the seed the next bet will use is not asked for after a bet.   *)
AffectedNotSeed(what) ==
  CASE what = "deposit" -> {"accounts", "entries", "invariants", Me}
    [] what = "bet"     -> {"accounts", "entries", "invariants", Me,
                            "bets", "affiliate"}
    [] what = "seed"    -> {"commitment", "revealed"}
    [] what = "reset"   -> {"accounts", "entries", "invariants", Me,
                            "bets", "commitment", "affiliate", "revealed"}

(* onChanged, and refreshAll for a reset: what is asked for again.         *)
Affected(what) ==
  CASE what = "deposit" -> {"accounts", "entries", "invariants", Me}
    [] what = "bet"     -> {"accounts", "entries", "invariants", Me,
                            "bets", "commitment", "affiliate"}
    [] what = "seed"    -> {"commitment", "revealed"}
    [] what = "reset"   -> {"accounts", "entries", "invariants", Me,
                            "bets", "commitment", "affiliate", "revealed"}

(* refresh: a new id, loading, and the GET; data and error stay as they    *)
(* are.  loadMe has no id: the change it follows only tells its requests   *)
(* apart.                                                                  *)
Refresh(R, at) ==
  /\ shown' = [r \in Resource |->
       IF r \in R
         THEN [shown[r] EXCEPT !.latest = @ + 1, !.loading = TRUE]
         ELSE shown[r]]
  /\ asked' = asked
       \union {NewRequest(r, shown[r].latest + 1) : r \in R \cap Resource}
       \union {NewRequest(r, at + 1) : r \in R \cap Account}

(* The answer of an action: onChanged, if its page is still there.         *)
Answered(a) ==
  /\ acts' = acts \ {a}
  /\ IF up /\ a.app = app
       THEN /\ told' = [r \in Resource \union Account |->
                 IF Reads(r) \cap Writes(a.what) # {}
                   THEN Max({told[r], a.at})
                   ELSE told[r]]
            /\ Refresh(Affected(a.what), a.at)
       ELSE UNCHANGED <<told, shown, asked>>
  /\ UNCHANGED <<stamp, up, app, me>>

ActLost(a) ==
  /\ acts' = acts \ {a}
  /\ UNCHANGED <<stamp, up, app, shown, me, asked, told>>

Serve(q) ==
  /\ q.value = Nothing
  /\ asked' = (asked \ {q}) \union
       {[q EXCEPT !.value = Max({stamp[t] : t \in Reads(q.of)})]}
  /\ UNCHANGED <<stamp, up, app, shown, me, acts, told>>

Alive(q) == up /\ q.app = app

(* Altered: any answer to a page that is still mounted is shown.           *)
AnyOfThePage(q) == Alive(q)

(* useApi's test: the page is still mounted and nothing newer was asked.   *)
Current(q) == Alive(q) /\ q.id = shown[q.of].latest

Answer(q) ==
  /\ q.value # Nothing
  /\ asked' = asked \ {q}
  /\ IF q.of = Me
       THEN /\ me' = IF Alive(q) THEN q.value ELSE me
            /\ UNCHANGED shown
       ELSE /\ shown' = IF Current(q)
                          THEN [shown EXCEPT ![q.of].data = q.value,
                                             ![q.of].error = FALSE,
                                             ![q.of].loading = FALSE]
                          ELSE shown
            /\ UNCHANGED me
  /\ UNCHANGED <<stamp, up, app, acts, told>>

(* The request, or its answer, is lost.  A failed loadMe is swallowed.     *)
Fail(q) ==
  /\ asked' = asked \ {q}
  /\ shown' = IF q.of # Me /\ Current(q)
                THEN [shown EXCEPT ![q.of].error = TRUE,
                                   ![q.of].loading = FALSE]
                ELSE shown
  /\ UNCHANGED <<stamp, up, app, me, acts, told>>

Next ==
  \/ Mount
  \/ Unmount
  \/ \E what \in Act : Commit(what)
  \/ \E what \in Foreign : Elsewhere(what)
  \/ \E a \in acts : Answered(a) \/ ActLost(a)
  \/ \E q \in asked : Serve(q) \/ Answer(q) \/ Fail(q)

Spec == Init /\ [][Next]_vars

(* A browser answers or fails every fetch.                                 *)
FairSpec ==
  /\ Spec
  /\ WF_vars(\E q \in asked : Serve(q))
  /\ WF_vars(\E q \in asked : Answer(q) \/ Fail(q))

-----------------------------------------------------------------------------
(***************************************************************************)
(* Properties                                                              *)
(***************************************************************************)

(* A resource that is neither loading nor in error shows at least every    *)
(* change this tab was answered about: App's onChanged asks again for all  *)
(* that an action touches, and no late answer takes its place              *)
(* (App.tsx:93-126, useApi.ts:14-17, 36-50).                               *)
UpToDate ==
  up => \A r \in Resource :
    ~shown[r].loading /\ ~shown[r].error => shown[r].data >= told[r]

(* While a page stays open, no resource goes back to an earlier state of   *)
(* the database (useApi.ts:14-17, 36-46).                                  *)
Advances ==
  up /\ up' => \A r \in Resource : shown'[r].data >= shown[r].data

NeverBack == [][Advances]_vars

(* Loading ends, with data or with an error (useApi.ts:47-49).             *)
LoadingEnds ==
  \A r \in Resource : up /\ shown[r].loading ~> ~up \/ ~shown[r].loading

(***************************************************************************)
(* What the page says of it                                                *)
(***************************************************************************)
(* Ledger health: the invariants received last, whatever became of later   *)
(* requests, with the words "Checked just now against the live database".  *)
HealthShown == shown["invariants"].data

(* The ledger tab gives way to the error of its two lists.                 *)
ErrorShown == \E r \in Resource \cap {"accounts", "entries"} : shown[r].error

(* The result card's "New balance" and the wallet: the account, as it is.  *)
BalanceShown == me

(* The balance never goes back either: useApi.ts:14-17 says answers of     *)
(* overtaken requests are discarded, or "the console would show a balance  *)
(* that is quietly out of date".                                           *)
BalanceNeverBack == [][up /\ up' => BalanceShown' >= BalanceShown]_vars

(* The journal's place says "Nothing here is cached or invented -- with    *)
(* the API down there is nothing to show" (ui.tsx:251-253).                *)
NothingCached ==
  up /\ ErrorShown =>
    BalanceShown = Nothing /\ \A r \in Resource : shown[r].data = Nothing

(* AdvancedProofs.tsx:148: "Checked just now against the live database":   *)
(* once nothing is loading, the health shown is at least as new as the     *)
(* last change this tab was answered about.                                *)
HealthCheckedNow ==
  up /\ ~shown["invariants"].loading /\ HealthShown # Nothing =>
    HealthShown >= told["invariants"]

(* ResultCard.tsx:71: "New balance": once the account has been asked for   *)
(* and every answer is in, the balance under a result counts its bet.      *)
NewBalanceIsNew ==
  up /\ BalanceShown # Nothing
     /\ ~(\E q \in asked : q.of = Me /\ q.app = app) =>
    BalanceShown >= told[Me]
=============================================================================
