--------------------------- MODULE BrowserProofs ----------------------------
(***************************************************************************)
(* What holds of the console for any tabs, any overlap of its runs, any    *)
(* resources and any lists.                                                *)
(***************************************************************************)
EXTENDS Browser, FiniteSetTheorems, SequenceTheorems, TLAPS

-----------------------------------------------------------------------------
(* A step of Browser is a step of each part, or leaves that part alone.    *)
LEMMA PartsStep ==
  ASSUME [Next]_vars
  PROVE  /\ UNCHANGED on
         /\ [Sessions!Next]_sessions
         /\ \/ UNCHANGED console
            \/ \E e \in DOMAIN Engines : on = e /\ Engine(e)!Next
         /\ \/ UNCHANGED resources
            \/ \E l \in DOMAIN Loads : on = l /\ Load(l)!Next
         /\ \/ UNCHANGED lists
            \/ \E p \in DOMAIN Pages : on = p /\ Page(p)!Next
BY DEF Next, vars

LEMMA PartsInit ==
  ASSUME Init
  PROVE  /\ Sessions!Init
         /\ \E e \in DOMAIN Engines :
              Engine(e)!Init /\ (on \in DOMAIN Engines => on = e)
         /\ \E l \in DOMAIN Loads :
              Load(l)!Init /\ (on \in DOMAIN Loads => on = l)
         /\ \E p \in DOMAIN Pages : Page(p)!Init
BY DEF Init, Chosen

-----------------------------------------------------------------------------
(* Lists.  While the ledger is shown, it knows every entry on the screen.  *)
ScreenKnown == tab = "ledger" => \A i \in DOMAIN entries : entries[i].id \in seen

(* The journal and what is shown of it are sequences.                      *)
ListsTyped == \E S : journal \in Seq(S) /\ entries \in Seq(S)

ListsInv == ListsTyped /\ ScreenKnown

(* What one step does to the journal and to the screen.                    *)
LEMMA JournalStep ==
  ASSUME NEW p \in DOMAIN Pages, Page(p)!Next, NEW S, journal \in Seq(S)
  PROVE  \E T : journal' \in Seq(T) /\ S \subseteq T
<1>1. ASSUME NEW b, Page(p)!Post(b)
      PROVE  \E T : journal' \in Seq(T) /\ S \subseteq T
  <2> DEFINE new == <<Page(p)!Entry(b, "bet_settle", nextId + 2),
                      Page(p)!Entry(b, "round_resolved", nextId + 1),
                      Page(p)!Entry(b, "bet_lock", nextId)>>
             T == S \cup {new[1], new[2], new[3]}
  <2>1. new \in Seq(T) OBVIOUS
  <2>2. journal \in Seq(T) OBVIOUS
  <2>3. journal' = new \o journal BY <1>1 DEF Page!Post
  <2> HIDE DEF new, T
  <2>4. journal' \in Seq(T) BY <2>1, <2>2, <2>3
  <2> QED BY <2>4 DEF T
<1>2. ASSUME Page(p)!Erase PROVE journal' \in Seq(S)
  BY <1>2 DEF Page!Erase
<1>3. ASSUME UNCHANGED journal PROVE journal' \in Seq(S)
  BY <1>3
<1>4. \/ UNCHANGED journal
      \/ \E b : Page(p)!Post(b)
      \/ Page(p)!Erase
  BY DEF Page!Next, Page!Mount, Page!ToReview, Page!AskReset, Page!OpenMenu,
         Page!CancelReset, Page!ConfirmReset, Page!LeaveMenu, Page!PlaceBet,
         Page!BetElsewhere, Page!Toggle, Page!ResetElsewhere, Page!Serve,
         Page!Answer, Page!Fail, Page!PlayAgain, Page!ShowBets,
         Page!ShowEntries, Page!Unlight, Page!ListLost, Page!SelectTab,
         Page!server
<1> QED BY <1>1, <1>2, <1>3, <1>4

LEMMA ScreenStep ==
  ASSUME NEW p \in DOMAIN Pages, Page(p)!Next
  PROVE  \/ UNCHANGED <<tab, entries, seen, fresh>>
         \/ /\ Page(p)!Mount
            /\ entries' = <<>> /\ fresh' = {}
         \/ Page(p)!ShowEntries
         \/ Page(p)!Unlight
         \/ \E t \in {"ledger", "rules"} : Page(p)!SelectTab(t)
BY DEF Page!Next, Page!Mount, Page!ToReview, Page!AskReset, Page!OpenMenu,
       Page!CancelReset, Page!ConfirmReset, Page!LeaveMenu, Page!PlaceBet,
       Page!BetElsewhere, Page!Toggle, Page!ResetElsewhere, Page!Serve,
       Page!Answer, Page!Fail, Page!PlayAgain, Page!ShowBets, Page!ListLost,
       Page!lists, Page!ledgerView, Page!chrome

(* The first of a list are those of a prefix of its places.                *)
LEMMA FirstAreSeq ==
  ASSUME NEW p \in DOMAIN Pages, NEW S, NEW s \in Seq(S), NEW n \in Nat
  PROVE  Page(p)!FirstOf(s, n) \in Seq(S)
<1>1. Len(s) \in Nat BY LenProperties
<1>2. \A i \in 1 .. n : n <= Len(s) => s[i] \in S
  BY <1>1, ElementOfSeq
<1>3. \A i \in 1 .. Len(s) : s[i] \in S BY <1>1, ElementOfSeq
<1>4. CASE Len(s) < n
  <2>1. SubSeq(s, 1, Len(s)) \in Seq(S) BY <1>1, <1>3, SubSeqProperties
  <2> QED BY <1>4, <2>1 DEF Page!FirstOf
<1>5. CASE ~(Len(s) < n)
  <2>1. SubSeq(s, 1, n) \in Seq(S) BY <1>1, <1>2, <1>5, SubSeqProperties
  <2> QED BY <1>5, <2>1 DEF Page!FirstOf
<1> QED BY <1>4, <1>5

LEMMA IdsOfSeq ==
  ASSUME NEW p \in DOMAIN Pages, NEW S, NEW s \in Seq(S)
  PROVE  \A i \in DOMAIN s : s[i].id \in Page(p)!Ids(s)
<1>1. DOMAIN s = 1 .. Len(s) BY LenProperties
<1> QED BY <1>1 DEF Page!Ids

LEMMA ListsStep ==
  ASSUME ListsInv,
         UNCHANGED lists \/ \E p \in DOMAIN Pages : Page(p)!Next
  PROVE  ListsInv'
<1>1. CASE UNCHANGED lists
  BY <1>1 DEF lists, ListsInv, ListsTyped, ScreenKnown
<1>2. ASSUME NEW p \in DOMAIN Pages, Page(p)!Next PROVE ListsInv'
  <2>1. PICK S : journal \in Seq(S) /\ entries \in Seq(S)
    BY DEF ListsInv, ListsTyped
  <2>2. PICK T : journal' \in Seq(T) /\ S \subseteq T
    BY <1>2, <2>1, JournalStep
  <2>3. journal \in Seq(T) /\ entries \in Seq(T) BY <2>1, <2>2
  <2>4. CASE UNCHANGED <<tab, entries, seen, fresh>>
    BY <2>2, <2>3, <2>4 DEF ListsInv, ListsTyped, ScreenKnown
  <2>5. CASE entries' = <<>>
    BY <2>2, <2>5 DEF ListsInv, ListsTyped, ScreenKnown
  <2>6. CASE Page(p)!ShowEntries
    <3>1. Pages[p].EntryLimit \in Nat BY Instances DEF Page!PageAssumption
    <3>2. entries' \in Seq(T)
      BY <2>3, <2>6, <3>1, FirstAreSeq DEF Page!ShowEntries
    <3>3. /\ tab' = tab
          /\ tab = "ledger" => Page(p)!Ids(entries') \subseteq seen'
      BY <2>6 DEF Page!ShowEntries, Page!chrome, Page!Light, Page!Noted
    <3>4. ScreenKnown' BY <3>2, <3>3, IdsOfSeq DEF ScreenKnown
    <3> QED BY <2>2, <3>2, <3>4 DEF ListsInv, ListsTyped
  <2>7. CASE Page(p)!Unlight
    BY <2>2, <2>3, <2>7
    DEF Page!Unlight, Page!chrome, Page!lists, ListsInv, ListsTyped, ScreenKnown
  <2>8. ASSUME NEW t, Page(p)!SelectTab(t) PROVE ListsInv'
    <3>1. /\ tab' = t /\ entries' = entries
          /\ t = "ledger" => seen' = Page(p)!Ids(entries)
      BY <2>8 DEF Page!SelectTab, Page!lists
    <3>2. ScreenKnown' BY <2>3, <3>1, IdsOfSeq DEF ScreenKnown
    <3> QED BY <2>2, <2>3, <3>1, <3>2 DEF ListsInv, ListsTyped
  <2> QED BY <1>2, <2>4, <2>5, <2>6, <2>7, <2>8, ScreenStep
<1> QED BY <1>1, <1>2

(* What the ledger already knows is never lit.                             *)
LEMMA OldStays ==
  ASSUME ListsInv,
         UNCHANGED lists \/ \E p \in DOMAIN Pages : Page(p)!Next,
         NEW q \in DOMAIN Pages
  PROVE  Page(q)!OldStaysOld
<1> SUFFICES ASSUME NEW i \in DOMAIN entries, NEW j \in DOMAIN entries',
                    entries[i] = entries'[j],
                    tab' = "ledger", entries'[j].id \in fresh'
             PROVE  tab = "ledger" /\ entries[i].id \in fresh
  BY DEF Page!OldStaysOld, Page!OnScreen, Page!Range, Page!Lit
<1>1. CASE UNCHANGED <<tab, entries, seen, fresh>>
  BY <1>1
<1>2. ASSUME NEW p \in DOMAIN Pages, Page(p)!ShowEntries
      PROVE  tab = "ledger" /\ entries[i].id \in fresh
  <2>1. tab' = tab BY <1>2 DEF Page!ShowEntries, Page!chrome
  <2>2. fresh' = fresh \/ fresh' = Page(p)!Ids(entries') \ seen
    BY <1>2, <2>1 DEF Page!ShowEntries, Page!Light
  <2>3. entries[i].id \in seen BY <2>1 DEF ListsInv, ScreenKnown
  <2> QED BY <2>1, <2>2, <2>3
<1>3. ASSUME NEW p \in DOMAIN Pages,
             \/ fresh' = {}
             \/ Page(p)!Unlight
             \/ \E t \in {"ledger", "rules"} : Page(p)!SelectTab(t)
      PROVE  FALSE
  BY <1>3 DEF Page!Unlight, Page!SelectTab
<1> QED BY <1>1, <1>2, <1>3, ScreenStep DEF lists

(* An entry that was on the screen before a refresh, a reset or a change   *)
(* of tab is not shown as new after it (LedgerView.tsx:97-113).            *)
THEOREM OldNeverLooksNew == Spec => OldNeverTurnsNew
<1>1. Init => ListsInv
  <2> SUFFICES ASSUME Init PROVE ListsInv OBVIOUS
  <2>1. journal = <<>> /\ entries = <<>> BY PartsInit DEF Page!Init
  <2>2. <<>> \in Seq({}) OBVIOUS
  <2> QED BY <2>1, <2>2 DEF ListsInv, ListsTyped, ScreenKnown
<1>2. ListsInv /\ [Next]_vars => ListsInv' BY PartsStep, ListsStep
<1>3. ListsInv /\ [Next]_vars =>
        [\A p \in DOMAIN Pages : Page(p)!OldStaysOld]_vars
  BY PartsStep, OldStays
<1> QED BY <1>1, <1>2, <1>3, PTL DEF Spec, OldNeverTurnsNew

-----------------------------------------------------------------------------
(* Sessions.  Where an attempt may be, and while it asks.                  *)
Asking == {"me", "session", "again"}

AttemptPlace == Asking \cup {"none", "resolved", "rejected"}

SessionsTyped ==
  /\ clock \in Nat /\ expires \in Seq(Int) /\ jar \in Nat
  /\ page \in [Tab -> {"none", "app", "review"}]
  /\ attempt \in [Tab -> [Sessions!Mount -> [at : AttemptPlace, me : Int]]]
  /\ money \in Int
  /\ inFlight \in [Tab -> {0} \cup Sessions!Mount]
  /\ waits \in [Tab -> Sessions!Mount]
  /\ auth \in [Tab -> {"checking", "ready", "failed"}]
  /\ made \in [Tab -> Nat] /\ lost \in [Tab -> Nat]
  /\ faulted \in [Tab -> BOOLEAN]

(* The promise stands for the only attempt that asks, and never for one    *)
(* that failed.                                                            *)
PromiseKept(t) ==
  /\ \A m \in Sessions!Mount : attempt[t][m].at \in Asking => inFlight[t] = m
  /\ inFlight[t] # 0 =>
       attempt[t][inFlight[t]].at \in Asking \cup {"resolved"}

(* No session has expired before the first could, the cookie is of one of  *)
(* them, and a tab with a session of its own does not ask for another.     *)
RowsLive ==
  /\ \A i \in 1 .. Len(expires) : expires[i] >= TTL
  /\ jar <= Len(expires)

OneOfItsOwn(t) ==
  clock < TTL =>
    /\ made[t] <= 1 + lost[t]
    /\ made[t] > lost[t] => jar # 0
    /\ \A m \in Sessions!Mount :
         attempt[t][m].at = "session" => made[t] <= lost[t]

(* A failure that is shown, or about to be, was met since the mount.       *)
FailureMet(t) ==
  /\ auth[t] = "failed" => faulted[t]
  /\ page[t] = "app" /\ attempt[t][waits[t]].at = "rejected" => faulted[t]

SessionsInv ==
  /\ SessionsTyped /\ RowsLive
  /\ \A t \in Tab : PromiseKept(t) /\ OneOfItsOwn(t) /\ FailureMet(t)

LEMMA SessionsInit ==
  ASSUME Init
  PROVE  SessionsInv
<1>1. Sessions!Init BY PartsInit
<1>2. <<>> \in Seq(Int) /\ Len(<<>>) = 0 OBVIOUS
<1>3. SessionsTyped
  BY <1>1, <1>2
  DEF Sessions!Init, SessionsTyped, AttemptPlace, Asking, Sessions!Mount
<1> QED
  BY <1>1, <1>2, <1>3
  DEF Sessions!Init, SessionsInv, RowsLive, PromiseKept, OneOfItsOwn,
      FailureMet, Asking, Sessions!Mount

(* What a tab has is not disturbed by what the others do.                  *)
TabUnchanged(t) ==
  /\ attempt'[t] = attempt[t] /\ inFlight'[t] = inFlight[t]
  /\ waits'[t] = waits[t] /\ page'[t] = page[t] /\ auth'[t] = auth[t]
  /\ made'[t] = made[t] /\ lost'[t] = lost[t] /\ faulted'[t] = faulted[t]

LEMMA TabKept ==
  ASSUME SessionsInv, NEW t \in Tab, TabUnchanged(t),
         clock' \in Nat, clock <= clock', jar # 0 => jar' # 0
  PROVE  PromiseKept(t)' /\ OneOfItsOwn(t)' /\ FailureMet(t)'
<1>1. PromiseKept(t)'
  BY DEF SessionsInv, PromiseKept, TabUnchanged
<1>2. OneOfItsOwn(t)'
  BY Instances
  DEF SessionsInv, SessionsTyped, OneOfItsOwn, TabUnchanged,
      Sessions!SessionsAssumption
<1>3. FailureMet(t)'
  BY DEF SessionsInv, FailureMet, TabUnchanged
<1> QED BY <1>1, <1>2, <1>3

(* A row is added with a whole lifetime ahead of it.                       *)
LEMMA RowAdded ==
  ASSUME SessionsInv, NEW t \in Tab, Sessions!InsertRow(t)
  PROVE  /\ expires' \in Seq(Int) /\ Len(expires') = Len(expires) + 1
         /\ \A i \in 1 .. Len(expires') : expires'[i] >= TTL
         /\ made' = [made EXCEPT ![t] = @ + 1]
<1>1. /\ expires \in Seq(Int) /\ clock \in Nat /\ TTL \in Nat
      /\ \A i \in 1 .. Len(expires) : expires[i] >= TTL
  BY Instances
  DEF SessionsInv, SessionsTyped, RowsLive, Sessions!SessionsAssumption
<1>2. expires' = Append(expires, clock + TTL) /\ clock + TTL \in Int
  BY <1>1 DEF Sessions!InsertRow
<1>3. /\ expires' \in Seq(Int) /\ Len(expires') = Len(expires) + 1
      /\ \A i \in 1 .. Len(expires) : expires'[i] = expires[i]
      /\ expires'[Len(expires) + 1] = clock + TTL
      /\ Len(expires) \in Nat
  BY <1>1, <1>2, AppendProperties, LenProperties
<1>4. \A i \in 1 .. Len(expires') : expires'[i] >= TTL
  BY <1>1, <1>3
<1> QED BY <1>3, <1>4 DEF Sessions!InsertRow

LEMMA ShowStep ==
  ASSUME SessionsInv, NEW t \in Tab, Sessions!Show(t)
  PROVE  SessionsInv'
<1> DEFINE first == Sessions!After(inFlight[t], 1)
           second == Sessions!After(first, 2)
           new == {m \in Sessions!Mount : \/ m = first /\ first # inFlight[t]
                                          \/ m = second /\ second # first}
<1>1. /\ inFlight[t] \in {0} \cup Sessions!Mount /\ Sessions!Mount = {1, 2}
      /\ money \in Int
  BY DEF SessionsInv, SessionsTyped, Sessions!Mount
<1>2. /\ second \in Sessions!Mount
      /\ inFlight[t] # 0 => second = inFlight[t] /\ new = {}
      /\ inFlight[t] = 0 => second = 1 /\ new = {1}
  BY <1>1 DEF Sessions!After
<1>3. /\ attempt' = [attempt EXCEPT ![t] =
           [m \in Sessions!Mount |-> IF m \in new THEN [at |-> "me", me |-> 0]
                                     ELSE attempt[t][m]]]
      /\ inFlight' = [inFlight EXCEPT ![t] = second]
      /\ waits' = [waits EXCEPT ![t] = second]
      /\ page' = [page EXCEPT ![t] = "app"]
      /\ auth' = [auth EXCEPT ![t] = "checking"]
      /\ faulted' = [faulted EXCEPT ![t] = FALSE]
      /\ UNCHANGED <<clock, expires, money, jar, made, lost>>
  BY DEF Sessions!Show, Sessions!server
<1> HIDE DEF first, second, new
<1>4. SessionsTyped'
  <2>1. attempt'[t] \in [Sessions!Mount -> [at : AttemptPlace, me : Int]]
    BY <1>3 DEF SessionsInv, SessionsTyped, AttemptPlace, Asking
  <2>2. attempt' \in [Tab -> [Sessions!Mount -> [at : AttemptPlace, me : Int]]]
    BY <1>3, <2>1 DEF SessionsInv, SessionsTyped
  <2> QED BY <1>2, <1>3, <2>2 DEF SessionsInv, SessionsTyped
<1>5. \A m \in Sessions!Mount :
        attempt'[t][m] = IF m \in new THEN [at |-> "me", me |-> 0]
                         ELSE attempt[t][m]
  BY <1>3 DEF SessionsInv, SessionsTyped
<1>6. /\ inFlight'[t] = second /\ waits'[t] = second
      /\ auth'[t] = "checking" /\ page'[t] = "app"
  BY <1>3 DEF SessionsInv, SessionsTyped
<1>7. PromiseKept(t)'
  BY <1>1, <1>2, <1>5, <1>6 DEF SessionsInv, PromiseKept, Asking
<1>8. OneOfItsOwn(t)'
  BY <1>3, <1>5 DEF SessionsInv, OneOfItsOwn
<1>9. FailureMet(t)'
  BY <1>1, <1>2, <1>5, <1>6, <1>7 DEF PromiseKept, FailureMet, Asking
<1>10. \A u \in Tab \ {t} : TabUnchanged(u)
  BY <1>3 DEF TabUnchanged, SessionsInv, SessionsTyped
<1>11. \A u \in Tab \ {t} :
         PromiseKept(u)' /\ OneOfItsOwn(u)' /\ FailureMet(u)'
  BY <1>3, <1>10, TabKept DEF SessionsInv, SessionsTyped
<1> QED
  BY <1>3, <1>4, <1>7, <1>8, <1>9, <1>11 DEF SessionsInv, RowsLive

(* An attempt moves on: where it goes, and what becomes of the promise.    *)
LEMMA AttemptMoved ==
  ASSUME SessionsInv, NEW t \in Tab, NEW m \in Sessions!Mount,
         NEW there \in [at : AttemptPlace, me : Int],
         attempt' = [attempt EXCEPT ![t][m] = there]
  PROVE  /\ attempt' \in [Tab -> [Sessions!Mount -> [at : AttemptPlace, me : Int]]]
         /\ attempt'[t][m] = there
         /\ \A n \in Sessions!Mount \ {m} : attempt'[t][n] = attempt[t][n]
         /\ \A u \in Tab \ {t} : attempt'[u] = attempt[u]
BY DEF SessionsInv, SessionsTyped

LEMMA MoveWrites ==
  ASSUME SessionsInv, NEW t \in Tab, NEW m \in Sessions!Mount,
         NEW place \in AttemptPlace, Sessions!Move(t, m, place)
  PROVE  \E there \in [at : AttemptPlace, me : Int] :
           there.at = place /\ attempt' = [attempt EXCEPT ![t][m] = there]
<1> DEFINE there == [attempt[t][m] EXCEPT !.at = place]
<1>1. attempt[t][m] \in [at : AttemptPlace, me : Int]
  BY DEF SessionsInv, SessionsTyped
<1>2. there \in [at : AttemptPlace, me : Int] /\ there.at = place
  BY <1>1
<1>3. attempt' = [attempt EXCEPT ![t][m] = there]
  BY DEF Sessions!Move
<1> HIDE DEF there
<1> QED BY <1>2, <1>3

LEMMA MoveIsMoved ==
  ASSUME SessionsInv, NEW t \in Tab, NEW m \in Sessions!Mount,
         NEW place \in AttemptPlace, Sessions!Move(t, m, place)
  PROVE  /\ attempt' \in [Tab -> [Sessions!Mount -> [at : AttemptPlace, me : Int]]]
         /\ attempt'[t][m].at = place
         /\ \A n \in Sessions!Mount \ {m} : attempt'[t][n] = attempt[t][n]
         /\ \A u \in Tab \ {t} : attempt'[u] = attempt[u]
BY MoveWrites, AttemptMoved

(* A rejected attempt takes the promise with it and was a failure.         *)
LEMMA RejectStep ==
  ASSUME SessionsInv, NEW t \in Tab, NEW m \in Sessions!Mount,
         attempt[t][m].at \in Asking, Sessions!Reject(t, m),
         faulted' = [faulted EXCEPT ![t] = TRUE],
         UNCHANGED <<clock, money, jar, page, waits, auth>>,
         \/ Sessions!InsertRow(t) /\ lost' = [lost EXCEPT ![t] = @ + 1]
         \/ UNCHANGED <<expires, made, lost>>
  PROVE  SessionsInv'
<1>1. "rejected" \in AttemptPlace BY DEF AttemptPlace
<1>2. /\ attempt' \in [Tab -> [Sessions!Mount -> [at : AttemptPlace, me : Int]]]
      /\ attempt'[t][m].at = "rejected"
      /\ \A n \in Sessions!Mount \ {m} : attempt'[t][n] = attempt[t][n]
      /\ \A u \in Tab \ {t} : attempt'[u] = attempt[u]
  BY <1>1, MoveIsMoved DEF Sessions!Reject
<1>3. inFlight[t] = m BY DEF SessionsInv, PromiseKept
<1>4. inFlight' = [inFlight EXCEPT ![t] = 0]
  BY <1>3 DEF Sessions!Reject, Sessions!Forget, SessionsInv, SessionsTyped
<1>5. /\ expires' \in Seq(Int) /\ RowsLive'
      /\ made' \in [Tab -> Nat] /\ lost' \in [Tab -> Nat]
      /\ made'[t] - lost'[t] = made[t] - lost[t]
      /\ \A u \in Tab \ {t} : made'[u] = made[u] /\ lost'[u] = lost[u]
  <2>1. CASE Sessions!InsertRow(t) /\ lost' = [lost EXCEPT ![t] = @ + 1]
    <3>1. RowsLive'
      BY <2>1, RowAdded, LenProperties DEF SessionsInv, SessionsTyped, RowsLive
    <3>2. /\ made \in [Tab -> Nat] /\ made' = [made EXCEPT ![t] = @ + 1]
          /\ lost \in [Tab -> Nat] /\ lost' = [lost EXCEPT ![t] = @ + 1]
          /\ expires' \in Seq(Int)
      BY <2>1, RowAdded DEF SessionsInv, SessionsTyped
    <3> QED BY <3>1, <3>2
  <2>2. CASE UNCHANGED <<expires, made, lost>>
    BY <2>2 DEF SessionsInv, SessionsTyped, RowsLive
  <2> QED BY <2>1, <2>2
<1>6. SessionsTyped'
  BY <1>2, <1>4, <1>5 DEF SessionsInv, SessionsTyped
<1>7. PromiseKept(t)'
  BY <1>2, <1>3, <1>4 DEF SessionsInv, SessionsTyped, PromiseKept, Asking
<1>8. OneOfItsOwn(t)'
  <2>1. /\ made[t] \in Nat /\ lost[t] \in Nat
        /\ made'[t] \in Nat /\ lost'[t] \in Nat
    BY <1>5 DEF SessionsInv, SessionsTyped
  <2>2. \A n \in Sessions!Mount : attempt'[t][n].at = "session" =>
                                    attempt[t][n].at = "session"
    BY <1>2
  <2> QED BY <1>5, <2>1, <2>2 DEF SessionsInv, OneOfItsOwn
<1>9. FailureMet(t)'
  BY DEF FailureMet, SessionsInv, SessionsTyped
<1>10. \A u \in Tab \ {t} : TabUnchanged(u)
  BY <1>2, <1>4, <1>5 DEF TabUnchanged, SessionsInv, SessionsTyped
<1>11. \A u \in Tab \ {t} :
         PromiseKept(u)' /\ OneOfItsOwn(u)' /\ FailureMet(u)'
  BY <1>10, TabKept DEF SessionsInv, SessionsTyped
<1> QED BY <1>5, <1>6, <1>7, <1>8, <1>9, <1>11 DEF SessionsInv

(* While no session can have expired, the cookie is as good as any.        *)
LEMMA CookieLive ==
  ASSUME SessionsInv, clock < TTL, jar # 0
  PROVE  Sessions!Live(jar)
<1>1. /\ jar \in 1 .. Len(expires) /\ expires[jar] >= TTL
      /\ expires[jar] \in Int
  BY LenProperties, ElementOfSeq DEF SessionsInv, SessionsTyped, RowsLive
<1> QED
  BY <1>1, Instances
  DEF Sessions!Live, SessionsInv, SessionsTyped, Sessions!SessionsAssumption

LEMMA AskMeStep ==
  ASSUME SessionsInv, NEW t \in Tab, NEW m \in Sessions!Mount,
         Sessions!AskMe(t, m)
  PROVE  SessionsInv'
<1>1. ASSUME NEW there \in [at : AttemptPlace, me : Int],
             attempt' = [attempt EXCEPT ![t][m] = there],
             attempt[t][m].at \in Asking,
             there.at \in {"resolved", "session"},
             there.at = "session" => ~Sessions!Live(jar),
             UNCHANGED <<clock, expires, money, jar, page, waits, auth>>,
             UNCHANGED <<inFlight, made, lost, faulted>>
      PROVE  SessionsInv'
  <2>1. /\ attempt' \in [Tab -> [Sessions!Mount -> [at : AttemptPlace, me : Int]]]
        /\ attempt'[t][m] = there
        /\ \A n \in Sessions!Mount \ {m} : attempt'[t][n] = attempt[t][n]
        /\ \A u \in Tab \ {t} : attempt'[u] = attempt[u]
    BY <1>1, AttemptMoved
  <2>2. SessionsTyped' BY <1>1, <2>1 DEF SessionsInv, SessionsTyped
  <2>3. PromiseKept(t)'
    BY <1>1, <2>1 DEF SessionsInv, SessionsTyped, PromiseKept, Asking
  <2>4. OneOfItsOwn(t)'
    <3>1. clock < TTL /\ there.at = "session" => jar = 0
      BY <1>1, CookieLive
    <3>2. made[t] \in Nat /\ lost[t] \in Nat
      BY DEF SessionsInv, SessionsTyped
    <3> QED BY <1>1, <2>1, <3>1, <3>2 DEF SessionsInv, OneOfItsOwn
  <2>5. FailureMet(t)'
    BY <1>1, <2>1 DEF SessionsInv, SessionsTyped, FailureMet
  <2>6. \A u \in Tab \ {t} : TabUnchanged(u)
    BY <1>1, <2>1 DEF TabUnchanged
  <2>7. \A u \in Tab \ {t} :
          PromiseKept(u)' /\ OneOfItsOwn(u)' /\ FailureMet(u)'
    BY <1>1, <2>6, TabKept DEF SessionsInv, SessionsTyped
  <2> QED
    BY <1>1, <2>2, <2>3, <2>4, <2>5, <2>7 DEF SessionsInv, RowsLive
<1>2. CASE /\ Sessions!At(t, m, "me") \/ Sessions!At(t, m, "again")
           /\ attempt' = [attempt EXCEPT ![t][m] =
                            [at |-> "resolved", me |-> money]]
           /\ UNCHANGED <<Sessions!server, jar, Sessions!console, inFlight,
                          Sessions!history>>
  <2>1. /\ attempt[t][m].at \in Asking
        /\ [at |-> "resolved", me |-> money] \in [at : AttemptPlace, me : Int]
    BY <1>2
    DEF Sessions!At, Asking, AttemptPlace, SessionsInv, SessionsTyped
  <2> QED
    BY <1>1, <1>2, <2>1
    DEF Sessions!server, Sessions!console, Sessions!history
<1>3. CASE /\ Sessions!At(t, m, "me") /\ ~Sessions!Live(jar)
           /\ Sessions!Move(t, m, "session")
           /\ UNCHANGED <<Sessions!server, jar, Sessions!console, inFlight,
                          Sessions!history>>
  <2>1. attempt[t][m].at \in Asking /\ "session" \in AttemptPlace
    BY <1>3 DEF Sessions!At, Asking, AttemptPlace
  <2>2. PICK there \in [at : AttemptPlace, me : Int] :
          /\ there.at = "session"
          /\ attempt' = [attempt EXCEPT ![t][m] = there]
    BY <1>3, <2>1, MoveWrites
  <2> QED
    BY <1>1, <1>3, <2>1, <2>2
    DEF Sessions!server, Sessions!console, Sessions!history
<1>4. CASE /\ Sessions!At(t, m, "again")
           /\ Sessions!Reject(t, m)
           /\ faulted' = [faulted EXCEPT ![t] = TRUE]
           /\ UNCHANGED <<Sessions!server, jar, Sessions!console, made, lost,
                          sessionFaults>>
  <2>1. attempt[t][m].at \in Asking BY <1>4 DEF Sessions!At, Asking
  <2> QED
    BY <1>4, <2>1, RejectStep DEF Sessions!server, Sessions!console
<1> QED BY <1>2, <1>3, <1>4 DEF Sessions!AskMe

LEMMA StartSessionStep ==
  ASSUME SessionsInv, NEW t \in Tab, NEW m \in Sessions!Mount,
         Sessions!StartSession(t, m)
  PROVE  SessionsInv'
<1>1. /\ attempt[t][m].at = "session" /\ Sessions!Move(t, m, "again")
      /\ Sessions!InsertRow(t) /\ jar' = Len(expires')
      /\ UNCHANGED <<clock, money, page, waits, auth, inFlight, lost, faulted>>
  BY DEF Sessions!StartSession, Sessions!At, Sessions!console
<1>2. /\ attempt' \in [Tab -> [Sessions!Mount -> [at : AttemptPlace, me : Int]]]
      /\ attempt'[t][m].at = "again"
      /\ \A n \in Sessions!Mount \ {m} : attempt'[t][n] = attempt[t][n]
      /\ \A u \in Tab \ {t} : attempt'[u] = attempt[u]
  BY <1>1, MoveIsMoved DEF AttemptPlace, Asking
<1>3. /\ expires' \in Seq(Int) /\ Len(expires') = Len(expires) + 1
      /\ Len(expires) \in Nat
      /\ \A i \in 1 .. Len(expires') : expires'[i] >= TTL
      /\ made' = [made EXCEPT ![t] = @ + 1]
  BY <1>1, RowAdded, LenProperties DEF SessionsInv, SessionsTyped
<1>4. RowsLive' BY <1>1, <1>3 DEF RowsLive
<1>5. SessionsTyped'
  <2>1. made' \in [Tab -> Nat] /\ jar' \in Nat
    BY <1>1, <1>3 DEF SessionsInv, SessionsTyped
  <2> QED BY <1>1, <1>2, <1>3, <2>1 DEF SessionsInv, SessionsTyped
<1>6. inFlight[t] = m
  BY <1>1 DEF SessionsInv, PromiseKept, Asking
<1>7. PromiseKept(t)'
  BY <1>1, <1>2, <1>6 DEF SessionsInv, SessionsTyped, PromiseKept, Asking
<1>8. OneOfItsOwn(t)'
  <2>1. made[t] \in Nat /\ lost[t] \in Nat /\ made'[t] = made[t] + 1
    BY <1>3 DEF SessionsInv, SessionsTyped
  <2>2. \A n \in Sessions!Mount : attempt'[t][n].at # "session"
    BY <1>2, <1>6 DEF SessionsInv, PromiseKept, Asking
  <2>3. jar' # 0 BY <1>1, <1>3
  <2> QED BY <1>1, <2>1, <2>2, <2>3 DEF SessionsInv, OneOfItsOwn
<1>9. FailureMet(t)'
  BY <1>1, <1>2 DEF SessionsInv, SessionsTyped, FailureMet
<1>10. \A u \in Tab \ {t} : TabUnchanged(u)
  BY <1>1, <1>2, <1>3 DEF TabUnchanged, SessionsInv, SessionsTyped
<1>11. \A u \in Tab \ {t} :
         PromiseKept(u)' /\ OneOfItsOwn(u)' /\ FailureMet(u)'
  <2>1. jar' # 0 /\ clock' \in Nat /\ clock <= clock'
    BY <1>1, <1>3 DEF SessionsInv, SessionsTyped
  <2> QED BY <1>10, <2>1, TabKept
<1> QED BY <1>4, <1>5, <1>7, <1>8, <1>9, <1>11 DEF SessionsInv

LEMMA LoseStep ==
  ASSUME SessionsInv, NEW t \in Tab, NEW m \in Sessions!Mount,
         Sessions!Lose(t, m)
  PROVE  SessionsInv'
<1>1. /\ attempt[t][m].at \in Asking /\ Sessions!Reject(t, m)
      /\ faulted' = [faulted EXCEPT ![t] = TRUE]
      /\ UNCHANGED <<clock, money, jar, page, waits, auth>>
  BY DEF Sessions!Lose, Sessions!console, Sessions!At, Asking
<1>2. \/ Sessions!InsertRow(t) /\ lost' = [lost EXCEPT ![t] = @ + 1]
      \/ UNCHANGED <<expires, made, lost>>
  BY DEF Sessions!Lose
<1> QED BY <1>1, <1>2, RejectStep

LEMMA SettleStep ==
  ASSUME SessionsInv, NEW t \in Tab, Sessions!Settle(t)
  PROVE  SessionsInv'
<1>1. /\ page[t] = "app"
      /\ \/ auth' = [auth EXCEPT ![t] = "ready"]
         \/ /\ auth' = [auth EXCEPT ![t] = "failed"]
            /\ attempt[t][waits[t]].at = "rejected"
      /\ UNCHANGED <<clock, expires, money, jar, page, waits>>
      /\ UNCHANGED <<attempt, inFlight, made, lost, faulted>>
  BY DEF Sessions!Settle, Sessions!server, Sessions!boot, Sessions!history
<1>2. SessionsTyped' BY <1>1 DEF SessionsInv, SessionsTyped
<1>3. FailureMet(t)'
  BY <1>1 DEF SessionsInv, SessionsTyped, FailureMet
<1>4. PromiseKept(t)' /\ OneOfItsOwn(t)'
  BY <1>1 DEF SessionsInv, PromiseKept, OneOfItsOwn
<1>5. \A u \in Tab \ {t} : TabUnchanged(u)
  BY <1>1 DEF TabUnchanged, SessionsInv, SessionsTyped
<1>6. \A u \in Tab \ {t} :
        PromiseKept(u)' /\ OneOfItsOwn(u)' /\ FailureMet(u)'
  BY <1>1, <1>5, TabKept DEF SessionsInv, SessionsTyped
<1> QED BY <1>1, <1>2, <1>3, <1>4, <1>6 DEF SessionsInv, RowsLive

LEMMA ReviewStep ==
  ASSUME SessionsInv, NEW t \in Tab, Sessions!Review(t)
  PROVE  SessionsInv'
<1>1. /\ page' = [page EXCEPT ![t] = "review"]
      /\ auth' = [auth EXCEPT ![t] = "checking"]
      /\ UNCHANGED <<clock, expires, money, jar, waits>>
      /\ UNCHANGED <<attempt, inFlight, made, lost, faulted>>
  BY DEF Sessions!Review, Sessions!server, Sessions!boot, Sessions!history
<1>2. SessionsTyped' BY <1>1 DEF SessionsInv, SessionsTyped
<1>3. FailureMet(t)'
  BY <1>1 DEF SessionsInv, SessionsTyped, FailureMet
<1>4. PromiseKept(t)' /\ OneOfItsOwn(t)'
  BY <1>1 DEF SessionsInv, PromiseKept, OneOfItsOwn
<1>5. \A u \in Tab \ {t} : TabUnchanged(u)
  BY <1>1 DEF TabUnchanged, SessionsInv, SessionsTyped
<1>6. \A u \in Tab \ {t} :
        PromiseKept(u)' /\ OneOfItsOwn(u)' /\ FailureMet(u)'
  BY <1>1, <1>5, TabKept DEF SessionsInv, SessionsTyped
<1> QED BY <1>1, <1>2, <1>3, <1>4, <1>6 DEF SessionsInv, RowsLive

(* The clock, the balance and the bets change nothing of this.             *)
LEMMA QuietSessionsStep ==
  ASSUME SessionsInv,
         UNCHANGED <<expires, jar, page, waits, auth>>,
         UNCHANGED <<attempt, inFlight, made, lost, faulted>>,
         clock' \in Nat, clock <= clock', money' \in Int
  PROVE  SessionsInv'
<1>1. SessionsTyped' BY DEF SessionsInv, SessionsTyped
<1>2. \A t \in Tab : TabUnchanged(t) BY DEF TabUnchanged
<1>3. \A t \in Tab : PromiseKept(t)' /\ OneOfItsOwn(t)' /\ FailureMet(t)'
  BY <1>2, TabKept
<1> QED BY <1>1, <1>3 DEF SessionsInv, RowsLive

LEMMA SessionsStep ==
  ASSUME SessionsInv, [Sessions!Next]_sessions
  PROVE  SessionsInv'
<1>1. clock \in Nat /\ money \in Int BY DEF SessionsInv, SessionsTyped
<1>2. CASE UNCHANGED sessions
  BY <1>1, <1>2, QuietSessionsStep DEF sessions
<1>3. CASE Sessions!Tick
  BY <1>1, <1>3, QuietSessionsStep
  DEF Sessions!Tick, Sessions!console, Sessions!boot, Sessions!history
<1>4. CASE Sessions!Reset
  BY <1>1, <1>4, QuietSessionsStep
  DEF Sessions!Reset, Sessions!KeptByReset, Sessions!console, Sessions!boot,
      Sessions!history
<1>5. ASSUME NEW t \in Tab, Sessions!CheckBet(t) \/ Sessions!PlaceBet(t)
      PROVE  SessionsInv'
  BY <1>1, <1>5, QuietSessionsStep
  DEF Sessions!CheckBet, Sessions!PlaceBet, Sessions!server, Sessions!boot,
      Sessions!history
<1> QED
  BY <1>2, <1>3, <1>4, <1>5, ShowStep, ReviewStep, SettleStep, AskMeStep,
     StartSessionStep, LoseStep
  DEF Sessions!Next

(* A tab makes one session however often its console is mounted, and one   *)
(* more for each answer it lost (bootstrap.ts:9-21, App.tsx:58-60).        *)
THEOREM OneRowForEachBoot == Spec => []OneRowPerBoot
<1>1. Init => SessionsInv BY SessionsInit
<1>2. SessionsInv /\ [Next]_vars => SessionsInv' BY PartsStep, SessionsStep
<1>3. SessionsInv => OneRowPerBoot
  BY DEF SessionsInv, OneOfItsOwn, OneRowPerBoot, Sessions!OneRowPerBoot
<1> QED BY <1>1, <1>2, <1>3, PTL DEF Spec

(* A console does not show a failure of an attempt made for an earlier     *)
(* mount (bootstrap.ts:19-21, 39-41).                                      *)
THEOREM FailuresAreFresh == Spec => []FailsForAReason
<1>1. Init => SessionsInv BY SessionsInit
<1>2. SessionsInv /\ [Next]_vars => SessionsInv' BY PartsStep, SessionsStep
<1>3. SessionsInv => FailsForAReason
  BY DEF SessionsInv, FailureMet, FailsForAReason, Sessions!FailsForAReason
<1> QED BY <1>1, <1>2, <1>3, PTL DEF Spec

-----------------------------------------------------------------------------
(* Actions.  The records of the model, and bets placed since a reset.      *)
Row == [id : Nat, seed : Nat]

BetRuns ==
  [name : {"bet"}, at : {"sent", "placed", "refused"}, id : Nat, seed : Nat,
   how : {"card", "limit", "spend", "replay"}, on : Nat, row : Row]

FairRuns ==
  [name : {"fairness"},
   at : {"rotate", "rotated", "list", "done", "unrevealed"},
   row : Row, seed : Nat]

OtherRuns == [name : {"deposit", "reset"}, at : {"sent", "served"}]

Run == BetRuns \cup FairRuns \cup OtherRuns \cup {[name |-> "none"]}

Placed(id, placedBets) ==
  \E n \in DOMAIN placedBets : placedBets[n].id = id

(* What a run knows of the server, which has moved on since: a bet is      *)
(* bound to the commitment it was placed under, a replay to a bet that was *)
(* placed, and a check goes on with a seed that is no longer active.       *)
RunOk(run, placedBets, now, gone) ==
  /\ run.name = "bet" =>
       /\ run.on # 0 => run.on = run.seed
       /\ run.at = "placed" /\ run.on # 0 => run.row.seed = run.on
       /\ run.at = "placed" \/ run.how = "replay" =>
            Placed(run.id, placedBets) \/ gone > 0
  /\ run.name = "fairness" =>
       /\ run.row.seed <= now
       /\ run.at # "rotate" => run.row.seed < now
       /\ run.at = "unrevealed" => run.row.seed <= gone

ServerOk ==
  /\ bets \in Seq(Row) /\ active \in Nat /\ erased \in Nat
  /\ funds \in Int /\ erased < active
  /\ \A n \in DOMAIN bets : bets[n].seed <= active

RunsOk ==
  /\ runs \in [DOMAIN runs -> Run]
  /\ on \in DOMAIN Engines => DOMAIN runs = Engines[on].Slot
  /\ \A s \in DOMAIN runs : RunOk(runs[s], bets, active, erased)

ShownOk ==
  /\ consoleShown \in [row : Row, seed : Nat, me : Int]
  /\ consoleShown.row.seed <= active
  /\ lastId \in Nat

OutcomeOk ==
  /\ bet.on # 0 => bet.row.seed = bet.on
  /\ lastBetId \in Nat
  /\ lastBetId # 0 => Placed(lastBetId, bets) \/ erased > 0
  /\ verification.state = "unrevealed" =>
       verification.row \in Row /\ verification.row.seed <= erased

EngineInv == ServerOk /\ RunsOk /\ ShownOk /\ OutcomeOk

(* The server only moves on: seeds become older and bets stay, unless a    *)
(* reset erases both.                                                      *)
ServerMovesOn ==
  /\ ServerOk'
  /\ active <= active' /\ erased <= erased'
  /\ \A id : Placed(id, bets) => Placed(id, bets') \/ erased' > 0

LEMMA RunStaysOk ==
  ASSUME ServerOk, ServerMovesOn, NEW run \in Run,
         RunOk(run, bets, active, erased)
  PROVE  RunOk(run, bets', active', erased')
<1>1. CASE run.name = "bet"
  BY <1>1 DEF RunOk, ServerMovesOn, ServerOk
<1>2. CASE run.name = "fairness"
  <2>1. run \in FairRuns
    BY <1>2 DEF Run, BetRuns, FairRuns, OtherRuns
  <2>2. run.row.seed \in Nat BY <2>1 DEF FairRuns, Row
  <2> QED BY <1>2, <2>2 DEF RunOk, ServerMovesOn, ServerOk
<1> QED BY <1>1, <1>2 DEF RunOk

(* One run steps, the others and what is shown stay right.                 *)
LEMMA RunSteps ==
  ASSUME EngineInv, ServerMovesOn, UNCHANGED on, NEW s \in DOMAIN runs,
         NEW run \in Run, RunOk(run, bets', active', erased'),
         runs' = [runs EXCEPT ![s] = run]
  PROVE  RunsOk'
<1>1. runs' \in [DOMAIN runs -> Run] /\ DOMAIN runs' = DOMAIN runs
  BY DEF EngineInv, RunsOk
<1>2. ASSUME NEW t \in DOMAIN runs
      PROVE  RunOk(runs'[t], bets', active', erased')
  <2>1. CASE t = s BY <2>1 DEF EngineInv, RunsOk
  <2>2. CASE t # s
    <3>1. runs'[t] = runs[t] /\ runs[t] \in Run
      BY <2>2 DEF EngineInv, RunsOk
    <3> QED BY <3>1, RunStaysOk DEF EngineInv, RunsOk
  <2> QED BY <2>1, <2>2
<1> QED BY <1>1, <1>2 DEF EngineInv, RunsOk

LEMMA RunsStay ==
  ASSUME EngineInv, ServerMovesOn, UNCHANGED <<on, runs>>
  PROVE  RunsOk'
<1>1. \A s \in DOMAIN runs : runs[s] \in Run BY DEF EngineInv, RunsOk
<1>2. \A s \in DOMAIN runs : RunOk(runs[s], bets', active', erased')
  BY <1>1, RunStaysOk DEF EngineInv, RunsOk
<1> QED BY <1>2 DEF EngineInv, RunsOk

LEMMA ShownStays ==
  ASSUME EngineInv, ServerMovesOn,
         UNCHANGED consoleShown, lastId' \in Nat
  PROVE  ShownOk'
<1>1. consoleShown.row.seed \in Nat BY DEF EngineInv, ShownOk, Row
<1> QED BY <1>1 DEF EngineInv, ShownOk, ServerMovesOn, ServerOk

LEMMA OutcomeStays ==
  ASSUME EngineInv, ServerMovesOn, UNCHANGED <<bet, lastBetId, verification>>
  PROVE  OutcomeOk'
<1>1. verification.state = "unrevealed" => verification.row.seed \in Nat
  BY DEF EngineInv, OutcomeOk, Row
<1> QED BY <1>1 DEF EngineInv, OutcomeOk, ServerMovesOn, ServerOk

LEMMA ServerStays ==
  ASSUME EngineInv, UNCHANGED <<bets, active, erased, funds>>
  PROVE  ServerMovesOn
BY DEF EngineInv, ServerMovesOn, ServerOk

LEMMA EngineStays ==
  ASSUME EngineInv, UNCHANGED <<on, bets, active, erased, funds, runs, consoleShown>>,
         UNCHANGED <<bet, lastBetId, verification>>, lastId' \in Nat
  PROVE  EngineInv'
BY ServerStays, RunsStay, ShownStays, OutcomeStays
DEF EngineInv, ServerMovesOn

LEMMA EngineInit ==
  ASSUME Init
  PROVE  EngineInv
<1>1. PICK e \in DOMAIN Engines :
        Engine(e)!Init /\ (on \in DOMAIN Engines => on = e)
  BY PartsInit
<1>2. <<>> \in Seq(Row) /\ DOMAIN <<>> = {} OBVIOUS
<1>3. ServerOk BY <1>1, <1>2 DEF Engine!Init, ServerOk
<1>4. RunsOk
  <2>1. runs \in [Engines[e].Slot -> {[name |-> "none"]}]
    BY <1>1 DEF Engine!Init, Engine!Idle
  <2>2. \A s \in DOMAIN runs : runs[s] \in Run /\ runs[s].name = "none"
    BY <2>1 DEF Run
  <2>3. runs \in [DOMAIN runs -> Run] BY <2>1, <2>2
  <2>4. \A s \in DOMAIN runs : RunOk(runs[s], bets, active, erased)
    BY <2>2 DEF RunOk
  <2> QED BY <1>1, <2>1, <2>3, <2>4 DEF RunsOk
<1>5. ShownOk BY <1>1 DEF Engine!Init, ShownOk, Engine!NoRow, Engine!NoBalance, Row
<1>6. OutcomeOk
  BY <1>1
  DEF Engine!Init, OutcomeOk, Engine!NoBet, Engine!NoVerification
<1> QED BY <1>3, <1>4, <1>5, <1>6 DEF EngineInv

(* A step of this console that the server has no part in.                  *)
LEMMA ClientSteps ==
  ASSUME EngineInv, UNCHANGED <<on, bets, active, erased, funds>>,
         NEW s \in DOMAIN runs, NEW run \in Run,
         RunOk(run, bets, active, erased),
         runs' = [runs EXCEPT ![s] = run],
         ShownOk', OutcomeOk'
  PROVE  EngineInv'
<1>1. RunOk(run, bets', active', erased') OBVIOUS
<1> QED
  BY <1>1, ServerStays, RunSteps DEF EngineInv, ServerMovesOn

LEMMA ClientKeeps ==
  ASSUME EngineInv, UNCHANGED <<on, bets, active, erased, funds>>,
         UNCHANGED <<consoleShown, bet, lastBetId, verification>>,
         lastId' \in Nat
  PROVE  ShownOk' /\ OutcomeOk'
BY ServerStays, ShownStays, OutcomeStays

(* A run begins, with nothing known yet but what was shown.                *)
LEMMA ClickStep ==
  ASSUME EngineInv, NEW e \in DOMAIN Engines, on = e, UNCHANGED on,
         NEW s \in DOMAIN runs, Engine(e)!Click(s)
  PROVE  EngineInv'
<1> USE DEF Engine!server, Engine!outcome, Engine!page, Engine!bounds
<1>0. /\ lastId \in Nat /\ lastBetId \in Nat
      /\ lastBetId # 0 => Placed(lastBetId, bets) \/ erased > 0
      /\ consoleShown.row \in Row /\ consoleShown.row.seed <= active
      /\ consoleShown.seed \in Nat
  BY DEF EngineInv, ShownOk, OutcomeOk
<1>1. ASSUME NEW run \in Run, Engine(e)!Start(s, run),
             RunOk(run, bets, active, erased),
             UNCHANGED <<bets, active, erased, funds>>,
             UNCHANGED <<consoleShown, bet, lastBetId, verification>>,
             lastId' \in Nat
      PROVE  EngineInv'
  BY <1>1, ClientKeeps, ClientSteps DEF Engine!Start
<1>2. ASSUME NEW id \in Nat, NEW seed \in Nat,
             NEW how \in {"card", "limit", "spend", "replay"},
             how = "card" => seed = consoleShown.seed,
             how = "replay" => Placed(id, bets) \/ erased > 0
      PROVE  /\ Engine(e)!BetRun(id, seed, how) \in Run
             /\ RunOk(Engine(e)!BetRun(id, seed, how), bets, active, erased)
  <2> DEFINE run == Engine(e)!BetRun(id, seed, how)
  <2>1. /\ run \in BetRuns /\ run.name = "bet" /\ run.at = "sent"
        /\ run.on # 0 => run.on = run.seed
        /\ run.id = id /\ run.how = how
    BY <1>0, <1>2 DEF Engine!BetRun, BetRuns, Row, Engine!NoRow
  <2> HIDE DEF run
  <2> QED BY <1>2, <2>1 DEF Run, RunOk, run
<1>3. CASE Engine(e)!ClickBet(s)
  BY <1>0, <1>1, <1>2, <1>3 DEF Engine!ClickBet, Engine!NewId
<1>4. CASE Engine(e)!ClickRule(s)
  BY <1>0, <1>1, <1>2, <1>4 DEF Engine!ClickRule, Engine!NewId
<1>5. CASE Engine(e)!ClickReplay(s)
  BY <1>0, <1>1, <1>2, <1>5 DEF Engine!ClickReplay
<1>6. CASE Engine(e)!ClickFairness(s)
  <2> DEFINE run == [name |-> "fairness", at |-> "rotate",
                     row |-> consoleShown.row, seed |-> 0]
  <2>1. run \in FairRuns /\ RunOk(run, bets, active, erased)
    BY <1>0 DEF FairRuns, RunOk
  <2>2. /\ Engine(e)!Start(s, run)
        /\ UNCHANGED <<bets, active, erased, funds>>
        /\ UNCHANGED <<consoleShown, bet, lastBetId, verification, lastId>>
    BY <1>6 DEF Engine!ClickFairness
  <2> HIDE DEF run
  <2> QED BY <1>0, <1>1, <2>1, <2>2 DEF Run
<1>7. CASE Engine(e)!ClickOther(s)
  <2>1. PICK name \in {"deposit", "reset"} :
          Engine(e)!Start(s, [name |-> name, at |-> "sent"])
    BY <1>7 DEF Engine!ClickOther
  <2> DEFINE run == [name |-> name, at |-> "sent"]
  <2>2. run \in OtherRuns /\ RunOk(run, bets, active, erased)
    BY DEF OtherRuns, RunOk
  <2>3. /\ UNCHANGED <<bets, active, erased, funds>>
        /\ UNCHANGED <<consoleShown, bet, lastBetId, verification, lastId>>
    BY <1>7 DEF Engine!ClickOther
  <2> HIDE DEF run
  <2> QED BY <1>0, <1>1, <2>1, <2>2, <2>3 DEF Run, run
<1> QED BY <1>3, <1>4, <1>5, <1>6, <1>7 DEF Engine!Click

(* A record of each kind, as it goes on.                                   *)
LEMMA FairMoves ==
  ASSUME NEW run \in FairRuns,
         NEW there \in {"rotate", "rotated", "list", "done", "unrevealed"}
  PROVE  /\ [run EXCEPT !.at = there] \in FairRuns
         /\ [run EXCEPT !.at = there].name = "fairness"
         /\ [run EXCEPT !.at = there].at = there
         /\ [run EXCEPT !.at = there].row = run.row
BY DEF FairRuns

LEMMA KindOfRun ==
  ASSUME NEW run \in Run
  PROVE  /\ run.name = "bet" => run \in BetRuns
         /\ run.name = "fairness" => run \in FairRuns
         /\ run.name \in {"deposit", "reset"} => run \in OtherRuns
BY DEF Run, BetRuns, FairRuns, OtherRuns

(* A run ends.                                                             *)
LEMMA EndsStep ==
  ASSUME EngineInv, NEW e \in DOMAIN Engines,
         UNCHANGED <<on, bets, active, erased, funds>>,
         NEW s \in DOMAIN runs, Engine(e)!End(s), ShownOk', OutcomeOk'
  PROVE  EngineInv'
<1> DEFINE run == [name |-> "none"]
<1>1. run \in Run /\ RunOk(run, bets, active, erased) BY DEF Run, RunOk
<1>2. runs' = [runs EXCEPT ![s] = run] BY DEF Engine!End, Engine!Idle
<1> HIDE DEF run
<1> QED BY <1>1, <1>2, ClientSteps

(* An answer arrives.                                                      *)
LEMMA AnswerStep ==
  ASSUME EngineInv, NEW e \in DOMAIN Engines, on = e, UNCHANGED on,
         NEW s \in DOMAIN runs, Engine(e)!Answer(s)
  PROVE  EngineInv'
<1> USE DEF Engine!server, Engine!outcome, Engine!page
<1>0. /\ runs[s] \in Run /\ RunOk(runs[s], bets, active, erased)
      /\ lastId \in Nat
  BY DEF EngineInv, RunsOk, ShownOk
<1>1. CASE Engine(e)!BetPlaced(s)
  <2>1. /\ UNCHANGED <<bets, active, erased, funds, consoleShown, lastId>>
        /\ runs[s].name = "bet" /\ runs[s].at = "placed"
        /\ bet' = [row |-> runs[s].row, on |-> runs[s].on]
        /\ verification'.state = "none"
        /\ lastBetId' = lastBetId \/ lastBetId' = runs[s].id
        /\ Engine(e)!End(s)
    BY <1>1 DEF Engine!BetPlaced, Engine!NoVerification
  <2>2. runs[s].id \in Nat BY <1>0, <2>1, KindOfRun DEF BetRuns
  <2>3. ShownOk' BY <2>1 DEF EngineInv, ShownOk
  <2>4. OutcomeOk'
    BY <1>0, <2>1, <2>2 DEF EngineInv, OutcomeOk, RunOk
  <2> QED BY <2>1, <2>3, <2>4, EndsStep
<1>2. CASE Engine(e)!BetRefused(s) \/ Engine(e)!Deposited(s)
  <2>1. /\ UNCHANGED <<bets, active, erased, funds, consoleShown, lastId>>
        /\ UNCHANGED <<bet, lastBetId, verification>>
        /\ Engine(e)!End(s)
    BY <1>2 DEF Engine!BetRefused, Engine!Deposited
  <2> QED BY <1>0, <2>1, ClientKeeps, EndsStep
<1>3. CASE Engine(e)!SeedRevealed(s)
  <2> DEFINE run == [runs[s] EXCEPT !.at = "list"]
  <2>1. /\ UNCHANGED <<bets, active, erased, funds, consoleShown, lastId>>
        /\ UNCHANGED <<bet, lastBetId, verification>>
        /\ runs[s].name = "fairness" /\ runs[s].at = "rotated"
        /\ runs' = [runs EXCEPT ![s] = run]
    BY <1>3 DEF Engine!SeedRevealed, Engine!Step
  <2>2. /\ run \in FairRuns /\ run.name = "fairness" /\ run.at = "list"
        /\ run.row = runs[s].row
    BY <1>0, <2>1, KindOfRun, FairMoves
  <2> HIDE DEF run
  <2>3. run \in Run /\ RunOk(run, bets, active, erased)
    BY <1>0, <2>1, <2>2 DEF Run, RunOk
  <2> QED BY <1>0, <2>1, <2>3, ClientKeeps, ClientSteps
<1>4. CASE Engine(e)!Verified(s)
  <2>1. /\ UNCHANGED <<bets, active, erased, funds, consoleShown, lastId>>
        /\ UNCHANGED <<bet, lastBetId>>
        /\ runs[s].name = "fairness"
        /\ verification' = [row |-> runs[s].row, state |-> runs[s].at]
        /\ Engine(e)!End(s)
    BY <1>4 DEF Engine!Verified
  <2>2. runs[s].row \in Row BY <1>0, <2>1, KindOfRun DEF FairRuns
  <2>3. ShownOk' BY <2>1 DEF EngineInv, ShownOk
  <2>4. OutcomeOk'
    BY <1>0, <2>1, <2>2 DEF EngineInv, OutcomeOk, RunOk
  <2> QED BY <2>1, <2>3, <2>4, EndsStep
<1>5. CASE Engine(e)!WasReset(s)
  <2>1. /\ UNCHANGED <<bets, active, erased, funds, consoleShown, lastId>>
        /\ bet'.on = 0 /\ lastBetId' = 0 /\ verification'.state = "none"
        /\ Engine(e)!End(s)
    BY <1>5 DEF Engine!WasReset, Engine!NoBet, Engine!NoVerification
  <2>2. ShownOk' BY <2>1 DEF EngineInv, ShownOk
  <2>3. OutcomeOk' BY <2>1 DEF OutcomeOk
  <2> QED BY <2>1, <2>2, <2>3, EndsStep
<1> QED BY <1>1, <1>2, <1>3, <1>4, <1>5 DEF Engine!Answer

LEMMA LoseRunStep ==
  ASSUME EngineInv, NEW e \in DOMAIN Engines, on = e, UNCHANGED on,
         NEW s \in DOMAIN runs, Engine(e)!Lose(s)
  PROVE  EngineInv'
<1>1. /\ UNCHANGED <<bets, active, erased, funds, consoleShown, lastId>>
      /\ UNCHANGED <<bet, lastBetId, verification>>
      /\ Engine(e)!End(s)
  BY DEF Engine!Lose, Engine!server, Engine!outcome, Engine!page
<1>2. lastId \in Nat BY DEF EngineInv, ShownOk
<1> QED BY <1>1, <1>2, ClientKeeps, EndsStep

(* What is reloaded is what the server has: its newest bet is bound to a   *)
(* seed it has had.                                                        *)
LEMMA ReloadStep ==
  ASSUME EngineInv, NEW e \in DOMAIN Engines, UNCHANGED on,
         NEW what, Engine(e)!Reload(what)
  PROVE  EngineInv'
<1>1. /\ UNCHANGED <<bets, active, erased, funds, runs, lastId>>
      /\ UNCHANGED <<bet, lastBetId, verification>>
  BY DEF Engine!Reload, Engine!server, Engine!outcome
<1>2. ServerMovesOn /\ ServerOk' /\ RunsOk' /\ OutcomeOk'
  BY <1>1, ServerStays, RunsStay, OutcomeStays DEF ServerMovesOn
<1>3. Engine(e)!Newest \in Row /\ Engine(e)!Newest.seed <= active
  <2>1. /\ bets \in Seq(Row) /\ active \in Nat
        /\ \A n \in DOMAIN bets : bets[n].seed <= active
    BY DEF EngineInv, ServerOk
  <2>2. CASE bets = <<>>
    BY <2>1, <2>2 DEF Engine!Newest, Engine!NoRow, Row
  <2>3. CASE bets # <<>>
    <3>1. Len(bets) \in DOMAIN bets /\ bets[Len(bets)] \in Row
      BY <2>1, <2>3
    <3> QED BY <2>1, <2>3, <3>1 DEF Engine!Newest
  <2> QED BY <2>2, <2>3
<1>4. ShownOk'
  <2>1. /\ consoleShown \in [row : Row, seed : Nat, me : Int]
        /\ consoleShown.row.seed <= active
        /\ lastId \in Nat /\ active \in Nat /\ funds \in Int
    BY DEF EngineInv, ShownOk, ServerOk
  <2>2. consoleShown' = [consoleShown EXCEPT
          !.row  = IF what = "bets" THEN Engine(e)!Newest ELSE @,
          !.seed = IF what = "seed" THEN active ELSE @,
          !.me   = IF what = "me" THEN funds ELSE @]
    BY DEF Engine!Reload
  <2> QED BY <1>1, <1>3, <2>1, <2>2 DEF ShownOk
<1> QED BY <1>2, <1>4 DEF EngineInv

LEMMA RestartStep ==
  ASSUME EngineInv, NEW e \in DOMAIN Engines, UNCHANGED on,
         Engine(e)!Restart
  PROVE  EngineInv'
<1>1. /\ UNCHANGED <<bets, active, erased, funds, runs, consoleShown, lastId>>
      /\ bet'.on = 0 /\ lastBetId' = lastBetId
      /\ verification'.state = "none"
  BY DEF Engine!Restart, Engine!server, Engine!outcome, Engine!page,
         Engine!NoBet, Engine!NoVerification
<1>2. ServerMovesOn /\ ServerOk' /\ RunsOk'
  BY <1>1, ServerStays, RunsStay DEF ServerMovesOn
<1>3. ShownOk' BY <1>1 DEF EngineInv, ShownOk
<1>4. OutcomeOk' BY <1>1 DEF EngineInv, OutcomeOk
<1> QED BY <1>2, <1>3, <1>4 DEF EngineInv

(* The server moves on: a bet is added, the seed rotates, all is erased.   *)
LEMMA BetAdded ==
  ASSUME ServerOk, NEW id \in Nat,
         bets' = Append(bets, [id |-> id, seed |-> active]),
         UNCHANGED <<active, erased>>, funds' \in Int
  PROVE  ServerMovesOn /\ Placed(id, bets')
<1> DEFINE row == [id |-> id, seed |-> active]
<1>1. /\ bets \in Seq(Row) /\ row \in Row /\ active \in Nat /\ erased \in Nat
      /\ erased < active
      /\ \A n \in DOMAIN bets : bets[n].seed <= active
  BY DEF ServerOk, Row
<1>2. row.id = id /\ row.seed = active OBVIOUS
<1> HIDE DEF row
<1>3. /\ bets' \in Seq(Row) /\ Len(bets') = Len(bets) + 1
      /\ \A n \in 1 .. Len(bets) : bets'[n] = bets[n]
      /\ bets'[Len(bets) + 1] = row
      /\ Len(bets) \in Nat
      /\ DOMAIN bets = 1 .. Len(bets) /\ DOMAIN bets' = 1 .. Len(bets')
  <2>1. bets' = Append(bets, row) BY DEF row
  <2> QED BY <1>1, <2>1, AppendProperties, LenProperties
<1>4. \A n \in DOMAIN bets' : bets'[n].seed <= active
  BY <1>1, <1>2, <1>3
<1>5. ServerOk' BY <1>1, <1>3, <1>4 DEF ServerOk
<1>6. \A i : Placed(i, bets) => Placed(i, bets')
  BY <1>3 DEF Placed
<1>7. Placed(id, bets')
  <2>1. Len(bets) + 1 \in DOMAIN bets' BY <1>3
  <2> QED BY <1>2, <1>3, <2>1 DEF Placed
<1> QED BY <1>1, <1>5, <1>6, <1>7 DEF ServerMovesOn

LEMMA SeedRotated ==
  ASSUME ServerOk, active' = active + 1, UNCHANGED <<bets, erased, funds>>
  PROVE  ServerMovesOn
<1>1. \A n \in DOMAIN bets : bets[n] \in Row BY DEF ServerOk
<1>2. \A n \in DOMAIN bets : bets[n].seed \in Nat BY <1>1 DEF Row
<1> QED BY <1>2 DEF ServerOk, ServerMovesOn

LEMMA AllErased ==
  ASSUME ServerOk, bets' = <<>>, funds' = 0, erased' = active,
         active' = active + 1
  PROVE  ServerMovesOn /\ erased' > 0
<1>1. <<>> \in Seq(Row) /\ DOMAIN <<>> = {} OBVIOUS
<1> QED BY <1>1 DEF ServerOk, ServerMovesOn

LEMMA FundsAdded ==
  ASSUME ServerOk, UNCHANGED <<bets, active, erased>>, funds' \in Int
  PROVE  ServerMovesOn
BY DEF ServerOk, ServerMovesOn

(* A request that is served moves its run and the server.                  *)
LEMMA ServedMoves ==
  ASSUME EngineInv, ServerMovesOn, UNCHANGED on, NEW s \in DOMAIN runs,
         NEW run \in Run, RunOk(run, bets', active', erased'),
         runs' = [runs EXCEPT ![s] = run],
         UNCHANGED <<consoleShown, bet, lastBetId, verification, lastId>>
  PROVE  EngineInv'
<1>1. lastId \in Nat BY DEF EngineInv, ShownOk
<1> QED
  BY <1>1, RunSteps, ShownStays, OutcomeStays DEF EngineInv, ServerMovesOn

LEMMA ServeStep ==
  ASSUME EngineInv, NEW e \in DOMAIN Engines, on = e, UNCHANGED on,
         NEW s \in DOMAIN runs, Engine(e)!Serve(s)
  PROVE  EngineInv'
<1> USE DEF Engine!server, Engine!outcome, Engine!page
<1>0. /\ runs[s] \in Run /\ RunOk(runs[s], bets, active, erased)
      /\ ServerOk /\ active \in Nat /\ erased \in Nat /\ funds \in Int
      /\ erased < active
  BY DEF EngineInv, RunsOk, ServerOk
<1>1. CASE Engine(e)!ServeBet(s)
  <2>1. /\ runs[s].name = "bet" /\ runs[s].at = "sent"
        /\ UNCHANGED <<active, erased>>
        /\ UNCHANGED <<consoleShown, bet, lastBetId, verification, lastId>>
    BY <1>1 DEF Engine!ServeBet
  <2>2. runs[s] \in BetRuns BY <1>0, <2>1, KindOfRun
  <2>3. CASE Engine(e)!Accepts(runs[s])
    <3> DEFINE row == [id |-> runs[s].id, seed |-> active]
               run == [runs[s] EXCEPT !.at = "placed", !.row = row]
    <3>1. /\ bets' = Append(bets, row)
          /\ funds' \in Int
          /\ runs' = [runs EXCEPT ![s] = run]
      BY <1>0, <1>1, <2>3 DEF Engine!ServeBet, Engine!Step
    <3>2. runs[s].id \in Nat BY <2>2 DEF BetRuns
    <3>3. ServerMovesOn /\ Placed(runs[s].id, bets')
      BY <1>0, <2>1, <3>1, <3>2, BetAdded
    <3>4. row \in Row /\ row.seed = active BY <1>0, <3>2 DEF Row
    <3> HIDE DEF row
    <3>5. /\ run \in BetRuns /\ run.name = "bet" /\ run.at = "placed"
          /\ run.row.seed = active /\ run.id = runs[s].id
          /\ run.on = runs[s].on /\ run.seed = runs[s].seed
      BY <2>2, <3>4 DEF BetRuns
    <3>6. runs[s].seed \in {0, active} BY <2>3 DEF Engine!Accepts
    <3> HIDE DEF run
    <3>7. RunOk(run, bets', active', erased')
      BY <1>0, <2>1, <3>3, <3>5, <3>6 DEF RunOk
    <3> QED BY <2>1, <3>1, <3>3, <3>5, <3>7, ServedMoves DEF Run
  <2>4. CASE ~Engine(e)!Accepts(runs[s])
    <3> DEFINE run == [runs[s] EXCEPT !.at = "refused"]
    <3>1. UNCHANGED <<bets, funds>> /\ runs' = [runs EXCEPT ![s] = run]
      BY <1>1, <2>4 DEF Engine!ServeBet, Engine!Step
    <3>2. /\ run \in BetRuns /\ run.name = "bet" /\ run.at = "refused"
          /\ run.id = runs[s].id /\ run.how = runs[s].how
          /\ run.on = runs[s].on /\ run.seed = runs[s].seed
      BY <2>2 DEF BetRuns
    <3> HIDE DEF run
    <3>3. RunOk(run, bets', active', erased')
      BY <1>0, <2>1, <3>1, <3>2 DEF RunOk
    <3>4. ServerMovesOn BY <2>1, <3>1, ServerStays
    <3> QED BY <2>1, <3>1, <3>2, <3>3, <3>4, ServedMoves DEF Run
  <2> QED BY <2>3, <2>4
<1>2. CASE Engine(e)!ServeRotate(s)
  <2> DEFINE run == [runs[s] EXCEPT !.at = "rotated", !.seed = active]
  <2>1. /\ runs[s].name = "fairness"
        /\ active' = active + 1 /\ UNCHANGED <<bets, erased, funds>>
        /\ UNCHANGED <<consoleShown, bet, lastBetId, verification, lastId>>
        /\ runs' = [runs EXCEPT ![s] = run]
    BY <1>2 DEF Engine!ServeRotate, Engine!Rotate, Engine!Step
  <2>2. runs[s] \in FairRuns BY <1>0, <2>1, KindOfRun
  <2>3. /\ run \in FairRuns /\ run.name = "fairness" /\ run.at = "rotated"
        /\ run.row = runs[s].row /\ run.row.seed \in Nat
    BY <1>0, <2>2 DEF FairRuns, Row
  <2> HIDE DEF run
  <2>4. RunOk(run, bets', active', erased')
    BY <1>0, <2>1, <2>3 DEF RunOk
  <2>5. ServerMovesOn BY <1>0, <2>1, SeedRotated
  <2> QED BY <2>1, <2>3, <2>4, <2>5, ServedMoves DEF Run
<1>3. CASE Engine(e)!ServeSeeds(s)
  <2> DEFINE there == IF runs[s].row.seed \in Engine(e)!Revealed
                      THEN "done" ELSE "unrevealed"
             run == [runs[s] EXCEPT !.at = there]
  <2>1. /\ runs[s].name = "fairness" /\ runs[s].at = "list"
        /\ UNCHANGED <<bets, active, erased, funds>>
        /\ UNCHANGED <<consoleShown, bet, lastBetId, verification, lastId>>
        /\ runs' = [runs EXCEPT ![s] = run]
    BY <1>3 DEF Engine!ServeSeeds, Engine!Listable, Engine!Step
  <2>2. runs[s] \in FairRuns /\ runs[s].row.seed \in Nat
    BY <1>0, <2>1, KindOfRun DEF FairRuns, Row
  <2>3. runs[s].row.seed < active BY <1>0, <2>1 DEF RunOk
  <2>4. there = "unrevealed" => runs[s].row.seed <= erased
    BY <1>0, <2>2, <2>3 DEF Engine!Revealed
  <2>5. there \in {"rotate", "rotated", "list", "done", "unrevealed"}
    OBVIOUS
  <2> HIDE DEF there
  <2>6. /\ run \in FairRuns /\ run.name = "fairness" /\ run.at = there
        /\ run.row = runs[s].row
    BY <2>2, <2>5, FairMoves
  <2> HIDE DEF run
  <2>7. RunOk(run, bets', active', erased')
    BY <1>0, <2>1, <2>2, <2>3, <2>4, <2>6 DEF RunOk
  <2>8. ServerMovesOn BY <2>1, ServerStays
  <2> QED BY <2>1, <2>6, <2>7, <2>8, ServedMoves DEF Run
<1>4. CASE Engine(e)!ServeOther(s)
  <2> DEFINE run == [runs[s] EXCEPT !.at = "served"]
  <2>1. /\ runs[s].name \in {"deposit", "reset"}
        /\ Engine(e)!EraseAll \/ Engine(e)!Deposit
        /\ UNCHANGED <<consoleShown, bet, lastBetId, verification, lastId>>
        /\ runs' = [runs EXCEPT ![s] = run]
    BY <1>4 DEF Engine!ServeOther, Engine!Step
  <2>2. run \in OtherRuns /\ run.name \in {"deposit", "reset"}
    <3>1. runs[s] \in OtherRuns BY <1>0, <2>1, KindOfRun
    <3> QED BY <3>1 DEF OtherRuns
  <2> HIDE DEF run
  <2>3. RunOk(run, bets', active', erased') BY <2>2 DEF RunOk
  <2>4. ServerMovesOn
    BY <1>0, <2>1, AllErased, FundsAdded
    DEF Engine!EraseAll, Engine!Deposit
  <2> QED BY <2>1, <2>2, <2>3, <2>4, ServedMoves DEF Run
<1> QED BY <1>1, <1>2, <1>3, <1>4 DEF Engine!Serve

(* Another tab moves the server.                                           *)
LEMMA ElsewhereStep ==
  ASSUME EngineInv, NEW e \in DOMAIN Engines, UNCHANGED on,
         Engine(e)!Elsewhere
  PROVE  EngineInv'
<1>0. /\ ServerOk /\ funds \in Int /\ lastId \in Nat
      /\ UNCHANGED <<runs, consoleShown, bet, lastBetId, verification>>
  BY DEF EngineInv, ServerOk, ShownOk, Engine!Elsewhere, Engine!outcome,
         Engine!page
<1>1. ServerMovesOn /\ lastId' \in Nat
  <2>1. CASE Engine(e)!Deposit /\ UNCHANGED lastId
    BY <1>0, <2>1, FundsAdded DEF Engine!Deposit
  <2>2. CASE Engine(e)!Rotate /\ UNCHANGED <<bets, erased, funds, lastId>>
    BY <1>0, <2>2, SeedRotated DEF Engine!Rotate
  <2>3. CASE Engine(e)!EraseAll /\ UNCHANGED lastId
    BY <1>0, <2>3, AllErased DEF Engine!EraseAll
  <2>4. CASE /\ Engine(e)!NewId
             /\ bets' = Append(bets, [id |-> lastId', seed |-> active])
             /\ funds' = funds - 1
             /\ UNCHANGED <<active, erased>>
    <3>1. lastId' \in Nat BY <1>0, <2>4 DEF Engine!NewId
    <3> QED BY <1>0, <2>4, <3>1, BetAdded
  <2> QED BY <2>1, <2>2, <2>3, <2>4 DEF Engine!Elsewhere
<1> QED
  BY <1>0, <1>1, RunsStay, ShownStays, OutcomeStays
  DEF EngineInv, ServerMovesOn

LEMMA EngineStep ==
  ASSUME EngineInv, UNCHANGED on,
         \/ UNCHANGED console
         \/ \E e \in DOMAIN Engines : on = e /\ Engine(e)!Next
  PROVE  EngineInv'
<1>1. CASE UNCHANGED console
  <2>1. lastId \in Nat BY DEF EngineInv, ShownOk
  <2> QED BY <1>1, <2>1, EngineStays DEF console
<1>2. ASSUME NEW e \in DOMAIN Engines, on = e, Engine(e)!Next
      PROVE  EngineInv'
  <2>1. DOMAIN runs = Engines[e].Slot BY <1>2 DEF EngineInv, RunsOk
  <2>2. \/ \E s \in DOMAIN runs : \/ Engine(e)!Click(s) \/ Engine(e)!Serve(s)
                                  \/ Engine(e)!Answer(s) \/ Engine(e)!Lose(s)
        \/ \E what : Engine(e)!Reload(what)
        \/ Engine(e)!Restart
        \/ Engine(e)!Elsewhere
    BY <1>2, <2>1 DEF Engine!Next
  <2> QED
    BY <1>2, <2>2, ClickStep, ServeStep, AnswerStep, LoseRunStep, ReloadStep,
       RestartStep, ElsewhereStep
<1> QED BY <1>1, <1>2

(* The bet shown as settled was settled under the commitment shown when    *)
(* it was placed, whoever rotated since and however many runs overlap      *)
(* (BetCard.tsx:181-186).                                                  *)
THEOREM CommitmentsShownAreUsed == Spec => []CommitmentShownIsUsed
<1>1. Init => EngineInv BY EngineInit
<1>2. EngineInv /\ [Next]_vars => EngineInv'
  BY PartsStep, EngineStep
<1>3. EngineInv => CommitmentShownIsUsed
  BY DEF EngineInv, OutcomeOk, CommitmentShownIsUsed,
         Engine!CommitmentShownIsUsed
<1> QED BY <1>1, <1>2, <1>3, PTL DEF Spec

(* Reveal & verify ends without a verdict only for a bet whose seed a      *)
(* reset has deleted (useEngine.ts:160-181, journey.ts:50-54).             *)
THEOREM ChecksAreConclusive == Spec => []CheckIsConclusive
<1>1. Init => EngineInv BY EngineInit
<1>2. EngineInv /\ [Next]_vars => EngineInv'
  BY PartsStep, EngineStep
<1>3. EngineInv => CheckIsConclusive
  BY DEF EngineInv, OutcomeOk, CheckIsConclusive, Engine!CheckIsConclusive
<1> QED BY <1>1, <1>2, <1>3, PTL DEF Spec

(* Bets change only by a run that is served, or elsewhere.                 *)
LEMMA WhoMovesBets ==
  ASSUME EngineInv, NEW e \in DOMAIN Engines, on = e,
         Engine(e)!Next, bets' # bets, runs' # runs
  PROVE  \E s \in DOMAIN runs : Engine(e)!ServeBet(s) \/ Engine(e)!ServeOther(s)
<1>1. DOMAIN runs = Engines[e].Slot BY DEF EngineInv, RunsOk
<1> USE DEF Engine!server
<1>2. ASSUME NEW s, Engine(e)!Click(s) PROVE FALSE
  BY <1>2 DEF Engine!Click, Engine!ClickBet, Engine!ClickRule,
              Engine!ClickReplay, Engine!ClickFairness, Engine!ClickOther
<1>3. ASSUME NEW s, Engine(e)!Answer(s) PROVE FALSE
  BY <1>3 DEF Engine!Answer, Engine!BetPlaced, Engine!BetRefused,
              Engine!SeedRevealed, Engine!Verified, Engine!Deposited,
              Engine!WasReset
<1>4. ASSUME NEW s, Engine(e)!ServeRotate(s) \/ Engine(e)!ServeSeeds(s)
      PROVE  FALSE
  BY <1>4 DEF Engine!ServeRotate, Engine!ServeSeeds
<1>5. ASSUME NEW s, Engine(e)!Lose(s) PROVE FALSE
  BY <1>5 DEF Engine!Lose
<1>6. /\ \A what : ~Engine(e)!Reload(what)
      /\ ~Engine(e)!Restart /\ ~Engine(e)!Elsewhere
  BY DEF Engine!Reload, Engine!Restart, Engine!Elsewhere
<1> QED
  BY <1>1, <1>2, <1>3, <1>4, <1>5, <1>6 DEF Engine!Next, Engine!Serve

LEMMA ReplayFree ==
  ASSUME EngineInv, NEW e \in DOMAIN Engines, on = e,
         UNCHANGED console \/ Engine(e)!Next
  PROVE  Engine(e)!ReplayIsFree
<1>1. /\ DOMAIN runs = Engines[e].Slot
      /\ \A s \in DOMAIN runs :
           runs[s] \in Run /\ RunOk(runs[s], bets, active, erased)
      /\ DOMAIN bets = 1 .. Len(bets)
  BY LenProperties DEF EngineInv, RunsOk, ServerOk
<1> SUFFICES ASSUME NEW s \in DOMAIN runs,
                    runs[s].name = "bet", runs[s].how = "replay",
                    bets' # bets, runs[s] # runs'[s]
             PROVE  erased > 0
  BY <1>1 DEF Engine!ReplayIsFree
<1>2. PICK t \in DOMAIN runs :
        Engine(e)!ServeBet(t) \/ Engine(e)!ServeOther(t)
  BY WhoMovesBets DEF console
<1>3. t = s
  <2>1. \E run : runs' = [runs EXCEPT ![t] = run]
    BY <1>2 DEF Engine!ServeBet, Engine!ServeOther, Engine!Step
  <2> QED BY <2>1 DEF EngineInv, RunsOk
<1>4. Engine(e)!ServeBet(s)
  BY <1>2, <1>3 DEF Engine!ServeOther
<1>5. Engine(e)!Accepts(runs[s]) BY <1>4 DEF Engine!ServeBet
<1>6. ~Placed(runs[s].id, bets)
  BY <1>1, <1>5 DEF Engine!Accepts, Engine!Known, Placed
<1> QED BY <1>1, <1>6 DEF RunOk

(* A replay moves no money unless a reset has erased the bet it repeats    *)
(* (useEngine.ts:107-135).                                                 *)
THEOREM ReplaysMoveNothing == Spec => ReplayMovesNothing
<1>1. Init => EngineInv BY EngineInit
<1>2. EngineInv /\ [Next]_vars => EngineInv'
  BY PartsStep, EngineStep
<1>3. EngineInv /\ [Next]_vars =>
        [\A e \in DOMAIN Engines : on = e => Engine(e)!ReplayIsFree]_vars
  BY PartsStep, ReplayFree
<1> QED BY <1>1, <1>2, <1>3, PTL DEF Spec, ReplayMovesNothing

-----------------------------------------------------------------------------
(* Resources.  What the console of an instance loads, and of which types.  *)
Loaded(l) == Loads[l].Resource \cup Loads[l].Account

Showing == [data : Int, loading : BOOLEAN, error : BOOLEAN, latest : Nat]

LoadTyped(l) ==
  /\ stamp \in [Load(l)!Table -> Nat] /\ app \in Nat
  /\ shown \in [Loads[l].Resource -> Showing]
  /\ asked \subseteq [app : Nat, of : Loaded(l), id : Nat, value : Int]
  /\ acts \subseteq [app : Nat, what : Loads[l].Act, at : Nat]
  /\ told \in [Loaded(l) -> Int]

(* The database has got as far as change n, for those who read r.          *)
Reached(l, r, n) == \E t \in Load(l)!Reads(r) : n <= stamp[t]

(* Nobody has seen, or been told of, what the database has not reached.    *)
NothingAhead(l) ==
  /\ \A r \in Loaded(l) : Reached(l, r, told[r])
  /\ \A r \in Loads[l].Resource : Reached(l, r, shown[r].data)
  /\ \A q \in asked : Reached(l, q.of, q.value)
  /\ \A a \in acts : \A t \in Load(l)!Writes(a.what) : a.at <= stamp[t]

(* The requests of this page for a resource.                               *)
OfThisPage(l, q) == q.app = app /\ q.of \in Loads[l].Resource

(* At most one request has the number that is awaited, and its answer is   *)
(* no older than what is shown and than what this tab was told of.         *)
InOrder(l) ==
  /\ \A q \in asked : q.app <= app
  /\ \A q \in asked : OfThisPage(l, q) => q.id <= shown[q.of].latest
  /\ \A p, q \in asked :
       OfThisPage(l, p) /\ OfThisPage(l, q) /\ p.of = q.of /\ p.id = q.id
         => p = q
  /\ \A q \in asked :
       OfThisPage(l, q) /\ q.id = shown[q.of].latest /\ q.value # -1 =>
         q.value >= told[q.of] /\ q.value >= shown[q.of].data

SettledIsFresh(l) ==
  \A r \in Loads[l].Resource :
    ~shown[r].loading /\ ~shown[r].error => shown[r].data >= told[r]

LoadInv(l) ==
  LoadTyped(l) /\ NothingAhead(l) /\ InOrder(l) /\ SettledIsFresh(l)

(* The names, and what they read and write.                                *)
LEMMA Names ==
  ASSUME NEW l \in DOMAIN Loads
  PROVE  /\ Loads[l].Resource \subseteq
              {"accounts", "entries", "invariants", "bets", "commitment",
               "revealed", "affiliate"}
         /\ Loads[l].Account \subseteq {"me"}
         /\ Loads[l].Act \subseteq {"deposit", "bet", "seed", "reset"}
         /\ Loads[l].Foreign \subseteq {"deposit", "bet", "seed", "reset"}
         /\ Loads[l].Effects \in {1, 2}
BY Instances DEF Load!ResourcesAssumption

LEMMA ReadsSome ==
  ASSUME NEW l \in DOMAIN Loads, NEW r \in Loaded(l)
  PROVE  Load(l)!Reads(r) \in {{"postings"}, {"commissions"}, {"bets"},
                               {"seeds", "nonce"}, {"seeds"}}
BY Names DEF Loaded, Load!Reads, Load!Me

LEMMA WritesTables ==
  ASSUME NEW l \in DOMAIN Loads, NEW what \in {"deposit", "bet", "seed", "reset"}
  PROVE  Load(l)!Writes(what) \subseteq Load(l)!Table
BY DEF Load!Writes, Load!Table

(* Whatever an action touches is asked for again.                          *)
LEMMA TouchedIsAffected ==
  ASSUME NEW l \in DOMAIN Loads, NEW r \in Loaded(l),
         NEW what \in {"deposit", "bet", "seed", "reset"},
         Load(l)!Reads(r) \cap Load(l)!Writes(what) # {}
  PROVE  r \in Load(l)!Affected(what)
<1>1. r \in {"accounts", "entries", "invariants", "bets", "commitment",
             "revealed", "affiliate", "me"}
  BY Names DEF Loaded
<1>2. CASE what = "deposit"
  <2>1. Load(l)!Writes(what) = {"postings"} BY <1>2 DEF Load!Writes
  <2>2. CASE r \in {"bets", "commitment", "revealed", "affiliate"}
    <3>1. "postings" \notin Load(l)!Reads(r)
      BY <2>2 DEF Load!Reads, Load!Me
    <3> QED BY <2>1, <3>1
  <2> QED BY <1>1, <1>2, <2>2 DEF Load!Affected, Load!Me
<1>3. CASE what = "bet"
  <2>1. Load(l)!Writes(what) = {"postings", "commissions", "bets", "nonce"}
    BY <1>3 DEF Load!Writes
  <2>2. CASE r = "revealed"
    <3>1. Load(l)!Reads(r) = {"seeds"} BY <2>2 DEF Load!Reads, Load!Me
    <3> QED BY <2>1, <3>1
  <2> QED BY <1>1, <1>3, <2>2 DEF Load!Affected, Load!Me
<1>4. CASE what = "seed"
  <2>1. Load(l)!Writes(what) = {"seeds"} BY <1>4 DEF Load!Writes
  <2>2. CASE r \in {"accounts", "entries", "invariants", "affiliate", "me",
                    "bets"}
    <3>1. "seeds" \notin Load(l)!Reads(r)
      BY <2>2 DEF Load!Reads, Load!Me
    <3> QED BY <2>1, <3>1
  <2> QED BY <1>1, <1>4, <2>2 DEF Load!Affected, Load!Me
<1>5. CASE what = "reset"
  <2>1. Load(l)!Affected(what) =
          {"accounts", "entries", "invariants", "me", "bets", "commitment",
           "affiliate", "revealed"}
    BY <1>5 DEF Load!Affected, Load!Me
  <2> QED BY <1>1, <2>1
<1> QED BY <1>2, <1>3, <1>4, <1>5

(* The greatest of a few numbers.                                          *)
LEMMA MaxOfTwo ==
  ASSUME NEW l \in DOMAIN Loads, NEW a \in Int, NEW b \in Int
  PROVE  /\ Load(l)!Max({a, b}) \in {a, b}
         /\ Load(l)!Max({a, b}) >= a /\ Load(l)!Max({a, b}) >= b
<1>1. \E x \in {a, b} : \A y \in {a, b} : x >= y
  <2>1. CASE a >= b BY <2>1
  <2>2. CASE b >= a BY <2>2
  <2> QED BY <2>1, <2>2
<1> DEFINE m == CHOOSE x \in {a, b} : \A y \in {a, b} : x >= y
<1>2. m \in {a, b} /\ \A y \in {a, b} : m >= y BY <1>1
<1>3. Load(l)!Max({a, b}) = m BY DEF Load!Max
<1> HIDE DEF m
<1> QED BY <1>2, <1>3

LEMMA MaxOfStamps ==
  ASSUME NEW l \in DOMAIN Loads, stamp \in [Load(l)!Table -> Nat],
         NEW T, \/ T \in {{"postings"}, {"commissions"}, {"bets"},
                           {"seeds", "nonce"}, {"seeds"}}
                \/ T = Load(l)!Table
  PROVE  /\ \E t \in T : Load(l)!Max({stamp[u] : u \in T}) = stamp[t]
         /\ \A t \in T : Load(l)!Max({stamp[u] : u \in T}) >= stamp[t]
<1> DEFINE S == {stamp[u] : u \in T}
           m == CHOOSE x \in S : \A y \in S : x >= y
<1>1. \E t \in T : \A u \in T : stamp[t] >= stamp[u]
  <2>1. ASSUME NEW t \in Load(l)!Table, NEW u \in Load(l)!Table
        PROVE  \E x \in {t, u} : stamp[x] >= stamp[t] /\ stamp[x] >= stamp[u]
    <3>1. stamp[t] \in Nat /\ stamp[u] \in Nat OBVIOUS
    <3>2. stamp[t] >= stamp[u] \/ stamp[u] >= stamp[t] BY <3>1
    <3> QED BY <3>1, <3>2
  <2>2. {"postings", "commissions", "bets", "nonce", "seeds"}
          = Load(l)!Table
    BY DEF Load!Table
  <2>3. CASE T = Load(l)!Table
    <3>1. PICK x \in {"postings", "bets"} :
            stamp[x] >= stamp["postings"] /\ stamp[x] >= stamp["bets"]
      BY <2>1, <2>2
    <3>2. PICK y \in {"nonce", "seeds"} :
            stamp[y] >= stamp["nonce"] /\ stamp[y] >= stamp["seeds"]
      BY <2>1, <2>2
    <3>3. PICK z \in {x, y} : stamp[z] >= stamp[x] /\ stamp[z] >= stamp[y]
      BY <2>1, <2>2
    <3>4. PICK w \in {z, "commissions"} :
            stamp[w] >= stamp[z] /\ stamp[w] >= stamp["commissions"]
      BY <2>1, <2>2
    <3>5. w \in T /\ \A u \in T : stamp[u] \in Nat BY <2>2, <2>3
    <3>6. \A u \in {x, y, z, w} : stamp[u] \in Nat BY <2>2
    <3>7. \A u \in T : stamp[w] >= stamp[u]
      BY <2>2, <2>3, <3>1, <3>2, <3>3, <3>4, <3>5, <3>6
    <3> QED BY <3>5, <3>7
  <2>4. CASE T = {"seeds", "nonce"} BY <2>1, <2>2, <2>4
  <2>5. CASE T \in {{"postings"}, {"commissions"}, {"bets"}, {"seeds"}}
    <3>1. PICK t : T = {t} /\ t \in Load(l)!Table BY <2>2, <2>5
    <3>2. stamp[t] \in Nat BY <3>1
    <3> QED BY <3>1, <3>2
  <2> QED BY <2>3, <2>4, <2>5
<1>2. \E x \in S : \A y \in S : x >= y BY <1>1
<1>3. m \in S /\ \A y \in S : m >= y BY <1>2
<1>4. Load(l)!Max(S) = m BY DEF Load!Max
<1> HIDE DEF m
<1> QED BY <1>3, <1>4

LEMMA LevelIsReached ==
  ASSUME NEW l \in DOMAIN Loads, LoadTyped(l), NEW r \in Loaded(l)
  PROVE  LET level == Load(l)!Max({stamp[t] : t \in Load(l)!Reads(r)})
         IN  /\ level \in Nat /\ Reached(l, r, level)
             /\ \A n \in Int : Reached(l, r, n) => level >= n
<1>1. /\ Load(l)!Reads(r) \in
           {{"postings"}, {"commissions"}, {"bets"}, {"seeds", "nonce"},
            {"seeds"}}
      /\ stamp \in [Load(l)!Table -> Nat]
  BY ReadsSome DEF LoadTyped
<1> DEFINE level == Load(l)!Max({stamp[t] : t \in Load(l)!Reads(r)})
<1>2. /\ \E t \in Load(l)!Reads(r) : level = stamp[t]
      /\ \A t \in Load(l)!Reads(r) : level >= stamp[t]
  BY <1>1, MaxOfStamps
<1> HIDE DEF level
<1>3. level \in Nat /\ \A t \in Load(l)!Reads(r) : stamp[t] \in Nat
  BY <1>1, <1>2 DEF Load!Table
<1>4. Reached(l, r, level) BY <1>1, <1>2 DEF Reached
<1>5. \A n \in Int : Reached(l, r, n) => level >= n
  BY <1>1, <1>2, <1>3 DEF Reached
<1> QED BY <1>3, <1>4, <1>5 DEF level

(* The database only moves on.                                             *)
StampsGrow(l) ==
  /\ stamp' \in [Load(l)!Table -> Nat]
  /\ \A t \in Load(l)!Table : stamp[t] <= stamp'[t]

LEMMA StaysReached ==
  ASSUME NEW l \in DOMAIN Loads, LoadTyped(l), StampsGrow(l),
         NEW r \in Loaded(l), NEW n \in Int, Reached(l, r, n)
  PROVE  Reached(l, r, n)'
<1>1. Load(l)!Reads(r) \subseteq Load(l)!Table
  BY ReadsSome DEF Load!Table
<1> QED BY <1>1 DEF LoadTyped, StampsGrow, Reached

LEMMA RecordGrows ==
  ASSUME NEW l \in DOMAIN Loads, LoadTyped(l), NEW what, Load(l)!Record(what)
  PROVE  /\ StampsGrow(l) /\ Load(l)!Changes + 1 \in Nat
         /\ \A t \in Load(l)!Table \cap Load(l)!Writes(what) :
              stamp'[t] = Load(l)!Changes + 1
<1>1. stamp \in [Load(l)!Table -> Nat] BY DEF LoadTyped
<1>2. Load(l)!Changes =
        Load(l)!Max({stamp[t] : t \in Load(l)!Table})
  BY DEF Load!Changes
<1>3. /\ \E t \in Load(l)!Table : Load(l)!Changes = stamp[t]
      /\ \A t \in Load(l)!Table : Load(l)!Changes >= stamp[t]
  BY <1>1, <1>2, MaxOfStamps
<1>4. Load(l)!Changes \in Nat BY <1>1, <1>3
<1>5. stamp' = [t \in Load(l)!Table |->
                  IF t \in Load(l)!Writes(what) THEN Load(l)!Changes + 1
                  ELSE stamp[t]]
  BY DEF Load!Record
<1> QED BY <1>1, <1>3, <1>4, <1>5 DEF StampsGrow

LEMMA LoadInit ==
  ASSUME NEW l \in DOMAIN Loads, Load(l)!Init
  PROVE  LoadInv(l)
<1>1. Loads[l].Effects \in Nat BY Names
<1>2. /\ stamp = [t \in Load(l)!Table |-> 0] /\ app = 0
      /\ shown = [r \in Loads[l].Resource |->
                    [data |-> -1, loading |-> TRUE, error |-> FALSE,
                     latest |-> Loads[l].Effects]]
      /\ asked = {} /\ acts = {}
      /\ told = [r \in Loaded(l) |-> -1]
  BY DEF Load!Init, Load!Mounted, Load!Nothing, Loaded
<1>3. LoadTyped(l) BY <1>1, <1>2 DEF LoadTyped, Showing
<1>4. \A r \in Loaded(l) : Reached(l, r, -1)
  <2> SUFFICES ASSUME NEW r \in Loaded(l) PROVE Reached(l, r, -1) OBVIOUS
  <2>1. \E t \in Load(l)!Reads(r) : t \in Load(l)!Table
    BY ReadsSome DEF Load!Table
  <2> QED BY <1>2, <2>1 DEF Reached
<1>5. NothingAhead(l) BY <1>2, <1>4 DEF NothingAhead, Loaded
<1>6. InOrder(l) BY <1>2 DEF InOrder
<1>7. SettledIsFresh(l) BY <1>2 DEF SettledIsFresh
<1> QED BY <1>3, <1>5, <1>6, <1>7 DEF LoadInv

(* A change to the database, by whomever, with what is shown of it as it   *)
(* was.                                                                    *)
LEMMA RecordStep ==
  ASSUME NEW l \in DOMAIN Loads, LoadInv(l), StampsGrow(l),
         UNCHANGED <<app, shown, asked, told>>,
         acts' \subseteq [app : Nat, what : Loads[l].Act, at : Nat],
         \A a \in acts' : \/ a \in acts
                          \/ \A t \in Load(l)!Writes(a.what) : a.at <= stamp'[t]
  PROVE  LoadInv(l)'
<1>1. LoadTyped(l) /\ LoadTyped(l)'
  BY DEF LoadInv, LoadTyped, StampsGrow
<1>2. /\ \A r \in Loaded(l) : told[r] \in Int
      /\ \A r \in Loads[l].Resource : shown[r].data \in Int
      /\ \A q \in asked : q.of \in Loaded(l) /\ q.value \in Int
      /\ Loads[l].Resource \subseteq Loaded(l)
  BY <1>1 DEF LoadTyped, Loaded, Showing
<1>3. /\ \A r \in Loaded(l) : Reached(l, r, told[r])'
      /\ \A r \in Loads[l].Resource : Reached(l, r, shown[r].data)'
      /\ \A q \in asked : Reached(l, q.of, q.value)'
  <2>1. \A r \in Loaded(l), n \in Int : Reached(l, r, n) => Reached(l, r, n)'
    BY <1>1, StaysReached
  <2> QED BY <1>2, <2>1 DEF LoadInv, NothingAhead, Reached
<1>4. \A a \in acts' : \A t \in Load(l)!Writes(a.what) : a.at <= stamp'[t]
  <2> SUFFICES ASSUME NEW a \in acts, NEW t \in Load(l)!Writes(a.what)
               PROVE  a.at <= stamp'[t]
    OBVIOUS
  <2>1. a.what \in Loads[l].Act /\ a.at \in Nat BY <1>1 DEF LoadTyped
  <2>2. t \in Load(l)!Table BY <2>1, Names, WritesTables
  <2>3. a.at <= stamp[t] /\ stamp[t] <= stamp'[t]
    BY <2>2 DEF LoadInv, NothingAhead, StampsGrow
  <2> QED BY <1>1, <2>1, <2>2, <2>3 DEF LoadTyped
<1>5. NothingAhead(l)' BY <1>3, <1>4 DEF NothingAhead, Reached
<1>6. InOrder(l)' BY DEF LoadInv, InOrder, OfThisPage
<1>7. SettledIsFresh(l)' BY DEF LoadInv, SettledIsFresh
<1> QED BY <1>1, <1>5, <1>6, <1>7 DEF LoadInv

LEMMA CommitStep ==
  ASSUME NEW l \in DOMAIN Loads, LoadInv(l),
         NEW what \in Loads[l].Act, Load(l)!Commit(what)
  PROVE  LoadInv(l)'
<1> DEFINE a == [app |-> app, what |-> what, at |-> Load(l)!Changes + 1]
<1>1. LoadTyped(l) /\ Load(l)!Record(what)
  BY DEF LoadInv, Load!Commit
<1>2. /\ StampsGrow(l) /\ Load(l)!Changes + 1 \in Nat
      /\ \A t \in Load(l)!Table \cap Load(l)!Writes(what) :
           stamp'[t] = Load(l)!Changes + 1
  BY <1>1, RecordGrows
<1>3. Load(l)!Writes(what) \subseteq Load(l)!Table BY Names, WritesTables
<1>4. /\ acts' = acts \cup {a}
      /\ UNCHANGED <<app, shown, asked, told>>
  BY DEF Load!Commit
<1>5. /\ a \in [app : Nat, what : Loads[l].Act, at : Nat]
      /\ a.what = what /\ a.at = Load(l)!Changes + 1
  BY <1>1, <1>2 DEF LoadTyped
<1> HIDE DEF a
<1>6. acts' \subseteq [app : Nat, what : Loads[l].Act, at : Nat]
  BY <1>1, <1>4, <1>5 DEF LoadTyped
<1>7. \A t \in Load(l)!Writes(a.what) : a.at <= stamp'[t]
  BY <1>2, <1>3, <1>5
<1> QED BY <1>2, <1>4, <1>6, <1>7, RecordStep

LEMMA OthersChange ==
  ASSUME NEW l \in DOMAIN Loads, LoadInv(l), NEW what,
         Load(l)!Elsewhere(what)
  PROVE  LoadInv(l)'
<1>1. StampsGrow(l) BY RecordGrows DEF LoadInv, Load!Elsewhere
<1>2. UNCHANGED <<app, shown, asked, told, acts>> BY DEF Load!Elsewhere
<1> QED BY <1>1, <1>2, RecordStep DEF LoadInv, LoadTyped

(* An action whose answer is lost, and a page that is left, leave all of   *)
(* it as it was.                                                           *)
LEMMA QuietLoadStep ==
  ASSUME NEW l \in DOMAIN Loads, LoadInv(l),
         UNCHANGED <<stamp, app, shown, asked, told>>, acts' \subseteq acts
  PROVE  LoadInv(l)'
<1>1. StampsGrow(l) BY DEF LoadInv, LoadTyped, StampsGrow
<1> QED BY <1>1, RecordStep DEF LoadInv, LoadTyped

(* Everything has reached what nothing is known of.                        *)
LEMMA NothingIsReached ==
  ASSUME NEW l \in DOMAIN Loads, LoadTyped(l), NEW r \in Loaded(l)
  PROVE  Reached(l, r, -1)
<1>1. \E t \in Load(l)!Reads(r) : t \in Load(l)!Table
  BY ReadsSome DEF Load!Table
<1> QED BY <1>1 DEF Reached, LoadTyped

(* More is asked for, with numbers that were not in use.  What is shown    *)
(* and told of a resource stays, or the resource is loading anew.          *)
Asks(l, N) ==
  /\ asked' = asked \cup N
  /\ \A q \in N :
       /\ q = [app |-> app', of |-> q.of, id |-> q.id, value |-> -1]
       /\ q.of \in Loaded(l) /\ q.id \in Nat
       /\ q.of \in Loads[l].Resource => q.id <= shown'[q.of].latest
       /\ q.of \in Loads[l].Resource /\ app' = app =>
            q.id > shown[q.of].latest

ShownOrLoading(l) ==
  /\ shown' \in [Loads[l].Resource -> Showing]
  /\ told' \in [Loaded(l) -> Int]
  /\ \A r \in Loaded(l) : Reached(l, r, told'[r])
  /\ \A r \in Loads[l].Resource :
       /\ shown'[r].data \in {shown[r].data, -1}
       /\ \/ told'[r] = told[r] /\ shown'[r] = shown[r]
          \/ /\ shown'[r].loading
             /\ app' = app => shown'[r].latest > shown[r].latest

LEMMA AskStep ==
  ASSUME NEW l \in DOMAIN Loads, LoadInv(l), UNCHANGED stamp, acts' \subseteq acts,
         app' \in {app, app + 1}, NEW N, Asks(l, N), ShownOrLoading(l)
  PROVE  LoadInv(l)'
<1>1. /\ LoadTyped(l) /\ app \in Nat /\ app' \in Nat /\ app <= app'
      /\ Loads[l].Resource \subseteq Loaded(l)
      /\ \A q \in asked : q.app \in Nat /\ q.app <= app
      /\ \A q \in asked : q.id \in Nat /\ q.of \in Loaded(l)
      /\ \A r \in Loads[l].Resource :
           shown[r].latest \in Nat /\ shown'[r].latest \in Nat
  BY DEF LoadInv, LoadTyped, InOrder, Loaded, ShownOrLoading, Showing
<1>2. /\ \A q \in asked' : q \in asked \/ q \in N
      /\ \A q \in N : /\ q = [app |-> app', of |-> q.of, id |-> q.id,
                              value |-> -1]
                      /\ q.app = app' /\ q.value = -1
                      /\ q.of \in Loaded(l) /\ q.id \in Nat
      /\ \A q \in N : q.of \in Loads[l].Resource =>
           /\ q.id <= shown'[q.of].latest
           /\ app' = app => q.id > shown[q.of].latest
  <2>1. ASSUME NEW q \in N PROVE q.app = app' /\ q.value = -1
    <3>1. q = [app |-> app', of |-> q.of, id |-> q.id, value |-> -1]
      BY DEF Asks
    <3> QED BY <3>1
  <2> QED BY <2>1 DEF Asks
<1>3. LoadTyped(l)'
  <2>1. N \subseteq [app : Nat, of : Loaded(l), id : Nat, value : Int]
    <3>1. ASSUME NEW q \in N
          PROVE  q \in [app : Nat, of : Loaded(l), id : Nat, value : Int]
      <4>1. /\ q = [app |-> app', of |-> q.of, id |-> q.id, value |-> -1]
            /\ q.of \in Loaded(l) /\ q.id \in Nat
        BY <1>2
      <4> QED BY <1>1, <4>1
    <3> QED BY <3>1
  <2>2. asked' \subseteq [app : Nat, of : Loaded(l), id : Nat, value : Int]
    BY <1>1, <2>1 DEF Asks, LoadTyped
  <2> QED BY <1>1, <2>2 DEF LoadTyped, ShownOrLoading
<1>4. NothingAhead(l)'
  <2>1. \A r \in Loads[l].Resource : Reached(l, r, shown'[r].data)
    BY <1>1, NothingIsReached DEF LoadInv, NothingAhead, ShownOrLoading
  <2>2. \A q \in asked' : Reached(l, q.of, q.value)
    BY <1>1, <1>2, NothingIsReached DEF LoadInv, NothingAhead
  <2> QED
    BY <2>1, <2>2 DEF LoadInv, NothingAhead, Reached, ShownOrLoading
<1>5. ASSUME NEW q \in asked, OfThisPage(l, q)'
      PROVE  /\ app' = app /\ OfThisPage(l, q)
             /\ q.id <= shown[q.of].latest
             /\ shown[q.of].latest <= shown'[q.of].latest
             /\ q.id = shown'[q.of].latest =>
                  told'[q.of] = told[q.of] /\ shown'[q.of] = shown[q.of]
  <2>1. app' = app BY <1>1, <1>5 DEF OfThisPage
  <2>2. OfThisPage(l, q) /\ q.id <= shown[q.of].latest
    BY <1>5, <2>1 DEF OfThisPage, LoadInv, InOrder
  <2>3. q.of \in Loads[l].Resource BY <2>2 DEF OfThisPage
  <2> QED BY <1>1, <2>1, <2>2, <2>3 DEF ShownOrLoading
<1>6. InOrder(l)'
  <2>1. \A q \in asked' : q.app <= app' BY <1>1, <1>2
  <2>2. \A q \in asked' : OfThisPage(l, q)' => q.id <= shown'[q.of].latest
    <3> SUFFICES ASSUME NEW q \in asked', OfThisPage(l, q)'
                 PROVE  q.id <= shown'[q.of].latest
      OBVIOUS
    <3>1. q.of \in Loads[l].Resource BY DEF OfThisPage
    <3>2. CASE q \in asked
      <4>1. /\ q.id <= shown[q.of].latest
            /\ shown[q.of].latest <= shown'[q.of].latest
        BY <1>5, <3>2
      <4> QED BY <1>1, <3>1, <3>2, <4>1
    <3> QED BY <1>2, <3>1, <3>2
  <2>3. ASSUME NEW p \in asked', NEW q \in asked',
               OfThisPage(l, p)', OfThisPage(l, q)', p.of = q.of, p.id = q.id
        PROVE  p = q
    <3>1. p.of \in Loads[l].Resource /\ q.of \in Loads[l].Resource
      BY <2>3 DEF OfThisPage
    <3>2. CASE p \in asked /\ q \in asked
      <4>1. OfThisPage(l, p) /\ OfThisPage(l, q) BY <1>5, <2>3, <3>2
      <4> QED BY <2>3, <3>2, <4>1 DEF LoadInv, InOrder
    <3>3. CASE p \in N /\ q \in N BY <1>2, <2>3, <3>3
    <3>4. ASSUME NEW u \in asked, NEW v \in N, u.of = v.of, u.id = v.id,
                 OfThisPage(l, u)', v.of \in Loads[l].Resource
          PROVE  FALSE
      <4>1. app' = app /\ u.id <= shown[u.of].latest BY <1>5, <3>4
      <4>2. v.id > shown[v.of].latest BY <1>2, <3>4, <4>1
      <4> QED BY <1>1, <1>2, <3>4, <4>1, <4>2
    <3> QED BY <1>2, <2>3, <3>1, <3>2, <3>3, <3>4
  <2>4. ASSUME NEW q \in asked', OfThisPage(l, q)',
               q.id = shown'[q.of].latest, q.value # -1
        PROVE  q.value >= told'[q.of] /\ q.value >= shown'[q.of].data
    <3>1. q \in asked BY <1>2, <2>4
    <3>2. /\ OfThisPage(l, q)
          /\ told'[q.of] = told[q.of] /\ shown'[q.of] = shown[q.of]
      BY <1>5, <2>4, <3>1
    <3> QED BY <2>4, <3>1, <3>2 DEF LoadInv, InOrder
  <2> QED BY <2>1, <2>2, <2>3, <2>4 DEF InOrder
<1>7. SettledIsFresh(l)' BY DEF LoadInv, SettledIsFresh, ShownOrLoading
<1> QED BY <1>3, <1>4, <1>6, <1>7 DEF LoadInv

LEMMA MountStep ==
  ASSUME NEW l \in DOMAIN Loads, LoadInv(l), Load(l)!Mount
  PROVE  LoadInv(l)'
<1> DEFINE first(r, i) == [Load(l)!NewRequest(r, i) EXCEPT !.app = app + 1]
           N == {first(r, i) : r \in Loads[l].Resource,
                               i \in 1 .. Loads[l].Effects}
                  \cup {first(a, 1) : a \in Loads[l].Account}
           mounted == [data |-> -1, loading |-> TRUE, error |-> FALSE,
                       latest |-> Loads[l].Effects]
<1>1. /\ app \in Nat /\ Loads[l].Effects \in Nat
      /\ Loads[l].Account \cap Loads[l].Resource = {}
  BY Names DEF LoadInv, LoadTyped
<1>2. /\ app' = app + 1 /\ UNCHANGED <<stamp, acts, told>>
      /\ shown' = [r \in Loads[l].Resource |-> mounted]
  BY DEF Load!Mount, Load!Mounted, Load!Nothing
<1>3. asked' = asked \cup N BY DEF Load!Mount
<1>4. \A r, i : /\ first(r, i).of = r /\ first(r, i).id = i
                /\ first(r, i) = [app |-> app + 1, of |-> first(r, i).of,
                                  id |-> first(r, i).id, value |-> -1]
  BY DEF Load!NewRequest, Load!Nothing
<1>5. \A q \in N :
        /\ q = [app |-> app + 1, of |-> q.of, id |-> q.id, value |-> -1]
        /\ q.of \in Loaded(l) /\ q.id \in Nat
        /\ q.of \in Loads[l].Resource => q.id <= Loads[l].Effects
  <2>1. ASSUME NEW r \in Loads[l].Resource, NEW i \in 1 .. Loads[l].Effects
        PROVE  r \in Loaded(l) /\ i \in Nat /\ i <= Loads[l].Effects
    BY <1>1 DEF Loaded
  <2>2. ASSUME NEW a \in Loads[l].Account
        PROVE  a \in Loaded(l) /\ a \notin Loads[l].Resource
    BY <1>1 DEF Loaded
  <2> HIDE DEF first
  <2> QED BY <1>4, <2>1, <2>2
<1> HIDE DEF N
<1>6. Asks(l, N)
  <2>1. \A r \in Loads[l].Resource : shown'[r].latest = Loads[l].Effects
    BY <1>2
  <2>2. app' # app BY <1>1, <1>2
  <2> QED BY <1>2, <1>3, <1>5, <2>1, <2>2 DEF Asks
<1>7. ShownOrLoading(l)
  <2>1. mounted \in Showing
    BY <1>1 DEF Showing
  <2>2. \A r \in Loads[l].Resource :
          shown'[r].data = -1 /\ shown'[r].loading
    BY <1>2
  <2>3. app' # app BY <1>1, <1>2
  <2> HIDE DEF mounted
  <2>4. shown' \in [Loads[l].Resource -> Showing]
    BY <1>2, <2>1
  <2> QED
    BY <1>2, <2>2, <2>3, <2>4
    DEF LoadInv, LoadTyped, NothingAhead, ShownOrLoading
<1> QED BY <1>2, <1>6, <1>7, AskStep

LEMMA LoadsAnew ==
  ASSUME NEW show \in Showing
  PROVE  LET anew == [show EXCEPT !.latest = @ + 1, !.loading = TRUE]
         IN  /\ anew \in Showing /\ anew.data = show.data
             /\ anew.loading /\ anew.latest = show.latest + 1
             /\ show.latest \in Nat
<1> DEFINE next == [show EXCEPT !.latest = @ + 1]
<1>1. /\ next \in Showing /\ next.data = show.data
      /\ next.latest = show.latest + 1 /\ show.latest \in Nat
  BY DEF Showing
<1> HIDE DEF next
<1> DEFINE anew == [next EXCEPT !.loading = TRUE]
<1>2. /\ anew \in Showing /\ anew.data = next.data
      /\ anew.latest = next.latest /\ anew.loading
  BY <1>1 DEF Showing
<1>3. anew = [show EXCEPT !.latest = @ + 1, !.loading = TRUE] BY DEF next
<1> HIDE DEF anew
<1> QED BY <1>1, <1>2, <1>3

(* The answer of an action raises what this tab was told of, and asks      *)
(* again for each resource it raised that for.                             *)
LEMMA ToldStep ==
  ASSUME NEW l \in DOMAIN Loads, LoadInv(l), NEW a \in acts,
         Load(l)!Answered(a)
  PROVE  LoadInv(l)'
<1>1. /\ a.what \in {"deposit", "bet", "seed", "reset"} /\ a.at \in Nat
      /\ UNCHANGED <<stamp, app>> /\ acts' \subseteq acts
      /\ Loads[l].Account \cap Loads[l].Resource = {}
      /\ LoadTyped(l) /\ app \in Nat
      /\ told \in [Loaded(l) -> Int]
      /\ shown \in [Loads[l].Resource -> Showing]
  BY Names DEF LoadInv, LoadTyped, Load!Answered
<1>2. CASE ~(resourcesUp /\ a.app = app)
  <2>1. UNCHANGED <<told, shown, asked>> BY <1>2 DEF Load!Answered
  <2> QED BY <1>1, <2>1, QuietLoadStep
<1>3. CASE resourcesUp /\ a.app = app
  <2> DEFINE A == Load(l)!Affected(a.what)
             new(r, i) == [app |-> app, of |-> r, id |-> i, value |-> -1]
             N == {new(r, shown[r].latest + 1) :
                     r \in A \cap Loads[l].Resource}
                    \cup {new(r, a.at + 1) : r \in A \cap Loads[l].Account}
             touched(r) == Load(l)!Reads(r) \cap Load(l)!Writes(a.what) # {}
             asking2(r) == [shown[r] EXCEPT !.latest = @ + 1, !.loading = TRUE]
  <2>1. /\ told' = [r \in Loaded(l) |->
                      IF touched(r) THEN Load(l)!Max({told[r], a.at})
                      ELSE told[r]]
        /\ shown' = [r \in Loads[l].Resource |->
                       IF r \in A THEN asking2(r) ELSE shown[r]]
        /\ asked' = asked \cup N
    BY <1>3
    DEF Load!Answered, Load!Refresh, Load!NewRequest, Load!Nothing, Loaded
  <2>2. \A r \in Loaded(l) : touched(r) => r \in A
    BY <1>1, TouchedIsAffected
  <2>3. ASSUME NEW r \in Loads[l].Resource
        PROVE  /\ asking2(r) \in Showing
               /\ asking2(r).data = shown[r].data /\ asking2(r).loading
               /\ asking2(r).latest = shown[r].latest + 1
               /\ shown[r].latest \in Nat
    <3>1. shown[r] \in Showing BY <1>1
    <3> QED BY <3>1, LoadsAnew
  <2> HIDE DEF A, asking2
  <2>4. \A r \in Loaded(l) :
          told'[r] \in Int /\ Reached(l, r, told'[r])
    <3> SUFFICES ASSUME NEW r \in Loaded(l)
                 PROVE  told'[r] \in Int /\ Reached(l, r, told'[r])
      OBVIOUS
    <3>1. told[r] \in Int /\ Reached(l, r, told[r])
      BY <1>1 DEF LoadInv, NothingAhead
    <3>2. CASE ~touched(r) BY <2>1, <3>1, <3>2
    <3>3. CASE touched(r)
      <4>1. told'[r] = Load(l)!Max({told[r], a.at}) BY <2>1, <3>3
      <4>2. told'[r] \in {told[r], a.at}
        <5>1. told[r] \in Int /\ a.at \in Int BY <1>1, <3>1
        <5>2. Load(l)!Max({told[r], a.at}) \in {told[r], a.at}
          BY <5>1, MaxOfTwo
        <5> QED BY <4>1, <5>2
      <4>3. Reached(l, r, a.at)
        BY <3>3 DEF LoadInv, NothingAhead, Reached
      <4> QED BY <1>1, <3>1, <4>2, <4>3
    <3> QED BY <3>2, <3>3
  <2>5. ShownOrLoading(l)
    <3>1. told' \in [Loaded(l) -> Int]
      <4>1. told' = [r \in Loaded(l) |-> told'[r]] BY <2>1
      <4> QED BY <2>4, <4>1
    <3>2. shown' \in [Loads[l].Resource -> Showing]
      BY <1>1, <2>1, <2>3
    <3>3. ASSUME NEW r \in Loads[l].Resource
          PROVE  /\ shown'[r].data = shown[r].data
                 /\ \/ told'[r] = told[r] /\ shown'[r] = shown[r]
                    \/ /\ shown'[r].loading
                       /\ shown'[r].latest > shown[r].latest
      <4>1. r \in Loaded(l) BY DEF Loaded
      <4>2. CASE r \in A
        <5>1. shown'[r] = asking2(r) BY <2>1, <4>2
        <5> QED BY <2>3, <5>1
      <4>3. CASE r \notin A
        <5>1. shown'[r] = shown[r] /\ told'[r] = told[r]
          BY <2>1, <2>2, <4>1, <4>3
        <5> QED BY <5>1
      <4> QED BY <4>2, <4>3
    <3> QED BY <2>4, <3>1, <3>2, <3>3 DEF ShownOrLoading
  <2>6. Asks(l, N)
    <3>1. \A r, i : /\ new(r, i).of = r /\ new(r, i).id = i
                    /\ new(r, i) = [app |-> app, of |-> new(r, i).of,
                                    id |-> new(r, i).id, value |-> -1]
      OBVIOUS
    <3>2. ASSUME NEW r \in A \cap Loads[l].Resource
          PROVE  /\ r \in Loaded(l) /\ shown[r].latest + 1 \in Nat
                 /\ shown[r].latest + 1 <= shown'[r].latest
                 /\ shown[r].latest + 1 > shown[r].latest
      <4>1. shown'[r] = asking2(r) BY <2>1
      <4> QED BY <2>3, <4>1 DEF Loaded
    <3>3. ASSUME NEW r \in A \cap Loads[l].Account
          PROVE  r \in Loaded(l) /\ a.at + 1 \in Nat
                   /\ r \notin Loads[l].Resource
      BY <1>1 DEF Loaded
    <3> HIDE DEF new
    <3>4. \A q \in N :
            /\ q = [app |-> app, of |-> q.of, id |-> q.id, value |-> -1]
            /\ q.of \in Loaded(l) /\ q.id \in Nat
            /\ q.of \in Loads[l].Resource =>
                 q.id <= shown'[q.of].latest /\ q.id > shown[q.of].latest
      BY <3>1, <3>2, <3>3
    <3> QED BY <1>1, <2>1, <3>4 DEF Asks
  <2> HIDE DEF N
  <2> QED BY <1>1, <2>5, <2>6, AskStep
<1> QED BY <1>2, <1>3

(* The server answers with what it has: at least what anybody has seen.    *)
LEMMA ServeGetStep ==
  ASSUME NEW l \in DOMAIN Loads, LoadInv(l), NEW q \in asked,
         Load(l)!Serve(q)
  PROVE  LoadInv(l)'
<1> DEFINE level == Load(l)!Max({stamp[t] : t \in Load(l)!Reads(q.of)})
           served == [q EXCEPT !.value = level]
<1>1. /\ q \in [app : Nat, of : Loaded(l), id : Nat, value : Int]
      /\ LoadTyped(l) /\ Loads[l].Resource \subseteq Loaded(l)
      /\ asked \subseteq [app : Nat, of : Loaded(l), id : Nat, value : Int]
  BY DEF LoadInv, LoadTyped, Loaded
<1>2. /\ level \in Nat /\ Reached(l, q.of, level)
      /\ \A n \in Int : Reached(l, q.of, n) => level >= n
  BY <1>1, LevelIsReached
<1>3. /\ asked' = (asked \ {q}) \cup {served}
      /\ UNCHANGED <<stamp, app, shown, told, acts>>
  BY DEF Load!Serve
<1> HIDE DEF level
<1>4. /\ served \in [app : Nat, of : Loaded(l), id : Nat, value : Int]
      /\ served.app = q.app /\ served.of = q.of /\ served.id = q.id
      /\ served.value = level
  BY <1>1, <1>2
<1> HIDE DEF served
<1>5. \A p \in asked' : p \in asked \ {q} \/ p = served BY <1>3
<1>6. LoadTyped(l)'
  <2>1. asked' \subseteq [app : Nat, of : Loaded(l), id : Nat, value : Int]
    BY <1>1, <1>3, <1>4
  <2> QED BY <1>1, <1>3, <2>1 DEF LoadTyped
<1>7. NothingAhead(l)'
  <2>1. \A p \in asked' : Reached(l, p.of, p.value)
    BY <1>2, <1>4, <1>5 DEF LoadInv, NothingAhead
  <2> QED BY <1>3, <2>1 DEF LoadInv, NothingAhead, Reached
<1>8. InOrder(l)'
  <2>1. OfThisPage(l, served) <=> OfThisPage(l, q) BY <1>4 DEF OfThisPage
  <2>2. \A p \in asked' : p.app <= app
    BY <1>4, <1>5 DEF LoadInv, InOrder
  <2>3. \A p \in asked' : OfThisPage(l, p) => p.id <= shown[p.of].latest
    BY <1>4, <1>5, <2>1 DEF LoadInv, InOrder
  <2>4. ASSUME NEW p \in asked', NEW r \in asked',
               OfThisPage(l, p), OfThisPage(l, r), p.of = r.of, p.id = r.id
        PROVE  p = r
    BY <1>4, <1>5, <2>1, <2>4 DEF LoadInv, InOrder
  <2>5. ASSUME NEW p \in asked', OfThisPage(l, p),
               p.id = shown[p.of].latest, p.value # -1
        PROVE  p.value >= told[p.of] /\ p.value >= shown[p.of].data
    <3>1. CASE p = served
      <4>1. q.of \in Loads[l].Resource BY <1>4, <2>5, <3>1 DEF OfThisPage
      <4>2. /\ told[q.of] \in Int /\ Reached(l, q.of, told[q.of])
            /\ shown[q.of].data \in Int /\ Reached(l, q.of, shown[q.of].data)
        BY <1>1, <4>1 DEF LoadInv, LoadTyped, NothingAhead, Showing
      <4> QED BY <1>2, <1>4, <3>1, <4>2
    <3>2. CASE p \in asked BY <2>5, <3>2 DEF LoadInv, InOrder
    <3> QED BY <1>5, <3>1, <3>2
  <2> QED
    BY <1>3, <2>2, <2>3, <2>4, <2>5 DEF InOrder, OfThisPage
<1>9. SettledIsFresh(l)' BY <1>3 DEF LoadInv, SettledIsFresh
<1> QED BY <1>6, <1>7, <1>8, <1>9 DEF LoadInv

(* One request fewer, and no longer awaited where what it shows changes.   *)
LEMMA ReceivedStep ==
  ASSUME NEW l \in DOMAIN Loads, LoadInv(l), NEW q \in asked,
         UNCHANGED <<stamp, app, told, acts>>, asked' = asked \ {q},
         NEW now \in Showing,
         \/ UNCHANGED shown
         \/ /\ OfThisPage(l, q) /\ q.id = shown[q.of].latest
            /\ shown' = [shown EXCEPT ![q.of] = now]
            /\ now.latest = shown[q.of].latest
            /\ now.data \in {shown[q.of].data, q.value}
            /\ ~now.error => now.data >= told[q.of]
  PROVE  LoadInv(l)'
<1>1. /\ LoadTyped(l) /\ shown \in [Loads[l].Resource -> Showing]
      /\ Loads[l].Resource \subseteq Loaded(l)
  BY DEF LoadInv, LoadTyped, Loaded
<1>2. CASE UNCHANGED shown
  <2>1. LoadTyped(l)' BY <1>1, <1>2 DEF LoadTyped
  <2>2. NothingAhead(l)'
    BY <1>2 DEF LoadInv, NothingAhead, Reached
  <2>3. InOrder(l)' BY <1>2 DEF LoadInv, InOrder, OfThisPage
  <2>4. SettledIsFresh(l)' BY <1>2 DEF LoadInv, SettledIsFresh
  <2> QED BY <2>1, <2>2, <2>3, <2>4 DEF LoadInv
<1>3. CASE /\ OfThisPage(l, q) /\ q.id = shown[q.of].latest
           /\ shown' = [shown EXCEPT ![q.of] = now]
           /\ now.latest = shown[q.of].latest
           /\ now.data \in {shown[q.of].data, q.value}
           /\ ~now.error => now.data >= told[q.of]
  <2>1. q.of \in Loads[l].Resource BY <1>3 DEF OfThisPage
  <2>2. /\ shown' \in [Loads[l].Resource -> Showing]
        /\ shown'[q.of] = now
        /\ \A r \in Loads[l].Resource \ {q.of} : shown'[r] = shown[r]
        /\ \A r \in Loads[l].Resource : shown'[r].latest = shown[r].latest
    BY <1>1, <1>3, <2>1
  <2>3. LoadTyped(l)' BY <1>1, <2>2 DEF LoadTyped
  <2>4. NothingAhead(l)'
    <3>1. \A r \in Loads[l].Resource : Reached(l, r, shown'[r].data)
      BY <1>3, <2>1, <2>2 DEF LoadInv, NothingAhead
    <3> QED BY <3>1 DEF LoadInv, NothingAhead, Reached
  <2>5. InOrder(l)'
    <3>1. \A p \in asked' : OfThisPage(l, p) => p.of \in Loads[l].Resource
      BY DEF OfThisPage
    <3>2. ASSUME NEW p \in asked', OfThisPage(l, p),
                 p.id = shown[p.of].latest, p.value # -1
          PROVE  p.value >= told[p.of] /\ p.value >= shown'[p.of].data
      <4>1. p.of # q.of
        BY <1>3, <3>2 DEF LoadInv, InOrder
      <4>2. shown'[p.of] = shown[p.of] BY <2>2, <3>1, <3>2, <4>1
      <4> QED BY <3>2, <4>2 DEF LoadInv, InOrder
    <3> QED BY <2>2, <3>1, <3>2 DEF LoadInv, InOrder, OfThisPage
  <2>6. SettledIsFresh(l)'
    BY <1>3, <2>2 DEF LoadInv, SettledIsFresh
  <2> QED BY <2>3, <2>4, <2>5, <2>6 DEF LoadInv
<1> QED BY <1>2, <1>3

(* What the answer that is awaited brings, and what another one does.      *)
LEMMA GetAnswered ==
  ASSUME NEW l \in DOMAIN Loads, LoadInv(l), NEW q \in asked,
         Load(l)!Answer(q)
  PROVE  \/ UNCHANGED shown
         \/ \E now \in Showing :
              /\ OfThisPage(l, q) /\ q.id = shown[q.of].latest
              /\ shown' = [shown EXCEPT ![q.of] = now]
              /\ now.latest = shown[q.of].latest /\ now.data = q.value
              /\ now.data >= told[q.of] /\ now.data >= shown[q.of].data
<1>1. CASE q.of = "me" \/ ~Load(l)!Current(q)
  BY <1>1 DEF Load!Answer, Load!Me
<1>2. CASE q.of # "me" /\ Load(l)!Current(q)
  <2>1. /\ OfThisPage(l, q) /\ q.id = shown[q.of].latest
        /\ q.value \in Int /\ q.value # -1
        /\ q.of \in Loads[l].Resource /\ shown[q.of] \in Showing
        /\ shown \in [Loads[l].Resource -> Showing]
    BY <1>2, Names
    DEF Load!Answer, Load!Current, Load!Alive, Load!Nothing, OfThisPage,
        LoadInv, LoadTyped, Loaded
  <2> DEFINE now == [shown[q.of] EXCEPT !.data = q.value, !.error = FALSE,
                                       !.loading = FALSE]
  <2>2. /\ now \in Showing /\ now.latest = shown[q.of].latest
        /\ now.data = q.value
    BY <2>1 DEF Showing
  <2>3. shown' = [shown EXCEPT ![q.of].data = q.value,
                               ![q.of].error = FALSE,
                               ![q.of].loading = FALSE]
    BY <1>2 DEF Load!Answer, Load!Me
  <2>4. shown' = [shown EXCEPT ![q.of] = now]
    BY <2>1, <2>3
  <2>5. q.value >= told[q.of] /\ q.value >= shown[q.of].data
    BY <2>1 DEF LoadInv, InOrder
  <2> HIDE DEF now
  <2> QED BY <2>1, <2>2, <2>4, <2>5
<1> QED BY <1>1, <1>2

LEMMA AnswerGetStep ==
  ASSUME NEW l \in DOMAIN Loads, LoadInv(l), NEW q \in asked,
         Load(l)!Answer(q)
  PROVE  LoadInv(l)'
<1>1. UNCHANGED <<stamp, app, told, acts>> /\ asked' = asked \ {q}
  BY DEF Load!Answer
<1>2. [data |-> 0, loading |-> TRUE, error |-> TRUE, latest |-> 0] \in Showing
  BY DEF Showing
<1> QED BY <1>1, <1>2, GetAnswered, ReceivedStep

LEMMA FailGetStep ==
  ASSUME NEW l \in DOMAIN Loads, LoadInv(l), NEW q \in asked,
         Load(l)!Fail(q)
  PROVE  LoadInv(l)'
<1>1. UNCHANGED <<stamp, app, told, acts>> /\ asked' = asked \ {q}
  BY DEF Load!Fail
<1>2. CASE ~(q.of # "me" /\ Load(l)!Current(q))
  <2>1. [data |-> 0, loading |-> TRUE, error |-> TRUE, latest |-> 0] \in Showing
    BY DEF Showing
  <2>2. UNCHANGED shown BY <1>2 DEF Load!Fail, Load!Me
  <2> QED BY <1>1, <2>1, <2>2, ReceivedStep
<1>3. CASE q.of # "me" /\ Load(l)!Current(q)
  <2>1. /\ OfThisPage(l, q) /\ q.id = shown[q.of].latest
        /\ q.of \in Loads[l].Resource /\ shown[q.of] \in Showing
        /\ shown \in [Loads[l].Resource -> Showing]
    BY <1>3, Names
    DEF Load!Current, Load!Alive, OfThisPage, LoadInv, LoadTyped, Loaded
  <2> DEFINE now == [shown[q.of] EXCEPT !.error = TRUE, !.loading = FALSE]
  <2>2. /\ now \in Showing /\ now.latest = shown[q.of].latest
        /\ now.data = shown[q.of].data /\ now.error
    BY <2>1 DEF Showing
  <2>3. shown' = [shown EXCEPT ![q.of].error = TRUE, ![q.of].loading = FALSE]
    BY <1>3 DEF Load!Fail, Load!Me
  <2>4. shown' = [shown EXCEPT ![q.of] = now] BY <2>1, <2>3
  <2> HIDE DEF now
  <2> QED BY <1>1, <2>1, <2>2, <2>4, ReceivedStep
<1> QED BY <1>2, <1>3

LEMMA LoadStep ==
  ASSUME NEW l \in DOMAIN Loads, LoadInv(l),
         UNCHANGED resources \/ Load(l)!Next
  PROVE  LoadInv(l)'
<1>1. CASE UNCHANGED resources
  BY <1>1, QuietLoadStep DEF resources
<1>2. CASE Load(l)!Unmount
  BY <1>2, QuietLoadStep DEF Load!Unmount
<1>3. ASSUME NEW a \in acts, Load(l)!ActLost(a) PROVE LoadInv(l)'
  BY <1>3, QuietLoadStep DEF Load!ActLost
<1> QED
  BY <1>1, <1>2, <1>3, MountStep, CommitStep, OthersChange, ToldStep,
     ServeGetStep, AnswerGetStep, FailGetStep
  DEF Load!Next

(* What is shown only advances while the page stays.                       *)
LEMMA LoadAdvances ==
  ASSUME NEW l \in DOMAIN Loads, LoadInv(l),
         UNCHANGED resources \/ Load(l)!Next
  PROVE  Load(l)!Advances
<1> SUFFICES ASSUME resourcesUp, NEW r \in Loads[l].Resource
             PROVE  shown'[r].data >= shown[r].data
  BY DEF Load!Advances
<1>1. /\ shown \in [Loads[l].Resource -> Showing]
      /\ shown[r] \in Showing /\ shown[r].data \in Int
  BY DEF LoadInv, LoadTyped, Showing
<1>2. CASE UNCHANGED shown BY <1>1, <1>2
<1>3. ASSUME NEW a \in acts, Load(l)!Answered(a)
      PROVE  shown'[r].data >= shown[r].data
  <2>1. UNCHANGED shown
        \/ \E A : shown' = [u \in Loads[l].Resource |->
             IF u \in A
             THEN [shown[u] EXCEPT !.latest = @ + 1, !.loading = TRUE]
             ELSE shown[u]]
    BY <1>3 DEF Load!Answered, Load!Refresh
  <2>2. [shown[r] EXCEPT !.latest = @ + 1, !.loading = TRUE].data
          = shown[r].data
    BY <1>1, LoadsAnew
  <2>3. shown'[r].data = shown[r].data BY <2>1, <2>2
  <2> QED BY <1>1, <2>3
<1>4. ASSUME NEW q \in asked, Load(l)!Answer(q)
      PROVE  shown'[r].data >= shown[r].data
  BY <1>1, <1>4, GetAnswered
<1>5. ASSUME NEW q \in asked, Load(l)!Fail(q)
      PROVE  shown'[r].data >= shown[r].data
  <2>1. UNCHANGED shown
        \/ shown' = [shown EXCEPT ![q.of].error = TRUE,
                                  ![q.of].loading = FALSE]
    BY <1>5 DEF Load!Fail
  <2>2. shown'[r].data = shown[r].data BY <1>1, <2>1 DEF Showing
  <2> QED BY <1>1, <2>2
<1>6. ~Load(l)!Mount BY DEF Load!Mount
<1>7. /\ Load(l)!Unmount => UNCHANGED shown
      /\ \A what : Load(l)!Commit(what) \/ Load(l)!Elsewhere(what) =>
           UNCHANGED shown
      /\ \A a : Load(l)!ActLost(a) => UNCHANGED shown
      /\ \A q : Load(l)!Serve(q) => UNCHANGED shown
      /\ UNCHANGED resources => UNCHANGED shown
  BY DEF resources, Load!Unmount, Load!Commit, Load!Elsewhere, Load!ActLost,
         Load!Serve
<1> QED BY <1>2, <1>3, <1>4, <1>5, <1>6, <1>7 DEF Load!Next

(* The instance that runs, if it is one of resources.                      *)
LoadsInv == \A l \in DOMAIN Loads : on = l => LoadInv(l)

LEMMA LoadsInit ==
  ASSUME Init
  PROVE  LoadsInv
BY PartsInit, LoadInit DEF LoadsInv

LEMMA LoadsStep ==
  ASSUME LoadsInv, [Next]_vars
  PROVE  LoadsInv'
<1> SUFFICES ASSUME NEW l \in DOMAIN Loads, on' = l PROVE LoadInv(l)'
  BY DEF LoadsInv
<1>1. on = l /\ LoadInv(l) BY PartsStep DEF LoadsInv
<1>2. UNCHANGED resources \/ Load(l)!Next BY <1>1, PartsStep
<1> QED BY <1>1, <1>2, LoadStep

(* A resource that is neither loading nor in error shows at least every    *)
(* change this tab was answered about: whatever resources a page has, and  *)
(* however their answers overtake one another (App.tsx:93-126,             *)
(* useApi.ts:14-17, 36-50).                                                *)
THEOREM SettledIsUpToDate == Spec => []UpToDate
<1>1. Init => LoadsInv BY LoadsInit
<1>2. LoadsInv /\ [Next]_vars => LoadsInv' BY LoadsStep
<1>3. LoadsInv => UpToDate
  BY DEF LoadsInv, LoadInv, SettledIsFresh, UpToDate, Load!UpToDate
<1> QED BY <1>1, <1>2, <1>3, PTL DEF Spec

(* While a page stays open, no resource goes back to an earlier state of   *)
(* the database (useApi.ts:14-17, 36-46).                                  *)
THEOREM ShownNeverGoesBack == Spec => NeverBack
<1>1. Init => LoadsInv BY LoadsInit
<1>2. LoadsInv /\ [Next]_vars => LoadsInv' BY LoadsStep
<1>3. LoadsInv /\ [Next]_vars =>
        [\A l \in DOMAIN Loads : on = l => Load(l)!Advances]_vars
  <2> SUFFICES ASSUME LoadsInv, [Next]_vars, NEW l \in DOMAIN Loads, on = l
               PROVE  Load(l)!Advances
    OBVIOUS
  <2>1. LoadInv(l) BY DEF LoadsInv
  <2>2. UNCHANGED resources \/ Load(l)!Next BY PartsStep
  <2> QED BY <2>1, <2>2, LoadAdvances
<1> QED BY <1>1, <1>2, <1>3, PTL DEF Spec, NeverBack

-----------------------------------------------------------------------------
(* Whoever is signed in, or about to be, has been given a cookie, and the  *)
(* browser never throws it away.                                           *)
HasCookie(t) ==
  auth[t] = "ready" \/ (\E m \in Sessions!Mount : attempt[t][m].at = "resolved")
    => jar # 0

Cookies == \A t \in Tab : HasCookie(t)

(* An attempt is resolved only by an answer to a live cookie.              *)
ResolvedByCookie(t) ==
  \A m \in Sessions!Mount :
    attempt'[t][m].at = "resolved" =>
      attempt[t][m].at = "resolved" \/ Sessions!Live(jar)

LEMMA CookiesStay ==
  ASSUME Cookies, jar # 0 => jar' # 0,
         NEW t \in Tab, ResolvedByCookie(t),
         auth'[t] = "ready" =>
           \/ auth[t] = "ready"
           \/ \E m \in Sessions!Mount : attempt[t][m].at = "resolved"
  PROVE  HasCookie(t)'
BY DEF Cookies, HasCookie, ResolvedByCookie, Sessions!Live

(* An attempt that goes anywhere else resolves nothing.                    *)
LEMMA MoveResolvesNothing ==
  ASSUME SessionsInv, NEW t \in Tab, NEW m \in Sessions!Mount,
         NEW place \in AttemptPlace, Sessions!Move(t, m, place),
         place # "resolved"
  PROVE  \A u \in Tab : ResolvedByCookie(u)
BY MoveIsMoved DEF ResolvedByCookie

LEMMA CookiesShow ==
  ASSUME SessionsInv, Cookies, NEW t \in Tab, Sessions!Show(t)
  PROVE  Cookies'
<1>1. /\ jar' = jar /\ auth' = [auth EXCEPT ![t] = "checking"]
      /\ \E new : attempt' = [attempt EXCEPT ![t] =
           [m \in Sessions!Mount |-> IF m \in new THEN [at |-> "me", me |-> 0]
                                     ELSE attempt[t][m]]]
  BY DEF Sessions!Show
<1>2. \A u \in Tab : ResolvedByCookie(u)
  BY <1>1 DEF ResolvedByCookie, SessionsInv, SessionsTyped
<1>3. \A u \in Tab : auth'[u] = "ready" => auth[u] = "ready"
  BY <1>1 DEF SessionsInv, SessionsTyped
<1> QED BY <1>1, <1>2, <1>3, CookiesStay DEF Cookies

LEMMA CookiesAskMe ==
  ASSUME SessionsInv, Cookies, NEW t \in Tab, NEW m \in Sessions!Mount,
         Sessions!AskMe(t, m)
  PROVE  Cookies'
<1>1. jar' = jar /\ auth' = auth
  BY DEF Sessions!AskMe, Sessions!console
<1>2. \A u \in Tab : ResolvedByCookie(u)
  <2>1. CASE Sessions!Live(jar)
    BY <2>1 DEF ResolvedByCookie
  <2>2. CASE ~Sessions!Live(jar)
    <3>1. \/ Sessions!Move(t, m, "session")
          \/ Sessions!Move(t, m, "rejected")
      BY <2>2 DEF Sessions!AskMe, Sessions!Reject
    <3> QED BY <3>1, MoveResolvesNothing DEF AttemptPlace, Asking
  <2> QED BY <2>1, <2>2
<1> QED BY <1>1, <1>2, CookiesStay DEF Cookies

LEMMA CookiesStep ==
  ASSUME SessionsInv, Cookies, [Sessions!Next]_sessions
  PROVE  Cookies'
<1>1. ASSUME UNCHANGED <<jar, attempt>>,
             \A t \in Tab : auth'[t] = "ready" =>
               \/ auth[t] = "ready"
               \/ \E m \in Sessions!Mount : attempt[t][m].at = "resolved"
      PROVE  Cookies'
  <2>1. \A t \in Tab : ResolvedByCookie(t) BY <1>1 DEF ResolvedByCookie
  <2> QED BY <1>1, <2>1, CookiesStay DEF Cookies
<1>2. CASE UNCHANGED sessions BY <1>1, <1>2 DEF sessions
<1>3. CASE Sessions!Tick \/ Sessions!Reset
  BY <1>1, <1>3
  DEF Sessions!Tick, Sessions!Reset, Sessions!console, Sessions!boot
<1>4. ASSUME NEW t \in Tab, Sessions!CheckBet(t) \/ Sessions!PlaceBet(t)
      PROVE  Cookies'
  BY <1>1, <1>4 DEF Sessions!CheckBet, Sessions!PlaceBet, Sessions!boot
<1>5. ASSUME NEW t \in Tab, Sessions!Review(t)
      PROVE  Cookies'
  <2>1. /\ UNCHANGED <<jar, attempt>>
        /\ auth' = [auth EXCEPT ![t] = "checking"]
    BY <1>5 DEF Sessions!Review, Sessions!boot
  <2> QED BY <1>1, <2>1 DEF SessionsInv, SessionsTyped
<1>6. ASSUME NEW t \in Tab, Sessions!Settle(t)
      PROVE  Cookies'
  <2>1. /\ UNCHANGED <<jar, attempt>>
        /\ \/ /\ auth' = [auth EXCEPT ![t] = "ready"]
              /\ attempt[t][waits[t]].at = "resolved"
           \/ auth' = [auth EXCEPT ![t] = "failed"]
    BY <1>6 DEF Sessions!Settle, Sessions!boot
  <2>2. waits[t] \in Sessions!Mount BY DEF SessionsInv, SessionsTyped
  <2> QED BY <1>1, <2>1, <2>2 DEF SessionsInv, SessionsTyped
<1>7. ASSUME NEW t \in Tab, NEW m \in Sessions!Mount,
             Sessions!StartSession(t, m)
      PROVE  Cookies'
  <2>1. /\ Sessions!Move(t, m, "again") /\ auth' = auth
        /\ Sessions!InsertRow(t) /\ jar' = Len(expires')
    BY <1>7 DEF Sessions!StartSession, Sessions!console
  <2>2. Len(expires') = Len(expires) + 1 /\ Len(expires) \in Nat
    BY <2>1, RowAdded, LenProperties DEF SessionsInv, SessionsTyped
  <2>3. jar' # 0 BY <2>1, <2>2
  <2> QED BY <2>3 DEF Cookies, HasCookie
<1>8. ASSUME NEW t \in Tab, NEW m \in Sessions!Mount, Sessions!Lose(t, m)
      PROVE  Cookies'
  <2>1. Sessions!Move(t, m, "rejected") /\ UNCHANGED <<jar, auth>>
    BY <1>8 DEF Sessions!Lose, Sessions!Reject, Sessions!console
  <2>2. \A u \in Tab : ResolvedByCookie(u)
    BY <2>1, MoveResolvesNothing DEF AttemptPlace
  <2> QED BY <2>1, <2>2, CookiesStay DEF Cookies
<1> QED
  BY <1>2, <1>3, <1>4, <1>5, <1>6, <1>7, <1>8, CookiesShow, CookiesAskMe
  DEF Sessions!Next

(* A console that is ready has the cookie of a session row, in every tab   *)
(* and whatever is reset: only the clock can sign it out                   *)
(* (session.ts:59-66, reset.ts:37-41, bootstrap.ts:28-44).                 *)
THEOREM SignedInUntilTheClock == Spec => []Sessions!SignedInUntilExpiry
<1>1. Init => SessionsInv BY SessionsInit
<1>2. Init => Cookies
  <2> SUFFICES ASSUME Init PROVE Cookies OBVIOUS
  <2>1. Sessions!Init BY PartsInit
  <2> QED BY <2>1 DEF Sessions!Init, Cookies, HasCookie
<1>3. SessionsInv /\ [Next]_vars => SessionsInv' BY PartsStep, SessionsStep
<1>4. SessionsInv /\ Cookies /\ [Next]_vars => Cookies'
  BY PartsStep, CookiesStep
<1>5. SessionsInv /\ Cookies => Sessions!SignedInUntilExpiry
  BY LenProperties
  DEF SessionsInv, SessionsTyped, RowsLive, Cookies, HasCookie,
      Sessions!SignedInUntilExpiry
<1> QED BY <1>1, <1>2, <1>3, <1>4, <1>5, PTL DEF Spec

-----------------------------------------------------------------------------
(* A dialog that is open has not sent its reset.                           *)
DialogsAnswered ==
  /\ sent \in Nat /\ dialogs \in Nat
  /\ sent <= dialogs
  /\ dialog => sent < dialogs

LEMMA DialogsStep ==
  ASSUME DialogsAnswered, NEW p, Page(p)!Next
  PROVE  DialogsAnswered'
<1>1. CASE Page(p)!AskReset
  BY <1>1 DEF Page!AskReset, DialogsAnswered
<1>2. CASE \E reset \in BOOLEAN : Page(p)!LeaveMenu(reset)
  BY <1>2 DEF Page!LeaveMenu, DialogsAnswered
<1>3. CASE Page(p)!CancelReset
  BY <1>3 DEF Page!CancelReset, DialogsAnswered
<1>4. CASE Page(p)!ConfirmReset
  <2>1. /\ dialog /\ dialog' = FALSE
        /\ sent' = sent + 1 /\ dialogs' = dialogs
    BY <1>4 DEF Page!ConfirmReset, Page!chrome
  <2> QED BY <2>1 DEF DialogsAnswered
<1>5. CASE Page(p)!Mount \/ Page(p)!ToReview
  <2>1. dialog' = FALSE /\ UNCHANGED <<dialogs, sent>>
    BY <1>5 DEF Page!Mount, Page!ToReview
  <2> QED BY <2>1 DEF DialogsAnswered
<1>6. CASE UNCHANGED <<dialog, dialogs, sent>>
  BY <1>6 DEF DialogsAnswered
<1>7. CASE Page(p)!OpenMenu
  BY <1>6, <1>7 DEF Page!OpenMenu
<1>8. CASE \E b \in Pages[p].Bet :
             Page(p)!PlaceBet(b) \/ Page(p)!BetElsewhere(b) \/ Page(p)!Toggle(b)
  BY <1>6, <1>8
  DEF Page!PlaceBet, Page!BetElsewhere, Page!Toggle, Page!chrome
<1>9. CASE \E q \in running :
             Page(p)!Serve(q) \/ Page(p)!Answer(q) \/ Page(p)!Fail(q)
  BY <1>6, <1>9 DEF Page!Serve, Page!Answer, Page!Fail, Page!chrome
<1>10. CASE \/ Page(p)!ResetElsewhere \/ Page(p)!PlayAgain
            \/ Page(p)!ShowBets \/ Page(p)!ShowEntries \/ Page(p)!Unlight
  BY <1>6, <1>10
  DEF Page!ResetElsewhere, Page!PlayAgain, Page!ShowBets, Page!ShowEntries,
      Page!Unlight, Page!chrome
<1>11. CASE \/ \E r \in {"bets", "entries"} : Page(p)!ListLost(r)
            \/ \E t \in {"ledger", "rules"} : Page(p)!SelectTab(t)
  BY <1>6, <1>11 DEF Page!ListLost, Page!SelectTab, Page!chrome
<1> QED
  BY <1>1, <1>2, <1>3, <1>4, <1>5, <1>7, <1>8, <1>9, <1>10, <1>11
  DEF Page!Next

(* However often Confirm is clicked and whatever a menu or a review page   *)
(* does to the dialog, a page sends no more resets than dialogs were       *)
(* opened (ResetDialog.tsx:4-8, App.tsx:281-290).                          *)
THEOREM EachResetIsAsked ==
  Spec => [](\A p \in DOMAIN Pages : Page(p)!EachResetAsked)
<1>1. Init => DialogsAnswered
  <2> SUFFICES ASSUME Init PROVE DialogsAnswered OBVIOUS
  <2>1. PICK p \in DOMAIN Pages : Page(p)!Init BY PartsInit
  <2>2. sent = 0 /\ dialogs = 0 /\ dialog = FALSE BY <2>1 DEF Page!Init
  <2> QED BY <2>2 DEF DialogsAnswered
<1>2. DialogsAnswered /\ [Next]_vars => DialogsAnswered'
  <2> SUFFICES ASSUME DialogsAnswered, [Next]_vars PROVE DialogsAnswered'
    OBVIOUS
  <2>1. CASE UNCHANGED lists BY <2>1 DEF lists, DialogsAnswered
  <2> QED BY <2>1, PartsStep, DialogsStep
<1>3. DialogsAnswered => \A p \in DOMAIN Pages : Page(p)!EachResetAsked
  BY DEF DialogsAnswered, Page!EachResetAsked
<1> QED BY <1>1, <1>2, <1>3, PTL DEF Spec
=============================================================================
