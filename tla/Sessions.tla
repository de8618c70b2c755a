------------------------------ MODULE Sessions ------------------------------
(***************************************************************************)
(* Sessions, from the rows and the cookie to the consoles that start them. *)
(* The tabs of one browser share the cookie.  In each tab the console is   *)
(* mounted when its page is shown and unmounted when the review page is,   *)
(* while bootstrap.ts keeps its promise as long as the tab is open.        *)
(* StrictMode mounts every effect twice at once and cancels the first.     *)
(***************************************************************************)
EXTENDS Naturals, Sequences

CONSTANTS
  Tab,
  TTL,        \* SESSION_TTL_MS, in ticks
  MaxTime,    \* bound: ticks
  MaxRows,    \* bound: session rows
  MaxMoney,   \* bound: no bet or reset begins after so many
  MaxFaults   \* bound: requests or answers lost

SessionsAssumption == TTL \in Nat

Mount == 1 .. 2

VARIABLES
  clock,
  expires,   \* expires_at of every row of sessions; a row's index is its token
  jar,       \* the token in the browser's cookie, 0 for none
  money,     \* how often the balance changed: what GET /me answers
  page,      \* what each tab shows: nothing yet, the app or the review
  attempt,   \* where the attempt each mount started is, and its answer
  inFlight,  \* bootstrap.ts: the mount whose attempt is kept, 0 for null
  waits,     \* the mount whose attempt the console waits for
  auth,      \* App.tsx: AuthState
  me,        \* App.tsx: the account it shows
  mountedAt, \* the balance when the console was last mounted
  bet,       \* whether a bet of the tab has passed requireSession
  made,      \* rows made for each tab
  lost,      \* answers to POST /session each tab lost
  faulted,   \* whether a request of the tab was lost since it was mounted
  faults

server  == <<clock, expires, money>>
console == <<page, waits, auth, me, mountedAt, bet>>
boot    == <<attempt, inFlight>>
history == <<made, lost, faulted, faults>>
vars == <<server, jar, console, boot, history>>

-----------------------------------------------------------------------------
(* resolveSession.                                                         *)
Live(token) == token # 0 /\ token <= Len(expires) /\ expires[token] > clock

Tick ==
  /\ clock < MaxTime
  /\ clock' = clock + 1
  /\ UNCHANGED <<expires, money, jar, console, boot, history>>

KeptByReset == expires

(* The demo reset: the balance changes, accounts and sessions stay.        *)
Reset ==
  /\ money < MaxMoney
  /\ money' = money + 1
  /\ expires' = KeptByReset
  /\ UNCHANGED <<clock, jar, console, boot, history>>

-----------------------------------------------------------------------------
(* Altered: every caller starts an attempt of its own.                     *)
AfterAll(promise, m) == m

(* if (inFlight) return inFlight; otherwise the caller's own.              *)
After(promise, m) == IF promise = 0 THEN m ELSE promise

(* The page is shown: both mounts ask, and the second one's answer counts. *)
Show(t) ==
  /\ page[t] # "app"
  /\ LET first  == After(inFlight[t], 1)
         second == After(first, 2)
         new == {m \in Mount : \/ m = first /\ first # inFlight[t]
                               \/ m = second /\ second # first}
     IN /\ attempt' = [attempt EXCEPT ![t] =
             [m \in Mount |-> IF m \in new THEN [at |-> "me", me |-> 0]
                              ELSE @[m]]]
        /\ inFlight' = [inFlight EXCEPT ![t] = second]
        /\ waits' = [waits EXCEPT ![t] = second]
  /\ page' = [page EXCEPT ![t] = "app"]
  /\ auth' = [auth EXCEPT ![t] = "checking"]
  /\ mountedAt' = [mountedAt EXCEPT ![t] = money]
  /\ faulted' = [faulted EXCEPT ![t] = FALSE]
  /\ UNCHANGED <<server, jar, me, bet, made, lost, faults>>

(* Unmounting drops the component's state and cancels what it waits for.   *)
Review(t) ==
  /\ page[t] = "app" /\ ~bet[t]
  /\ page' = [page EXCEPT ![t] = "review"]
  /\ auth' = [auth EXCEPT ![t] = "checking"]
  /\ me' = [me EXCEPT ![t] = 0]
  /\ UNCHANGED <<server, jar, waits, mountedAt, bet, boot, history>>

At(t, m, place)   == attempt[t][m].at = place
Move(t, m, place) == attempt' = [attempt EXCEPT ![t][m].at = place]

(* Altered: the promise is kept when its attempt fails.                    *)
ForgetNothing(t, m) == inFlight' = inFlight

(* attempt.catch: a failed attempt is forgotten.                           *)
Forget(t, m) ==
  inFlight' = [inFlight EXCEPT ![t] = IF @ = m THEN 0 ELSE @]

Reject(t, m) == Move(t, m, "rejected") /\ Forget(t, m)

(* deps.me: answered, or 401, which the second time ends the attempt.      *)
AskMe(t, m) ==
  \/ /\ At(t, m, "me") \/ At(t, m, "again")
     /\ Live(jar)
     /\ attempt' = [attempt EXCEPT ![t][m] = [at |-> "resolved", me |-> money]]
     /\ UNCHANGED <<server, jar, console, inFlight, history>>
  \/ /\ At(t, m, "me") /\ ~Live(jar)
     /\ Move(t, m, "session")
     /\ UNCHANGED <<server, jar, console, inFlight, history>>
  \/ /\ At(t, m, "again") /\ ~Live(jar)
     /\ Reject(t, m)
     /\ faulted' = [faulted EXCEPT ![t] = TRUE]
     /\ UNCHANGED <<server, jar, console, made, lost, faults>>

InsertRow(t) ==
  /\ Len(expires) < MaxRows
  /\ expires' = Append(expires, clock + TTL)
  /\ made' = [made EXCEPT ![t] = @ + 1]

(* POST /session: a row, and its token in the cookie.                      *)
StartSession(t, m) ==
  /\ At(t, m, "session")
  /\ InsertRow(t)
  /\ jar' = Len(expires')
  /\ Move(t, m, "again")
  /\ UNCHANGED <<clock, money, console, inFlight, lost, faulted, faults>>

(* A request of the attempt, or its answer, is lost.                       *)
Lose(t, m) ==
  /\ faults < MaxFaults
  /\ faults' = faults + 1
  /\ faulted' = [faulted EXCEPT ![t] = TRUE]
  /\ \/ /\ \E place \in {"me", "session", "again"} : At(t, m, place)
        /\ UNCHANGED <<expires, made, lost>>
     \/ /\ At(t, m, "session")
        /\ InsertRow(t)
        /\ lost' = [lost EXCEPT ![t] = @ + 1]
  /\ Reject(t, m)
  /\ UNCHANGED <<clock, money, jar, console>>

(* The promise settles for the console that is mounted.                    *)
Settle(t) ==
  /\ page[t] = "app" /\ auth[t] = "checking"
  /\ LET result == attempt[t][waits[t]] IN
     \/ /\ result.at = "resolved"
        /\ auth' = [auth EXCEPT ![t] = "ready"]
        /\ me' = [me EXCEPT ![t] = result.me]
     \/ /\ result.at = "rejected"
        /\ auth' = [auth EXCEPT ![t] = "failed"]
        /\ UNCHANGED me
  /\ UNCHANGED <<server, jar, page, waits, mountedAt, bet, boot, history>>

-----------------------------------------------------------------------------
(* POST /bets: requireSession in the preHandler ...                        *)
CheckBet(t) ==
  /\ page[t] = "app" /\ auth[t] = "ready" /\ ~bet[t]
  /\ Live(jar) /\ money < MaxMoney
  /\ bet' = [bet EXCEPT ![t] = TRUE]
  /\ UNCHANGED <<server, jar, page, waits, auth, me, mountedAt, boot, history>>

(* ... the bet itself, and then the console reloads its account, or keeps  *)
(* what it shows if the session is over by then.                           *)
PlaceBet(t) ==
  /\ bet[t]
  /\ money' = money + 1
  /\ bet' = [bet EXCEPT ![t] = FALSE]
  /\ me' = [me EXCEPT ![t] = IF Live(jar) THEN money' ELSE @]
  /\ UNCHANGED <<clock, expires, jar, page, waits, auth, mountedAt, boot, history>>

Init ==
  /\ clock = 0 /\ expires = <<>> /\ jar = 0 /\ money = 1
  /\ page = [t \in Tab |-> "none"]
  /\ attempt = [t \in Tab |-> [m \in Mount |-> [at |-> "none", me |-> 0]]]
  /\ inFlight = [t \in Tab |-> 0] /\ waits = [t \in Tab |-> 1]
  /\ auth = [t \in Tab |-> "checking"] /\ me = [t \in Tab |-> 0]
  /\ mountedAt = [t \in Tab |-> 0] /\ bet = [t \in Tab |-> FALSE]
  /\ made = [t \in Tab |-> 0] /\ lost = [t \in Tab |-> 0]
  /\ faulted = [t \in Tab |-> FALSE] /\ faults = 0

Next ==
  \/ Tick
  \/ Reset
  \/ \E t \in Tab :
       \/ Show(t) \/ Review(t) \/ Settle(t) \/ CheckBet(t) \/ PlaceBet(t)
       \/ \E m \in Mount : AskMe(t, m) \/ StartSession(t, m) \/ Lose(t, m)

Spec == Init /\ [][Next]_vars

-----------------------------------------------------------------------------
(* However often a tab mounts the console, it makes one session, and       *)
(* another only for each whose answer it lost; a session that has expired  *)
(* may be replaced (bootstrap.ts:9-21, App.tsx:58-60).                     *)
OneRowPerBoot ==
  clock < TTL => \A t \in Tab : made[t] <= 1 + lost[t]

(* A console that shows a failure met one since it was mounted: an earlier *)
(* failure is not handed out again (bootstrap.ts:19-21, 39-41).            *)
FailsForAReason == \A t \in Tab : auth[t] = "failed" => faulted[t]

(* A console that is ready stays signed in until the session of the cookie *)
(* expires, whatever other tabs and resets do (session.ts:59-66,           *)
(* reset.ts:37-41).                                                        *)
SignedInUntilExpiry ==
  \A t \in Tab : auth[t] = "ready" => jar \in 1 .. Len(expires)

(* useApi.ts:14-17: the console must not show "a balance that is quietly   *)
(* out of date": what it shows is no older than its own mounting.          *)
ShownSinceMounted ==
  \A t \in Tab : auth[t] = "ready" => me[t] >= mountedAt[t]
=============================================================================
