------------------------------- MODULE Verify -------------------------------
(***************************************************************************)
(* Who can check a result, and with what answer: the seeds table and the   *)
(* outcome it gives each bet, the verification a browser carries out on    *)
(* its own, and GET /fairness/verify.  Statements are atomic here (their   *)
(* locks are module Settlement's); a check spans several of them.          *)
(*                                                                         *)
(* SHA-256 and HMAC-SHA256 stand as constructors, so two digests are equal *)
(* when their inputs are, and a roll is the digest it is taken from.  What *)
(* goes into them is kept: the text of a secret and the characters of a    *)
(* message.                                                                *)
(***************************************************************************)
EXTENDS Integers, Sequences, FiniteSets

CONSTANTS
  Client,    \* client seeds, as sequences of characters
  Base,      \* numerals are written in this base: 10
  MaxBets,   \* bound: bets settled
  MaxSeeds,  \* bound: secrets made
  MaxResets  \* bound: resets

VerifyAssumption ==
  /\ \A c \in Client : c \in Seq({c[i] : i \in DOMAIN c}) /\ Len(c) > 0
  /\ Base \in 2 .. 10
  /\ {MaxBets, MaxSeeds, MaxResets} \subseteq Nat

VARIABLES
  seeds,      \* server_seeds: [secret, revealed], oldest first
  nonce,      \* the active seed's nonce
  made,       \* secrets generated so far
  bets,       \* the bets table: [n, secret, client, nonce, roll]
  settled,    \* every bet there ever was
  disclosed,  \* secrets whose plaintext has left the server
  resets,
  check,      \* the browser's check: [stage, row, revealed]
  verdict,    \* its verification
  answer      \* the last answer of GET /fairness/verify

vars == <<seeds, nonce, made, bets, settled, disclosed, resets, check,
          verdict, answer>>

Stranger == 0   \* 64 hex characters this server never made

(***************************************************************************)
(* The outcome                                                             *)
(***************************************************************************)
Text(secret) == <<"text", secret>>

Sha256(text) == <<"sha256", text>>
SeedHashOf(secret) == Sha256(Text(secret))

Digit == <<"0", "1", "2", "3", "4", "5", "6", "7", "8", "9">>

Numeral[n \in Nat] ==
  IF n < Base
    THEN <<Digit[n + 1]>>
    ELSE Append(Numeral[n \div Base], Digit[(n % Base) + 1])

(* Altered: the client seed and the nonce are run together.                *)
MessageUnseparated(client, n) == client \o Numeral[n]

Message(client, n) == client \o <<":">> \o Numeral[n]

ComputeOutcome(key, client, n) == <<"hmac", key, Message(client, n)>>

(***************************************************************************)
(* The server                                                              *)
(***************************************************************************)
Active == seeds[Len(seeds)]
Revealed == {seeds[i] : i \in {j \in DOMAIN seeds : seeds[j].revealed}}

Init ==
  /\ seeds = <<[secret |-> 1, revealed |-> FALSE]>>
  /\ nonce = 0 /\ made = 1
  /\ bets = {} /\ settled = {} /\ disclosed = {}
  /\ resets = 0
  /\ check = [stage |-> "idle"]
  /\ verdict = [state |-> "none"]
  /\ answer = [matchesHash |-> FALSE]

PlaceBet(client) ==
  /\ Cardinality(settled) < MaxBets
  /\ LET bet == [n |-> Cardinality(settled) + 1, secret |-> Active.secret,
                 client |-> client, nonce |-> nonce,
                 roll |-> ComputeOutcome(Text(Active.secret), client, nonce)]
     IN  /\ bets' = bets \union {bet}
         /\ settled' = settled \union {bet}
  /\ nonce' = nonce + 1
  /\ UNCHANGED <<seeds, made, disclosed, resets, check, verdict, answer>>

(* POST /fairness/rotate, from this browser or any other.                  *)
Rotate ==
  /\ made < MaxSeeds
  /\ made' = made + 1
  /\ seeds' = Append([seeds EXCEPT ![Len(seeds)].revealed = TRUE],
                     [secret |-> made + 1, revealed |-> FALSE])
  /\ nonce' = 0
  /\ disclosed' = disclosed \union {Active.secret}
  /\ UNCHANGED <<bets, settled, resets, check, verdict, answer>>

(* A reset empties server_seeds and bets and makes a seed of its own.      *)
Reset ==
  /\ resets < MaxResets /\ made < MaxSeeds
  /\ resets' = resets + 1
  /\ made' = made + 1
  /\ seeds' = <<[secret |-> made + 1, revealed |-> FALSE]>>
  /\ nonce' = 0
  /\ bets' = {}
  /\ UNCHANGED <<settled, disclosed, check, verdict, answer>>

(***************************************************************************)
(* GET /fairness/verify                                                    *)
(***************************************************************************)
IsRevealedCommitment(hash) ==
  \E i \in 1 .. Len(seeds) :
    SeedHashOf(seeds[i].secret) = hash /\ seeds[i].revealed

(* A caller brings a secret and the inputs of some bet.                    *)
AskServer(secret, bet) ==
  /\ answer' =
       [secret |-> secret, bet |-> bet, known |-> secret \in disclosed,
        roll |-> ComputeOutcome(Text(secret), bet.client, bet.nonce),
        matchesHash |-> IsRevealedCommitment(SeedHashOf(secret))]
  /\ UNCHANGED <<seeds, nonce, made, bets, settled, disclosed, resets,
                 check, verdict>>

(***************************************************************************)
(* The browser's check                                                     *)
(***************************************************************************)
(* verifyBet: the row is one the page holds; GET /fairness/seeds is sent.  *)
StartCheck(row) ==
  /\ check.stage = "idle"
  /\ check' = [stage |-> "asked", row |-> row]
  /\ UNCHANGED <<seeds, nonce, made, bets, settled, disclosed, resets,
                 verdict, answer>>

(* The revealed seeds. The answer lists them newest first, but a seed is   *)
(* looked up by its hash there, and no two have one hash.                  *)
ServeSeeds ==
  /\ check.stage = "asked"
  /\ check' = [stage |-> "served", row |-> check.row,
               revealed |-> Revealed]
  /\ UNCHANGED <<seeds, nonce, made, bets, settled, disclosed, resets,
                 verdict, answer>>

(* Altered: the seed revealed last is taken for the bet's.                 *)
MatchNewest(revealed, hash) ==
  {s \in revealed : \A t \in revealed : t.secret <= s.secret}

Match(revealed, hash) == {s \in revealed : SeedHashOf(s.secret) = hash}

(* The browser's own code, with Web Crypto; none of the server's is used.  *)
BrowserSha256(text) == <<"sha256", text>>

BrowserOutcome(key, client, n) ==
  <<"hmac", key, client \o <<":">> \o Numeral[n]>>

(* The commitment and the outcome are computed again from the text of the  *)
(* secret; without a match there is nothing to compute from.               *)
Conclude ==
  /\ check.stage = "served"
  /\ LET row == check.row
         hash == SeedHashOf(row.secret)
         found == Match(check.revealed, hash)
     IN  \/ /\ found = {}
            /\ verdict' = [state |-> "unrevealed", row |-> row]
         \/ \E seed \in found :
              verdict' =
                [state |-> "done", row |-> row,
                 commitmentOk |-> BrowserSha256(Text(seed.secret)) = hash,
                 matches |-> BrowserOutcome(Text(seed.secret), row.client,
                                            row.nonce) = row.roll]
  /\ check' = [stage |-> "idle"]
  /\ UNCHANGED <<seeds, nonce, made, bets, settled, disclosed, resets,
                 answer>>

Next ==
  \/ \E client \in Client : PlaceBet(client)
  \/ Rotate
  \/ Reset
  \/ \E secret \in {Stranger} \union 1 .. made, bet \in settled :
       AskServer(secret, bet)
  \/ \E row \in bets : StartCheck(row)
  \/ ServeSeeds
  \/ Conclude

Spec == Init /\ [][Next]_vars

-----------------------------------------------------------------------------
(***************************************************************************)
(* Properties                                                              *)
(***************************************************************************)

(* No two bets of one secret are settled from the same message, whatever   *)
(* client seeds they bring: the nonce is used once and the colon keeps it  *)
(* from running into the client seed (outcome.ts:33-38, bet.ts:281).       *)
MessagesDiffer ==
  \A a, b \in settled : a # b /\ a.secret = b.secret => a.roll # b.roll

(* A check that concludes never accuses the server: whatever was rotated   *)
(* or reset since the bet and while the check ran, the secret it finds is  *)
(* the bet's, for its hash and for its roll (journey.ts:50-70,             *)
(* verify.ts:58-72).                                                       *)
ConcludedChecksAgree ==
  verdict.state = "done" => verdict.commitmentOk /\ verdict.matches

(* The server vouches only for secrets it has already disclosed, never for *)
(* the active one or one it did not make; for these its roll is the bet's  *)
(* (fairness.ts:66-74, seeds.ts:143-148).                                  *)
VouchedIsDisclosed ==
  answer.matchesHash =>
    /\ answer.known
    /\ answer.bet.secret = answer.secret => answer.roll = answer.bet.roll

(* matchesHash "says whether this server seed is one this service          *)
(* committed to and has since revealed" (fairness.ts:70-71).               *)
DisclosedIsVouched ==
  "known" \in DOMAIN answer /\ answer.known => answer.matchesHash
=============================================================================
