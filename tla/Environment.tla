---------------------------- MODULE Environment ----------------------------
(***************************************************************************)
(* What a demo reset promises (reset.ts:67-83): the environment is only    *)
(* ever added to by whole requests or replaced by a fresh one with an      *)
(* active seed.  Every bet belongs to the environment it was placed in and *)
(* to the seed that was active there.                                      *)
(***************************************************************************)
EXTENDS Naturals

CONSTANTS
  Bet,        \* bet requests
  Deposit,    \* payment events
  MaxSeed     \* seeds are numbered as they are generated, up to this bound

Generated == 1 .. MaxSeed

VARIABLES
  seedOf,     \* the seed each settled bet was placed under, 0 if not settled
  credited,   \* the payment events that have been credited
  active      \* the seeds with status 'active'

environment == <<seedOf, credited, active>>

Fresh == seedOf = [b \in Bet |-> 0] /\ credited = {} /\ active = {1}

(* A bet settles under the seed that is active as it settles.              *)
Settle(b) ==
  /\ seedOf[b] = 0
  /\ \E s \in active : seedOf' = [seedOf EXCEPT ![b] = s]
  /\ UNCHANGED <<credited, active>>

Credit(d) ==
  /\ d \notin credited
  /\ credited' = credited \cup {d}
  /\ UNCHANGED <<seedOf, active>>

(* There is one active seed before and after, and it is a new one.         *)
Succeed ==
  \E s, next \in Generated :
    active = {s} /\ s < next /\ active' = {next}

Rotate == Succeed /\ UNCHANGED <<seedOf, credited>>

Refresh == Succeed /\ seedOf' = [b \in Bet |-> 0] /\ credited' = {}

EnvironmentNext ==
  \/ \E b \in Bet : Settle(b)
  \/ \E d \in Deposit : Credit(d)
  \/ Rotate
  \/ Refresh

EnvironmentSpec == Fresh /\ [][EnvironmentNext]_environment
=============================================================================
