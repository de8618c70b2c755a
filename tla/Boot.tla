-------------------------------- MODULE Boot --------------------------------
(***************************************************************************)
(* Instances of the service starting on one database: runMigrations, each  *)
(* file in a transaction of its own, then ensureActiveSeed, then listen.   *)
(* A boot that fails exits and the platform starts it again, as often as   *)
(* railway.json says; an instance may also die at any point.  Instances    *)
(* may run different releases, with more files or with an edited one.      *)
(***************************************************************************)
EXTENDS Naturals, FiniteSets

CONSTANTS
  Instance,   \* running copies of the service
  Files,      \* migrations are numbered 1 .. Files, in filename order
  Content,    \* Content[i][f]: the file an instance ships, 0 for none
  MaxRetries, \* restartPolicyMaxRetries
  MaxSeed,    \* bound: seeds a rotation or a reset may generate
  MaxCrashes  \* bound: deaths of instances, in all

File == 1 .. Files

ContentAssumption ==
  /\ Files \in Nat /\ MaxRetries \in Nat
  /\ Content \in [Instance -> [File -> Nat]]

VARIABLES
  table,     \* _migrations exists
  recorded,  \* its committed checksums, 0 for a file not recorded
  effects,   \* how often each file's statements have been committed
  active,    \* the seeds with status 'active'
  generated, \* the last seed generated
  pc,        \* where each instance is in its boot
  file,      \* the file it is at
  seen,      \* its snapshot of _migrations
  failures,  \* how many of its boots failed
  errors,    \* why boots failed
  crashes    \* deaths so far

vars == <<table, recorded, effects, active, generated, pc, file, seen,
          failures, errors, crashes>>
schema == <<table, recorded, effects>>
seeds  == <<active, generated>>
local  == <<file, seen>>

Goto(i, place) == pc' = [pc EXCEPT ![i] = place]

(* console.error and process.exit(1).                                      *)
Fail(i, error) ==
  /\ Goto(i, "down")
  /\ failures' = [failures EXCEPT ![i] = @ + 1]
  /\ errors' = errors \cup {error}

Keep == UNCHANGED <<failures, errors, crashes>>

-----------------------------------------------------------------------------
Start(i) ==
  /\ pc[i] = "down"
  /\ failures[i] <= MaxRetries
  /\ Goto(i, "table")
  /\ Keep /\ UNCHANGED <<schema, seeds, local>>

(* CREATE TABLE IF NOT EXISTS looks first ...                              *)
LookForTable(i) ==
  /\ pc[i] = "table"
  /\ Goto(i, IF table THEN "read" ELSE "create")
  /\ Keep /\ UNCHANGED <<schema, seeds, local>>

(* ... and fails if the table has appeared since.                          *)
CreateTable(i) ==
  /\ pc[i] = "create"
  /\ IF table THEN Fail(i, "table_exists") ELSE Goto(i, "read") /\ UNCHANGED
                                                <<failures, errors>>
  /\ table' = TRUE
  /\ UNCHANGED <<recorded, effects, seeds, local, crashes>>

(* Altered: the rows are read by the first boot of the process and kept.   *)
ReadMigrationsOnce(i) ==
  /\ pc[i] = "read"
  /\ seen' = [seen EXCEPT ![i] = IF failures[i] = 0 THEN recorded ELSE @]
  /\ file' = [file EXCEPT ![i] = 1]
  /\ Goto(i, "file")
  /\ Keep /\ UNCHANGED <<schema, seeds>>

(* The snapshot of what is applied, taken once, before the first file.     *)
ReadMigrations(i) ==
  /\ pc[i] = "read"
  /\ seen' = [seen EXCEPT ![i] = recorded]
  /\ file' = [file EXCEPT ![i] = 1]
  /\ Goto(i, "file")
  /\ Keep /\ UNCHANGED <<schema, seeds>>

AtFile(i) == pc[i] = "file" /\ file[i] <= Files

(* A file whose contents changed after it was applied is a hard error.     *)
RejectEdited(i) ==
  /\ AtFile(i)
  /\ Content[i][file[i]] # 0
  /\ seen[i][file[i]] \notin {0, Content[i][file[i]]}
  /\ Fail(i, "edited")
  /\ UNCHANGED <<schema, seeds, local, crashes>>

Skippable(i, f) == Content[i][f] \in {0, seen[i][f]}

SkipFile(i) ==
  /\ AtFile(i)
  /\ Skippable(i, file[i])
  /\ file' = [file EXCEPT ![i] = @ + 1]
  /\ Keep /\ UNCHANGED <<schema, seeds, pc, seen>>

(* BEGIN and the file's statements.                                        *)
RunFile(i) ==
  /\ AtFile(i)
  /\ Content[i][file[i]] # 0 /\ seen[i][file[i]] = 0
  /\ Goto(i, "record")
  /\ Keep /\ UNCHANGED <<schema, seeds, local>>

(* A file another instance is applying makes this one wait, in the         *)
(* catalogue or at the primary key of _migrations; once the other has      *)
(* committed, the statement that waited fails.                             *)
FileCollides(i) ==
  /\ pc[i] = "record"
  /\ recorded[file[i]] # 0
  /\ Fail(i, IF recorded[file[i]] = Content[i][file[i]]
             THEN "already_applied" ELSE "other_contents")
  /\ UNCHANGED <<schema, seeds, local, crashes>>

RecordFile(i) ==
  /\ pc[i] = "record"
  /\ recorded[file[i]] = 0
  /\ \A j \in Instance \ {i} : ~(pc[j] = "commit" /\ file[j] = file[i])
  /\ Goto(i, "commit")
  /\ Keep /\ UNCHANGED <<schema, seeds, local>>

(* Altered: the record is written in a transaction of its own, later.      *)
CommitEffects(i) ==
  /\ pc[i] = "commit"
  /\ effects' = [effects EXCEPT ![file[i]] = @ + 1]
  /\ \/ recorded' = recorded /\ pc' = [pc EXCEPT ![i] = "down"] /\ file' = file
     \/ /\ recorded' = [recorded EXCEPT ![file[i]] = Content[i][file[i]]]
        /\ pc' = [pc EXCEPT ![i] = "file"]
        /\ file' = [file EXCEPT ![i] = @ + 1]
  /\ Keep /\ UNCHANGED <<table, seeds, seen>>

CommitFile(i) ==
  /\ pc[i] = "commit"
  /\ recorded' = [recorded EXCEPT ![file[i]] = Content[i][file[i]]]
  /\ effects' = [effects EXCEPT ![file[i]] = @ + 1]
  /\ file' = [file EXCEPT ![i] = @ + 1]
  /\ Goto(i, "file")
  /\ Keep /\ UNCHANGED <<table, seeds, seen>>

Migrated(i) ==
  /\ pc[i] = "file" /\ file[i] > Files
  /\ Goto(i, "seed")
  /\ Keep /\ UNCHANGED <<schema, seeds, local>>

-----------------------------------------------------------------------------
(* Altered: a latch of the process instead of the index.                   *)
NoSeedByLatch(i) == failures[i] = 0

(* server_seeds_single_active.                                             *)
NoSeed(i) == active = {}

(* insertActiveSeed: INSERT ... ON CONFLICT DO NOTHING.                    *)
InsertSeed(i) ==
  /\ pc[i] = "seed"
  /\ IF NoSeed(i)
     THEN /\ generated' = generated + 1
          /\ active' = active \cup {generated'}
          /\ Goto(i, "listen")
     ELSE Goto(i, "find") /\ UNCHANGED seeds
  /\ Keep /\ UNCHANGED <<schema, local>>

(* getActiveCommitment, a statement of its own.                            *)
FindSeed(i) ==
  /\ pc[i] = "find"
  /\ IF active # {}
     THEN Goto(i, "listen") /\ UNCHANGED <<failures, errors>>
     ELSE Fail(i, "no_seed")
  /\ UNCHANGED <<schema, seeds, local, crashes>>

Listen(i) ==
  /\ pc[i] = "listen"
  /\ Goto(i, "serving")
  /\ Keep /\ UNCHANGED <<schema, seeds, local>>

(* Altered: the successor is inserted in a second transaction.             *)
RevealFirst(i) ==
  /\ pc[i] = "serving"
  /\ generated < MaxSeed
  /\ IF active # {} THEN active' = {} /\ UNCHANGED generated
     ELSE active' = {generated + 1} /\ generated' = generated + 1
  /\ Keep /\ UNCHANGED <<schema, local, pc>>

(* A serving instance rotates the seed, or resets the demo: either way a   *)
(* new seed replaces the old one in one commit.                            *)
ReplaceSeed(i) ==
  /\ pc[i] = "serving"
  /\ generated < MaxSeed
  /\ generated' = generated + 1
  /\ active' = {generated'}
  /\ Keep /\ UNCHANGED <<schema, local, pc>>

(* The process dies, or is told to stop; an open transaction rolls back.   *)
Die(i) ==
  /\ pc[i] # "down"
  /\ crashes < MaxCrashes
  /\ crashes' = crashes + 1
  /\ Goto(i, "down")
  /\ UNCHANGED <<schema, seeds, local, failures, errors>>

-----------------------------------------------------------------------------
Init ==
  /\ table = FALSE
  /\ recorded = [f \in File |-> 0] /\ effects = [f \in File |-> 0]
  /\ active = {} /\ generated = 0
  /\ pc = [i \in Instance |-> "down"] /\ file = [i \in Instance |-> 1]
  /\ seen = [i \in Instance |-> recorded]
  /\ failures = [i \in Instance |-> 0] /\ errors = {} /\ crashes = 0

Proceed(i) ==
  \/ Start(i) \/ LookForTable(i) \/ CreateTable(i) \/ ReadMigrations(i)
  \/ RejectEdited(i) \/ SkipFile(i) \/ RunFile(i) \/ FileCollides(i)
  \/ RecordFile(i) \/ CommitFile(i) \/ Migrated(i)
  \/ InsertSeed(i) \/ FindSeed(i) \/ Listen(i)

Next == \E i \in Instance : Proceed(i) \/ ReplaceSeed(i) \/ Die(i)

Spec == Init /\ [][Next]_vars

(* A process that is not dead runs; the platform restarts a dead one.      *)
FairSpec == Spec /\ \A i \in Instance : WF_vars(Proceed(i))

-----------------------------------------------------------------------------
(* Files take effect in order and without a gap, exactly once each, and    *)
(* are recorded if and only if they did, whoever dies in between           *)
(* (migrate.ts:27-28, 63-71).                                              *)
AppliedOnceInOrder ==
  \A f \in File :
    /\ effects[f] = IF recorded[f] = 0 THEN 0 ELSE 1
    /\ recorded[f] # 0 =>
         \A g \in 1 .. f - 1 :
           recorded[g] # 0 \/ \E i \in Instance : Content[i][g] = 0

(* An instance that serves runs on exactly the files it shipped with, and  *)
(* has a commitment to publish (migrate.ts:28-30, server.ts:57-60).        *)
ServesItsOwnSchema ==
  \A i \in Instance :
    pc[i] = "serving" =>
      /\ \A f \in File : Content[i][f] \in {0, recorded[f]}
      /\ Cardinality(active) = 1

(* A boot never replaces an active seed, nor adds a second one: only a     *)
(* rotation or a reset does (seeds.ts:37-47).                              *)
BootKeepsSeed ==
  [][active # {} /\ active' # active =>
       \E i \in Instance : pc[i] = "serving" /\ pc' = pc]_vars

(* Between the insert that found a seed and the read of that seed there    *)
(* may be a rotation, but never no seed (seeds.ts:55-58, 78-82).           *)
BootFindsSeed == "no_seed" \notin errors

(* Every instance whose files were not edited serves in the end.           *)
Unedited(i) ==
  \A f \in File, j \in Instance :
    Content[i][f] = 0 \/ Content[j][f] \in {0, Content[i][f]}
EveryInstanceServes ==
  \A i \in Instance : Unedited(i) => <>(pc[i] = "serving")

(* migrate.ts:27-28: "Safe to run on every boot: already-applied files are *)
(* skipped".                                                               *)
AppliedFilesSkipped == "already_applied" \notin errors
=============================================================================
