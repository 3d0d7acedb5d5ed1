---------------------------- MODULE BackupBarrier ----------------------------
(* `animemo-updater backup` (durability/backup_production.py, backup.py) next *)
(* to the other commands of the host: it binds the same config, locator and   *)
(* CURRENT release, takes the same update.lock, stops the API, copies the     *)
(* database and the media files, publishes the bundle and its key, and starts *)
(* the API again.  The API accepts uploads whenever it runs.                  *)
EXTENDS ConfigurationChange

CONSTANT MaxUploads  \* bound: uploads ever

ASSUME BackupAssumption == "backup" \in Guest /\ MaxUploads \in Nat

VARIABLES
  media,   \* uploads in the files and in the database
  backup,  \* the backup command
  bundle,  \* what the last backup has copied, and for which plan
  key      \* its one-time key file exists

backupVars == <<backup, bundle, key>>
hostVars == <<vars, media, backupVars>>

Upload == 0..MaxUploads
Media == [files : Upload, rows : Upload]
Seen == [locator : Locator, media : Media]
BackupSteps ==
  <<"stop", "barrier", "inventory", "key", "dump", "copy", "finalize", "verify">>

Quiet == [stage |-> "idle", seen |-> [locator |-> Origin.locator, media |-> [files |-> 0, rows |-> 0]],
          ran |-> FALSE, failed |-> FALSE, bound |-> FALSE, outcome |-> "none"]
NoBundle == [state |-> "none", files |-> 0, rows |-> 0, seen |-> Quiet.seen]

BackupInit ==
  /\ ConfigInit
  /\ media = [files |-> 0, rows |-> 0]
  /\ backup = Quiet
  /\ bundle = NoBundle
  /\ key = FALSE

-----------------------------------------------------------------------------
(* The API: an upload writes its file before its row is committed.            *)

Pending == media.files # media.rows

UploadWrites ==
  /\ host.app # Down /\ ~Pending /\ media.files < MaxUploads
  /\ media' = [media EXCEPT !.files = @ + 1]
  /\ UNCHANGED <<vars, backupVars>>

UploadCommits ==
  /\ host.app # Down /\ Pending
  /\ media' = [media EXCEPT !.rows = media.files]
  /\ UNCHANGED <<vars, backupVars>>

-----------------------------------------------------------------------------
(* Planning and admission. *)

\* bind and _plan_for: config, locator and release agree, no write is pending.
Bindable == Coherent /\ ~Pending
Binding == [locator |-> host.locator, media |-> media]

Plan ==
  /\ backup.stage = "idle"
  /\ Bindable
  /\ backup' = [Quiet EXCEPT !.stage = "planned", !.seen = Binding]
  /\ UNCHANGED <<vars, media, bundle, key>>

\* _require_same_plan and _require_operations_clear, under the lock.
Admissible == Bindable /\ Binding = backup.seen /\ ~barrier

(* The plan is accepted and the state of the API read, or it is refused; the  *)
(* bundle and the key of this backup do not exist yet.                        *)
BeginBackup ==
  /\ backup.stage = "planned"
  /\ lock = Nobody
  /\ IF Admissible
     THEN /\ lock' = "backup"
          /\ backup' = [backup EXCEPT !.stage = Head(BackupSteps), !.ran = host.app # Down]
          /\ bundle' = [NoBundle EXCEPT !.seen = backup.seen]
          /\ key' = FALSE
     ELSE /\ backup' = Quiet
          /\ UNCHANGED <<lock, bundle, key>>
  /\ UNCHANGED <<host, minted, journal, manager, agentVars, budget, media>>

-----------------------------------------------------------------------------
(* Behind the barrier. *)

\* Mutant: only the pending writes are looked at, not what came since the plan.
MutantFound(s) ==
  CASE s = "barrier" -> host.app = Down
    [] s = "inventory" -> ~Pending
    [] OTHER -> TRUE

\* verify_write_barrier, and media_inventory compared with the plan's.
Found(s) ==
  CASE s = "barrier" -> host.app = Down
    [] s = "inventory" -> ~Pending /\ media = backup.seen.media
    [] OTHER -> TRUE

Following(s) ==
  IF s = "verify" THEN "restore" ELSE After(BackupSteps, s)

StopWriters == host' = IF backup.ran THEN [host EXCEPT !.app = Down] ELSE host
StartWriters == host' = IF backup.ran THEN [host EXCEPT !.app = host.config] ELSE host

\* create_backup: the dump, the files, and the rename that publishes them.
Capture(s) ==
  bundle' = CASE s = "dump" -> [bundle EXCEPT !.state = "staging", !.rows = media.rows]
              [] s = "copy" -> [bundle EXCEPT !.files = media.files]
              [] s = "finalize" -> [bundle EXCEPT !.state = "published"]

Bound(s) == backup.bound \/ s = "finalize"

Copying == {"dump", "copy", "finalize"}

\* A step up to the verification is done.
BackupStep ==
  LET s == backup.stage IN
  /\ s \in Range(BackupSteps)
  /\ Found(s)
  /\ backup' = [backup EXCEPT !.stage = Following(s), !.bound = Bound(s)]
  /\ IF s = "stop" THEN StopWriters ELSE UNCHANGED host
  /\ IF s = "key" THEN key' = TRUE ELSE UNCHANGED key
  /\ IF s \in Copying THEN Capture(s) ELSE UNCHANGED bundle
  /\ UNCHANGED <<minted, journal, manager, lock, agentVars, media, budget>>

(* Or it ends the backup: it found something else, or it failed.  A failed    *)
(* stop may have stopped the API, a key half written is removed again, and a  *)
(* rename that cannot be made durable is undone, unless that fails as well.   *)
BackupError ==
  LET s == backup.stage IN
  /\ s \in Range(BackupSteps)
  /\ backup' = [backup EXCEPT !.stage = "restore", !.failed = TRUE]
  /\ \/ ~Found(s) /\ UNCHANGED <<host, bundle, budget>>
     \/ /\ Found(s) /\ Fault
        /\ (s = "stop" /\ StopWriters) \/ UNCHANGED host
        /\ UNCHANGED bundle
     \/ /\ s = "finalize" /\ budget > 1 /\ budget' = budget - 2
        /\ Capture(s)
        /\ UNCHANGED host
  /\ UNCHANGED <<minted, journal, manager, lock, agentVars, media, key>>

-----------------------------------------------------------------------------
(* Out again. *)

\* An unbound key is discarded.
Discarded == key' = (key /\ backup.bound)

\* Mutant: every writer of the contract is started.
MutantRestore ==
  /\ backup.stage = "restore"
  /\ host' = [host EXCEPT !.app = host.config]
  /\ backup' = [backup EXCEPT !.stage = "health"]
  /\ UNCHANGED <<minted, journal, manager, lock, agentVars, budget, media, bundle, key>>

\* restore_writers starts exactly what ran, with the environment of the binding.
Restore ==
  /\ backup.stage = "restore"
  /\ \/ /\ StartWriters
        /\ backup' = [backup EXCEPT !.stage = "health"]
        /\ UNCHANGED <<key, budget>>
     \/ /\ Fault
        /\ StartWriters \/ UNCHANGED host
        /\ backup' = [backup EXCEPT !.stage = "done", !.outcome = "RECOVERY_REQUIRED"]
        /\ Discarded
  /\ UNCHANGED <<minted, journal, manager, lock, agentVars, media, bundle>>

VerifyHealth ==
  /\ backup.stage = "health"
  /\ \/ /\ backup' = [backup EXCEPT !.stage = "done", !.outcome =
             IF backup.failed THEN "BACKUP_FAILED_NO_RUNTIME_DAMAGE" ELSE "BACKUP_SUCCEEDED"]
        /\ IF backup.failed THEN Discarded ELSE UNCHANGED key
        /\ UNCHANGED budget
     \/ /\ backup.ran /\ Fault
        /\ backup' = [backup EXCEPT !.stage = "done", !.outcome = "RECOVERY_REQUIRED"]
        /\ Discarded
  /\ UNCHANGED <<host, minted, journal, manager, lock, agentVars, media, bundle>>

ReturnBackup ==
  /\ backup.stage = "done"
  /\ backup' = Quiet
  /\ lock' = Nobody
  /\ UNCHANGED <<host, minted, journal, manager, agentVars, budget, media, bundle, key>>

\* A killed backup: a `compose` command that has begun may have done its work.
KillBackup ==
  /\ lock = "backup" /\ Fault
  /\ \/ UNCHANGED host
     \/ backup.stage = "stop" /\ StopWriters
     \/ backup.stage = "restore" /\ StartWriters
  /\ backup' = Quiet
  /\ lock' = Nobody
  /\ UNCHANGED <<minted, journal, manager, agentVars, media, bundle, key>>

BackupAdvance == BackupStep \/ BackupError \/ Restore \/ VerifyHealth \/ ReturnBackup

BackupNext ==
  \/ ConfigNext /\ UNCHANGED <<media, backupVars>>
  \/ UploadWrites \/ UploadCommits
  \/ Plan \/ BeginBackup \/ BackupAdvance \/ KillBackup

BackupFairness == ConfigFairness /\ WF_hostVars(BackupAdvance)

BackupSpec == BackupInit /\ [][BackupNext]_hostVars /\ BackupFairness

-----------------------------------------------------------------------------
(* Properties. *)

(* A published bundle is of one moment, the one its plan was accepted for:    *)
(* the rows of its dump name exactly the files it holds, although the API     *)
(* accepted uploads until it was stopped (ProductionBackupRuntime.execute).   *)
BundleIsOfOneMoment ==
  bundle.state = "published" =>
    [files |-> bundle.files, rows |-> bundle.rows] = bundle.seen.media
      /\ bundle.files = bundle.rows

(* What a backup reports is true: unless it asks for recovery, the API runs   *)
(* again exactly if it ran before, with the managed configuration; a success  *)
(* has its bundle and the key that opens it, a failure that has bound no key  *)
(* leaves none behind.                                                        *)
BackupReportIsTrue ==
  backup.stage = "done" /\ backup.outcome # "RECOVERY_REQUIRED" =>
    /\ host.app = IF backup.ran THEN host.config ELSE Down
    /\ backup.outcome = "BACKUP_SUCCEEDED" => bundle.state = "published" /\ key
    /\ ~backup.bound => ~key
=============================================================================
