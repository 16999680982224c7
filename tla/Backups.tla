------------------------------- MODULE Backups -------------------------------
(***************************************************************************)
(* Backups and the import of one.  A backup (maintenance once a day, the   *)
(* shell or the panel at any time, and an import before it changes         *)
(* anything) collects, packs into the backup directory, encrypts when it   *)
(* holds secrets, tests the archive and then removes the archives beyond   *)
(* the number to keep.  Nothing keeps two backups apart.  An import stops  *)
(* the services, writes one part of the host after the other over what is  *)
(* there and, when a part fails, imports the backup it made in the same    *)
(* way; then it starts the services.                                       *)
(***************************************************************************)
EXTENDS Integers, Sequences, FiniteSets, SequencesExt

CONSTANTS Makers,      \* processes that make backups
          Automatic,   \* the one that maintenance starts
          Importer,    \* the one that imports
          DailyKeep,   \* BACKUP_RETENTION_DAILY
          WeeklyKeep,  \* BACKUP_RETENTION_WEEKLY
          MaxMade,     \* bound: backups begun
          MaxBackupFaults \* bound: failures and kills

ASSUME BackupConstants ==
    /\ {Automatic, Importer} \subseteq Makers
    /\ DailyKeep \in Nat \ {0} /\ WeeklyKeep \in Nat \ {0}

VARIABLES dir,     \* the backup directory: each file with the time of its last write
          maker,   \* the backups under way
          import,  \* the import under way
          host,    \* the parts of the host, by whose content they have; files of
                   \*   another's beside it do not count
          serving, \* mosproxy and the panel run, and nothing has told them to stop
          weekOld, \* the newest weekly archive is 156 hours old, or there is none
          everGood,  \* history: kinds of which an archive passed its test
          crowded,   \* history: kinds whose removal met too many unfinished files
          stranded,  \* history: an import was killed, or failed with no way back
          unsure,    \* history: parts of the host that a failed write, or an import that
                     \*   no backup could undo, has left in an unknown state
          unstarted, \* history: the last start of the services was warned of
          made,      \* history: backups begun
          written,   \* history: the time of the last write to the directory
          backupFaults   \* history: faults so far

hostVars == <<host, serving, stranded, unsure, unstarted>>
backupVars == <<dir, maker, import, hostVars, weekOld, everGood, crowded, made, written, backupFaults>>

\* What an import writes, in its order: the database; the migration bundle with
\* rules and lists; config.env; the secrets; the configuration of mosproxy and
\* of Unbound with the unit files.  A part's failure ends the import, except
\* the bundle's.
Parts == <<"state", "bundle", "config", "secrets", "services">>
PartNames == ToSet(Parts)

\* What a package need not hold: the database and the bundle come only with
\* their mode and role, and their failure is only logged; the rest as far as
\* the host has it, units that cannot be copied left out.  config.env is in
\* every package, the secrets in none that an import makes before it begins.
MayLack(p) == p # "config"
MayHold(p) == p # "secrets" \/ ~import.back

Keep(kind) == IF kind = "weekly" THEN WeeklyKeep ELSE DailyKeep

NoBackup == [pc |-> "idle", file |-> 0, kind |-> "daily"]
Importing(pc) == [pc |-> pc, pre |-> 0, at |-> 0, back |-> FALSE, doubts |-> unsure]
NoImport == [pc |-> "idle", pre |-> 0, at |-> 0, back |-> FALSE, doubts |-> {}]

BackupInit ==
    /\ dir = {}
    /\ maker = [m \in Makers |-> NoBackup]
    /\ import = NoImport
    /\ host = [p \in PartNames |-> "old"]
    /\ serving = TRUE
    /\ weekOld = TRUE
    /\ everGood = {} /\ crowded = {}
    /\ stranded = FALSE /\ unsure = {} /\ unstarted = FALSE
    /\ made = 0 /\ written = 0 /\ backupFaults = 0

Without(id) == {f \in dir : f.id # id}
Present(id) == \E f \in dir : f.id = id

\* The archives of a kind, listed by the time of their last write: those
\* listed before f are newer.
archivesWithPrefix(kind) == {f \in dir : f.kind = kind}
Newer(f) == {g \in archivesWithPrefix(f.kind) : g.at > f.at}

\* A manual backup is a daily one; an automatic one is weekly when due.
archivePrefix(m) == IF m = Automatic /\ weekOld THEN "weekly" ELSE "daily"

Fault == backupFaults < MaxBackupFaults /\ backupFaults' = backupFaults + 1

\* The import is refused when its own backup fails.
BackupEnds(m, ok) ==
    /\ maker' = [maker EXCEPT ![m] = NoBackup]
    /\ import' = IF m # Importer THEN import
                 ELSE IF ok THEN [import EXCEPT !.pc = "stop", !.pre = maker[m].file]
                 ELSE NoImport

\* CheckDiskSpace and CollectPayload.
Backup(m) ==
    /\ m # Importer
    /\ maker[m].pc = "idle"
    /\ made < MaxMade
    /\ made' = made + 1
    /\ maker' = [maker EXCEPT ![m] = [pc |-> "pack", file |-> made + 1, kind |-> archivePrefix(m)]]
    /\ UNCHANGED <<dir, import, hostVars, weekOld, everGood, crowded, written, backupFaults>>

\* writeTarZstd: the archive is in the directory from its first byte on.
packBegins(m) ==
    /\ maker[m].pc = "pack"
    /\ written' = written + 1
    /\ dir' = dir \cup {[id |-> maker[m].file, kind |-> maker[m].kind, good |-> FALSE, at |-> written + 1]}
    /\ maker' = [maker EXCEPT ![m].pc = "packing"]
    /\ weekOld' = (weekOld /\ maker[m].kind # "weekly")
    /\ UNCHANGED <<import, hostVars, everGood, crowded, made, backupFaults>>

\* Packing, encryption or the test fails, the last also because another
\* backup has removed the file: the archive is removed.  The weekly is then due
\* again.
packFails(m) ==
    /\ maker[m].pc \in {"packing", "test"}
    /\ \/ Fault
       \/ maker[m].pc = "test" /\ ~Present(maker[m].file) /\ UNCHANGED backupFaults
    /\ dir' = Without(maker[m].file)
    /\ weekOld' = (weekOld \/ maker[m].kind = "weekly")
    /\ BackupEnds(m, FALSE)
    /\ UNCHANGED <<hostVars, everGood, crowded, made, written>>

\* Those beyond the first keep go.
Removed == {f \in dir : Cardinality(Newer(f)) >= Keep(f.kind)}

\* Files that are not archives yet, or never will be, other than m's own.
Unfinished(m, kind) == {f \in dir : f.kind = kind /\ ~f.good /\ f.id # maker[m].file}

Prune(m) ==
    /\ dir' = dir \ Removed
    /\ crowded' = crowded \cup {k \in {"daily", "weekly"} : Cardinality(Unfinished(m, k)) >= Keep(k)}

\* Removal before the test.
packEndsPruning(m) ==
    /\ maker[m].pc = "packing"
    /\ Prune(m)
    /\ maker' = [maker EXCEPT ![m].pc = "test"]
    /\ UNCHANGED <<import, hostVars, weekOld, everGood, made, written, backupFaults>>

packEnds(m) ==
    /\ maker[m].pc = "packing"
    /\ written' = written + 1
    /\ dir' = {IF f.id = maker[m].file THEN [f EXCEPT !.at = written + 1] ELSE f : f \in dir}
    /\ maker' = [maker EXCEPT ![m].pc = "test"]
    /\ UNCHANGED <<import, hostVars, weekOld, everGood, crowded, made, backupFaults>>

\* verifyArchive: the archive can be decrypted and unpacked.
verifyArchive(m) ==
    /\ maker[m].pc = "test"
    /\ Present(maker[m].file)
    /\ dir' = {IF f.id = maker[m].file THEN [f EXCEPT !.good = TRUE] ELSE f : f \in dir}
    /\ everGood' = everGood \cup {maker[m].kind}
    /\ maker' = [maker EXCEPT ![m].pc = "prune"]
    /\ UNCHANGED <<import, hostVars, weekOld, crowded, made, written, backupFaults>>

cleanupOld(m) ==
    /\ maker[m].pc = "prune"
    /\ Prune(m)
    /\ BackupEnds(m, TRUE)
    /\ UNCHANGED <<hostVars, weekOld, everGood, made, written, backupFaults>>

WeekPasses ==
    /\ ~weekOld
    /\ weekOld' = TRUE
    /\ UNCHANGED <<dir, maker, import, hostVars, everGood, crowded, made, written, backupFaults>>

\* A killed backup leaves its file.
BackupKilled(m) ==
    /\ maker[m].pc # "idle"
    /\ Fault
    /\ maker' = [maker EXCEPT ![m] = NoBackup]
    /\ import' = IF m = Importer THEN NoImport ELSE import
    /\ UNCHANGED <<dir, hostVars, weekOld, everGood, crowded, made, written>>

\* Import of a package that was decrypted, unpacked and checked, and whose
\* role fits; before it, a backup, when there is any state to save.
Import ==
    /\ import.pc = "idle" /\ maker[Importer].pc = "idle"
    /\ made < MaxMade
    /\ made' = made + 1
    /\ \/ /\ maker' = [maker EXCEPT ![Importer] = [pc |-> "pack", file |-> made + 1, kind |-> "daily"]]
          /\ import' = Importing("backup")
       \/ /\ import' = Importing("stop")   \* --no-rollback, or an empty host
          /\ UNCHANGED maker
    /\ UNCHANGED <<dir, hostVars, weekOld, everGood, crowded, written, backupFaults>>

\* Whether systemctl stopped them is not looked at; from here on nothing
\* counts on them.
stopServices ==
    /\ import.pc = "stop"
    /\ serving' = FALSE /\ unstarted' = FALSE
    /\ import' = [import EXCEPT !.pc = "apply", !.at = 1]
    /\ UNCHANGED <<dir, maker, host, weekOld, everGood, crowded, stranded, unsure, made, written, backupFaults>>

\* mergeConfig keeps the addresses of the host's own config.env: when that file
\* was cut short they are not in it, and do not come back.
CutShort(p) == p = "config" /\ host[p] = "torn"

\* A part written over what is there: files and settings of the package
\* replace their own like, others stay.  So the way back leaves a
\* part with its old content, and the package's files and settings that the
\* old ones did not have.
Overlay(p) ==
    IF CutShort(p) THEN "torn" ELSE IF import.back THEN "old" ELSE "new"

\* One part of applyImport: absent from the package; written; or failed, half
\* of it written.  The bundle's failure is a warning.  What the import has
\* written and its backup does not hold stays as it is.
applyPart ==
    LET p == Parts[import.at]
        next == IF import.at = Len(Parts) THEN [import EXCEPT !.pc = "restart"]
                ELSE [import EXCEPT !.at = @ + 1]
    IN
    /\ import.pc = "apply"
    /\ \/ /\ MayLack(p)
          /\ unsure' = IF import.back /\ host[p] = "new" THEN unsure \cup {p} ELSE unsure
          /\ import' = next
          /\ UNCHANGED <<host, backupFaults>>
       \/ /\ MayHold(p)
          /\ host' = [host EXCEPT ![p] = Overlay(p)]
          /\ unsure' = IF CutShort(p) \/ (import.back /\ p \in import.doubts) THEN unsure \cup {p}
                       ELSE unsure \ {p}
          /\ import' = next
          /\ UNCHANGED backupFaults
       \/ /\ MayHold(p)
          /\ Fault
          /\ host' = [host EXCEPT ![p] = "torn"]
          /\ unsure' = unsure \cup {p}
          /\ import' = IF p = "bundle" THEN next ELSE [import EXCEPT !.pc = "failed"]
    /\ UNCHANGED <<dir, maker, serving, weekOld, everGood, crowded, stranded, unstarted, made, written>>

\* The way back: the backup made before is imported, whatever it holds.
\* Without one, or when that import does not get as far (the file is gone, the
\* disk full), or when this was the way back, the import ends here.
Return ==
    /\ import.pc = "failed"
    /\ \/ /\ ~import.back /\ import.pre # 0 /\ Present(import.pre)
          /\ import' = [import EXCEPT !.pc = "stop", !.back = TRUE]
          /\ UNCHANGED stranded
       \/ import' = NoImport /\ stranded' = TRUE
    /\ UNCHANGED <<dir, maker, host, serving, unsure, unstarted, weekOld, everGood, crowded, made, written, backupFaults>>

\* The way back leaves the services as they are.
restartForward ==
    /\ import.pc = "restart"
    /\ IF import.back THEN UNCHANGED <<serving, unstarted>> ELSE serving' = TRUE /\ unstarted' = FALSE
    /\ import' = NoImport
    /\ host' = [p \in PartNames |-> IF host[p] = "new" /\ ~import.back THEN "old" ELSE host[p]]
    /\ UNCHANGED <<dir, maker, weekOld, everGood, crowded, stranded, unsure, made, written, backupFaults>>

\* restartAndProbe: a service that does not start is warned of.  A complete
\* import is from now on what the host is.
restartAndProbe ==
    /\ import.pc = "restart"
    /\ serving' \in BOOLEAN
    /\ unstarted' = ~serving'
    /\ import' = NoImport
    /\ host' = [p \in PartNames |-> IF ~import.back /\ host[p] = "new" THEN "old" ELSE host[p]]
    /\ UNCHANGED <<dir, maker, weekOld, everGood, crowded, stranded, unsure, made, written, backupFaults>>

ImportKilled ==
    /\ import.pc \in {"stop", "apply", "failed", "restart"}
    /\ Fault
    /\ import' = NoImport
    /\ stranded' = TRUE
    /\ UNCHANGED <<dir, maker, host, serving, unsure, unstarted, weekOld, everGood, crowded, made, written>>

BackupNext ==
    \/ WeekPasses \/ Import \/ stopServices \/ applyPart \/ Return \/ restartAndProbe \/ ImportKilled
    \/ \E m \in Makers : \/ Backup(m) \/ packBegins(m) \/ packEnds(m) \/ packFails(m)
                         \/ verifyArchive(m) \/ cleanupOld(m) \/ BackupKilled(m)

BackupSpec == BackupInit /\ [][BackupNext]_backupVars

\* Once an archive of a kind has passed its test there is always one, whatever
\* backups overlap, fail or are killed, as long as fewer unfinished files than
\* the number to keep lie in the directory when a backup removes old ones
\* (Backup tests the archive before cleanupOld; Prune keeps the newest).
GoodArchiveStays ==
    \A k \in everGood \ crowded : \E f \in dir : f.kind = k /\ f.good

\* When an import has ended, with success or after its way back, the services
\* were started again or what did not start was warned of, and every part of
\* the host is one's: the package's or, after the way back, the host's own.
\* Excepted is a part that a failed write left torn and no later one has
\* mended, and one that the import wrote and its backup did not hold, which
\* config.env never is (applyImport, mergeConfig, restartAndProbe).
ImportEndsWhole ==
    import.pc \in {"idle", "backup"} /\ ~stranded =>
        /\ serving \/ unstarted
        /\ \A p \in PartNames \ unsure : host[p] = "old"
=============================================================================
