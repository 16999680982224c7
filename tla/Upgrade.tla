------------------------------- MODULE Upgrade -------------------------------
(***************************************************************************)
(* Upgrade of a binary and the services that run it.  An upgrade (shell,   *)
(* or the panel through systemd-run) takes the lock, fetches and verifies  *)
(* the newest build, saves the installed binary, puts the new one in its   *)
(* place, restarts the services and probes them; when that fails it puts   *)
(* the saved one back and restarts again.  The watchdog revives a failed   *)
(* service under the same lock.  A process may be killed anywhere.  The    *)
(* files beside the binary that say what it is are written and saved       *)
(* without a look at the result.                                           *)
(***************************************************************************)
EXTENDS Integers, FiniteSets

CONSTANTS Upgraders,    \* processes of "dns-stack upgrade"
          MaxBuild,   \* bound: builds published
          Good,         \* builds whose service starts
          Nobody,       \* the lock is free
          Watchdog,     \* the process that revives services
          MaxUpgrades,  \* bound: upgrades started
          MaxKills,     \* bound: killed upgrades
          MaxSilent     \* bound: labels that could not be saved or written

ASSUME UpgradeConstants ==
    /\ MaxBuild \in Nat \ {0} /\ Good \subseteq 1..MaxBuild /\ 1 \in Good
    /\ Nobody \notin Upgraders \cup {Watchdog} /\ Watchdog \notin Upgraders

VARIABLES release,  \* the newest build
          binary,   \* the build in the installed file
          label,    \* the build its two labels name; 0: none, an empty file
          service,  \* the build the service runs; 0: it failed
          upLock,   \* holder of upgrade.lock
          up,       \* the upgrades
          proven,   \* history: builds that passed restartAndCheck
          hurt,     \* history: an upgrade was killed half-way, or its way back
                    \*   failed, and none has succeeded since
          loose,    \* history: labels last written without effect, from a copy that
                    \*   was missing or loose itself, or not at all
          counts    \* history: upgrades started and killed, labels not written

upgradeVars == <<release, binary, label, service, upLock, up, proven, hurt, loose, counts>>

\* binary.sha256 is computed from the installed file, binary.build-id names
\* the version and goes back by way of a copy.
Labels == {"sum", "id"}

Resting == [pc |-> "idle", from |-> 0, to |-> 0, saved |-> 0, savedID |-> 0, copy |-> "none"]

UpgradeInit ==
    /\ release = 1 /\ binary = 1 /\ service = 1 /\ label = [l \in Labels |-> 1]
    /\ upLock = Nobody
    /\ up = [u \in Upgraders |-> Resting]
    /\ proven = {1}
    /\ hurt = FALSE
    /\ loose = {}
    /\ counts = [started |-> 0, killed |-> 0, silent |-> 0]

Publish ==
    /\ release < MaxBuild
    /\ release' = release + 1
    /\ UNCHANGED <<binary, label, service, upLock, up, proven, hurt, loose, counts>>

\* The process starts; its own version is the installed one's.
cmdUpgrade(u) ==
    /\ up[u].pc = "idle"
    /\ counts.started < MaxUpgrades
    /\ counts' = [counts EXCEPT !.started = @ + 1]
    /\ up' = [up EXCEPT ![u] = [Resting EXCEPT !.pc = "start", !.from = binary]]
    /\ UNCHANGED <<release, binary, label, service, upLock, proven, hurt, loose>>

\* The lock is not looked at.
TryLockAlways(p) == TRUE

TryLock(p) == upLock = Nobody

End(u) ==
    /\ up' = [up EXCEPT ![u] = Resting]
    /\ upLock' = IF upLock = u THEN Nobody ELSE upLock

\* Another upgrade, or the watchdog, holds the lock: the command fails.
Locked(u) ==
    /\ up[u].pc = "start"
    /\ \/ /\ TryLock(u)
          /\ upLock' = u
          /\ up' = [up EXCEPT ![u].pc = "fetch"]
       \/ ~TryLock(u) /\ End(u)
    /\ UNCHANGED <<release, binary, label, service, proven, hurt, loose, counts>>

\* Checksum, binary, version and build id; a mismatch or a failed download
\* ends it, and so do the version that is installed and --check.
fetchRelease(u) ==
    /\ up[u].pc = "fetch"
    /\ \/ \E force \in BOOLEAN :
            /\ release # up[u].from \/ force
            /\ up' = [up EXCEPT ![u].pc = "save", ![u].to = release]
            /\ UNCHANGED upLock
       \/ End(u)
    /\ UNCHANGED <<release, binary, label, service, proven, hurt, loose, counts>>

\* The binary and its build-id; only the first must succeed.
backupBinary(u) ==
    /\ up[u].pc = "save"
    /\ \/ /\ \E copied \in BOOLEAN :
               /\ ~copied => counts.silent < MaxSilent
               /\ counts' = IF copied THEN counts ELSE [counts EXCEPT !.silent = @ + 1]
               /\ up' = [up EXCEPT ![u] =
                     [@ EXCEPT !.pc = "replace", !.saved = binary,
                               !.savedID = IF copied THEN label["id"] ELSE 0,
                               !.copy = CASE ~copied -> "none"
                                          [] copied /\ "id" \in loose -> "loose"
                                          [] copied /\ "id" \notin loose -> "true"]]
          /\ UNCHANGED upLock
       \/ End(u) /\ UNCHANGED counts
    /\ UNCHANGED <<release, binary, label, service, proven, hurt, loose>>

replaceBinary(u) ==
    /\ up[u].pc = "replace"
    /\ \/ /\ binary' = up[u].to
          /\ up' = [up EXCEPT ![u].pc = "sidecar"]
          /\ UNCHANGED upLock
       \/ End(u) /\ UNCHANGED binary
    /\ UNCHANGED <<release, label, service, proven, hurt, loose, counts>>

\* The labels are written; each of those in bad keeps its text or is emptied.
Write(text, bad) ==
    /\ Cardinality(bad) <= MaxSilent - counts.silent
    /\ counts' = [counts EXCEPT !.silent = @ + Cardinality(bad)]
    /\ \E emptied \in SUBSET bad :
        label' = [l \in Labels |-> IF l \in emptied THEN 0
                                  ELSE IF l \in bad THEN label[l] ELSE text[l]]

writeSidecar(u) ==
    /\ up[u].pc = "sidecar"
    /\ \E bad \in SUBSET Labels :
        Write([l \in Labels |-> up[u].to], bad) /\ loose' = bad
    /\ up' = [up EXCEPT ![u].pc = "restart"]
    /\ UNCHANGED <<release, binary, service, upLock, proven, hurt>>

\* What a start of the service leads to.
Started == IF binary \in Good THEN binary ELSE 0

\* The restart and the probe.  A restart may fail before it begins, and a
\* service that runs may still fail the probe.
restartAndCheck(u) ==
    /\ up[u].pc = "restart"
    /\ \/ /\ Started # 0
          /\ service' = Started
          /\ proven' = proven \cup {binary}
          /\ hurt' = FALSE
          /\ End(u)
       \/ /\ service' \in {service, Started}
          /\ up' = [up EXCEPT ![u].pc = "rollback"]
          /\ UNCHANGED <<proven, hurt, upLock>>
    /\ UNCHANGED <<release, binary, label, loose, counts>>

\* The binary must come back; its build-id does if there is a copy.
rollback(u) ==
    /\ up[u].pc = "rollback"
    /\ \/ /\ binary' = up[u].saved
          /\ \E bad \in SUBSET Labels :
               /\ Write([sum |-> up[u].saved,
                         id  |-> IF up[u].copy = "none" THEN label["id"] ELSE up[u].savedID], bad)
               /\ loose' = IF up[u].copy = "true" THEN bad ELSE bad \cup {"id"}
          /\ up' = [up EXCEPT ![u].pc = "restartOld"]
          /\ UNCHANGED <<hurt, upLock>>
       \/ /\ End(u)
          /\ hurt' = TRUE
          /\ UNCHANGED <<binary, label, loose, counts>>
    /\ UNCHANGED <<release, service, proven>>

\* The way back ends without a restart.
restartOldSkipped(u) ==
    /\ up[u].pc = "restartOld"
    /\ End(u)
    /\ UNCHANGED <<release, binary, label, service, proven, hurt, loose, counts>>

restartOld(u) ==
    /\ up[u].pc = "restartOld"
    /\ \/ Started # 0 /\ service' = Started /\ UNCHANGED hurt
       \/ service' \in {service, Started} /\ hurt' = TRUE
    /\ End(u)
    /\ UNCHANGED <<release, binary, label, proven, loose, counts>>

\* A killed upgrade leaves what it has done; the lock goes with the process.
KillUpgrade(u) ==
    /\ up[u].pc # "idle"
    /\ counts.killed < MaxKills
    /\ counts' = [counts EXCEPT !.killed = @ + 1]
    /\ hurt' = (hurt \/ up[u].pc \in {"sidecar", "restart", "rollback", "restartOld"})
    /\ loose' = IF up[u].pc = "sidecar" THEN Labels ELSE loose
    /\ End(u)
    /\ UNCHANGED <<release, binary, label, service, proven>>

\* The watchdog finds a failed unit.
ReviveBegins ==
    /\ upLock = Nobody
    /\ service = 0
    /\ upLock' = Watchdog
    /\ UNCHANGED <<release, binary, label, service, up, proven, hurt, loose, counts>>

Revive ==
    /\ upLock = Watchdog
    /\ service' = IF service = 0 THEN Started ELSE service
    /\ upLock' = Nobody
    /\ UNCHANGED <<release, binary, label, up, proven, hurt, loose, counts>>

UpgradeNext ==
    \/ Publish \/ ReviveBegins \/ Revive
    \/ \E u \in Upgraders :
        \/ cmdUpgrade(u) \/ Locked(u) \/ fetchRelease(u) \/ backupBinary(u)
        \/ replaceBinary(u) \/ writeSidecar(u) \/ restartAndCheck(u) \/ rollback(u)
        \/ restartOld(u) \/ KillUpgrade(u)

UpgradeSpec == UpgradeInit /\ [][UpgradeNext]_upgradeVars

\* Whatever upgrades overlap, when none is at work the service runs the build
\* that is installed, and that build has once passed restart and probe, unless
\* an upgrade was killed after it replaced the binary or its way back failed,
\* until one succeeds; and each label names the installed build, after a way
\* back too, unless it could not be written or saved, until it can
\* (Upgrade, restartAndCheck, writeSidecar, cmdUpgrade's lock).
UpgradeSettles ==
    upLock = Nobody /\ (\A u \in Upgraders : up[u].pc \in {"idle", "start"}) =>
        /\ ~hurt => service = binary /\ binary \in proven
        /\ \A l \in Labels \ loose : label[l] = binary
=============================================================================
