----------------------------- MODULE Maintenance -----------------------------
(***************************************************************************)
(* Routine maintenance of the certificate and of Unbound's log file.  The  *)
(* entry's certificate and key are written by acme.sh, key first, either   *)
(* when maintenance asks for it or from acme.sh's own cron; mosproxy loads *)
(* the pair from there.  The panel runs as another user and has copies,    *)
(* which only maintenance makes: certificate first, then key, then a       *)
(* restart of the panel.  The pairs are numbered by issue.                 *)
(***************************************************************************)
EXTENDS Integers

CONSTANTS MaxIssue,    \* bound: certificates issued
          MaxMaintFaults \* bound: failed commands, kills, lost log files

ASSUME MaintenanceConstants == MaxIssue \in Nat \ {0} /\ MaxMaintFaults \in Nat

VARIABLES entry,     \* the entry's certificate and key on disk
          acme,      \* acme.sh: idle, or between key and certificate
          due,       \* the certificate has to be renewed
          served,    \* the issue mosproxy has loaded
          copy,      \* the panel's certificate and key
          panelPair, \* the issue the panel has loaded; 0: it does not start
          step,      \* the maintenance step in progress, and its position
          unboundLog,       \* Unbound's log file: missing, owned by root, or right
          logOpen,   \* Unbound writes to that file
          torn,      \* history: a copy was interrupted after the certificate
          halfFixed, \* history: the log's owner was set and Unbound not told
          maintFaults \* history: faults so far

maintVars == <<entry, acme, due, served, copy, panelPair, step, unboundLog, logOpen,
               torn, halfFixed, maintFaults>>

Steps == {"idle", "inspect", "acme", "stale", "copyCert", "copyKey", "restartPanel",
          "logCheck", "logOwner", "logReopen"}

MaintInit ==
    /\ entry = [cert |-> 1, key |-> 1]
    /\ acme = "idle"
    /\ due = FALSE
    /\ served = 1
    /\ copy = [cert |-> 1, key |-> 1]
    /\ panelPair = 1
    /\ step = "idle"
    /\ unboundLog = "right" /\ logOpen = TRUE
    /\ torn = FALSE /\ halfFixed = FALSE
    /\ maintFaults = 0

\* Less than renewWhenDays left, or another public address.
CertAges ==
    /\ ~due
    /\ entry.cert < MaxIssue
    /\ due' = TRUE
    /\ UNCHANGED <<entry, acme, served, copy, panelPair, step, unboundLog, logOpen,
                   torn, halfFixed, maintFaults>>

\* acme.sh's own cron renews on its own schedule: the key ...
acmeCron ==
    /\ acme = "idle"
    /\ due
    /\ entry' = [entry EXCEPT !.key = @ + 1]
    /\ acme' = "cert"
    /\ UNCHANGED <<due, served, copy, panelPair, step, unboundLog, logOpen,
                   torn, halfFixed, maintFaults>>

\* ... then the certificate, and the reload command.
acmeCert ==
    /\ acme = "cert"
    /\ entry' = [entry EXCEPT !.cert = entry.key]
    /\ acme' = "idle"
    /\ due' = FALSE
    /\ UNCHANGED <<served, copy, panelPair, step, unboundLog, logOpen,
                   torn, halfFixed, maintFaults>>

\* mosproxy notices new files, or is restarted: a pair that does not fit is
\* not loaded.
ReloadMosproxyCert ==
    /\ entry.cert = entry.key
    /\ served # entry.cert
    /\ served' = entry.cert
    /\ UNCHANGED <<entry, acme, due, copy, panelPair, step, unboundLog, logOpen,
                   torn, halfFixed, maintFaults>>

Goto(next) == step' = next

\* A round of maintenance runs a step; the lock keeps it to one at a time.
BeginCert ==
    /\ step = "idle"
    /\ Goto("inspect")
    /\ UNCHANGED <<entry, acme, due, served, copy, panelPair, unboundLog, logOpen,
                   torn, halfFixed, maintFaults>>

\* A certificate that is not due is not looked at further.
inspectOnlyDue == IF due THEN "acme" ELSE "idle"

inspected == IF due THEN "acme" ELSE "stale"

\* InspectCert: a pair that does not fit ends the step with an error.
stepRenewCert ==
    /\ step = "inspect"
    /\ Goto(IF entry.cert = entry.key THEN inspected ELSE "idle")
    /\ UNCHANGED <<entry, acme, due, served, copy, panelPair, unboundLog, logOpen,
                   torn, halfFixed, maintFaults>>

\* acme.sh renews, or leaves it to its cron (exit 2), or fails.  While its cron
\* runs it does not run a second time.
runAcme ==
    /\ step = "acme"
    /\ \/ /\ acme = "idle" /\ due
          /\ entry' = [cert |-> entry.key + 1, key |-> entry.key + 1]
          /\ due' = FALSE
          /\ Goto("copyCert")
          /\ UNCHANGED maintFaults
       \/ Goto("stale") /\ UNCHANGED <<entry, due, maintFaults>>
       \/ /\ maintFaults < MaxMaintFaults
          /\ maintFaults' = maintFaults + 1
          /\ Goto("idle")
          /\ UNCHANGED <<entry, due>>
    /\ UNCHANGED <<acme, served, copy, panelPair, unboundLog, logOpen, torn, halfFixed>>

syncPanelCertIfStale ==
    /\ step = "stale"
    /\ Goto(IF copy.cert = entry.cert THEN "idle" ELSE "copyCert")
    /\ UNCHANGED <<entry, acme, due, served, copy, panelPair, unboundLog, logOpen,
                   torn, halfFixed, maintFaults>>

\* What "install" brings over in each of the two copies.
copied(at) == IF at = "copyCert" THEN [copy EXCEPT !.cert = entry.cert]
                                 ELSE [copy EXCEPT !.key = entry.key]

\* SyncPanelCert: a failed copy ends the step.
SyncPanelCert ==
    /\ step \in {"copyCert", "copyKey"}
    /\ \/ /\ copy' = copied(step)
          /\ Goto(IF step = "copyCert" THEN "copyKey" ELSE "restartPanel")
          /\ torn' = (torn /\ step = "copyCert")
          /\ UNCHANGED maintFaults
       \/ /\ maintFaults < MaxMaintFaults
          /\ maintFaults' = maintFaults + 1
          /\ torn' = (torn \/ step = "copyKey")
          /\ Goto("idle")
          /\ UNCHANGED copy
    /\ UNCHANGED <<entry, acme, due, served, panelPair, unboundLog, logOpen, halfFixed>>

restartPanel ==
    /\ step = "restartPanel"
    /\ panelPair' = IF copy.cert = copy.key THEN copy.cert ELSE 0
    /\ Goto("idle")
    /\ UNCHANGED <<entry, acme, due, served, copy, unboundLog, logOpen,
                   torn, halfFixed, maintFaults>>

\* The log file is removed or replaced under Unbound.
LogLost ==
    /\ maintFaults < MaxMaintFaults
    /\ maintFaults' = maintFaults + 1
    /\ unboundLog' \in {"missing", "root's"}
    /\ logOpen' = FALSE
    /\ UNCHANGED <<entry, acme, due, served, copy, panelPair, step, torn, halfFixed>>

BeginLog ==
    /\ step = "idle"
    /\ Goto("logCheck")
    /\ UNCHANGED <<entry, acme, due, served, copy, panelPair, unboundLog, logOpen,
                   torn, halfFixed, maintFaults>>

logNeedsWork == unboundLog # "right"

\* A missing file is created, as root's; one with the right owner is left alone.
stepUnboundLog ==
    /\ step = "logCheck"
    /\ \/ ~logNeedsWork /\ Goto("idle") /\ UNCHANGED unboundLog
       \/ logNeedsWork /\ Goto("logOwner") /\ unboundLog' = "root's"
    /\ UNCHANGED <<entry, acme, due, served, copy, panelPair, logOpen,
                   torn, halfFixed, maintFaults>>

\* The file may be gone again by now; then chown fails.
chownLog ==
    /\ step = "logOwner"
    /\ \/ /\ unboundLog # "missing"
          /\ unboundLog' = "right"
          /\ halfFixed' = TRUE
          /\ Goto("logReopen")
       \/ /\ unboundLog = "missing"
          /\ Goto("idle")
          /\ UNCHANGED <<unboundLog, halfFixed>>
    /\ UNCHANGED <<entry, acme, due, served, copy, panelPair, logOpen, torn, maintFaults>>

\* unbound-control log_reopen: Unbound opens the file that is there now.
logReopen ==
    /\ step = "logReopen"
    /\ logOpen' = (unboundLog = "right")
    /\ halfFixed' = FALSE
    /\ Goto("idle")
    /\ UNCHANGED <<entry, acme, due, served, copy, panelPair, unboundLog, torn, maintFaults>>

\* The round is killed, or a command of the log step fails.
MaintKilled ==
    /\ step # "idle"
    /\ maintFaults < MaxMaintFaults
    /\ maintFaults' = maintFaults + 1
    /\ torn' = (torn \/ step \in {"copyKey", "restartPanel"})
    /\ Goto("idle")
    /\ UNCHANGED <<entry, acme, due, served, copy, panelPair, unboundLog, logOpen, halfFixed>>

CertStep == stepRenewCert \/ runAcme \/ syncPanelCertIfStale \/ SyncPanelCert \/ restartPanel
LogStep == stepUnboundLog \/ chownLog \/ logReopen

MaintNext ==
    \/ CertAges \/ acmeCron \/ acmeCert \/ ReloadMosproxyCert
    \/ BeginCert \/ CertStep \/ LogLost \/ BeginLog \/ LogStep \/ MaintKilled

\* A renewal by acme.sh's own cron, which does not touch the panel's copy,
\* reaches the panel and mosproxy all the same (syncPanelCertIfStale).
RenewalReachesPanel == <>[]((panelPair = entry.cert /\ served = entry.cert) \/ torn)

\* A lost or mis-owned log file is made again and Unbound writes to it, unless
\* a round ended between setting the owner and telling Unbound (stepUnboundLog
\* takes the right owner for a finished repair).
LogIsWritten == <>[](logOpen \/ halfFixed)

\* What maintenance looks after is put right in the end: the certificates that
\* are served and the log that is written.
MaintenanceCatchesUp == RenewalReachesPanel /\ LogIsWritten
=============================================================================
