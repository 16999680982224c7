---------------------------- MODULE RoutingPlane ----------------------------
(***************************************************************************)
(* The forwarding plane of the recursive exit and what keeps it alive.     *)
(*                                                                         *)
(* An nftables chain marks Unbound's packets to foreign targets; a policy  *)
(* rule sends marked packets to a routing table whose default route is the *)
(* WireGuard tunnel; a second rule prohibits them when that table has no   *)
(* route (fail mode "closed").  The systemd unit recursive-routing builds  *)
(* all this with "routing-setup apply", one command after the other, and   *)
(* takes it down with "revert".  The watchdog looks at it every minute,    *)
(* restarts the unit when something is missing, and flushes the caches     *)
(* that forged answers may have reached.  systemd, the kernel, wg-quick    *)
(* and people act in between.                                              *)
(*                                                                         *)
(* External: systemd (jobs, PartOf), nftables (a script is one             *)
(* transaction), ip-rule, WireGuard, the caches of Unbound and mosproxy.   *)
(***************************************************************************)
EXTENDS Integers

CONSTANTS
  FailClosed,  \* TUNNEL_FAIL_MODE is "closed"
  MaxRepairs,  \* restarts after which the watchdog gives up
  MaxFaults    \* bound: failures, kills and changes made from outside

ASSUME PlaneAssumption ==
  /\ FailClosed \in BOOLEAN
  /\ MaxRepairs \in Nat \ {0}
  /\ MaxFaults \in Nat

VARIABLES
  tunnel,     \* the interface wg0: "up", "stopping" (by systemd) or "down"
  route,      \* table 100 has its default route
  lookup, prohibit,  \* the two fwmark rules
  chain,      \* the marking and the NAT chain
  direct,     \* the set direct4: does not exist, below MIN_SET_ENTRIES, loaded
  authority,  \* the set cn_authority holds what cn-authority.txt holds
  file,       \* direct4.txt on disk
  unit, step, \* the unit's state, and the command its process is at
  again,      \* the unit starts again when it has stopped
  wpc,        \* where the watchdog is
  nftOK,      \* what the watchdog saw in the nft table
  fails,      \* routing-watchdog.fail
  poisonU, poisonM,  \* a forged answer is cached by Unbound, by mosproxy
  attempts, unsaved, \* history: restarts, and counts not saved, since the last 0
  lost,       \* history: rules taken away under the chain
  leaked,     \* history: a forged answer came since the plane was found healthy
  faults      \* used budget

kernel   == <<tunnel, route, lookup, prohibit, chain, direct, authority, file, lost>>
service  == <<unit, step, again>>
watchdog == <<wpc, nftOK, fails, attempts, unsaved>>
caches   == <<poisonU, poisonM, leaked>>
vars     == <<kernel, service, watchdog, caches, faults>>

Rules  == {"lookup", "prohibit"}
Revert == {"delTable", "delLookup", "delProhibit", "flushRoutes"}
Apply  == {"guard", "routes", "lookup", "prohibit", "load", "verify", "chain"}

KernelTypes ==
  /\ tunnel \in {"up", "stopping", "down"}
  /\ route \in BOOLEAN /\ lookup \in BOOLEAN /\ prohibit \in BOOLEAN
  /\ chain \in BOOLEAN /\ authority \in BOOLEAN
  /\ direct \in {"absent", "small", "full"}
  /\ file \in {"absent", "small", "full"}
  /\ lost \subseteq Rules

ServiceTypes ==
  /\ unit \in {"inactive", "active", "failed", "applying", "reverting"}
  /\ step \in Revert \cup Apply \cup {"none"}
  /\ again \in BOOLEAN

WatchdogTypes ==
  /\ wpc \in {"idle", "rules", "count", "restart", "waiting", "verify", "verifyRules",
              "flushU", "flushM", "zero", "zeroDirty"}
  /\ fails \in 0..MaxRepairs
  /\ attempts \in 0..(MaxRepairs + MaxFaults)
  /\ unsaved \in 0..MaxFaults
  /\ faults \in 0..MaxFaults

FlagTypes ==
  /\ nftOK \in BOOLEAN
  /\ poisonU \in BOOLEAN /\ poisonM \in BOOLEAN /\ leaked \in BOOLEAN

TypeOK == KernelTypes /\ ServiceTypes /\ WatchdogTypes /\ FlagTypes

\* Booted: the unit is about to start, direct4.txt is what the last pipeline
\* round left.
Init ==
  /\ tunnel = "up"
  /\ file \in {"absent", "small", "full"}
  /\ direct = "absent"
  /\ route = FALSE /\ lookup = FALSE /\ prohibit = FALSE
  /\ chain = FALSE /\ authority = FALSE
  /\ lost = {}
  /\ unit = "applying" /\ step = "guard" /\ again = FALSE
  /\ wpc = "idle" /\ nftOK = FALSE /\ fails = 0 /\ attempts = 0 /\ unsaved = 0
  /\ poisonU = FALSE /\ poisonM = FALSE /\ leaked = FALSE
  /\ faults = 0

Fault == faults < MaxFaults /\ faults' = faults + 1

-----------------------------------------------------------------------------
(* systemd. *)

Busy == unit \in {"applying", "reverting"}

\* systemctl restart: ExecStop only if the unit is active; a start that is
\* under way is killed; a stop that is under way is let finish.
Restart ==
  \/ /\ unit = "active"
     /\ unit' = "reverting" /\ step' = "delTable" /\ again' = TRUE
  \/ /\ unit \in {"inactive", "failed", "applying"}
     /\ unit' = "applying" /\ step' = "guard" /\ again' = FALSE
  \/ /\ unit = "reverting"
     /\ again' = TRUE
     /\ UNCHANGED <<unit, step>>

\* systemctl stop, also by PartOf.
Stop ==
  \/ /\ unit = "active"
     /\ unit' = "reverting" /\ step' = "delTable" /\ again' = FALSE
  \/ /\ unit = "applying"
     /\ unit' = "inactive" /\ step' = "none" /\ again' = FALSE
  \/ /\ unit \in {"inactive", "failed", "reverting"}
     /\ again' = FALSE
     /\ UNCHANGED <<unit, step>>

\* The unit's process goes on to its next command, or ends.
Goto(s)   == step' = s /\ UNCHANGED <<unit, again>>
Ended(u)  == unit' = u /\ step' = "none" /\ again' = FALSE

-----------------------------------------------------------------------------
(* routing-setup apply, one command at a time. *)

\* The interface must exist; so must the Unbound user, and wg0.conf must not
\* hijack the default route (those two never change here).
guard ==
  /\ step = "guard"
  /\ IF tunnel # "down" THEN Goto("routes") ELSE Ended("failed")
  /\ UNCHANGED <<kernel, watchdog, caches, faults>>

\* ip route replace: fails without the interface.
applyRoutes ==
  /\ step = "routes"
  /\ IF tunnel # "down" THEN route' = TRUE /\ Goto("lookup")
                        ELSE Ended("failed") /\ UNCHANGED route
  /\ UNCHANGED <<tunnel, lookup, prohibit, chain, direct, authority, file, lost,
                 watchdog, caches, faults>>

\* A rule that is there is not added twice.
addLookup ==
  /\ step = "lookup"
  /\ lookup' = TRUE
  /\ lost' = lost \ {"lookup"}
  /\ Goto("prohibit")
  /\ UNCHANGED <<tunnel, route, prohibit, chain, direct, authority, file,
                 watchdog, caches, faults>>

\* In mode "closed" the prohibiting rule is added unless it is there; in mode
\* "open" it is removed.  Mutant: the test for the rule matches the lookup rule.
prohibitLoose == prohibit \/ (FailClosed /\ ~lookup)
prohibitAfter == FailClosed

addProhibit ==
  /\ step = "prohibit"
  /\ prohibit' = prohibitAfter
  /\ lost' = lost \ {"prohibit"}
  /\ Goto("load")
  /\ UNCHANGED <<tunnel, route, lookup, chain, direct, authority, file,
                 watchdog, caches, faults>>

\* ensureSetLoaded: a small or missing set is loaded from direct4.txt; that it
\* cannot be is only a warning.  (openHKPeer changes nothing modelled here.)
ensureSetLoaded ==
  /\ step = "load"
  /\ direct' = IF direct # "full" /\ file # "absent" THEN file ELSE direct
  /\ Goto("verify")
  /\ UNCHANGED <<tunnel, route, lookup, prohibit, chain, authority, file, lost,
                 watchdog, caches, faults>>

\* The number of elements, and verifySetSemantics.
setVerified == direct = "full"

verifySet ==
  /\ step = "verify"
  /\ IF setVerified THEN Goto("chain") ELSE Ended("failed")
  /\ UNCHANGED <<kernel, watchdog, caches, faults>>

\* One transaction installs cn_authority and both chains; it fails as a whole
\* when direct4 has gone meanwhile, because the script does not create it.
installChain ==
  /\ step = "chain"
  /\ IF direct # "absent"
     THEN chain' = TRUE /\ authority' = TRUE /\ Ended("active")
     ELSE Ended("failed") /\ UNCHANGED <<chain, authority>>
  /\ UNCHANGED <<tunnel, route, lookup, prohibit, direct, file, lost,
                 watchdog, caches, faults>>

\* Any command of apply may fail (or time out); the rest is not run.
applyFails ==
  /\ unit = "applying"
  /\ Fault
  /\ Ended("failed")
  /\ UNCHANGED <<kernel, watchdog, caches>>

-----------------------------------------------------------------------------
(* routing-setup revert: errors are ignored, every command is tried. *)

deleteTable ==
  /\ step = "delTable"
  /\ \/ /\ chain' = FALSE /\ direct' = "absent" /\ authority' = FALSE
        /\ UNCHANGED faults
     \/ /\ Fault
        /\ UNCHANGED <<chain, direct, authority>>
  /\ Goto("delLookup")
  /\ UNCHANGED <<tunnel, route, lookup, prohibit, file, lost, watchdog, caches>>

deleteLookup ==
  /\ step = "delLookup"
  /\ lookup' = FALSE
  /\ lost' = IF chain THEN lost \cup {"lookup"} ELSE lost
  /\ Goto("delProhibit")
  /\ UNCHANGED <<tunnel, route, prohibit, chain, direct, authority, file,
                 watchdog, caches, faults>>

deleteProhibit ==
  /\ step = "delProhibit"
  /\ prohibit' = FALSE
  /\ lost' = IF chain THEN lost \cup {"prohibit"} ELSE lost
  /\ Goto("flushRoutes")
  /\ UNCHANGED <<tunnel, route, lookup, chain, direct, authority, file,
                 watchdog, caches, faults>>

flushRoutes ==
  /\ step = "flushRoutes"
  /\ route' = FALSE
  /\ IF again THEN unit' = "applying" /\ step' = "guard" /\ again' = FALSE
              ELSE Ended("inactive")
  /\ UNCHANGED <<tunnel, lookup, prohibit, chain, direct, authority, file, lost,
                 watchdog, caches, faults>>

Unit ==
  \/ guard \/ applyRoutes \/ addLookup \/ addProhibit
  \/ ensureSetLoaded \/ verifySet \/ installChain
  \/ deleteTable \/ deleteLookup \/ deleteProhibit \/ flushRoutes

-----------------------------------------------------------------------------
(* The watchdog: cmdRoutingWatchdog calls Check. *)

\* problems(), in the two parts it reads one after the other.  The pattern for
\* the fwmark rule matches the prohibiting rule as well.  (cn-authority.txt has
\* the 20 entries from which on the size of cn_authority is checked.)
nftProblems  == ~chain \/ direct # "full" \/ ~authority
ruleProblems == ~(lookup \/ prohibit) \/ (FailClosed /\ ~prohibit)
healthy      == ~nftProblems /\ ~ruleProblems

\* snapshot: "nft list table"; a command that fails looks like an empty table.
snapshot(from, to) ==
  /\ wpc = from
  /\ \/ nftOK' = ~nftProblems /\ UNCHANGED faults
     \/ nftOK' = FALSE /\ Fault
  /\ wpc' = to
  /\ UNCHANGED <<kernel, service, caches, fails, attempts, unsaved>>

\* Mutant: no second attempt.
givenUpEarly == fails > 0
givenUp == fails >= MaxRepairs

\* "ip rule show" and "ip link show", and what Check decides: recovered,
\* nothing to do, wait for the tunnel, given up, or repair.
Diagnose ==
  /\ wpc = "rules"
  /\ LET ok == nftOK /\ ~ruleProblems IN
     /\ wpc' = IF ok THEN (IF fails # 0 THEN "flushU" ELSE "idle")
               ELSE IF tunnel = "down" \/ givenUp THEN "idle"
               ELSE "count"
     /\ leaked' = (leaked /\ ~ok)
  /\ UNCHANGED <<kernel, service, nftOK, fails, attempts, unsaved, poisonU, poisonM, faults>>

counted == fails + 1

\* The attempt is counted on disk before it is made; a count that cannot be
\* saved is ignored.
writeFailCount ==
  /\ wpc = "count"
  /\ \/ fails' = counted /\ UNCHANGED <<unsaved, faults>>
     \/ Fault /\ unsaved' = unsaved + 1 /\ UNCHANGED fails
  /\ wpc' = "restart"
  /\ UNCHANGED <<kernel, service, caches, nftOK, attempts>>

restart ==
  /\ wpc = "restart"
  /\ Restart
  /\ attempts' = attempts + 1
  /\ wpc' = "waiting"
  /\ UNCHANGED <<kernel, caches, nftOK, fails, unsaved, faults>>

\* systemctl returns with the job's result, or after 30 seconds without it.
restarted ==
  /\ wpc = "waiting"
  /\ wpc' = IF unit = "active" THEN "verify" ELSE "idle"
  /\ UNCHANGED <<kernel, service, caches, nftOK, fails, attempts, unsaved, faults>>

\* The second Diagnose.
verify ==
  /\ wpc = "verifyRules"
  /\ LET ok == nftOK /\ ~ruleProblems IN
     /\ wpc' = IF ok THEN "flushU" ELSE "idle"
     /\ leaked' = (leaked /\ ~ok)
  /\ UNCHANGED <<kernel, service, nftOK, fails, attempts, unsaved, poisonU, poisonM, faults>>

\* flushPoisonedCache: Unbound first, because mosproxy fills its cache from
\* Unbound; if Unbound cannot be flushed, mosproxy is not.
flushUnbound ==
  /\ wpc = "flushU"
  /\ \/ poisonU' = FALSE /\ wpc' = "flushM" /\ UNCHANGED faults
     \/ Fault /\ wpc' = "zeroDirty" /\ UNCHANGED poisonU
  /\ UNCHANGED <<kernel, service, nftOK, fails, attempts, unsaved, poisonM, leaked>>

\* metrics.FlushCache("").  Mutant: it flushes some names only.
FlushSome(poison) == poison
FlushCache(poison) == FALSE

flushMosproxy ==
  /\ wpc = "flushM"
  /\ \/ poisonM' = FlushCache(poisonM) /\ wpc' = "zero" /\ UNCHANGED faults
     \/ Fault /\ wpc' = "zeroDirty" /\ UNCHANGED poisonM
  /\ UNCHANGED <<kernel, service, nftOK, fails, attempts, unsaved, poisonU, leaked>>

zeroFailCount ==
  /\ wpc \in {"zero", "zeroDirty"}
  /\ \/ fails' = 0 /\ attempts' = 0 /\ unsaved' = 0 /\ UNCHANGED faults
     \/ Fault /\ UNCHANGED <<fails, attempts, unsaved>>
  /\ wpc' = "idle"
  /\ UNCHANGED <<kernel, service, caches, nftOK>>

Watch ==
  \/ snapshot("idle", "rules") \/ Diagnose \/ writeFailCount \/ restart \/ restarted
  \/ snapshot("verify", "verifyRules") \/ verify
  \/ flushUnbound \/ flushMosproxy \/ zeroFailCount

\* The watchdog is killed (its memory limit, a reboot of the machine's units).
killWatchdog ==
  /\ wpc # "idle"
  /\ Fault
  /\ wpc' = "idle"
  /\ UNCHANGED <<kernel, service, caches, nftOK, fails, attempts, unsaved>>

-----------------------------------------------------------------------------
(* Traffic, and the world outside. *)

\* What becomes of a packet of Unbound's to a foreign server.
fate == IF ~chain THEN "direct"
        ELSE IF lookup /\ route THEN "tunnel"
        ELSE IF prohibit THEN "refused"
        ELSE "direct"

\* Clients ask for foreign names: from mosproxy's cache, then Unbound's cache,
\* then the network.  A direct answer is forged.
Query ==
  /\ \/ fate = "direct" /\ poisonU' = TRUE /\ poisonM' = TRUE /\ leaked' = TRUE
     \/ poisonU /\ poisonM' = TRUE /\ UNCHANGED <<poisonU, leaked>>
  /\ UNCHANGED <<kernel, service, watchdog, faults>>

\* systemctl stop wg-quick@wg0: the unit, which is PartOf it and ordered after
\* it, is stopped first; then the interface goes, and its routes with it.
StopTunnel ==
  /\ tunnel = "up"
  /\ Fault
  /\ tunnel' = "stopping"
  /\ Stop
  /\ UNCHANGED <<route, lookup, prohibit, chain, direct, authority, file, lost,
                 watchdog, caches>>

TunnelStopped ==
  /\ tunnel = "stopping" /\ ~Busy
  /\ tunnel' = "down" /\ route' = FALSE
  /\ UNCHANGED <<lookup, prohibit, chain, direct, authority, file, lost,
                 service, watchdog, caches, faults>>

\* The interface disappears on its own (ip link del, wg-quick down by hand).
LoseTunnel ==
  /\ tunnel = "up"
  /\ Fault
  /\ tunnel' = "down" /\ route' = FALSE
  /\ UNCHANGED <<lookup, prohibit, chain, direct, authority, file, lost,
                 service, watchdog, caches>>

\* wg-quick brings the interface up: alone (a start), or with the unit behind
\* it (a restart).
StartTunnel ==
  /\ tunnel = "down"
  /\ tunnel' = "up"
  /\ Restart \/ UNCHANGED service
  /\ UNCHANGED <<route, lookup, prohibit, chain, direct, authority, file, lost,
                 watchdog, caches, faults>>

\* nft flush ruleset; a restart of nftables.service also restarts the unit.
FlushRuleset ==
  /\ Fault
  /\ chain' = FALSE /\ direct' = "absent" /\ authority' = FALSE
  /\ Restart \/ UNCHANGED service
  /\ UNCHANGED <<tunnel, route, lookup, prohibit, file, lost, watchdog, caches>>

\* Another program drops policy rules.
LoseRules ==
  /\ Fault
  /\ \E rules \in (SUBSET Rules) \ {{}} :
       /\ lookup' = (lookup /\ "lookup" \notin rules)
       /\ prohibit' = (prohibit /\ "prohibit" \notin rules)
       /\ lost' = lost \cup rules
  /\ UNCHANGED <<tunnel, route, chain, direct, authority, file, service, watchdog, caches>>

\* The pipeline's chnroute and cn-authority steps publish their sets.
RefreshDirect ==
  /\ direct' = "full" /\ file' = "full"
  /\ UNCHANGED <<tunnel, route, lookup, prohibit, chain, authority, lost,
                 service, watchdog, caches, faults>>

RefreshAuthority ==
  /\ authority' = TRUE
  /\ UNCHANGED <<tunnel, route, lookup, prohibit, chain, direct, file, lost,
                 service, watchdog, caches, faults>>

\* The administrator removes routing-watchdog.fail after the watchdog gave up.
ClearFailCount ==
  /\ fails >= MaxRepairs /\ wpc = "idle"
  /\ Fault
  /\ fails' = 0 /\ attempts' = 0 /\ unsaved' = 0
  /\ UNCHANGED <<kernel, service, caches, wpc, nftOK>>

Outside ==
  \/ Query \/ StopTunnel \/ TunnelStopped \/ LoseTunnel \/ StartTunnel
  \/ FlushRuleset \/ LoseRules \/ RefreshDirect \/ RefreshAuthority \/ ClearFailCount

Next == Unit \/ applyFails \/ Watch \/ killWatchdog \/ Outside

Spec == Init /\ [][Next]_vars

\* systemd runs what it started, and the timer starts the watchdog every
\* minute.  Nothing obliges wg-quick, the pipeline or people to help.
FairSpec ==
  /\ Spec
  /\ WF_vars(Unit)
  /\ WF_vars(Watch)

-----------------------------------------------------------------------------
(* Properties. *)

(***************************************************************************)
(* In mode "closed" a marked packet never leaves directly, whatever dies   *)
(* in the middle of apply or revert: the prohibiting rule is there before  *)
(* the chain marks anything and goes after it.  (Unless another program    *)
(* removed that rule, or revert could not delete the table.)               *)
(***************************************************************************)
MarkedNeverDirect ==
  FailClosed /\ chain /\ "prohibit" \notin lost => fate # "direct"

(***************************************************************************)
(* The watchdog restarts the unit at most MaxRepairs times in a row, also  *)
(* when it is killed between counting and restarting (a count that could   *)
(* not be saved is not held against it).                                   *)
(***************************************************************************)
RepairBudget ==
  attempts <= fails + unsaved /\ fails <= MaxRepairs

(***************************************************************************)
(* When the watchdog has flushed both caches and writes 0, no answer that  *)
(* was forged before it found the plane healthy is served any more.        *)
(***************************************************************************)
CleanAfterRepair ==
  wpc = "zero" /\ ~leaked => ~poisonU /\ ~poisonM

(***************************************************************************)
(* The chain is never installed over a direct set that is too small, which *)
(* would send domestic queries through the tunnel as well: not by any      *)
(* interleaving of apply with flushes, stops and the pipeline.             *)
(***************************************************************************)
ChainNeedsSet ==
  chain => direct = "full"

(***************************************************************************)
(* What the watchdog can see it repairs, or gives up on after MaxRepairs   *)
(* attempts, as long as the tunnel is there.                               *)
(***************************************************************************)
RepairedOrGivenUp ==
  (~healthy /\ tunnel = "up") ~> (healthy \/ fails >= MaxRepairs \/ tunnel # "up")

(***************************************************************************)
(* The watchdog checks the fwmark policy rule: without it the plane is not *)
(* reported healthy (site/ops/health.md:40, site/index.md:83).             *)
(***************************************************************************)
LostRuleIsSeen ==
  healthy => lookup

=============================================================================
