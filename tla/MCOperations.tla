---------------------------- MODULE MCOperations ----------------------------
(***************************************************************************)
(* Model checking of the parts that keep a running node in order: the      *)
(* privileged helper, the panel's shared results, upgrades, alerts and     *)
(* maintenance.  They share no state in these modules, so a behaviour      *)
(* moves only one of them; fairness is assumed of the one that moves.      *)
(***************************************************************************)
EXTENDS HelperOps, SharedCache, Upgrade, Alert, Maintenance, TLC

VARIABLE mover

vars == <<helperVars, sharedVars, upgradeVars, alertVars, maintVars, mover>>

\* Nothing wrong, one thing, another thing, both.
ProblemSets == SUBSET {"tunnel down", "upstream offline"}

Init ==
    /\ mover \in {"helper", "shared", "upgrade", "alert", "maintenance"}
    /\ HelperInit /\ SharedInit /\ UpgradeInit /\ AlertInit /\ MaintInit
    /\ mover # "helper" => \A f \in Options : live[f] = CHOOSE t \in TTLs : TRUE
    /\ mover # "alert" => problems = {}

Next ==
    \/ /\ mover = "helper" /\ HelperNext
       /\ UNCHANGED <<sharedVars, upgradeVars, alertVars, maintVars, mover>>
    \/ /\ mover = "shared" /\ SharedNext
       /\ UNCHANGED <<helperVars, upgradeVars, alertVars, maintVars, mover>>
    \/ /\ mover = "upgrade" /\ UpgradeNext
       /\ UNCHANGED <<helperVars, sharedVars, alertVars, maintVars, mover>>
    \/ /\ mover = "alert" /\ AlertNext
       /\ UNCHANGED <<helperVars, sharedVars, upgradeVars, maintVars, mover>>
    \/ /\ mover = "maintenance" /\ MaintNext
       /\ UNCHANGED <<helperVars, sharedVars, upgradeVars, alertVars, mover>>

\* Every command of the helper has a time limit, so a step in progress ends;
\* channel sends and the mutex are granted in turn, so waiting for them ends.
HelperFairness ==
    \A c \in Calls :
        /\ WF_helperVars(mover = "helper" /\ Work(c))
        /\ SF_helperVars(mover = "helper" /\ Dispatch(c))
        /\ SF_helperVars(mover = "helper" /\ editRead(c))

\* The timer starts a watchdog round every minute, and a round ends.
AlertFairness ==
    /\ WF_alertVars(mover = "alert" /\ collect)
    /\ WF_alertVars(mover = "alert" /\ Notify)
    /\ WF_alertVars(mover = "alert" /\ WriteAtomic)

\* A maintenance step is begun again after its interval and, once begun, ends;
\* acme.sh finishes what it has begun and mosproxy looks at its files.
MaintFairness ==
    /\ SF_maintVars(mover = "maintenance" /\ BeginCert)
    /\ SF_maintVars(mover = "maintenance" /\ BeginLog)
    /\ WF_maintVars(mover = "maintenance" /\ CertStep)
    /\ WF_maintVars(mover = "maintenance" /\ LogStep)
    /\ WF_maintVars(mover = "maintenance" /\ acmeCert)
    /\ WF_maintVars(mover = "maintenance" /\ ReloadMosproxyCert)

Spec == Init /\ [][Next]_vars /\ HelperFairness /\ AlertFairness /\ MaintFairness
=============================================================================
