------------------------ MODULE RoutingPlane_proofs ------------------------
(***************************************************************************)
(* Proofs about RoutingPlane, for every fail mode, every MaxRepairs and    *)
(* every number of faults.  The inductive invariant adds to the properties *)
(* what holds in the middle of apply (the prohibiting rule is there from   *)
(* the step after it on), of the watchdog's count (the attempt about to be *)
(* made is already counted) and of its flush (Unbound is clean before      *)
(* mosproxy is flushed).                                                   *)
(***************************************************************************)
EXTENDS RoutingPlane, TLAPS

\* The chain stands on a loaded set, and the set that was verified can vanish
\* but not shrink before the chain is installed.
SetInv ==
  /\ chain => direct = "full"
  /\ step = "chain" => direct # "small"

\* In mode "closed" the prohibiting rule is older than the chain.
GuardInv ==
  FailClosed =>
    /\ chain => prohibit \/ "prohibit" \in lost
    /\ step \in {"load", "verify", "chain"} => prohibit \/ "prohibit" \in lost

\* An attempt is counted before it is made.
CountInv ==
  /\ attempts <= fails + unsaved
  /\ wpc = "restart" => attempts + 1 <= fails + unsaved
  /\ wpc = "count" => fails < MaxRepairs
  /\ unsaved <= faults

\* Unbound stays clean while mosproxy is flushed.
CacheInv ==
  ~leaked =>
    /\ wpc = "flushM" => ~poisonU
    /\ wpc = "zero" => ~poisonU /\ ~poisonM

IInv == TypeOK /\ SetInv /\ GuardInv /\ CountInv /\ CacheInv

(***************************************************************************)
(* The initial states satisfy the invariant.                               *)
(***************************************************************************)
LEMMA InitIInv == Init => IInv
<1> SUFFICES ASSUME Init PROVE IInv
  OBVIOUS
<1> USE PlaneAssumption DEF Init
<1>1. KernelTypes
  BY DEF KernelTypes, Rules
<1>2. ServiceTypes
  BY DEF ServiceTypes, Apply, Revert
<1>3. WatchdogTypes /\ CountInv
  BY DEF WatchdogTypes, CountInv
<1>4. FlagTypes /\ CacheInv
  BY DEF FlagTypes, CacheInv
<1>5. SetInv /\ GuardInv
  BY DEF SetInv, GuardInv
<1> QED
  BY <1>1, <1>2, <1>3, <1>4, <1>5 DEF IInv, TypeOK

(***************************************************************************)
(* Every step keeps the types of the kernel's state.                       *)
(***************************************************************************)
LEMMA KernelTypeStep == IInv /\ [Next]_vars => KernelTypes'
<1> SUFFICES ASSUME IInv, [Next]_vars PROVE KernelTypes'
  OBVIOUS
<1> USE PlaneAssumption DEF IInv, TypeOK, KernelTypes, Rules
<1>1. CASE guard
  BY <1>1 DEF guard, Goto, Ended, kernel, service, watchdog, caches
<1>2. CASE applyRoutes
  BY <1>2 DEF applyRoutes, Goto, Ended, kernel, service, watchdog, caches
<1>3. CASE addLookup
  BY <1>3 DEF addLookup, Goto, kernel, service, watchdog, caches
<1>4. CASE addProhibit
  BY <1>4 DEF addProhibit, prohibitAfter, Goto, kernel, service, watchdog, caches
<1>5. CASE ensureSetLoaded
  BY <1>5 DEF ensureSetLoaded, Goto, kernel, service, watchdog, caches
<1>6. CASE verifySet
  BY <1>6 DEF verifySet, setVerified, Goto, Ended, kernel, service, watchdog, caches
<1>7. CASE installChain
  BY <1>7 DEF installChain, Ended, kernel, service, watchdog, caches
<1>8. CASE deleteTable
  BY <1>8 DEF deleteTable, Goto, Fault, kernel, service, watchdog, caches
<1>9. CASE deleteLookup
  BY <1>9 DEF deleteLookup, Goto, kernel, service, watchdog, caches
<1>10. CASE deleteProhibit
  BY <1>10 DEF deleteProhibit, Goto, kernel, service, watchdog, caches
<1>11. CASE flushRoutes
  BY <1>11 DEF flushRoutes, Ended, kernel, service, watchdog, caches
<1>12. CASE applyFails
  BY <1>12 DEF applyFails, Fault, Ended, kernel, service, watchdog, caches
<1>13. CASE snapshot("idle", "rules")
  BY <1>13 DEF snapshot, Fault, nftProblems, kernel, service, watchdog, caches
<1>14. CASE Diagnose
  BY <1>14 DEF Diagnose, givenUp, ruleProblems, kernel, service, watchdog, caches
<1>15. CASE writeFailCount
  BY <1>15 DEF writeFailCount, counted, Fault, kernel, service, watchdog, caches
<1>16. CASE restart
  BY <1>16 DEF restart, Restart, kernel, service, watchdog, caches
<1>17. CASE restarted
  BY <1>17 DEF restarted, kernel, service, watchdog, caches
<1>18. CASE snapshot("verify", "verifyRules")
  BY <1>18 DEF snapshot, Fault, nftProblems, kernel, service, watchdog, caches
<1>19. CASE verify
  BY <1>19 DEF verify, ruleProblems, kernel, service, watchdog, caches
<1>20. CASE flushUnbound
  BY <1>20 DEF flushUnbound, Fault, kernel, service, watchdog, caches
<1>21. CASE flushMosproxy
  BY <1>21 DEF flushMosproxy, FlushCache, Fault, kernel, service, watchdog, caches
<1>22. CASE zeroFailCount
  BY <1>22 DEF zeroFailCount, Fault, kernel, service, watchdog, caches
<1>23. CASE killWatchdog
  BY <1>23 DEF killWatchdog, Fault, kernel, service, watchdog, caches
<1>24. CASE Query
  BY <1>24 DEF Query, fate, kernel, service, watchdog, caches
<1>25. CASE StopTunnel
  BY <1>25 DEF StopTunnel, Fault, Stop, kernel, service, watchdog, caches
<1>26. CASE TunnelStopped
  BY <1>26 DEF TunnelStopped, kernel, service, watchdog, caches
<1>27. CASE LoseTunnel
  BY <1>27 DEF LoseTunnel, Fault, kernel, service, watchdog, caches
<1>28. CASE StartTunnel
  BY <1>28 DEF StartTunnel, Restart, kernel, service, watchdog, caches
<1>29. CASE FlushRuleset
  BY <1>29 DEF FlushRuleset, Fault, Restart, kernel, service, watchdog, caches
<1>30. CASE LoseRules
  BY <1>30 DEF LoseRules, Fault, Rules, kernel, service, watchdog, caches
<1>31. CASE RefreshDirect
  BY <1>31 DEF RefreshDirect, kernel, service, watchdog, caches
<1>32. CASE RefreshAuthority
  BY <1>32 DEF RefreshAuthority, kernel, service, watchdog, caches
<1>33. CASE ClearFailCount
  BY <1>33 DEF ClearFailCount, Fault, kernel, service, watchdog, caches
<1>34. CASE UNCHANGED vars
  BY <1>34 DEF vars, kernel, service, watchdog, caches
<1> QED
  BY <1>1, <1>2, <1>3, <1>4, <1>5, <1>6, <1>7, <1>8, <1>9, <1>10, <1>11, <1>12,
     <1>13, <1>14, <1>15, <1>16, <1>17, <1>18, <1>19, <1>20, <1>21, <1>22, <1>23, <1>24,
     <1>25, <1>26, <1>27, <1>28, <1>29, <1>30, <1>31, <1>32, <1>33, <1>34
  DEF Next, Unit, Watch, Outside

(***************************************************************************)
(* Every step keeps the types of the unit's state.                         *)
(***************************************************************************)
LEMMA ServiceTypeStep == IInv /\ [Next]_vars => ServiceTypes'
<1> SUFFICES ASSUME IInv, [Next]_vars PROVE ServiceTypes'
  OBVIOUS
<1> USE PlaneAssumption DEF IInv, TypeOK, ServiceTypes, Apply, Revert
<1>1. CASE guard
  BY <1>1 DEF guard, Goto, Ended, kernel, service, watchdog, caches
<1>2. CASE applyRoutes
  BY <1>2 DEF applyRoutes, Goto, Ended, kernel, service, watchdog, caches
<1>3. CASE addLookup
  BY <1>3 DEF addLookup, Goto, kernel, service, watchdog, caches
<1>4. CASE addProhibit
  BY <1>4 DEF addProhibit, prohibitAfter, Goto, kernel, service, watchdog, caches
<1>5. CASE ensureSetLoaded
  BY <1>5 DEF ensureSetLoaded, Goto, kernel, service, watchdog, caches
<1>6. CASE verifySet
  BY <1>6 DEF verifySet, setVerified, Goto, Ended, kernel, service, watchdog, caches
<1>7. CASE installChain
  BY <1>7 DEF installChain, Ended, kernel, service, watchdog, caches
<1>8. CASE deleteTable
  BY <1>8 DEF deleteTable, Goto, Fault, kernel, service, watchdog, caches
<1>9. CASE deleteLookup
  BY <1>9 DEF deleteLookup, Goto, kernel, service, watchdog, caches
<1>10. CASE deleteProhibit
  BY <1>10 DEF deleteProhibit, Goto, kernel, service, watchdog, caches
<1>11. CASE flushRoutes
  BY <1>11 DEF flushRoutes, Ended, kernel, service, watchdog, caches
<1>12. CASE applyFails
  BY <1>12 DEF applyFails, Fault, Ended, kernel, service, watchdog, caches
<1>13. CASE snapshot("idle", "rules")
  BY <1>13 DEF snapshot, Fault, nftProblems, kernel, service, watchdog, caches
<1>14. CASE Diagnose
  BY <1>14 DEF Diagnose, givenUp, ruleProblems, kernel, service, watchdog, caches
<1>15. CASE writeFailCount
  BY <1>15 DEF writeFailCount, counted, Fault, kernel, service, watchdog, caches
<1>16. CASE restart
  BY <1>16 DEF restart, Restart, kernel, service, watchdog, caches
<1>17. CASE restarted
  BY <1>17 DEF restarted, kernel, service, watchdog, caches
<1>18. CASE snapshot("verify", "verifyRules")
  BY <1>18 DEF snapshot, Fault, nftProblems, kernel, service, watchdog, caches
<1>19. CASE verify
  BY <1>19 DEF verify, ruleProblems, kernel, service, watchdog, caches
<1>20. CASE flushUnbound
  BY <1>20 DEF flushUnbound, Fault, kernel, service, watchdog, caches
<1>21. CASE flushMosproxy
  BY <1>21 DEF flushMosproxy, FlushCache, Fault, kernel, service, watchdog, caches
<1>22. CASE zeroFailCount
  BY <1>22 DEF zeroFailCount, Fault, kernel, service, watchdog, caches
<1>23. CASE killWatchdog
  BY <1>23 DEF killWatchdog, Fault, kernel, service, watchdog, caches
<1>24. CASE Query
  BY <1>24 DEF Query, fate, kernel, service, watchdog, caches
<1>25. CASE StopTunnel
  BY <1>25 DEF StopTunnel, Fault, Stop, kernel, service, watchdog, caches
<1>26. CASE TunnelStopped
  BY <1>26 DEF TunnelStopped, kernel, service, watchdog, caches
<1>27. CASE LoseTunnel
  BY <1>27 DEF LoseTunnel, Fault, kernel, service, watchdog, caches
<1>28. CASE StartTunnel
  BY <1>28 DEF StartTunnel, Restart, kernel, service, watchdog, caches
<1>29. CASE FlushRuleset
  BY <1>29 DEF FlushRuleset, Fault, Restart, kernel, service, watchdog, caches
<1>30. CASE LoseRules
  BY <1>30 DEF LoseRules, Fault, Rules, kernel, service, watchdog, caches
<1>31. CASE RefreshDirect
  BY <1>31 DEF RefreshDirect, kernel, service, watchdog, caches
<1>32. CASE RefreshAuthority
  BY <1>32 DEF RefreshAuthority, kernel, service, watchdog, caches
<1>33. CASE ClearFailCount
  BY <1>33 DEF ClearFailCount, Fault, kernel, service, watchdog, caches
<1>34. CASE UNCHANGED vars
  BY <1>34 DEF vars, kernel, service, watchdog, caches
<1> QED
  BY <1>1, <1>2, <1>3, <1>4, <1>5, <1>6, <1>7, <1>8, <1>9, <1>10, <1>11, <1>12,
     <1>13, <1>14, <1>15, <1>16, <1>17, <1>18, <1>19, <1>20, <1>21, <1>22, <1>23, <1>24,
     <1>25, <1>26, <1>27, <1>28, <1>29, <1>30, <1>31, <1>32, <1>33, <1>34
  DEF Next, Unit, Watch, Outside

(***************************************************************************)
(* Every step keeps the watchdog's types; the counters stay within their   *)
(* bounds because a restart is counted before it is made.                  *)
(***************************************************************************)
LEMMA WatchdogTypeStep == IInv /\ [Next]_vars => WatchdogTypes'
<1> SUFFICES ASSUME IInv, [Next]_vars PROVE WatchdogTypes'
  OBVIOUS
<1> USE PlaneAssumption DEF IInv, TypeOK, WatchdogTypes, CountInv
<1>1. CASE guard
  BY <1>1 DEF guard, Goto, Ended, kernel, service, watchdog, caches
<1>2. CASE applyRoutes
  BY <1>2 DEF applyRoutes, Goto, Ended, kernel, service, watchdog, caches
<1>3. CASE addLookup
  BY <1>3 DEF addLookup, Goto, kernel, service, watchdog, caches
<1>4. CASE addProhibit
  BY <1>4 DEF addProhibit, prohibitAfter, Goto, kernel, service, watchdog, caches
<1>5. CASE ensureSetLoaded
  BY <1>5 DEF ensureSetLoaded, Goto, kernel, service, watchdog, caches
<1>6. CASE verifySet
  BY <1>6 DEF verifySet, setVerified, Goto, Ended, kernel, service, watchdog, caches
<1>7. CASE installChain
  BY <1>7 DEF installChain, Ended, kernel, service, watchdog, caches
<1>8. CASE deleteTable
  BY <1>8 DEF deleteTable, Goto, Fault, kernel, service, watchdog, caches
<1>9. CASE deleteLookup
  BY <1>9 DEF deleteLookup, Goto, kernel, service, watchdog, caches
<1>10. CASE deleteProhibit
  BY <1>10 DEF deleteProhibit, Goto, kernel, service, watchdog, caches
<1>11. CASE flushRoutes
  BY <1>11 DEF flushRoutes, Ended, kernel, service, watchdog, caches
<1>12. CASE applyFails
  BY <1>12 DEF applyFails, Fault, Ended, kernel, service, watchdog, caches
<1>13. CASE snapshot("idle", "rules")
  BY <1>13 DEF snapshot, Fault, nftProblems, kernel, service, watchdog, caches
<1>14. CASE Diagnose
  BY <1>14 DEF Diagnose, givenUp, ruleProblems, kernel, service, watchdog, caches
<1>15. CASE writeFailCount
  BY <1>15 DEF writeFailCount, counted, Fault, kernel, service, watchdog, caches
<1>16. CASE restart
  BY <1>16 DEF restart, Restart, kernel, service, watchdog, caches
<1>17. CASE restarted
  BY <1>17 DEF restarted, kernel, service, watchdog, caches
<1>18. CASE snapshot("verify", "verifyRules")
  BY <1>18 DEF snapshot, Fault, nftProblems, kernel, service, watchdog, caches
<1>19. CASE verify
  BY <1>19 DEF verify, ruleProblems, kernel, service, watchdog, caches
<1>20. CASE flushUnbound
  BY <1>20 DEF flushUnbound, Fault, kernel, service, watchdog, caches
<1>21. CASE flushMosproxy
  BY <1>21 DEF flushMosproxy, FlushCache, Fault, kernel, service, watchdog, caches
<1>22. CASE zeroFailCount
  BY <1>22 DEF zeroFailCount, Fault, kernel, service, watchdog, caches
<1>23. CASE killWatchdog
  BY <1>23 DEF killWatchdog, Fault, kernel, service, watchdog, caches
<1>24. CASE Query
  BY <1>24 DEF Query, fate, kernel, service, watchdog, caches
<1>25. CASE StopTunnel
  BY <1>25 DEF StopTunnel, Fault, Stop, kernel, service, watchdog, caches
<1>26. CASE TunnelStopped
  BY <1>26 DEF TunnelStopped, kernel, service, watchdog, caches
<1>27. CASE LoseTunnel
  BY <1>27 DEF LoseTunnel, Fault, kernel, service, watchdog, caches
<1>28. CASE StartTunnel
  BY <1>28 DEF StartTunnel, Restart, kernel, service, watchdog, caches
<1>29. CASE FlushRuleset
  BY <1>29 DEF FlushRuleset, Fault, Restart, kernel, service, watchdog, caches
<1>30. CASE LoseRules
  BY <1>30 DEF LoseRules, Fault, Rules, kernel, service, watchdog, caches
<1>31. CASE RefreshDirect
  BY <1>31 DEF RefreshDirect, kernel, service, watchdog, caches
<1>32. CASE RefreshAuthority
  BY <1>32 DEF RefreshAuthority, kernel, service, watchdog, caches
<1>33. CASE ClearFailCount
  BY <1>33 DEF ClearFailCount, Fault, kernel, service, watchdog, caches
<1>34. CASE UNCHANGED vars
  BY <1>34 DEF vars, kernel, service, watchdog, caches
<1> QED
  BY <1>1, <1>2, <1>3, <1>4, <1>5, <1>6, <1>7, <1>8, <1>9, <1>10, <1>11, <1>12,
     <1>13, <1>14, <1>15, <1>16, <1>17, <1>18, <1>19, <1>20, <1>21, <1>22, <1>23, <1>24,
     <1>25, <1>26, <1>27, <1>28, <1>29, <1>30, <1>31, <1>32, <1>33, <1>34
  DEF Next, Unit, Watch, Outside

(***************************************************************************)
(* Every step keeps the types of the remaining flags.                      *)
(***************************************************************************)
LEMMA FlagTypeStep == IInv /\ [Next]_vars => FlagTypes'
<1> SUFFICES ASSUME IInv, [Next]_vars PROVE FlagTypes'
  OBVIOUS
<1> USE PlaneAssumption DEF IInv, TypeOK, FlagTypes
<1>1. CASE guard
  BY <1>1 DEF guard, Goto, Ended, kernel, service, watchdog, caches
<1>2. CASE applyRoutes
  BY <1>2 DEF applyRoutes, Goto, Ended, kernel, service, watchdog, caches
<1>3. CASE addLookup
  BY <1>3 DEF addLookup, Goto, kernel, service, watchdog, caches
<1>4. CASE addProhibit
  BY <1>4 DEF addProhibit, prohibitAfter, Goto, kernel, service, watchdog, caches
<1>5. CASE ensureSetLoaded
  BY <1>5 DEF ensureSetLoaded, Goto, kernel, service, watchdog, caches
<1>6. CASE verifySet
  BY <1>6 DEF verifySet, setVerified, Goto, Ended, kernel, service, watchdog, caches
<1>7. CASE installChain
  BY <1>7 DEF installChain, Ended, kernel, service, watchdog, caches
<1>8. CASE deleteTable
  BY <1>8 DEF deleteTable, Goto, Fault, kernel, service, watchdog, caches
<1>9. CASE deleteLookup
  BY <1>9 DEF deleteLookup, Goto, kernel, service, watchdog, caches
<1>10. CASE deleteProhibit
  BY <1>10 DEF deleteProhibit, Goto, kernel, service, watchdog, caches
<1>11. CASE flushRoutes
  BY <1>11 DEF flushRoutes, Ended, kernel, service, watchdog, caches
<1>12. CASE applyFails
  BY <1>12 DEF applyFails, Fault, Ended, kernel, service, watchdog, caches
<1>13. CASE snapshot("idle", "rules")
  BY <1>13 DEF snapshot, Fault, nftProblems, kernel, service, watchdog, caches
<1>14. CASE Diagnose
  BY <1>14 DEF Diagnose, givenUp, ruleProblems, kernel, service, watchdog, caches
<1>15. CASE writeFailCount
  BY <1>15 DEF writeFailCount, counted, Fault, kernel, service, watchdog, caches
<1>16. CASE restart
  BY <1>16 DEF restart, Restart, kernel, service, watchdog, caches
<1>17. CASE restarted
  BY <1>17 DEF restarted, kernel, service, watchdog, caches
<1>18. CASE snapshot("verify", "verifyRules")
  BY <1>18 DEF snapshot, Fault, nftProblems, kernel, service, watchdog, caches
<1>19. CASE verify
  BY <1>19 DEF verify, ruleProblems, kernel, service, watchdog, caches
<1>20. CASE flushUnbound
  BY <1>20 DEF flushUnbound, Fault, kernel, service, watchdog, caches
<1>21. CASE flushMosproxy
  BY <1>21 DEF flushMosproxy, FlushCache, Fault, kernel, service, watchdog, caches
<1>22. CASE zeroFailCount
  BY <1>22 DEF zeroFailCount, Fault, kernel, service, watchdog, caches
<1>23. CASE killWatchdog
  BY <1>23 DEF killWatchdog, Fault, kernel, service, watchdog, caches
<1>24. CASE Query
  BY <1>24 DEF Query, fate, kernel, service, watchdog, caches
<1>25. CASE StopTunnel
  BY <1>25 DEF StopTunnel, Fault, Stop, kernel, service, watchdog, caches
<1>26. CASE TunnelStopped
  BY <1>26 DEF TunnelStopped, kernel, service, watchdog, caches
<1>27. CASE LoseTunnel
  BY <1>27 DEF LoseTunnel, Fault, kernel, service, watchdog, caches
<1>28. CASE StartTunnel
  BY <1>28 DEF StartTunnel, Restart, kernel, service, watchdog, caches
<1>29. CASE FlushRuleset
  BY <1>29 DEF FlushRuleset, Fault, Restart, kernel, service, watchdog, caches
<1>30. CASE LoseRules
  BY <1>30 DEF LoseRules, Fault, Rules, kernel, service, watchdog, caches
<1>31. CASE RefreshDirect
  BY <1>31 DEF RefreshDirect, kernel, service, watchdog, caches
<1>32. CASE RefreshAuthority
  BY <1>32 DEF RefreshAuthority, kernel, service, watchdog, caches
<1>33. CASE ClearFailCount
  BY <1>33 DEF ClearFailCount, Fault, kernel, service, watchdog, caches
<1>34. CASE UNCHANGED vars
  BY <1>34 DEF vars, kernel, service, watchdog, caches
<1> QED
  BY <1>1, <1>2, <1>3, <1>4, <1>5, <1>6, <1>7, <1>8, <1>9, <1>10, <1>11, <1>12,
     <1>13, <1>14, <1>15, <1>16, <1>17, <1>18, <1>19, <1>20, <1>21, <1>22, <1>23, <1>24,
     <1>25, <1>26, <1>27, <1>28, <1>29, <1>30, <1>31, <1>32, <1>33, <1>34
  DEF Next, Unit, Watch, Outside

(***************************************************************************)
(* No step puts the chain over a set that is not loaded.                   *)
(***************************************************************************)
LEMMA SetStep == IInv /\ [Next]_vars => SetInv'
<1> SUFFICES ASSUME IInv, [Next]_vars PROVE SetInv'
  OBVIOUS
<1> USE PlaneAssumption DEF IInv, TypeOK, KernelTypes, ServiceTypes, SetInv
<1>1. CASE guard
  BY <1>1 DEF guard, Goto, Ended, kernel, service, watchdog, caches
<1>2. CASE applyRoutes
  BY <1>2 DEF applyRoutes, Goto, Ended, kernel, service, watchdog, caches
<1>3. CASE addLookup
  BY <1>3 DEF addLookup, Goto, kernel, service, watchdog, caches
<1>4. CASE addProhibit
  BY <1>4 DEF addProhibit, prohibitAfter, Goto, kernel, service, watchdog, caches
<1>5. CASE ensureSetLoaded
  BY <1>5 DEF ensureSetLoaded, Goto, kernel, service, watchdog, caches
<1>6. CASE verifySet
  BY <1>6 DEF verifySet, setVerified, Goto, Ended, kernel, service, watchdog, caches
<1>7. CASE installChain
  BY <1>7 DEF installChain, Ended, kernel, service, watchdog, caches
<1>8. CASE deleteTable
  BY <1>8 DEF deleteTable, Goto, Fault, kernel, service, watchdog, caches
<1>9. CASE deleteLookup
  BY <1>9 DEF deleteLookup, Goto, kernel, service, watchdog, caches
<1>10. CASE deleteProhibit
  BY <1>10 DEF deleteProhibit, Goto, kernel, service, watchdog, caches
<1>11. CASE flushRoutes
  BY <1>11 DEF flushRoutes, Ended, kernel, service, watchdog, caches
<1>12. CASE applyFails
  BY <1>12 DEF applyFails, Fault, Ended, kernel, service, watchdog, caches
<1>13. CASE snapshot("idle", "rules")
  BY <1>13 DEF snapshot, Fault, nftProblems, kernel, service, watchdog, caches
<1>14. CASE Diagnose
  BY <1>14 DEF Diagnose, givenUp, ruleProblems, kernel, service, watchdog, caches
<1>15. CASE writeFailCount
  BY <1>15 DEF writeFailCount, counted, Fault, kernel, service, watchdog, caches
<1>16. CASE restart
  BY <1>16 DEF restart, Restart, kernel, service, watchdog, caches
<1>17. CASE restarted
  BY <1>17 DEF restarted, kernel, service, watchdog, caches
<1>18. CASE snapshot("verify", "verifyRules")
  BY <1>18 DEF snapshot, Fault, nftProblems, kernel, service, watchdog, caches
<1>19. CASE verify
  BY <1>19 DEF verify, ruleProblems, kernel, service, watchdog, caches
<1>20. CASE flushUnbound
  BY <1>20 DEF flushUnbound, Fault, kernel, service, watchdog, caches
<1>21. CASE flushMosproxy
  BY <1>21 DEF flushMosproxy, FlushCache, Fault, kernel, service, watchdog, caches
<1>22. CASE zeroFailCount
  BY <1>22 DEF zeroFailCount, Fault, kernel, service, watchdog, caches
<1>23. CASE killWatchdog
  BY <1>23 DEF killWatchdog, Fault, kernel, service, watchdog, caches
<1>24. CASE Query
  BY <1>24 DEF Query, fate, kernel, service, watchdog, caches
<1>25. CASE StopTunnel
  BY <1>25 DEF StopTunnel, Fault, Stop, kernel, service, watchdog, caches
<1>26. CASE TunnelStopped
  BY <1>26 DEF TunnelStopped, kernel, service, watchdog, caches
<1>27. CASE LoseTunnel
  BY <1>27 DEF LoseTunnel, Fault, kernel, service, watchdog, caches
<1>28. CASE StartTunnel
  BY <1>28 DEF StartTunnel, Restart, kernel, service, watchdog, caches
<1>29. CASE FlushRuleset
  BY <1>29 DEF FlushRuleset, Fault, Restart, kernel, service, watchdog, caches
<1>30. CASE LoseRules
  BY <1>30 DEF LoseRules, Fault, Rules, kernel, service, watchdog, caches
<1>31. CASE RefreshDirect
  BY <1>31 DEF RefreshDirect, kernel, service, watchdog, caches
<1>32. CASE RefreshAuthority
  BY <1>32 DEF RefreshAuthority, kernel, service, watchdog, caches
<1>33. CASE ClearFailCount
  BY <1>33 DEF ClearFailCount, Fault, kernel, service, watchdog, caches
<1>34. CASE UNCHANGED vars
  BY <1>34 DEF vars, kernel, service, watchdog, caches
<1> QED
  BY <1>1, <1>2, <1>3, <1>4, <1>5, <1>6, <1>7, <1>8, <1>9, <1>10, <1>11, <1>12,
     <1>13, <1>14, <1>15, <1>16, <1>17, <1>18, <1>19, <1>20, <1>21, <1>22, <1>23, <1>24,
     <1>25, <1>26, <1>27, <1>28, <1>29, <1>30, <1>31, <1>32, <1>33, <1>34
  DEF Next, Unit, Watch, Outside

(***************************************************************************)
(* No step takes the prohibiting rule away under the chain unnoticed.      *)
(***************************************************************************)
LEMMA GuardStep == IInv /\ [Next]_vars => GuardInv'
<1> SUFFICES ASSUME IInv, [Next]_vars PROVE GuardInv'
  OBVIOUS
<1> USE PlaneAssumption DEF IInv, TypeOK, KernelTypes, GuardInv, Rules
<1>1. CASE guard
  BY <1>1 DEF guard, Goto, Ended, kernel, service, watchdog, caches
<1>2. CASE applyRoutes
  BY <1>2 DEF applyRoutes, Goto, Ended, kernel, service, watchdog, caches
<1>3. CASE addLookup
  BY <1>3 DEF addLookup, Goto, kernel, service, watchdog, caches
<1>4. CASE addProhibit
  BY <1>4 DEF addProhibit, prohibitAfter, Goto, kernel, service, watchdog, caches
<1>5. CASE ensureSetLoaded
  BY <1>5 DEF ensureSetLoaded, Goto, kernel, service, watchdog, caches
<1>6. CASE verifySet
  BY <1>6 DEF verifySet, setVerified, Goto, Ended, kernel, service, watchdog, caches
<1>7. CASE installChain
  BY <1>7 DEF installChain, Ended, kernel, service, watchdog, caches
<1>8. CASE deleteTable
  BY <1>8 DEF deleteTable, Goto, Fault, kernel, service, watchdog, caches
<1>9. CASE deleteLookup
  BY <1>9 DEF deleteLookup, Goto, kernel, service, watchdog, caches
<1>10. CASE deleteProhibit
  BY <1>10 DEF deleteProhibit, Goto, kernel, service, watchdog, caches
<1>11. CASE flushRoutes
  BY <1>11 DEF flushRoutes, Ended, kernel, service, watchdog, caches
<1>12. CASE applyFails
  BY <1>12 DEF applyFails, Fault, Ended, kernel, service, watchdog, caches
<1>13. CASE snapshot("idle", "rules")
  BY <1>13 DEF snapshot, Fault, nftProblems, kernel, service, watchdog, caches
<1>14. CASE Diagnose
  BY <1>14 DEF Diagnose, givenUp, ruleProblems, kernel, service, watchdog, caches
<1>15. CASE writeFailCount
  BY <1>15 DEF writeFailCount, counted, Fault, kernel, service, watchdog, caches
<1>16. CASE restart
  BY <1>16 DEF restart, Restart, kernel, service, watchdog, caches
<1>17. CASE restarted
  BY <1>17 DEF restarted, kernel, service, watchdog, caches
<1>18. CASE snapshot("verify", "verifyRules")
  BY <1>18 DEF snapshot, Fault, nftProblems, kernel, service, watchdog, caches
<1>19. CASE verify
  BY <1>19 DEF verify, ruleProblems, kernel, service, watchdog, caches
<1>20. CASE flushUnbound
  BY <1>20 DEF flushUnbound, Fault, kernel, service, watchdog, caches
<1>21. CASE flushMosproxy
  BY <1>21 DEF flushMosproxy, FlushCache, Fault, kernel, service, watchdog, caches
<1>22. CASE zeroFailCount
  BY <1>22 DEF zeroFailCount, Fault, kernel, service, watchdog, caches
<1>23. CASE killWatchdog
  BY <1>23 DEF killWatchdog, Fault, kernel, service, watchdog, caches
<1>24. CASE Query
  BY <1>24 DEF Query, fate, kernel, service, watchdog, caches
<1>25. CASE StopTunnel
  BY <1>25 DEF StopTunnel, Fault, Stop, kernel, service, watchdog, caches
<1>26. CASE TunnelStopped
  BY <1>26 DEF TunnelStopped, kernel, service, watchdog, caches
<1>27. CASE LoseTunnel
  BY <1>27 DEF LoseTunnel, Fault, kernel, service, watchdog, caches
<1>28. CASE StartTunnel
  BY <1>28 DEF StartTunnel, Restart, kernel, service, watchdog, caches
<1>29. CASE FlushRuleset
  BY <1>29 DEF FlushRuleset, Fault, Restart, kernel, service, watchdog, caches
<1>30. CASE LoseRules
  BY <1>30 DEF LoseRules, Fault, Rules, kernel, service, watchdog, caches
<1>31. CASE RefreshDirect
  BY <1>31 DEF RefreshDirect, kernel, service, watchdog, caches
<1>32. CASE RefreshAuthority
  BY <1>32 DEF RefreshAuthority, kernel, service, watchdog, caches
<1>33. CASE ClearFailCount
  BY <1>33 DEF ClearFailCount, Fault, kernel, service, watchdog, caches
<1>34. CASE UNCHANGED vars
  BY <1>34 DEF vars, kernel, service, watchdog, caches
<1> QED
  BY <1>1, <1>2, <1>3, <1>4, <1>5, <1>6, <1>7, <1>8, <1>9, <1>10, <1>11, <1>12,
     <1>13, <1>14, <1>15, <1>16, <1>17, <1>18, <1>19, <1>20, <1>21, <1>22, <1>23, <1>24,
     <1>25, <1>26, <1>27, <1>28, <1>29, <1>30, <1>31, <1>32, <1>33, <1>34
  DEF Next, Unit, Watch, Outside

(***************************************************************************)
(* No step makes an attempt that has not been counted.                     *)
(***************************************************************************)
LEMMA CountStep == IInv /\ [Next]_vars => CountInv'
<1> SUFFICES ASSUME IInv, [Next]_vars PROVE CountInv'
  OBVIOUS
<1> USE PlaneAssumption DEF IInv, TypeOK, WatchdogTypes, CountInv
<1>1. CASE guard
  BY <1>1 DEF guard, Goto, Ended, kernel, service, watchdog, caches
<1>2. CASE applyRoutes
  BY <1>2 DEF applyRoutes, Goto, Ended, kernel, service, watchdog, caches
<1>3. CASE addLookup
  BY <1>3 DEF addLookup, Goto, kernel, service, watchdog, caches
<1>4. CASE addProhibit
  BY <1>4 DEF addProhibit, prohibitAfter, Goto, kernel, service, watchdog, caches
<1>5. CASE ensureSetLoaded
  BY <1>5 DEF ensureSetLoaded, Goto, kernel, service, watchdog, caches
<1>6. CASE verifySet
  BY <1>6 DEF verifySet, setVerified, Goto, Ended, kernel, service, watchdog, caches
<1>7. CASE installChain
  BY <1>7 DEF installChain, Ended, kernel, service, watchdog, caches
<1>8. CASE deleteTable
  BY <1>8 DEF deleteTable, Goto, Fault, kernel, service, watchdog, caches
<1>9. CASE deleteLookup
  BY <1>9 DEF deleteLookup, Goto, kernel, service, watchdog, caches
<1>10. CASE deleteProhibit
  BY <1>10 DEF deleteProhibit, Goto, kernel, service, watchdog, caches
<1>11. CASE flushRoutes
  BY <1>11 DEF flushRoutes, Ended, kernel, service, watchdog, caches
<1>12. CASE applyFails
  BY <1>12 DEF applyFails, Fault, Ended, kernel, service, watchdog, caches
<1>13. CASE snapshot("idle", "rules")
  BY <1>13 DEF snapshot, Fault, nftProblems, kernel, service, watchdog, caches
<1>14. CASE Diagnose
  BY <1>14 DEF Diagnose, givenUp, ruleProblems, kernel, service, watchdog, caches
<1>15. CASE writeFailCount
  BY <1>15 DEF writeFailCount, counted, Fault, kernel, service, watchdog, caches
<1>16. CASE restart
  BY <1>16 DEF restart, Restart, kernel, service, watchdog, caches
<1>17. CASE restarted
  BY <1>17 DEF restarted, kernel, service, watchdog, caches
<1>18. CASE snapshot("verify", "verifyRules")
  BY <1>18 DEF snapshot, Fault, nftProblems, kernel, service, watchdog, caches
<1>19. CASE verify
  BY <1>19 DEF verify, ruleProblems, kernel, service, watchdog, caches
<1>20. CASE flushUnbound
  BY <1>20 DEF flushUnbound, Fault, kernel, service, watchdog, caches
<1>21. CASE flushMosproxy
  BY <1>21 DEF flushMosproxy, FlushCache, Fault, kernel, service, watchdog, caches
<1>22. CASE zeroFailCount
  BY <1>22 DEF zeroFailCount, Fault, kernel, service, watchdog, caches
<1>23. CASE killWatchdog
  BY <1>23 DEF killWatchdog, Fault, kernel, service, watchdog, caches
<1>24. CASE Query
  BY <1>24 DEF Query, fate, kernel, service, watchdog, caches
<1>25. CASE StopTunnel
  BY <1>25 DEF StopTunnel, Fault, Stop, kernel, service, watchdog, caches
<1>26. CASE TunnelStopped
  BY <1>26 DEF TunnelStopped, kernel, service, watchdog, caches
<1>27. CASE LoseTunnel
  BY <1>27 DEF LoseTunnel, Fault, kernel, service, watchdog, caches
<1>28. CASE StartTunnel
  BY <1>28 DEF StartTunnel, Restart, kernel, service, watchdog, caches
<1>29. CASE FlushRuleset
  BY <1>29 DEF FlushRuleset, Fault, Restart, kernel, service, watchdog, caches
<1>30. CASE LoseRules
  BY <1>30 DEF LoseRules, Fault, Rules, kernel, service, watchdog, caches
<1>31. CASE RefreshDirect
  BY <1>31 DEF RefreshDirect, kernel, service, watchdog, caches
<1>32. CASE RefreshAuthority
  BY <1>32 DEF RefreshAuthority, kernel, service, watchdog, caches
<1>33. CASE ClearFailCount
  BY <1>33 DEF ClearFailCount, Fault, kernel, service, watchdog, caches
<1>34. CASE UNCHANGED vars
  BY <1>34 DEF vars, kernel, service, watchdog, caches
<1> QED
  BY <1>1, <1>2, <1>3, <1>4, <1>5, <1>6, <1>7, <1>8, <1>9, <1>10, <1>11, <1>12,
     <1>13, <1>14, <1>15, <1>16, <1>17, <1>18, <1>19, <1>20, <1>21, <1>22, <1>23, <1>24,
     <1>25, <1>26, <1>27, <1>28, <1>29, <1>30, <1>31, <1>32, <1>33, <1>34
  DEF Next, Unit, Watch, Outside

(***************************************************************************)
(* No step brings old poison back behind a flush.                          *)
(***************************************************************************)
LEMMA CacheStep == IInv /\ [Next]_vars => CacheInv'
<1> SUFFICES ASSUME IInv, [Next]_vars PROVE CacheInv'
  OBVIOUS
<1> USE PlaneAssumption DEF IInv, TypeOK, WatchdogTypes, FlagTypes, CacheInv
<1>1. CASE guard
  BY <1>1 DEF guard, Goto, Ended, kernel, service, watchdog, caches
<1>2. CASE applyRoutes
  BY <1>2 DEF applyRoutes, Goto, Ended, kernel, service, watchdog, caches
<1>3. CASE addLookup
  BY <1>3 DEF addLookup, Goto, kernel, service, watchdog, caches
<1>4. CASE addProhibit
  BY <1>4 DEF addProhibit, prohibitAfter, Goto, kernel, service, watchdog, caches
<1>5. CASE ensureSetLoaded
  BY <1>5 DEF ensureSetLoaded, Goto, kernel, service, watchdog, caches
<1>6. CASE verifySet
  BY <1>6 DEF verifySet, setVerified, Goto, Ended, kernel, service, watchdog, caches
<1>7. CASE installChain
  BY <1>7 DEF installChain, Ended, kernel, service, watchdog, caches
<1>8. CASE deleteTable
  BY <1>8 DEF deleteTable, Goto, Fault, kernel, service, watchdog, caches
<1>9. CASE deleteLookup
  BY <1>9 DEF deleteLookup, Goto, kernel, service, watchdog, caches
<1>10. CASE deleteProhibit
  BY <1>10 DEF deleteProhibit, Goto, kernel, service, watchdog, caches
<1>11. CASE flushRoutes
  BY <1>11 DEF flushRoutes, Ended, kernel, service, watchdog, caches
<1>12. CASE applyFails
  BY <1>12 DEF applyFails, Fault, Ended, kernel, service, watchdog, caches
<1>13. CASE snapshot("idle", "rules")
  BY <1>13 DEF snapshot, Fault, nftProblems, kernel, service, watchdog, caches
<1>14. CASE Diagnose
  BY <1>14 DEF Diagnose, givenUp, ruleProblems, kernel, service, watchdog, caches
<1>15. CASE writeFailCount
  BY <1>15 DEF writeFailCount, counted, Fault, kernel, service, watchdog, caches
<1>16. CASE restart
  BY <1>16 DEF restart, Restart, kernel, service, watchdog, caches
<1>17. CASE restarted
  BY <1>17 DEF restarted, kernel, service, watchdog, caches
<1>18. CASE snapshot("verify", "verifyRules")
  BY <1>18 DEF snapshot, Fault, nftProblems, kernel, service, watchdog, caches
<1>19. CASE verify
  BY <1>19 DEF verify, ruleProblems, kernel, service, watchdog, caches
<1>20. CASE flushUnbound
  BY <1>20 DEF flushUnbound, Fault, kernel, service, watchdog, caches
<1>21. CASE flushMosproxy
  BY <1>21 DEF flushMosproxy, FlushCache, Fault, kernel, service, watchdog, caches
<1>22. CASE zeroFailCount
  BY <1>22 DEF zeroFailCount, Fault, kernel, service, watchdog, caches
<1>23. CASE killWatchdog
  BY <1>23 DEF killWatchdog, Fault, kernel, service, watchdog, caches
<1>24. CASE Query
  BY <1>24 DEF Query, fate, kernel, service, watchdog, caches
<1>25. CASE StopTunnel
  BY <1>25 DEF StopTunnel, Fault, Stop, kernel, service, watchdog, caches
<1>26. CASE TunnelStopped
  BY <1>26 DEF TunnelStopped, kernel, service, watchdog, caches
<1>27. CASE LoseTunnel
  BY <1>27 DEF LoseTunnel, Fault, kernel, service, watchdog, caches
<1>28. CASE StartTunnel
  BY <1>28 DEF StartTunnel, Restart, kernel, service, watchdog, caches
<1>29. CASE FlushRuleset
  BY <1>29 DEF FlushRuleset, Fault, Restart, kernel, service, watchdog, caches
<1>30. CASE LoseRules
  BY <1>30 DEF LoseRules, Fault, Rules, kernel, service, watchdog, caches
<1>31. CASE RefreshDirect
  BY <1>31 DEF RefreshDirect, kernel, service, watchdog, caches
<1>32. CASE RefreshAuthority
  BY <1>32 DEF RefreshAuthority, kernel, service, watchdog, caches
<1>33. CASE ClearFailCount
  BY <1>33 DEF ClearFailCount, Fault, kernel, service, watchdog, caches
<1>34. CASE UNCHANGED vars
  BY <1>34 DEF vars, kernel, service, watchdog, caches
<1> QED
  BY <1>1, <1>2, <1>3, <1>4, <1>5, <1>6, <1>7, <1>8, <1>9, <1>10, <1>11, <1>12,
     <1>13, <1>14, <1>15, <1>16, <1>17, <1>18, <1>19, <1>20, <1>21, <1>22, <1>23, <1>24,
     <1>25, <1>26, <1>27, <1>28, <1>29, <1>30, <1>31, <1>32, <1>33, <1>34
  DEF Next, Unit, Watch, Outside

LEMMA Inductive == Spec => []IInv
<1>1. IInv /\ [Next]_vars => IInv'
  BY KernelTypeStep, ServiceTypeStep, WatchdogTypeStep, FlagTypeStep,
     SetStep, GuardStep, CountStep, CacheStep
  DEF IInv, TypeOK
<1> QED
  BY InitIInv, <1>1, PTL DEF Spec

(***************************************************************************)
(* Type correctness.                                                       *)
(***************************************************************************)
THEOREM PlaneTypeCorrect == Spec => []TypeOK
<1>1. IInv => TypeOK
  BY DEF IInv
<1> QED
  BY Inductive, <1>1, PTL

(***************************************************************************)
(* In mode "closed" a marked packet never leaves directly.                 *)
(***************************************************************************)
THEOREM MarkedNeverDirectHolds == Spec => []MarkedNeverDirect
<1>1. IInv => MarkedNeverDirect
  BY DEF IInv, GuardInv, MarkedNeverDirect, fate
<1> QED
  BY Inductive, <1>1, PTL

(***************************************************************************)
(* The chain is never installed over a set that is too small.              *)
(***************************************************************************)
THEOREM ChainNeedsSetHolds == Spec => []ChainNeedsSet
<1>1. IInv => ChainNeedsSet
  BY DEF IInv, SetInv, ChainNeedsSet
<1> QED
  BY Inductive, <1>1, PTL

(***************************************************************************)
(* The watchdog never exceeds its budget of restarts.                      *)
(***************************************************************************)
THEOREM RepairBudgetHolds == Spec => []RepairBudget
<1>1. IInv => RepairBudget
  BY PlaneAssumption DEF IInv, TypeOK, WatchdogTypes, CountInv, RepairBudget
<1> QED
  BY Inductive, <1>1, PTL

(***************************************************************************)
(* Both caches are clean of old poison when the watchdog writes 0.         *)
(***************************************************************************)
THEOREM CleanAfterRepairHolds == Spec => []CleanAfterRepair
<1>1. IInv => CleanAfterRepair
  BY DEF IInv, CacheInv, CleanAfterRepair
<1> QED
  BY Inductive, <1>1, PTL
=============================================================================
