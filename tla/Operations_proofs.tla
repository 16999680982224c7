-------------------------- MODULE Operations_proofs --------------------------
(***************************************************************************)
(* Upgrades, shared results and the helper's settings, for any number of   *)
(* upgraders, readers, computations and calls: an undisturbed upgrade      *)
(* leaves a proven build running, what a reader gets is never older than   *)
(* the last forget, and Unbound runs with what its file says.              *)
(***************************************************************************)
EXTENDS Upgrade, SharedCache, HelperOps, TLAPS

(***************************************************************************)
(* Upgrades.  UpgradeSettles speaks of the moments when nobody is at work. *)
(* The invariant says what holds at every step of the one upgrade that has *)
(* the lock; its saved build is the proven one the way back leads to, and  *)
(* a copy of the build-id that is not loose names that build.              *)
(***************************************************************************)
Working == {"fetch", "save", "replace", "sidecar", "restart", "rollback", "restartOld"}
UpRecord == [pc : {"idle", "start"} \cup Working, from : Nat, to : Nat, saved : Nat,
             savedID : Nat, copy : {"none", "loose", "true"}]

UpgradeTypeOK ==
    /\ release \in Nat /\ binary \in Nat /\ label \in [Labels -> Nat] /\ service \in Nat
    /\ upLock \in Upgraders \cup {Nobody, Watchdog}
    /\ up \in [Upgraders -> UpRecord]
    /\ proven \subseteq Good
    /\ hurt \in BOOLEAN /\ loose \subseteq Labels

\* Only the holder of the lock is at work.
OneAtWork == \A u \in Upgraders : up[u].pc \in Working <=> upLock = u

Settled == service = binary /\ binary \in proven

Labelled == \A l \in Labels \ loose : label[l] = binary

\* What holds of the installed build and its labels at each step of an upgrade.
AtStep(u) ==
    /\ ~hurt /\ up[u].pc \in {"fetch", "save", "replace"} => Settled
    /\ ~hurt /\ up[u].pc \in {"sidecar", "restart", "rollback", "restartOld"} => up[u].saved \in proven
    /\ up[u].pc \in {"replace", "restartOld"} => up[u].saved = binary
    /\ up[u].pc \in {"replace", "sidecar", "restart", "rollback"} /\ up[u].copy = "true" => up[u].savedID = up[u].saved
    /\ up[u].pc = "sidecar" => binary = up[u].to
    /\ up[u].pc \in Working \ {"sidecar"} => Labelled

UpgradeInv ==
    /\ UpgradeTypeOK /\ OneAtWork
    /\ upLock \in {Nobody, Watchdog} => Labelled /\ (~hurt => Settled)
    /\ \A u \in Upgraders : AtStep(u)

LEMMA GoodBuilds == Good \subseteq Nat /\ 0 \notin Good /\ 1 \in Good
  BY UpgradeConstants

LEMMA LockHolders == \A u \in Upgraders : u # Nobody /\ u # Watchdog
  BY UpgradeConstants

LEMMA UpgradeInvInit == UpgradeInit => UpgradeInv
  <1> SUFFICES ASSUME UpgradeInit PROVE UpgradeInv
    OBVIOUS
  <1>1. Resting \in UpRecord /\ Resting.pc = "idle"
    BY DEF Resting, UpRecord
  <1>2. UpgradeTypeOK
    BY <1>1, GoodBuilds DEF UpgradeInit, UpgradeTypeOK
  <1>3. Settled /\ Labelled /\ \A u \in Upgraders : up[u].pc = "idle" /\ upLock # u
    BY <1>1, LockHolders DEF UpgradeInit, Settled, Labelled
  <1>4. QED
    BY <1>2, <1>3 DEF UpgradeInv, OneAtWork, AtStep, Working

\* The end of an upgrade releases its lock and disturbs nobody else's.
LEMMA EndOfUpgrade ==
    ASSUME UpgradeTypeOK, OneAtWork, NEW u \in Upgraders, End(u)
    PROVE  /\ up' \in [Upgraders -> UpRecord]
           /\ upLock' \in Upgraders \cup {Nobody, Watchdog}
           /\ OneAtWork'
           /\ up'[u].pc = "idle"
           /\ \A v \in Upgraders : v # u => up'[v] = up[v]
           /\ up[u].pc \in Working => \A v \in Upgraders : up'[v].pc \notin Working
           /\ up[u].pc \notin Working => upLock' = upLock
  <1>1. /\ up' \in [Upgraders -> UpRecord]
        /\ up'[u].pc = "idle"
        /\ \A v \in Upgraders : v # u => up'[v] = up[v]
    BY DEF End, UpgradeTypeOK, Resting, UpRecord
  <1>2. upLock' = IF upLock = u THEN Nobody ELSE upLock
    BY DEF End
  <1>3. QED
    BY <1>1, <1>2, LockHolders DEF UpgradeTypeOK, OneAtWork, Working

\* An upgrade that ends at rest leaves the invariant to what is installed.
LEMMA EndKeeps ==
    ASSUME UpgradeInv, NEW u \in Upgraders, End(u), up[u].pc \in Working,
           release' \in Nat, binary' \in Nat, label' \in [Labels -> Nat], service' \in Nat,
           proven' \subseteq Good, hurt' \in BOOLEAN, loose' \subseteq Labels,
           Labelled', ~hurt' => Settled'
    PROVE  UpgradeInv'
  <1>1. /\ up' \in [Upgraders -> UpRecord] /\ upLock' \in Upgraders \cup {Nobody, Watchdog}
        /\ OneAtWork' /\ \A v \in Upgraders : up'[v].pc \notin Working
    BY EndOfUpgrade DEF UpgradeInv
  <1>2. UpgradeTypeOK'
    BY <1>1 DEF UpgradeTypeOK
  <1>3. \A v \in Upgraders : AtStep(v)'
    BY <1>1 DEF AtStep, Working
  <1>4. QED
    BY <1>1, <1>2, <1>3 DEF UpgradeInv

\* The holder of the lock goes on to its next step: nobody else is at work.
LEMMA HolderGoesOn ==
    ASSUME UpgradeInv, NEW u \in Upgraders, up[u].pc \in Working,
           NEW r \in UpRecord, r.pc \in Working, up' = [up EXCEPT ![u] = r], upLock' = upLock,
           release' \in Nat, binary' \in Nat, label' \in [Labels -> Nat], service' \in Nat,
           proven' \subseteq Good, hurt' \in BOOLEAN, loose' \subseteq Labels,
           AtStep(u)'
    PROVE  UpgradeInv'
  <1> USE DEF UpgradeInv
  <1>1. /\ up' \in [Upgraders -> UpRecord]
        /\ up'[u] = r
        /\ \A v \in Upgraders : v # u => up'[v] = up[v]
    BY DEF UpgradeTypeOK
  <1>2. upLock' = u /\ OneAtWork' /\ \A v \in Upgraders : v # u => up'[v].pc \notin Working
    BY <1>1 DEF OneAtWork
  <1>3. UpgradeTypeOK'
    BY <1>1, <1>2 DEF UpgradeTypeOK
  <1>4. ASSUME NEW v \in Upgraders PROVE AtStep(v)'
    <2>1. CASE v = u
      BY <1>1, <2>1 DEF AtStep, Labelled, Settled
    <2>2. CASE v # u
      BY <1>2, <2>2 DEF AtStep, Working
    <2>3. QED
      BY <2>1, <2>2
  <1>5. QED
    BY <1>2, <1>3, <1>4, LockHolders

\* What a write leaves: labels that name what they should, but for the bad ones.
LEMMA WriteLeaves ==
    ASSUME NEW text \in [Labels -> Nat], NEW bad \in SUBSET Labels, label \in [Labels -> Nat],
           Write(text, bad)
    PROVE  label' \in [Labels -> Nat] /\ \A l \in Labels \ bad : label'[l] = text[l]
  BY DEF Write

LEMMA UpgradeInvStep ==
    ASSUME UpgradeInv, NEW u \in Upgraders,
           \/ cmdUpgrade(u) \/ Locked(u) \/ fetchRelease(u) \/ backupBinary(u)
           \/ replaceBinary(u) \/ writeSidecar(u) \/ restartAndCheck(u) \/ rollback(u)
           \/ restartOld(u) \/ KillUpgrade(u)
    PROVE  UpgradeInv'
  <1> USE DEF UpgradeInv
  <1>a. up[u] \in UpRecord /\ UpgradeTypeOK /\ AtStep(u)
    BY DEF UpgradeTypeOK
  <1>1. CASE cmdUpgrade(u)
    <2>1. /\ up' = [up EXCEPT ![u] = [Resting EXCEPT !.pc = "start", !.from = binary]]
          /\ up[u].pc = "idle"
          /\ UNCHANGED <<release, binary, label, service, upLock, proven, hurt, loose>>
      BY <1>1 DEF cmdUpgrade
    <2>2. /\ up' \in [Upgraders -> UpRecord] /\ up'[u].pc = "start"
          /\ \A v \in Upgraders : v # u => up'[v] = up[v]
      BY <1>a, <2>1 DEF Resting, UpRecord, UpgradeTypeOK
    <2>3. \A v \in Upgraders : AtStep(v)'
      BY <2>1, <2>2 DEF AtStep, Labelled, Settled, Working
    <2>4. UpgradeTypeOK' /\ OneAtWork'
      BY <2>1, <2>2 DEF UpgradeTypeOK, OneAtWork, Working
    <2>5. QED
      BY <2>1, <2>3, <2>4 DEF Labelled, Settled
  <1>2. CASE Locked(u)
    <2>1. up[u].pc = "start" /\ UNCHANGED <<release, binary, label, service, proven, hurt, loose>>
      BY <1>2 DEF Locked
    <2>2. CASE TryLock(u) /\ upLock' = u /\ up' = [up EXCEPT ![u].pc = "fetch"]
      <3>1. /\ up' \in [Upgraders -> UpRecord] /\ up'[u].pc = "fetch"
            /\ \A v \in Upgraders : v # u => up'[v] = up[v]
        BY <2>2 DEF UpgradeTypeOK, UpRecord, Working
      <3>2. upLock = Nobody /\ upLock' = u
        BY <2>2 DEF TryLock
      <3>3. UpgradeTypeOK' /\ OneAtWork'
        BY <2>1, <3>1, <3>2, LockHolders DEF UpgradeTypeOK, OneAtWork, Working
      <3>4. \A v \in Upgraders : v # u => up'[v].pc \notin Working
        BY <3>1, <3>2, LockHolders DEF OneAtWork
      <3>5. Labelled' /\ (~hurt' => Settled')
        BY <2>1, <3>2 DEF Labelled, Settled
      <3>6. ASSUME NEW v \in Upgraders PROVE AtStep(v)'
        <4>1. CASE v = u
          BY <3>1, <3>5, <4>1 DEF AtStep
        <4>2. CASE v # u
          BY <3>4, <4>2 DEF AtStep, Working
        <4>3. QED
          BY <4>1, <4>2
      <3>7. QED
        BY <3>2, <3>3, <3>6, LockHolders
    <2>3. CASE End(u)
      <3>1. /\ UpgradeTypeOK' /\ OneAtWork' /\ upLock' = upLock /\ up'[u].pc = "idle"
            /\ \A v \in Upgraders : v # u => up'[v] = up[v]
        BY <2>1, <2>3, EndOfUpgrade DEF UpgradeTypeOK, Working
      <3>2. \A v \in Upgraders : AtStep(v)'
        BY <2>1, <3>1 DEF AtStep, Labelled, Settled, Working
      <3>3. QED
        BY <2>1, <3>1, <3>2 DEF Labelled, Settled
    <2>4. QED
      BY <1>2, <2>2, <2>3 DEF Locked
  <1>3. CASE fetchRelease(u)
    <2>1. /\ up[u].pc = "fetch" /\ up[u].pc \in Working
          /\ UNCHANGED <<release, binary, label, service, proven, hurt, loose>>
      BY <1>3 DEF fetchRelease, Working
    <2>2. Labelled' /\ (~hurt' => Settled')
      BY <1>a, <2>1 DEF AtStep, Labelled, Settled
    <2>3. CASE up' = [up EXCEPT ![u].pc = "save", ![u].to = release] /\ UNCHANGED upLock
      <3> DEFINE r == [up[u] EXCEPT !.pc = "save", !.to = release]
      <3>1. up' = [up EXCEPT ![u] = r] /\ up'[u] = r /\ r \in UpRecord /\ r.pc = "save"
        BY <1>a, <2>3 DEF UpgradeTypeOK, UpRecord, Working
      <3> HIDE DEF r
      <3>2. AtStep(u)'
        BY <2>2, <3>1 DEF AtStep
      <3>3. QED
        BY <1>a, <2>1, <2>3, <3>1, <3>2, HolderGoesOn DEF UpgradeTypeOK, Working
    <2>4. CASE End(u)
      BY <1>a, <2>1, <2>2, <2>4, EndKeeps DEF UpgradeTypeOK
    <2>5. QED
      BY <1>3, <2>3, <2>4 DEF fetchRelease
  <1>4. CASE backupBinary(u)
    <2>1. /\ up[u].pc = "save" /\ up[u].pc \in Working
          /\ UNCHANGED <<release, binary, label, service, proven, hurt, loose>>
      BY <1>4, Zenon DEF backupBinary, Working
    <2>2. Labelled' /\ (~hurt' => Settled')
      BY <1>a, <2>1 DEF AtStep, Labelled, Settled, Working
    <2>3. ASSUME NEW copied \in BOOLEAN, UNCHANGED upLock,
                 up' = [up EXCEPT ![u] =
                     [@ EXCEPT !.pc = "replace", !.saved = binary,
                               !.savedID = IF copied THEN label["id"] ELSE 0,
                               !.copy = CASE ~copied -> "none"
                                          [] copied /\ "id" \in loose -> "loose"
                                          [] copied /\ "id" \notin loose -> "true"]]
          PROVE  UpgradeInv'
      <3> DEFINE id == IF copied THEN label["id"] ELSE 0
                 kind == CASE ~copied -> "none" [] copied /\ "id" \in loose -> "loose"
                           [] copied /\ "id" \notin loose -> "true"
                 r == [up[u] EXCEPT !.pc = "replace", !.saved = binary, !.savedID = id, !.copy = kind]
      <3>1. id \in Nat /\ kind \in {"none", "loose", "true"}
        BY <1>a DEF UpgradeTypeOK, Labels
      <3>2. kind = "true" => id = binary
        BY <1>a, <2>1 DEF AtStep, Labelled, Labels, Working
      <3>3. up' = [up EXCEPT ![u] = r] /\ up'[u] = r
        BY <1>a, <2>3 DEF UpgradeTypeOK
      <3> HIDE DEF id, kind
      <3>4. r \in UpRecord /\ r.pc = "replace" /\ r.saved = binary /\ r.savedID = id /\ r.copy = kind
        BY <1>a, <3>1 DEF UpgradeTypeOK, UpRecord, Working
      <3> HIDE DEF r
      <3>5. AtStep(u)'
        BY <2>1, <2>2, <3>2, <3>3, <3>4 DEF AtStep
      <3>6. QED
        BY <1>a, <2>1, <2>3, <3>3, <3>4, <3>5, HolderGoesOn DEF UpgradeTypeOK, Working
    <2>4. CASE End(u)
      BY <1>a, <2>1, <2>2, <2>4, EndKeeps DEF UpgradeTypeOK
    <2>5. QED
      BY <1>4, <2>3, <2>4, Zenon DEF backupBinary
  <1>5. CASE replaceBinary(u)
    <2>1. /\ up[u].pc = "replace" /\ up[u].pc \in Working /\ up[u].to \in Nat
          /\ UNCHANGED <<release, label, service, proven, hurt, loose>>
      BY <1>5, <1>a DEF replaceBinary, Working, UpRecord
    <2>2. CASE binary' = up[u].to /\ up' = [up EXCEPT ![u].pc = "sidecar"] /\ UNCHANGED upLock
      <3> DEFINE r == [up[u] EXCEPT !.pc = "sidecar"]
      <3>1. /\ up' = [up EXCEPT ![u] = r] /\ up'[u] = r /\ r \in UpRecord /\ r.pc = "sidecar" /\ r.to = up[u].to
            /\ r.saved = up[u].saved /\ r.savedID = up[u].savedID /\ r.copy = up[u].copy
        BY <1>a, <2>2 DEF UpgradeTypeOK, UpRecord, Working
      <3> HIDE DEF r
      <3>2. AtStep(u)'
        BY <1>a, <2>1, <2>2, <3>1 DEF AtStep, Settled, Working
      <3>3. QED
        BY <1>a, <2>1, <2>2, <3>1, <3>2, HolderGoesOn DEF UpgradeTypeOK, Working
    <2>3. CASE End(u) /\ UNCHANGED binary
      <3>1. Labelled' /\ (~hurt' => Settled')
        BY <1>a, <2>1, <2>3 DEF AtStep, Labelled, Settled
      <3>2. QED
        BY <1>a, <2>1, <2>3, <3>1, EndKeeps DEF UpgradeTypeOK
    <2>4. QED
      BY <1>5, <2>2, <2>3 DEF replaceBinary
  <1>6. CASE writeSidecar(u)
    <2>1. PICK bad \in SUBSET Labels : Write([l \in Labels |-> up[u].to], bad) /\ loose' = bad
      BY <1>6 DEF writeSidecar
    <2>2. /\ up[u].pc = "sidecar" /\ up[u].pc \in Working /\ up[u].to \in Nat
          /\ UNCHANGED <<release, binary, service, upLock, proven, hurt>>
      BY <1>6, <1>a DEF writeSidecar, Working, UpRecord
    <2>3. label' \in [Labels -> Nat] /\ Labelled'
      <3>1. [l \in Labels |-> up[u].to] \in [Labels -> Nat]
        BY <2>2
      <3>2. label' \in [Labels -> Nat] /\ \A l \in Labels \ bad : label'[l] = up[u].to
        BY <1>a, <2>1, <3>1, WriteLeaves DEF UpgradeTypeOK
      <3>3. QED
        BY <1>a, <2>1, <2>2, <3>2 DEF AtStep, Labelled
    <2> DEFINE r == [up[u] EXCEPT !.pc = "restart"]
    <2>4. /\ up' = [up EXCEPT ![u] = r] /\ up'[u] = r /\ r \in UpRecord /\ r.pc = "restart"
          /\ r.saved = up[u].saved /\ r.savedID = up[u].savedID /\ r.copy = up[u].copy
      BY <1>a, <1>6 DEF writeSidecar, UpgradeTypeOK, UpRecord, Working
    <2> HIDE DEF r
    <2>5. AtStep(u)'
      BY <1>a, <2>2, <2>3, <2>4 DEF AtStep
    <2>6. QED
      BY <1>a, <2>1, <2>2, <2>3, <2>4, <2>5, HolderGoesOn DEF UpgradeTypeOK, Working
  <1>7. CASE restartAndCheck(u)
    <2>1. /\ up[u].pc = "restart" /\ up[u].pc \in Working /\ Started \in Nat
          /\ UNCHANGED <<release, binary, label, loose>>
      BY <1>7, <1>a DEF restartAndCheck, Working, UpgradeTypeOK, Started
    <2>2. Labelled'
      BY <1>a, <2>1 DEF AtStep, Labelled, Working
    <2>3. CASE Started # 0 /\ service' = Started /\ proven' = proven \cup {binary} /\ hurt' = FALSE /\ End(u)
      <3>1. binary \in Good /\ Settled'
        BY <2>1, <2>3 DEF Started, Settled
      <3>2. QED
        BY <1>a, <2>1, <2>2, <2>3, <3>1, EndKeeps DEF UpgradeTypeOK
    <2>4. CASE /\ service' \in {service, Started} /\ up' = [up EXCEPT ![u].pc = "rollback"]
               /\ UNCHANGED <<proven, hurt, upLock>>
      <3> DEFINE r == [up[u] EXCEPT !.pc = "rollback"]
      <3>1. /\ up' = [up EXCEPT ![u] = r] /\ up'[u] = r /\ r \in UpRecord /\ r.pc = "rollback"
            /\ r.saved = up[u].saved /\ r.savedID = up[u].savedID /\ r.copy = up[u].copy
        BY <1>a, <2>4 DEF UpgradeTypeOK, UpRecord, Working
      <3> HIDE DEF r
      <3>2. AtStep(u)'
        BY <1>a, <2>1, <2>2, <2>4, <3>1 DEF AtStep
      <3>3. QED
        BY <1>a, <2>1, <2>4, <3>1, <3>2, HolderGoesOn DEF UpgradeTypeOK, Working
    <2>5. QED
      BY <1>7, <2>3, <2>4 DEF restartAndCheck
  <1>8. CASE rollback(u)
    <2> DEFINE text == [sum |-> up[u].saved,
                        id  |-> IF up[u].copy = "none" THEN label["id"] ELSE up[u].savedID]
    <2>1. /\ up[u].pc = "rollback" /\ up[u].pc \in Working /\ up[u].saved \in Nat
          /\ UNCHANGED <<release, service, proven>>
      BY <1>8, <1>a DEF rollback, Working, UpRecord
    <2>2. ASSUME NEW bad \in SUBSET Labels, Write(text, bad), binary' = up[u].saved,
                 loose' = IF up[u].copy = "true" THEN bad ELSE bad \cup {"id"},
                 up' = [up EXCEPT ![u].pc = "restartOld"], UNCHANGED <<hurt, upLock>>
          PROVE  UpgradeInv'
      <3>1. /\ text \in [Labels -> Nat] /\ text["sum"] = up[u].saved
            /\ up[u].copy = "true" => text["id"] = up[u].saved
        <4>1. label["id"] \in Nat /\ up[u].savedID \in Nat
          BY <1>a DEF UpgradeTypeOK, UpRecord, Labels
        <4>2. text \in [Labels -> Nat]
          BY <2>1, <4>1 DEF Labels
        <4>3. up[u].copy = "true" => up[u].savedID = up[u].saved
          BY <1>a, <2>1 DEF AtStep
        <4>4. QED
          BY <4>2, <4>3
      <3> HIDE DEF text
      <3>2. label' \in [Labels -> Nat] /\ \A l \in Labels \ bad : label'[l] = text[l]
        BY <1>a, <2>2, <3>1, WriteLeaves DEF UpgradeTypeOK
      <3>3. loose' \subseteq Labels /\ Labelled'
        BY <2>2, <3>1, <3>2 DEF Labelled, Labels
      <3> DEFINE r == [up[u] EXCEPT !.pc = "restartOld"]
      <3>4. /\ up' = [up EXCEPT ![u] = r] /\ up'[u] = r /\ r \in UpRecord /\ r.pc = "restartOld" /\ r.saved = up[u].saved
        BY <1>a, <2>2 DEF UpgradeTypeOK, UpRecord, Working
      <3> HIDE DEF r
      <3>5. AtStep(u)'
        BY <1>a, <2>1, <2>2, <3>3, <3>4 DEF AtStep
      <3>6. QED
        BY <1>a, <2>1, <2>2, <3>2, <3>3, <3>4, <3>5, HolderGoesOn DEF UpgradeTypeOK, Working
    <2>3. CASE End(u) /\ hurt' = TRUE /\ UNCHANGED <<binary, label, loose, counts>>
      <3>1. Labelled'
        BY <1>a, <2>1, <2>3 DEF AtStep, Labelled
      <3>2. QED
        BY <1>a, <2>1, <2>3, <3>1, EndKeeps DEF UpgradeTypeOK
    <2>4. QED
      BY <1>8, <2>2, <2>3 DEF rollback
  <1>9. CASE restartOld(u)
    <2>1. /\ up[u].pc = "restartOld" /\ up[u].pc \in Working /\ End(u) /\ Started \in Nat
          /\ UNCHANGED <<release, binary, label, proven, loose>>
      BY <1>9, <1>a DEF restartOld, Working, UpgradeTypeOK, Started
    <2>2. \/ Started # 0 /\ service' = Started /\ hurt' = hurt
          \/ service' \in {service, Started} /\ hurt' = TRUE
      BY <1>9 DEF restartOld
    <2>3. Labelled'
      BY <1>a, <2>1 DEF AtStep, Labelled, Working
    <2>4. service' \in Nat /\ hurt' \in BOOLEAN
      BY <1>a, <2>1, <2>2 DEF UpgradeTypeOK
    <2>5. ~hurt' => Settled'
      BY <1>a, <2>1, <2>2 DEF AtStep, Settled, Started
    <2>6. QED
      BY <1>a, <2>1, <2>3, <2>4, <2>5, EndKeeps DEF UpgradeTypeOK
  <1>10. CASE KillUpgrade(u)
    <2>1. /\ End(u) /\ UNCHANGED <<release, binary, label, service, proven>>
          /\ hurt' = (hurt \/ up[u].pc \in {"sidecar", "restart", "rollback", "restartOld"})
          /\ loose' = IF up[u].pc = "sidecar" THEN Labels ELSE loose
      BY <1>10 DEF KillUpgrade
    <2>2. hurt' \in BOOLEAN /\ loose' \subseteq Labels
      BY <1>a, <2>1 DEF UpgradeTypeOK
    <2>3. CASE up[u].pc \in Working
      <3>1. Labelled' /\ (~hurt' => Settled')
        BY <1>a, <2>1, <2>3 DEF AtStep, Labelled, Settled, Working
      <3>2. QED
        BY <1>a, <2>1, <2>2, <2>3, <3>1, EndKeeps DEF UpgradeTypeOK
    <2>4. CASE up[u].pc \notin Working
      <3>1. hurt' = hurt /\ loose' = loose
        BY <1>a, <2>1, <2>4, Zenon DEF UpgradeTypeOK, Working
      <3>2. /\ UpgradeTypeOK' /\ OneAtWork' /\ upLock' = upLock /\ up'[u].pc = "idle"
            /\ \A v \in Upgraders : v # u => up'[v] = up[v]
        BY <1>a, <2>1, <2>4, <3>1, EndOfUpgrade DEF UpgradeTypeOK
      <3>3. \A v \in Upgraders : AtStep(v)'
        BY <2>1, <3>1, <3>2 DEF AtStep, Labelled, Settled, Working
      <3>4. QED
        BY <2>1, <3>1, <3>2, <3>3 DEF Labelled, Settled
    <2>5. QED
      BY <2>3, <2>4
  <1>11. QED
    BY <1>1, <1>2, <1>3, <1>4, <1>5, <1>6, <1>7, <1>8, <1>9, <1>10

\* When nobody is at work, a build that passed restart and probe is installed
\* and running, unless an upgrade was cut off half-way or its way back failed
\* and none has succeeded since; and its labels name it, but for those that
\* could not be written or saved (Upgrade, restartAndCheck, writeSidecar,
\* cmdUpgrade's lock).
THEOREM UpgradesSettle == UpgradeSpec => []UpgradeSettles
  <1>1. UpgradeInv /\ [UpgradeNext]_upgradeVars => UpgradeInv'
    <2> SUFFICES ASSUME UpgradeInv, [UpgradeNext]_upgradeVars PROVE UpgradeInv'
      OBVIOUS
    <2>1. CASE Publish
      BY <2>1 DEF Publish, UpgradeInv, UpgradeTypeOK, OneAtWork, Settled, Labelled, AtStep
    <2>2. CASE ReviveBegins
      <3>1. UpgradeTypeOK' /\ OneAtWork'
        BY <2>2, LockHolders DEF ReviveBegins, UpgradeInv, UpgradeTypeOK, OneAtWork
      <3>2. QED
        BY <2>2, <3>1 DEF ReviveBegins, UpgradeInv, Settled, Labelled, AtStep
    <2>3. CASE Revive
      <3>1. UpgradeTypeOK' /\ OneAtWork' /\ \A u \in Upgraders : up[u].pc \notin Working
        BY <2>3, LockHolders DEF Revive, Started, UpgradeInv, UpgradeTypeOK, OneAtWork
      <3>2. (~hurt => Settled) /\ Labelled /\ (~hurt' => Settled') /\ Labelled'
        BY <2>3, GoodBuilds DEF Revive, UpgradeInv, UpgradeTypeOK, Settled, Labelled
      <3>3. QED
        BY <2>3, <3>1, <3>2 DEF Revive, UpgradeInv, AtStep, Working
    <2>4. CASE UNCHANGED upgradeVars
      BY <2>4 DEF upgradeVars, UpgradeInv, UpgradeTypeOK, OneAtWork, Settled, Labelled, AtStep
    <2>5. QED
      BY <2>1, <2>2, <2>3, <2>4, UpgradeInvStep DEF UpgradeNext
  <1>2. UpgradeInv => UpgradeSettles
    BY DEF UpgradeInv, UpgradeSettles, Settled, Labelled
  <1>3. QED
    BY <1>1, <1>2, UpgradeInvInit, PTL DEF UpgradeSpec

-----------------------------------------------------------------------------
(***************************************************************************)
(* Shared results.  That no reader gets less than its floor rests on three *)
(* facts: a result with the current generation was computed after the last *)
(* forget; the current flight has the current generation; a reader waits   *)
(* for a computation that reads, or has read, no older data than its floor.*)
(***************************************************************************)
RunRecord == [gen : Nat, got : Nat, busy : BOOLEAN]
ReaderRecord == [on : Flights \cup {NoFlight}, floor : Nat]

SharedTypeOK ==
    /\ version \in Nat /\ body \in Nat /\ gen \in Nat /\ forgotten \in Nat
    /\ flight \in Flights \cup {NoFlight}
    /\ runs \in [Flights -> RunRecord]
    /\ reader \in [Readers -> ReaderRecord]

CurrentIsFresh ==
    /\ body # 0 => body >= forgotten
    /\ \A f \in Flights : /\ runs[f].gen <= gen
                          /\ runs[f].got # 0 /\ runs[f].gen = gen => runs[f].got >= forgotten
    /\ flight # NoFlight => runs[flight].gen = gen

FloorsAreMet ==
    \A r \in Readers :
        /\ reader[r].floor <= forgotten
        /\ \A f \in Flights : reader[r].on = f /\ runs[f].got # 0 => runs[f].got >= reader[r].floor

SharedInv ==
    /\ SharedTypeOK /\ forgotten <= version
    /\ CurrentIsFresh /\ FloorsAreMet
    /\ ~stale

LEMMA SharedInvInit == SharedInit => SharedInv
  BY SharedConstants DEF SharedInit, SharedInv, SharedTypeOK, CurrentIsFresh, FloorsAreMet, NoRun,
     NotReading, RunRecord, ReaderRecord

\* A computation ends: its flight, its run and its readers are gone.
LEMMA DeliverKeeps ==
    ASSUME SharedInv, NEW f \in Flights, Deliver(f), UNCHANGED <<version, gen, forgotten>>
    PROVE  /\ flight' \in Flights \cup {NoFlight}
           /\ runs' \in [Flights -> RunRecord] /\ reader' \in [Readers -> ReaderRecord]
           /\ \A g \in Flights : runs'[g].gen <= gen
           /\ \A g \in Flights : runs'[g].got # 0 => runs'[g] = runs[g]
           /\ flight' # NoFlight => flight' # f /\ runs'[flight'].gen = gen
           /\ FloorsAreMet'
  <1> USE DEF SharedInv, SharedTypeOK
  <1>1. /\ runs' \in [Flights -> RunRecord] /\ runs'[f].gen = 0 /\ runs'[f].got = 0
        /\ \A g \in Flights : g # f => runs'[g] = runs[g]
    BY DEF Deliver, NoRun, RunRecord
  <1>2. /\ reader' \in [Readers -> ReaderRecord]
        /\ \A r \in Readers : reader'[r] = IF reader[r].on = f THEN NotReading ELSE reader[r]
    BY DEF Deliver, NotReading, ReaderRecord
  <1>3. flight' = IF flight = f THEN NoFlight ELSE flight
    BY DEF Deliver
  <1>4. FloorsAreMet'
    BY <1>1, <1>2, SharedConstants DEF FloorsAreMet, NotReading, RunRecord, ReaderRecord
  <1>5. QED
    BY <1>1, <1>2, <1>3, <1>4 DEF CurrentIsFresh, RunRecord

LEMMA SharedInvReader ==
    ASSUME SharedInv, NEW r \in Readers, getCached(r) \/ getShared(r) \/ cancelled(r)
    PROVE  SharedInv'
  <1> USE SharedConstants DEF SharedInv, SharedTypeOK
  <1>1. CASE getCached(r)
    <2>1. ~(body < forgotten)
      BY <1>1 DEF getCached, CurrentIsFresh
    <2>2. ~stale'
      BY <1>1, <2>1, Zenon DEF getCached
    <2>3. UNCHANGED <<version, body, gen, flight, runs, reader, forgotten>>
      BY <1>1 DEF getCached
    <2>4. QED
      BY <2>2, <2>3 DEF CurrentIsFresh, FloorsAreMet
  <1>2. CASE getShared(r)
    <2> USE DEF CurrentIsFresh, FloorsAreMet
    <2>1. CASE flight # NoFlight
      <3>1. /\ UNCHANGED <<version, body, gen, forgotten, stale, flight, runs>>
            /\ reader' = [reader EXCEPT ![r] = [on |-> flight, floor |-> forgotten]]
        BY <1>2, <2>1 DEF getShared
      <3>2. reader' \in [Readers -> ReaderRecord]
        BY <3>1 DEF ReaderRecord
      <3>3. FloorsAreMet'
        BY <2>1, <3>1 DEF RunRecord, ReaderRecord
      <3>4. QED
        BY <3>1, <3>2, <3>3
    <2>2. CASE flight = NoFlight
      <3>1. PICK f \in Flights :
              /\ \A q \in Readers : reader[q].on # f
              /\ flight' = f
              /\ runs' = [runs EXCEPT ![f] = [gen |-> gen, got |-> 0, busy |-> TRUE]]
              /\ reader' = [reader EXCEPT ![r] = [on |-> f, floor |-> forgotten]]
        BY <1>2, <2>2 DEF getShared
      <3>2. UNCHANGED <<version, body, gen, forgotten, stale>>
        BY <1>2 DEF getShared
      <3>3. /\ runs' \in [Flights -> RunRecord] /\ runs'[f].gen = gen /\ runs'[f].got = 0
            /\ \A g \in Flights : g # f => runs'[g] = runs[g]
        BY <3>1 DEF RunRecord
      <3>4. reader' \in [Readers -> ReaderRecord]
        BY <3>1 DEF ReaderRecord
      <3>5. CurrentIsFresh'
        BY <3>1, <3>2, <3>3 DEF RunRecord
      <3>6. FloorsAreMet'
        BY <3>1, <3>2, <3>3 DEF RunRecord, ReaderRecord
      <3>7. QED
        BY <3>1, <3>2, <3>3, <3>4, <3>5, <3>6
    <2>3. QED
      BY <2>1, <2>2
  <1>3. CASE cancelled(r)
    BY <1>3 DEF cancelled, NotReading, ReaderRecord, CurrentIsFresh, FloorsAreMet
  <1>4. QED
    BY <1>1, <1>2, <1>3

LEMMA SharedInvFlight ==
    ASSUME SharedInv, NEW f \in Flights, compute(f) \/ run(f) \/ runFailed(f)
    PROVE  SharedInv'
  <1> USE DEF SharedInv, SharedTypeOK
  <1>1. CASE compute(f)
    <2>1. /\ runs' \in [Flights -> RunRecord] /\ runs'[f].gen = runs[f].gen /\ runs'[f].got = version
          /\ \A g \in Flights : g # f => runs'[g] = runs[g]
      BY <1>1 DEF compute, RunRecord
    <2>2. UNCHANGED <<version, body, gen, flight, reader, forgotten, stale>>
      BY <1>1 DEF compute
    <2>3. CurrentIsFresh'
      BY <2>1, <2>2 DEF CurrentIsFresh, RunRecord
    <2>4. FloorsAreMet'
      BY <2>1, <2>2 DEF FloorsAreMet, RunRecord, ReaderRecord
    <2>5. QED
      BY <2>1, <2>2, <2>3, <2>4
  <1>2. CASE run(f)
    <2>1. /\ Deliver(f) /\ UNCHANGED <<version, gen, forgotten>>
          /\ runs[f].got # 0 /\ body' = IF runs[f].gen = gen THEN runs[f].got ELSE body
      BY <1>2 DEF run
    <2>2. ~stale'
      <3>1. ~\E r \in Readers : reader[r].on = f /\ runs[f].got < reader[r].floor
        BY <2>1 DEF FloorsAreMet, RunRecord, ReaderRecord
      <3>2. QED
        BY <1>2, <3>1, Zenon DEF run
    <2>3. body' \in Nat /\ (body' # 0 => body' >= forgotten)
      BY <2>1 DEF CurrentIsFresh, RunRecord
    <2>4. QED
      BY <2>1, <2>2, <2>3, DeliverKeeps DEF CurrentIsFresh
  <1>3. CASE runFailed(f)
    BY <1>3, DeliverKeeps DEF runFailed, CurrentIsFresh
  <1>4. QED
    BY <1>1, <1>2, <1>3

\* No reader who asks after a forget gets a result older than that forget,
\* although computations begun before it still run (get, run, forget).
THEOREM ReadersAreFresh == SharedSpec => []FreshAfterForget
  <1>1. SharedInv /\ [SharedNext]_sharedVars => SharedInv'
    <2> SUFFICES ASSUME SharedInv, [SharedNext]_sharedVars PROVE SharedInv'
      OBVIOUS
    <2>1. CASE Expire
      BY <2>1 DEF Expire, SharedInv, SharedTypeOK, CurrentIsFresh, FloorsAreMet
    <2>2. CASE Change
      BY <2>2 DEF Change, SharedInv, SharedTypeOK, CurrentIsFresh, FloorsAreMet
    <2>3. CASE forget
      <3>1. CurrentIsFresh'
        BY <2>3 DEF forget, SharedInv, SharedTypeOK, CurrentIsFresh, RunRecord
      <3>2. FloorsAreMet'
        BY <2>3 DEF forget, SharedInv, SharedTypeOK, FloorsAreMet, ReaderRecord
      <3>3. QED
        BY <2>3, <3>1, <3>2 DEF forget, SharedInv, SharedTypeOK
    <2>4. CASE UNCHANGED sharedVars
      BY <2>4 DEF sharedVars, SharedInv, SharedTypeOK, CurrentIsFresh, FloorsAreMet
    <2>5. QED
      BY <2>1, <2>2, <2>3, <2>4, SharedInvReader, SharedInvFlight DEF SharedNext
  <1>2. SharedInv => FreshAfterForget
    BY DEF SharedInv, FreshAfterForget
  <1>3. QED
    BY <1>1, <1>2, SharedInvInit, PTL DEF SharedSpec

(***************************************************************************)
(* The helper's settings.  SettingsAgree speaks of options nobody is       *)
(* changing.  The invariant also says what holds in between: the call that *)
(* has set an option and not yet written the file is the only one, the     *)
(* option has its value, and what an editor has read is still the file.    *)
(***************************************************************************)
SetExpired == <<"set", "serve-expired-ttl">>
EditExpired == <<"edit", "serve-expired-ttl">>
EditOptimistic == <<"edit", "optimistic_ttl">>
SetMin == <<"set", "cache-min-ttl">>
EditMin == <<"edit", "cache-min-ttl">>

\* What can be left of an operation.
Todos ==
    { <<>>, <<SetExpired, EditExpired, EditOptimistic>>, <<EditExpired, EditOptimistic>>,
      <<EditOptimistic>>, <<SetMin, EditMin>>, <<EditMin>>,
      << <<"flush", "unbound">>, <<"flush", "mosproxy">> >>, << <<"flush", "mosproxy">> >>,
      << <<"checkconf", "unbound">>, <<"restart", "unbound">> >>, << <<"restart", "unbound">> >>,
      << <<"run", "command">> >> }

Request == [pc : {"idle", "queued", "running", "editing"}, ttl : TTLs \cup {0}, todo : Todos]

\* The request has set option f and not yet brought its file up to date.
Owes(r, f) == r.pc \in {"running", "editing"} /\ r.todo # <<>> /\ Head(r.todo) = <<"edit", f>>

HelperTypeOK ==
    /\ call \in [Calls -> Request]
    /\ live \in [Options -> TTLs \cup {0}] /\ conf \in [Options -> TTLs \cup {0}]
    /\ snap \in [Calls -> [Options -> TTLs \cup {0}]]

EditsAreExclusive ==
    \A c \in Calls : call[c].pc = "editing" =>
        /\ editor = c /\ snap[c] = conf
        /\ call[c].todo # <<>> /\ Head(call[c].todo)[1] = "edit"

QueuedOwesNothing ==
    \A c \in Calls : call[c].pc = "queued" =>
        call[c].todo # <<>> /\ \A f \in Options : Head(call[c].todo) # <<"edit", f>>

DebtIsOne ==
    \A f \in Options \ slipped :
        /\ \A c, d \in Calls : Owes(call[c], f) /\ Owes(call[d], f) => c = d
        /\ \A c \in Calls : Owes(call[c], f) => live[f] = call[c].ttl
        /\ (\A c \in Calls : ~Owes(call[c], f)) => live[f] = conf[f]

HelperInv == HelperTypeOK /\ EditsAreExclusive /\ QueuedOwesNothing /\ DebtIsOne

\* A call whose next step is done: setting an option leaves it to be written,
\* any other step leaves no option to be written.
LEMMA TodoSteps ==
    \A t \in Todos : t # <<>> =>
        /\ Tail(t) \in Todos
        /\ Head(t) = <<Head(t)[1], Head(t)[2]>>
        /\ Head(t)[1] = "set" =>
             Head(t)[2] \in Options /\ Tail(t) # <<>> /\ Head(Tail(t)) = <<"edit", Head(t)[2]>>
        /\ Head(t)[1] # "set" =>
             \A f \in Options : Tail(t) # <<>> => Head(Tail(t)) # <<"edit", f>>
  <1>1. \A a, b, c : /\ Head(<<a>>) = a /\ Tail(<<a>>) = <<>> /\ <<a>> # <<>>
                     /\ Head(<<a, b>>) = a /\ Tail(<<a, b>>) = <<b>> /\ <<a, b>> # <<>>
                     /\ Head(<<a, b, c>>) = a /\ Tail(<<a, b, c>>) = <<b, c>>
    OBVIOUS
  <1> SUFFICES ASSUME NEW t \in Todos, t # <<>>
               PROVE  /\ Tail(t) \in Todos
                      /\ Head(t) = <<Head(t)[1], Head(t)[2]>>
                      /\ Head(t)[1] = "set" =>
                           /\ Head(t)[2] \in Options /\ Tail(t) # <<>>
                           /\ Head(Tail(t)) = <<"edit", Head(t)[2]>>
                      /\ Head(t)[1] # "set" =>
                           \A f \in Options : Tail(t) # <<>> => Head(Tail(t)) # <<"edit", f>>
    OBVIOUS
  <1>2. CASE t = <<SetExpired, EditExpired, EditOptimistic>>
    BY <1>1, <1>2 DEF Todos, SetExpired, EditExpired, EditOptimistic, SetMin, EditMin, Options
  <1>3. CASE t = <<EditExpired, EditOptimistic>>
    BY <1>1, <1>3 DEF Todos, SetExpired, EditExpired, EditOptimistic, SetMin, EditMin, Options
  <1>4. CASE t = <<EditOptimistic>>
    BY <1>1, <1>4 DEF Todos, SetExpired, EditExpired, EditOptimistic, SetMin, EditMin, Options
  <1>5. CASE t = <<SetMin, EditMin>>
    BY <1>1, <1>5 DEF Todos, SetExpired, EditExpired, EditOptimistic, SetMin, EditMin, Options
  <1>6. CASE t = <<EditMin>>
    BY <1>1, <1>6 DEF Todos, SetExpired, EditExpired, EditOptimistic, SetMin, EditMin, Options
  <1>7. CASE t = << <<"flush", "unbound">>, <<"flush", "mosproxy">> >>
    BY <1>1, <1>7 DEF Todos, SetExpired, EditExpired, EditOptimistic, SetMin, EditMin, Options
  <1>8. CASE t = << <<"flush", "mosproxy">> >>
    BY <1>1, <1>8 DEF Todos, SetExpired, EditExpired, EditOptimistic, SetMin, EditMin, Options
  <1>9. CASE t = << <<"checkconf", "unbound">>, <<"restart", "unbound">> >>
    BY <1>1, <1>9 DEF Todos, SetExpired, EditExpired, EditOptimistic, SetMin, EditMin, Options
  <1>10. CASE t = << <<"restart", "unbound">> >>
    BY <1>1, <1>10 DEF Todos, SetExpired, EditExpired, EditOptimistic, SetMin, EditMin, Options
  <1>11. CASE t = << <<"run", "command">> >>
    BY <1>1, <1>11 DEF Todos, SetExpired, EditExpired, EditOptimistic, SetMin, EditMin, Options
  <1>12. QED
    BY <1>2, <1>3, <1>4, <1>5, <1>6, <1>7, <1>8, <1>9, <1>10, <1>11 DEF Todos

LEMMA PlansAreTodos ==
    \A op \in OpNames : /\ Plan(op) \in Todos /\ Plan(op) # <<>>
                         /\ \A f \in Options : Head(Plan(op)) # <<"edit", f>>
  BY DEF Plan, OpNames, Todos, SetExpired, EditExpired, EditOptimistic, SetMin, EditMin, Options

LEMMA HelperInvInit == HelperInit => HelperInv
  <1> SUFFICES ASSUME HelperInit PROVE HelperInv
    OBVIOUS
  <1>1. NoRequestYet \in Request /\ NoRequestYet.pc = "idle"
    BY DEF NoRequestYet, Request, Todos
  <1>2. NoFile \in [Options -> TTLs \cup {0}]
    BY DEF NoFile
  <1>3. HelperTypeOK
    BY <1>1, <1>2 DEF HelperInit, HelperTypeOK
  <1>4. \A c \in Calls : call[c].pc = "idle"
    BY <1>1 DEF HelperInit
  <1>5. \A f \in Options : live[f] = conf[f]
    BY DEF HelperInit
  <1>6. QED
    BY <1>3, <1>4, <1>5 DEF HelperInv, EditsAreExclusive, QueuedOwesNothing, DebtIsOne, Owes

\* What a request owes is nobody else's business: a step of c that leaves its
\* debts, the options and the file alone leaves the rest in order.
LEMMA DebtsUntouched ==
    ASSUME HelperInv, NEW c \in Calls, NEW r \in Request, call' = [call EXCEPT ![c] = r],
           \A f \in Options : Owes(r, f) <=> Owes(call[c], f), r.ttl = call[c].ttl \/ r.pc \in {"idle", "queued"},
           UNCHANGED <<live, conf, slipped>>
    PROVE  DebtIsOne'
  <1>1. /\ call'[c] = r /\ \A d \in Calls : d # c => call'[d] = call[d]
    BY DEF HelperInv, HelperTypeOK
  <1> SUFFICES ASSUME NEW f \in Options \ slipped
               PROVE  /\ \A d, e \in Calls : Owes(call'[d], f) /\ Owes(call'[e], f) => d = e
                      /\ \A d \in Calls : Owes(call'[d], f) => live[f] = call'[d].ttl
                      /\ (\A d \in Calls : ~Owes(call'[d], f)) => live[f] = conf[f]
    BY DEF DebtIsOne, Owes
  <1>2. \A d \in Calls : Owes(call'[d], f) <=> Owes(call[d], f)
    BY <1>1
  <1>3. /\ \A d, e \in Calls : Owes(call[d], f) /\ Owes(call[e], f) => d = e
        /\ \A d \in Calls : Owes(call[d], f) => live[f] = call[d].ttl
        /\ (\A d \in Calls : ~Owes(call[d], f)) => live[f] = conf[f]
    BY DEF HelperInv, DebtIsOne
  <1>4. \A d \in Calls : Owes(call'[d], f) => call'[d].ttl = call[d].ttl
    BY <1>1 DEF Owes
  <1>5. QED
    BY <1>2, <1>3, <1>4

\* A step of c that begins and ends no edit and owes nothing while queued.
LEMMA OthersUntouched ==
    ASSUME HelperInv, NEW c \in Calls, NEW r \in Request, call' = [call EXCEPT ![c] = r],
           r.pc \in {"idle", "running"}, UNCHANGED <<conf, editor, snap>>
    PROVE  EditsAreExclusive' /\ QueuedOwesNothing'
  <1>1. /\ call'[c] = r /\ \A d \in Calls : d # c => call'[d] = call[d]
    BY DEF HelperInv, HelperTypeOK
  <1>2. EditsAreExclusive'
    BY <1>1 DEF HelperInv, EditsAreExclusive
  <1>3. QueuedOwesNothing'
    BY <1>1 DEF HelperInv, QueuedOwesNothing
  <1>4. QED
    BY <1>2, <1>3

\* The steps after which only the request has changed, and no debt of it.
LEMMA PlainStep ==
    ASSUME HelperInv, NEW c \in Calls, NEW r \in Request, call' = [call EXCEPT ![c] = r],
           \A f \in Options : ~Owes(r, f) /\ ~Owes(call[c], f), r.ttl = call[c].ttl \/ r.pc = "idle",
           r.pc \in {"idle", "running"}, UNCHANGED <<live, conf, editor, snap, slipped>>
    PROVE  HelperInv'
  <1>1. DebtIsOne'
    BY DebtsUntouched
  <1>2. EditsAreExclusive' /\ QueuedOwesNothing'
    BY OthersUntouched
  <1>3. HelperTypeOK'
    BY DEF HelperInv, HelperTypeOK
  <1>4. QED
    BY <1>1, <1>2, <1>3 DEF HelperInv

\* A step other than an edit, done or failed, as the record it leaves.
LEMMA AfterStep ==
    ASSUME HelperInv, NEW c \in Calls, call[c].pc = "running", call[c].todo # <<>>,
           Head(call[c].todo)[1] # "edit"
    PROVE  /\ \A f : ~Owes(call[c], f)
           /\ [pc |-> "running", ttl |-> call[c].ttl, todo |-> Tail(call[c].todo)] \in Request
           /\ [pc |-> "running", ttl |-> call[c].ttl, todo |-> <<>>] \in Request
           /\ StepDone(c) = [call EXCEPT ![c] = [pc |-> "running", ttl |-> call[c].ttl,
                                                 todo |-> Tail(call[c].todo)]]
           /\ OpFailed(c) = [call EXCEPT ![c] = [pc |-> "running", ttl |-> call[c].ttl,
                                                 todo |-> <<>>]]
  <1>1. call \in [Calls -> Request] /\ call[c] \in Request /\ <<>> \in Todos
    BY DEF HelperInv, HelperTypeOK, Todos
  <1>2. Tail(call[c].todo) \in Todos
    BY <1>1, TodoSteps DEF Request
  <1>3. \A f : ~Owes(call[c], f)
    BY DEF Owes
  <1>4. /\ [pc |-> "running", ttl |-> call[c].ttl, todo |-> Tail(call[c].todo)] \in Request
        /\ [pc |-> "running", ttl |-> call[c].ttl, todo |-> <<>>] \in Request
    BY <1>1, <1>2 DEF Request
  <1>5. \A t : [call[c] EXCEPT !.todo = t] = [pc |-> "running", ttl |-> call[c].ttl, todo |-> t]
    BY <1>1 DEF Request
  <1>6. QED
    BY <1>1, <1>3, <1>4, <1>5 DEF StepDone, OpFailed

LEMMA HelperSends == ASSUME HelperInv, NEW c \in Calls, action(c) PROVE HelperInv'
  <1>1. PICK op \in OpNames, ttl \in TTLs :
            call' = [call EXCEPT ![c] = [pc |-> "queued", ttl |-> ttl, todo |-> Plan(op)]]
    BY DEF action
  <1> DEFINE r == [pc |-> "queued", ttl |-> ttl, todo |-> Plan(op)]
  <1>2. r \in Request /\ r.todo # <<>> /\ \A f \in Options : Head(r.todo) # <<"edit", f>>
    BY PlansAreTodos DEF Request
  <1>3. call[c].pc = "idle" /\ UNCHANGED <<live, conf, editor, snap, slipped>>
    BY DEF action
  <1>4. \A f \in Options : Owes(r, f) <=> Owes(call[c], f)
    BY <1>3 DEF Owes
  <1>5. r.pc = "queued" /\ call' = [call EXCEPT ![c] = r]
    BY <1>1
  <1> HIDE DEF r
  <1>6. DebtIsOne'
    BY <1>2, <1>3, <1>4, <1>5, DebtsUntouched
  <1>7. call \in [Calls -> Request] /\ HelperTypeOK'
    BY <1>2, <1>3, <1>5 DEF HelperInv, HelperTypeOK
  <1>8. EditsAreExclusive'
    BY <1>3, <1>5, <1>7 DEF HelperInv, EditsAreExclusive
  <1>9. QueuedOwesNothing'
    BY <1>2, <1>5, <1>7 DEF HelperInv, QueuedOwesNothing
  <1>10. QED
    BY <1>6, <1>7, <1>8, <1>9 DEF HelperInv

LEMMA HelperDispatches == ASSUME HelperInv, NEW c \in Calls, Dispatch(c) PROVE HelperInv'
  <1> DEFINE r == [pc |-> "running", ttl |-> call[c].ttl, todo |-> call[c].todo]
  <1>1. call \in [Calls -> Request] /\ call[c] \in Request /\ call[c].pc = "queued"
    BY DEF Dispatch, HelperInv, HelperTypeOK
  <1>2. r \in Request /\ call' = [call EXCEPT ![c] = r]
    <2>1. \A x : [call[c] EXCEPT !.pc = x] = [pc |-> x, ttl |-> call[c].ttl, todo |-> call[c].todo]
      BY <1>1 DEF Request
    <2>2. call' = [call EXCEPT ![c] = [call[c] EXCEPT !.pc = "running"]]
      BY DEF Dispatch
    <2>3. r \in Request
      BY <1>1 DEF Request
    <2>4. QED
      BY <2>1, <2>2, <2>3
  <1>3. \A f \in Options : ~Owes(r, f) /\ ~Owes(call[c], f)
    BY <1>1 DEF HelperInv, QueuedOwesNothing, Owes
  <1>4. r.pc = "running" /\ r.ttl = call[c].ttl /\ UNCHANGED <<live, conf, editor, snap, slipped>>
    BY DEF Dispatch
  <1> HIDE DEF r
  <1>5. QED
    BY <1>2, <1>3, <1>4, PlainStep

\* Steps that change only the request: a check, a flush, a command, the answer.
LEMMA HelperRuns ==
    ASSUME HelperInv, NEW c \in Calls, checkconf(c) \/ opFlushCache(c) \/ runCommand(c)
    PROVE  HelperInv'
  <1> DEFINE done == [pc |-> "running", ttl |-> call[c].ttl, todo |-> Tail(call[c].todo)]
             failed == [pc |-> "running", ttl |-> call[c].ttl, todo |-> <<>>]
  <1>1. /\ call[c].pc = "running" /\ call[c].todo # <<>>
        /\ Head(call[c].todo)[1] \in {"checkconf", "flush", "run"}
        /\ call' \in {StepDone(c), OpFailed(c)}
        /\ UNCHANGED <<live, conf, editor, snap, slipped>>
    BY DEF checkconf, opFlushCache, runCommand, At, Step
  <1>2. PICK r \in {done, failed} : call' = [call EXCEPT ![c] = r]
    BY <1>1, AfterStep
  <1>3. /\ done \in Request /\ done.pc = "running" /\ done.ttl = call[c].ttl
        /\ failed \in Request /\ failed.pc = "running" /\ failed.ttl = call[c].ttl
    BY <1>1, AfterStep
  <1>4. call[c].todo \in Todos
    BY DEF HelperInv, HelperTypeOK, Request
  <1>5. \A f \in Options : ~Owes(done, f) /\ ~Owes(failed, f) /\ ~Owes(call[c], f)
    BY <1>1, <1>4, AfterStep, TodoSteps DEF Owes
  <1> HIDE DEF done, failed
  <1>6. QED
    BY <1>1, <1>2, <1>3, <1>5, PlainStep

LEMMA HelperAnswers == ASSUME HelperInv, NEW c \in Calls, answer(c) PROVE HelperInv'
  <1>1. /\ NoRequestYet \in Request /\ NoRequestYet.pc = "idle"
        /\ \A f \in Options : ~Owes(NoRequestYet, f)
    BY DEF NoRequestYet, Request, Todos, Owes
  <1>2. /\ call[c].todo = <<>> /\ call' = [call EXCEPT ![c] = NoRequestYet]
        /\ UNCHANGED <<live, conf, editor, snap, slipped>>
    BY DEF answer
  <1>3. \A f \in Options : ~Owes(call[c], f)
    BY <1>2 DEF Owes
  <1>4. QED
    BY <1>1, <1>2, <1>3, PlainStep

LEMMA HelperReads == ASSUME HelperInv, NEW c \in Calls, editRead(c) PROVE HelperInv'
  <1> DEFINE r == [pc |-> "editing", ttl |-> call[c].ttl, todo |-> call[c].todo]
  <1>1. /\ call \in [Calls -> Request] /\ call[c] \in Request /\ call[c].pc = "running"
        /\ call[c].todo # <<>> /\ Head(call[c].todo)[1] = "edit" /\ editor = NoCall
        /\ editor' = c /\ snap' = [snap EXCEPT ![c] = conf] /\ UNCHANGED <<live, conf, slipped>>
    BY DEF editRead, At, Step, HelperInv, HelperTypeOK
  <1>2. r \in Request /\ call' = [call EXCEPT ![c] = r]
    <2>1. \A x : [call[c] EXCEPT !.pc = x] = [pc |-> x, ttl |-> call[c].ttl, todo |-> call[c].todo]
      BY <1>1 DEF Request
    <2>2. call' = [call EXCEPT ![c] = [call[c] EXCEPT !.pc = "editing"]]
      BY DEF editRead
    <2>3. r \in Request
      BY <1>1 DEF Request
    <2>4. QED
      BY <2>1, <2>2, <2>3
  <1>3. r.pc = "editing" /\ r.ttl = call[c].ttl /\ r.todo = call[c].todo
    OBVIOUS
  <1>4. \A f \in Options : Owes(r, f) <=> Owes(call[c], f)
    BY <1>1 DEF Owes
  <1> HIDE DEF r
  <1>5. DebtIsOne'
    BY <1>1, <1>2, <1>3, <1>4, DebtsUntouched
  <1>6. HelperTypeOK'
    BY <1>1, <1>2 DEF HelperInv, HelperTypeOK
  <1>7. \A d \in Calls : d # c => call[d].pc # "editing"
    BY <1>1, HelperConstants DEF HelperInv, EditsAreExclusive
  <1>8. EditsAreExclusive'
    BY <1>1, <1>2, <1>3, <1>7 DEF HelperInv, HelperTypeOK, EditsAreExclusive
  <1>9. QueuedOwesNothing'
    BY <1>1, <1>2, <1>3 DEF HelperInv, QueuedOwesNothing
  <1>10. QED
    BY <1>5, <1>6, <1>8, <1>9 DEF HelperInv

LEMMA HelperSets == ASSUME HelperInv, NEW c \in Calls, unboundControl(c) PROVE HelperInv'
  <1> DEFINE done == [pc |-> "running", ttl |-> call[c].ttl, todo |-> Tail(call[c].todo)]
             failed == [pc |-> "running", ttl |-> call[c].ttl, todo |-> <<>>]
             g == Head(call[c].todo)[2]
  <1>1. /\ call[c].pc = "running" /\ call[c].todo # <<>> /\ Head(call[c].todo)[1] = "set"
        /\ UNCHANGED <<conf, editor, snap>>
    BY DEF unboundControl, At, Step
  <1>2. /\ call \in [Calls -> Request] /\ call[c] \in Request /\ live \in [Options -> TTLs \cup {0}]
    BY DEF HelperInv, HelperTypeOK
  <1>3. /\ g \in Options /\ done.todo # <<>> /\ Head(done.todo) = <<"edit", g>>
    BY <1>1, <1>2, TodoSteps DEF Request
  <1>4. /\ done \in Request /\ done.pc = "running" /\ done.ttl = call[c].ttl
        /\ failed \in Request /\ failed.pc = "running" /\ failed.ttl = call[c].ttl
        /\ \A f \in Options : ~Owes(failed, f) /\ ~Owes(call[c], f)
    BY <1>1, AfterStep DEF Owes
  <1>5. CASE /\ live' \in {live, [live EXCEPT ![g] = call[c].ttl]}
             /\ call' = OpFailed(c) /\ slipped' = slipped \cup {g}
    <2>1. call' = [call EXCEPT ![c] = failed]
      BY <1>1, <1>5, AfterStep
    <2>2. call[c].ttl \in TTLs \cup {0}
      BY <1>2 DEF Request
    <2> HIDE DEF failed, g
    <2>3. EditsAreExclusive' /\ QueuedOwesNothing'
      BY <1>1, <1>4, <2>1, OthersUntouched
    <2>4. HelperTypeOK'
      BY <1>1, <1>2, <1>4, <1>5, <2>1, <2>2 DEF HelperInv, HelperTypeOK
    <2>5. call'[c] = failed /\ \A d \in Calls : d # c => call'[d] = call[d]
      BY <1>2, <2>1
    <2>6. DebtIsOne'
      <3> SUFFICES ASSUME NEW f \in Options \ slipped'
                   PROVE  /\ \A d, e \in Calls : Owes(call'[d], f) /\ Owes(call'[e], f) => d = e
                          /\ \A d \in Calls : Owes(call'[d], f) => live'[f] = call'[d].ttl
                          /\ (\A d \in Calls : ~Owes(call'[d], f)) => live'[f] = conf'[f]
        BY DEF DebtIsOne, Owes
      <3>1. f \notin slipped /\ f # g /\ live'[f] = live[f] /\ conf' = conf
        BY <1>1, <1>2, <1>5
      <3>2. \A d \in Calls : /\ Owes(call'[d], f) <=> Owes(call[d], f)
                             /\ Owes(call[d], f) => call'[d].ttl = call[d].ttl
        BY <1>4, <2>5
      <3>3. /\ \A d, e \in Calls : Owes(call[d], f) /\ Owes(call[e], f) => d = e
            /\ \A d \in Calls : Owes(call[d], f) => live[f] = call[d].ttl
            /\ (\A d \in Calls : ~Owes(call[d], f)) => live[f] = conf[f]
        BY <3>1 DEF HelperInv, DebtIsOne
      <3>4. QED
        BY <3>1, <3>2, <3>3
    <2>7. QED
      BY <2>3, <2>4, <2>6 DEF HelperInv
  <1>6. CASE /\ live' = [live EXCEPT ![g] = call[c].ttl] /\ call' = StepDone(c)
             /\ slipped' = IF Unsettled(g) # {} THEN slipped \cup {g} ELSE slipped \ {g}
    <2>1. call' = [call EXCEPT ![c] = done]
      BY <1>1, <1>6, AfterStep
    <2>2. Owes(done, g) /\ \A f \in Options : Owes(done, f) => f = g
      BY <1>3 DEF Owes
    <2>3. call[c].ttl \in TTLs \cup {0}
      BY <1>2 DEF Request
    <2> HIDE DEF done, g
    <2>4. EditsAreExclusive' /\ QueuedOwesNothing'
      BY <1>1, <1>4, <2>1, OthersUntouched
    <2>5. HelperTypeOK'
      BY <1>1, <1>4, <1>6, <2>1, <2>3 DEF HelperInv, HelperTypeOK
    <2>6. /\ call'[c] = done /\ \A d \in Calls : d # c => call'[d] = call[d]
          /\ live'[g] = call[c].ttl /\ \A f \in Options : f # g => live'[f] = live[f]
      BY <1>2, <1>3, <1>6, <2>1
    <2>7. g \notin slipped' => \A d \in Calls : ~Owes(call[d], g)
      BY <1>6, <1>3 DEF Unsettled, Owes, Step
    <2>8. ASSUME NEW f \in Options \ slipped', f # g
          PROVE  /\ \A d, e \in Calls : Owes(call'[d], f) /\ Owes(call'[e], f) => d = e
                 /\ \A d \in Calls : Owes(call'[d], f) => live'[f] = call'[d].ttl
                 /\ (\A d \in Calls : ~Owes(call'[d], f)) => live'[f] = conf[f]
      <3>1. f \notin slipped
        BY <1>6, <2>8
      <3>2. \A d \in Calls : Owes(call'[d], f) <=> Owes(call[d], f)
        BY <1>4, <2>2, <2>6, <2>8
      <3>3. /\ \A d, e \in Calls : Owes(call[d], f) /\ Owes(call[e], f) => d = e
            /\ \A d \in Calls : Owes(call[d], f) => live[f] = call[d].ttl
            /\ (\A d \in Calls : ~Owes(call[d], f)) => live[f] = conf[f]
        BY <3>1 DEF HelperInv, DebtIsOne
      <3>4. QED
        BY <1>4, <2>6, <2>8, <3>2, <3>3
    <2>9. ASSUME g \notin slipped'
          PROVE  /\ \A d, e \in Calls : Owes(call'[d], g) /\ Owes(call'[e], g) => d = e
                 /\ \A d \in Calls : Owes(call'[d], g) => live'[g] = call'[d].ttl
                 /\ (\A d \in Calls : ~Owes(call'[d], g)) => live'[g] = conf[g]
      BY <1>4, <2>2, <2>6, <2>7, <2>9
    <2>10. DebtIsOne'
      <3> SUFFICES ASSUME NEW f \in Options \ slipped'
                   PROVE  /\ \A d, e \in Calls : Owes(call'[d], f) /\ Owes(call'[e], f) => d = e
                          /\ \A d \in Calls : Owes(call'[d], f) => live'[f] = call'[d].ttl
                          /\ (\A d \in Calls : ~Owes(call'[d], f)) => live'[f] = conf'[f]
        BY DEF DebtIsOne, Owes
      <3>1. conf' = conf
        BY <1>1
      <3>2. CASE f = g
        BY <2>9, <3>1, <3>2
      <3>3. CASE f # g
        BY <2>8, <3>1, <3>3
      <3>4. QED
        BY <3>2, <3>3
    <2>11. QED
      BY <2>4, <2>5, <2>10 DEF HelperInv
  <1>7. QED
    BY <1>5, <1>6 DEF unboundControl, Step

LEMMA HelperWrites == ASSUME HelperInv, NEW c \in Calls, editWrite(c) PROVE HelperInv'
  <1> DEFINE r == [pc |-> "running", ttl |-> call[c].ttl, todo |-> Tail(call[c].todo)]
             g == Head(call[c].todo)[2]
  <1>1. /\ call \in [Calls -> Request] /\ call[c] \in Request /\ call[c].pc = "editing"
        /\ conf \in [Options -> TTLs \cup {0}] /\ snap \in [Calls -> [Options -> TTLs \cup {0}]]
        /\ snap[c] = conf /\ call[c].todo # <<>> /\ Head(call[c].todo)[1] = "edit"
    BY DEF editWrite, HelperInv, HelperTypeOK, EditsAreExclusive
  <1>2. Head(call[c].todo) = <<"edit", g>> /\ Owes(call[c], g) /\ Tail(call[c].todo) \in Todos
    BY <1>1, TodoSteps DEF Owes, Request
  <1>3. \A f \in Options : ~Owes(r, f) /\ (Owes(call[c], f) => f = g)
    <2>1. \A f \in Options : ~Owes(r, f)
      BY <1>1, TodoSteps DEF Owes, Request
    <2>2. \A f : Owes(call[c], f) => f = g
      <3>1. \A f, x, y : <<x, y>> = <<"edit", f>> => y = f
        OBVIOUS
      <3>2. QED
        BY <1>2, <3>1 DEF Owes
    <2>3. QED
      BY <2>1, <2>2
  <1>4. r \in Request /\ r.pc = "running" /\ r.ttl = call[c].ttl
    BY <1>1, <1>2 DEF Request
  <1>5. call' = [call EXCEPT ![c] = r]
    BY <1>1 DEF editWrite
  <1>6. /\ call'[c] = r /\ \A d \in Calls : d # c => call'[d] = call[d] /\ call[d].pc # "editing"
    BY <1>1, <1>5 DEF HelperInv, EditsAreExclusive
  <1>7. /\ live' = live /\ snap' = [snap EXCEPT ![c] = NoFile]
        /\ \/ g \in Options /\ conf' = [conf EXCEPT ![g] = call[c].ttl] /\ slipped' = slipped
           \/ conf' = conf /\ slipped' = slipped \cup ({g} \cap Options)
    BY <1>1 DEF editWrite, Step
  <1>8. call[c].ttl \in TTLs \cup {0} /\ NoFile \in [Options -> TTLs \cup {0}]
    BY <1>1 DEF Request, NoFile
  <1> HIDE DEF r, g
  <1>9. HelperTypeOK'
    BY <1>1, <1>4, <1>5, <1>7, <1>8 DEF HelperInv, HelperTypeOK
  <1>10. EditsAreExclusive'
    BY <1>4, <1>6 DEF EditsAreExclusive
  <1>11. QueuedOwesNothing'
    BY <1>4, <1>6 DEF HelperInv, QueuedOwesNothing
  <1>12. DebtIsOne'
    <2> SUFFICES ASSUME NEW f \in Options \ slipped'
                 PROVE  /\ \A d, e \in Calls : Owes(call'[d], f) /\ Owes(call'[e], f) => d = e
                        /\ \A d \in Calls : Owes(call'[d], f) => live'[f] = call'[d].ttl
                        /\ (\A d \in Calls : ~Owes(call'[d], f)) => live'[f] = conf'[f]
      BY DEF DebtIsOne, Owes
    <2>1. f \notin slipped
      BY <1>7
    <2>2. /\ \A d, e \in Calls : Owes(call[d], f) /\ Owes(call[e], f) => d = e
          /\ \A d \in Calls : Owes(call[d], f) => live[f] = call[d].ttl
          /\ (\A d \in Calls : ~Owes(call[d], f)) => live[f] = conf[f]
      BY <2>1 DEF HelperInv, DebtIsOne
    <2>3. CASE f = g
      <3>1. conf' = [conf EXCEPT ![g] = call[c].ttl]
        BY <1>7, <2>3
      <3>2. \A d \in Calls : ~Owes(call'[d], f)
        BY <1>2, <1>3, <1>6, <2>2, <2>3
      <3>3. live[f] = call[c].ttl /\ conf'[f] = call[c].ttl
        BY <1>1, <1>2, <2>2, <2>3, <3>1
      <3>4. QED
        BY <1>7, <3>2, <3>3
    <2>4. CASE f # g
      <3>1. \A d \in Calls : Owes(call'[d], f) <=> Owes(call[d], f)
        BY <1>3, <1>6, <2>4
      <3>2. conf'[f] = conf[f] /\ live'[f] = live[f]
        BY <1>1, <1>7, <2>4
      <3>3. QED
        BY <1>3, <1>6, <2>2, <3>1, <3>2
    <2>5. QED
      BY <2>3, <2>4
  <1>13. QED
    BY <1>9, <1>10, <1>11, <1>12 DEF HelperInv

\* Unbound starts from its file: what is owed then slips, all else agrees.
LEMMA RestartSettles ==
    ASSUME Restarted, conf' = conf,
           \A d \in Calls, f \in Options : Owes(call'[d], f) => Owes(call[d], f)
    PROVE  DebtIsOne'
  <1>1. \A f \in Options \ slipped' : \A d \in Calls : ~Owes(call[d], f)
    BY DEF Restarted, Unsettled, Owes, Step
  <1>2. \A f \in Options : live'[f] = conf'[f]
    BY DEF Restarted
  <1> SUFFICES ASSUME NEW f \in Options \ slipped'
               PROVE  /\ \A d, e \in Calls : Owes(call'[d], f) /\ Owes(call'[e], f) => d = e
                      /\ \A d \in Calls : Owes(call'[d], f) => live'[f] = call'[d].ttl
                      /\ (\A d \in Calls : ~Owes(call'[d], f)) => live'[f] = conf'[f]
    BY DEF DebtIsOne, Owes
  <1>3. QED
    BY <1>1, <1>2

LEMMA HelperRestartsLate == ASSUME HelperInv, LateRestart PROVE HelperInv'
  <1>1. Restarted /\ UNCHANGED <<call, conf, editor, snap>>
    BY DEF LateRestart
  <1>2. HelperTypeOK'
    BY <1>1 DEF Restarted, HelperInv, HelperTypeOK
  <1>3. EditsAreExclusive' /\ QueuedOwesNothing'
    BY <1>1 DEF HelperInv, EditsAreExclusive, QueuedOwesNothing
  <1>4. \A d \in Calls, f \in Options : Owes(call'[d], f) => Owes(call[d], f)
    BY <1>1
  <1>5. conf' = conf
    BY <1>1
  <1>6. DebtIsOne'
    BY <1>1, <1>4, <1>5, RestartSettles
  <1>7. QED
    BY <1>2, <1>3, <1>6 DEF HelperInv

LEMMA HelperRestarts == ASSUME HelperInv, NEW c \in Calls, opRestartUnbound(c) PROVE HelperInv'
  <1> DEFINE done == [pc |-> "running", ttl |-> call[c].ttl, todo |-> Tail(call[c].todo)]
             failed == [pc |-> "running", ttl |-> call[c].ttl, todo |-> <<>>]
  <1>1. /\ call[c].pc = "running" /\ call[c].todo # <<>> /\ Head(call[c].todo)[1] = "restart"
        /\ UNCHANGED <<conf, editor, snap>>
    BY DEF opRestartUnbound, At, Step
  <1>2. /\ call \in [Calls -> Request] /\ call[c].todo \in Todos /\ conf \in [Options -> TTLs \cup {0}]
    BY DEF HelperInv, HelperTypeOK, Request
  <1>3. \A f \in Options : ~Owes(done, f) /\ ~Owes(failed, f) /\ ~Owes(call[c], f)
    BY <1>1, <1>2, AfterStep, TodoSteps DEF Owes
  <1>4. /\ done \in Request /\ done.pc = "running" /\ done.ttl = call[c].ttl
        /\ failed \in Request /\ failed.pc = "running" /\ failed.ttl = call[c].ttl
    BY <1>1, AfterStep
  <1>5. CASE call' = OpFailed(c) /\ UNCHANGED <<live, slipped>>
    <2>1. call' = [call EXCEPT ![c] = failed]
      BY <1>1, <1>5, AfterStep
    <2> HIDE DEF failed
    <2>2. QED
      BY <1>1, <1>3, <1>4, <1>5, <2>1, PlainStep
  <1>6. CASE Restarted /\ call' = StepDone(c)
    <2>1. call' = [call EXCEPT ![c] = done]
      BY <1>1, <1>6, AfterStep
    <2> HIDE DEF done, failed
    <2>2. EditsAreExclusive' /\ QueuedOwesNothing'
      BY <1>1, <1>4, <2>1, OthersUntouched
    <2>3. HelperTypeOK'
      BY <1>1, <1>2, <1>4, <1>6, <2>1 DEF HelperInv, HelperTypeOK, Restarted
    <2>4. call'[c] = done /\ \A d \in Calls : d # c => call'[d] = call[d]
      BY <1>2, <2>1
    <2>5. \A d \in Calls, f \in Options : Owes(call'[d], f) => Owes(call[d], f)
      BY <1>3, <2>4
    <2>6. DebtIsOne'
      BY <1>1, <1>6, <2>5, RestartSettles
    <2>7. QED
      BY <2>2, <2>3, <2>6 DEF HelperInv
  <1>7. QED
    BY <1>5, <1>6 DEF opRestartUnbound

LEMMA HelperStutters == ASSUME HelperInv, UNCHANGED helperVars PROVE HelperInv'
  <1>1. UNCHANGED <<call, live, conf, editor, snap, slipped>>
    BY DEF helperVars
  <1>2. HelperTypeOK'
    BY <1>1 DEF HelperInv, HelperTypeOK
  <1>3. EditsAreExclusive' /\ QueuedOwesNothing'
    BY <1>1 DEF HelperInv, EditsAreExclusive, QueuedOwesNothing
  <1>4. DebtIsOne'
    <2>1. \A d \in Calls, f \in Options : Owes(call'[d], f) <=> Owes(call[d], f)
      BY <1>1
    <2>2. QED
      BY <1>1, <2>1 DEF HelperInv, DebtIsOne
  <1>5. QED
    BY <1>2, <1>3, <1>4 DEF HelperInv

\* A call that owes an option is changing it.
LEMMA HelperInvSettles == HelperInv => SettingsAgree
  <1> SUFFICES ASSUME HelperInv, NEW f \in Options \ slipped, Changing(f) = {}
               PROVE  live[f] = conf[f]
    BY DEF SettingsAgree
  <1>1. ASSUME NEW c \in Calls, Owes(call[c], f) PROVE FALSE
    <2>1. call[c].todo \in Todos /\ call[c].todo # <<>> /\ Head(call[c].todo) = <<"edit", f>>
      BY <1>1 DEF Owes, HelperInv, HelperTypeOK, Request
    <2>2. 1 \in 1..Len(call[c].todo) /\ call[c].todo[1] = Head(call[c].todo)
      BY <2>1 DEF Todos
    <2>3. call[c].todo[1][2] = f
      BY <2>1, <2>2
    <2>4. QED
      BY <2>2, <2>3 DEF Changing
  <1>2. QED
    BY <1>1 DEF HelperInv, DebtIsOne

\* Whatever calls run together, fail half way, are killed with or without
\* effect or restart Unbound, at once or late, between the steps of another, an
\* option nobody is changing has the value its file gives it at the next start,
\* unless its last change failed or overlapped another; one undisturbed change
\* or restart is enough to bring them together again (opSetCacheTTL,
\* opSetMinTTL, opRestartUnbound, replaceIntField).
THEOREM SettingsHold == HelperSpec => []SettingsAgree
  <1>1. ASSUME HelperInv, [HelperNext]_helperVars PROVE HelperInv'
    <2>1. ASSUME NEW c \in Calls, action(c) \/ Dispatch(c) \/ editRead(c) \/ Work(c) PROVE HelperInv'
      BY <1>1, <2>1, HelperSends, HelperDispatches, HelperReads, HelperSets, HelperWrites,
         HelperRuns, HelperRestarts, HelperAnswers DEF Work
    <2>2. QED
      BY <1>1, <2>1, HelperStutters, HelperRestartsLate DEF HelperNext
  <1>2. QED
    BY HelperInvInit, HelperInvSettles, <1>1, PTL DEF HelperSpec
=============================================================================
