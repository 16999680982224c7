-------------------------- MODULE Addresses_proofs --------------------------
(***************************************************************************)
(* Proofs about what decides on an address: the files of the databases,    *)
(* the evidence on forged addresses, the retention of the authorities, and *)
(* what sorting, sweeping, merging, searching and walking compute.         *)
(***************************************************************************)
EXTENDS Authority, GeoFiles, PollutedIPs, AddressRanges, RouteLists, CdnRules,
        GeoTree, FiniteSetTheorems, SequenceTheorems, WellFoundedInduction, TLAPS

(***************************************************************************)
(* The databases.  For any number of lookups, versions, installs and       *)
(* faults: the files and the shared reader implement the register          *)
(* GeoStore, and no entity tag hides an update.  The inductive invariant   *)
(* orders the versions (tag, database, part received, server) and the      *)
(* times (reader, open lookup, file).                                      *)
(***************************************************************************)
FetchType == [at : {"idle", "try", "verify", "rename", "tag"}, try : Nat, tag : Nat, part : Nat]
LookupType == [at : {"idle", "asked", "locked", "open", "answered"}, got : Nat, mtime : Nat]

GeoTypeOK ==
    /\ server \in 1..MaxServed
    /\ dest \in [ver : Nat, mtime : Nat]
    /\ etag \in Nat
    /\ fetch \in FetchType
    /\ reader \in [ver : Nat, mtime : Nat]
    /\ lookup \in [Lookups -> LookupType]
    /\ openFails \in Nat /\ geoFaults \in Nat

\* A tag is never ahead of the database it was sent with, nor a database of
\* the part a download has received, nor either of the server.
VersionsInOrder ==
    /\ etag <= dest.ver /\ dest.ver <= server
    /\ fetch.at \in {"verify", "rename", "tag"} => dest.ver <= fetch.part /\ fetch.part <= server
    /\ fetch.at = "tag" => dest.ver = fetch.part
    /\ fetch.at \in {"rename", "tag"} => fetch.part \in Sound

\* A time that equals the file's was taken from the file that is there, and
\* the reader that remembers it reads that file.
TimesTellVersions ==
    /\ reader.mtime <= dest.mtime
    /\ reader.ver # 0 /\ reader.mtime = dest.mtime => reader.ver = dest.ver
    /\ \A l \in Lookups : lookup[l].at = "open" => lookup[l].mtime <= dest.mtime

GeoInv == GeoTypeOK /\ VersionsInOrder /\ TimesTellVersions

LEMMA GeoInvInit == GeoInit => GeoInv
  BY GeoConstants DEF GeoInit, GeoInv, GeoTypeOK, VersionsInOrder, TimesTellVersions,
                      NoFetch, NotLooking, FetchType, LookupType

LEMMA NoFetchType == NoFetch \in FetchType /\ NoFetch.at = "idle"
  BY DEF NoFetch, FetchType

LEMMA NextAttemptType ==
    ASSUME fetch \in FetchType
    PROVE  NextAttempt \in FetchType /\ NextAttempt.at \in {"idle", "try"}
  <1>1. CASE NextAttempt = NoFetch
    BY <1>1, NoFetchType
  <1>2. CASE NextAttempt # NoFetch
    <2>1. NextAttempt = [at |-> "try", try |-> fetch.try + 1, tag |-> fetch.tag, part |-> 0]
      BY <1>2 DEF NextAttempt, FetchType
    <2>2. QED
      BY <2>1 DEF FetchType
  <1>3. QED
    BY <1>1, <1>2

\* A step of the download or of the server.
LEMMA GeoInvDownload ==
    ASSUME GeoInv, ServerPublishes \/ stepGeoIP \/ download \/ Verify \/ Install \/ FetchCut
    PROVE  GeoInv'
  <1> USE GeoConstants DEF GeoInv, GeoTypeOK, VersionsInOrder, TimesTellVersions
  <1>1. CASE ServerPublishes
    BY <1>1 DEF ServerPublishes, FetchType
  <1>2. CASE stepGeoIP
    <2>1. fetch' \in FetchType /\ fetch'.at = "try"
      BY <1>2 DEF stepGeoIP, NoFetch, FetchType
    <2>2. UNCHANGED <<server, dest, etag, reader, lookup, openFails, geoFaults>>
      BY <1>2 DEF stepGeoIP
    <2>3. QED
      BY <2>1, <2>2
  <1>3. CASE download
    <2>1. \/ fetch' \in {NoFetch, NextAttempt}
          \/ fetch' = [at |-> "verify", try |-> fetch.try, tag |-> fetch.tag, part |-> server]
      BY <1>3 DEF download, FetchType
    <2>2. /\ fetch' \in FetchType
          /\ \/ fetch'.at \in {"idle", "try"}
             \/ fetch'.at = "verify" /\ fetch'.part = server
      BY <2>1, NoFetchType, NextAttemptType DEF FetchType
    <2>3. QED
      BY <1>3, <2>1, <2>2 DEF download
  <1>4. CASE Verify
    <2>1. fetch' \in FetchType
      BY <1>4, NextAttemptType DEF Verify, FetchType
    <2>2. \/ fetch'.at \in {"idle", "try"}
          \/ fetch'.at = "rename" /\ fetch'.part = fetch.part /\ fetch.part \in Sound
      BY <1>4, NextAttemptType DEF Verify, verified, FetchType
    <2>3. fetch.at = "verify" /\ UNCHANGED <<server, dest, etag, reader, lookup, openFails, geoFaults>>
      BY <1>4 DEF Verify
    <2>4. QED
      BY <2>1, <2>2, <2>3
  <1>5. CASE Install
    <2>1. fetch' \in FetchType
      BY <1>5, NoFetchType DEF Install, renameThenTag, FetchType
    <2>2. CASE fetch.at = "rename"
      <3>1. /\ dest' = [ver |-> fetch.part, mtime |-> dest.mtime + 1]
            /\ fetch'.at = "tag" /\ fetch'.part = fetch.part
            /\ UNCHANGED <<server, etag, reader, lookup, openFails, geoFaults>>
        BY <1>5, <2>2 DEF Install, renameThenTag, FetchType
      <3>2. GeoTypeOK' /\ VersionsInOrder'
        BY <2>1, <2>2, <3>1 DEF FetchType
      <3>3. TimesTellVersions'
        BY <3>1 DEF LookupType
      <3>4. QED
        BY <3>2, <3>3
    <2>3. CASE fetch.at = "tag"
      BY <1>5, <2>1, <2>3, NoFetchType DEF Install, renameThenTag
    <2>4. QED
      BY <1>5, <2>2, <2>3 DEF Install, renameThenTag
  <1>6. CASE FetchCut
    BY <1>6, NoFetchType DEF FetchCut, GeoFault
  <1>7. QED
    BY <1>1, <1>2, <1>3, <1>4, <1>5, <1>6

\* A step of a lookup.
LEMMA GeoInvLookup ==
    ASSUME GeoInv, NEW l \in Lookups,
           Lookup(l) \/ Lock(l) \/ loadStat(l) \/ loadOpen(l) \/ loadFails(l) \/ Unlock(l)
    PROVE  GeoInv'
  <1> USE DEF GeoInv, GeoTypeOK, VersionsInOrder, TimesTellVersions
  <1>1. \A a \in {"idle", "asked", "locked", "open", "answered"} :
          [lookup EXCEPT ![l].at = a] \in [Lookups -> LookupType]
    BY DEF LookupType
  <1>2. \A v \in Nat : Answer(l, v) =>
           /\ lookup' \in [Lookups -> LookupType]
           /\ \A k \in Lookups : lookup'[k].at = "open" => lookup'[k] = lookup[k]
    <2> SUFFICES ASSUME NEW v \in Nat, Answer(l, v)
                 PROVE  /\ lookup' \in [Lookups -> LookupType]
                        /\ \A k \in Lookups : lookup'[k].at = "open" => lookup'[k] = lookup[k]
      OBVIOUS
    <2>1. lookup' = [lookup EXCEPT ![l] = [at |-> "answered", got |-> v, mtime |-> 0]]
      BY DEF Answer
    <2>2. QED
      BY <2>1 DEF LookupType
  <1>3. CASE Lookup(l)
    BY <1>1, <1>3 DEF Lookup, LookupType
  <1>4. CASE Lock(l)
    BY <1>1, <1>4 DEF Lock, LookupType
  <1>5. CASE loadStat(l)
    <2>1. CASE dest.ver # 0 /\ ~current
      <3>1. lookup' = [lookup EXCEPT ![l] = [at |-> "open", got |-> lookup[l].got, mtime |-> dest.mtime]]
        BY <1>5, <2>1 DEF loadStat, LookupType
      <3>2. QED
        BY <1>5, <2>1, <3>1 DEF loadStat, LookupType
    <2>2. CASE dest.ver = 0 \/ current
      <3>1. \/ reader' = [ver |-> 0, mtime |-> 0] /\ Answer(l, 0)
            \/ reader' = reader /\ Answer(l, reader.ver)
        BY <1>5, <2>2 DEF loadStat
      <3>2. reader.ver \in Nat
        OBVIOUS
      <3>3. /\ lookup' \in [Lookups -> LookupType]
            /\ \A k \in Lookups : lookup'[k].at = "open" => lookup'[k] = lookup[k]
        BY <1>2, <3>1, <3>2
      <3>4. UNCHANGED <<server, dest, etag, fetch, openFails, geoFaults>>
        BY <1>5 DEF loadStat
      <3>5. QED
        BY <3>1, <3>2, <3>3, <3>4
    <2>3. QED
      BY <2>1, <2>2
  <1>6. CASE loadOpen(l)
    BY <1>6 DEF loadOpen, Answer, LookupType
  <1>7. CASE loadFails(l)
    <2>1. geoFaults' \in Nat /\ openFails' \in Nat
      BY <1>7 DEF loadFails, GeoFault
    <2>2. /\ lookup' \in [Lookups -> LookupType]
          /\ \A k \in Lookups : lookup'[k].at = "open" => lookup'[k] = lookup[k]
      BY <1>2, <1>7 DEF loadFails
    <2>3. UNCHANGED <<server, dest, etag, fetch, reader>>
      BY <1>7 DEF loadFails
    <2>4. QED
      BY <2>1, <2>2, <2>3
  <1>8. CASE Unlock(l)
    BY <1>8 DEF Unlock, NotLooking, LookupType
  <1>9. QED
    BY <1>3, <1>4, <1>5, <1>6, <1>7, <1>8

\* The order of versions and times holds at every step of downloads and
\* lookups (Fetch, GeoDB.load, DBIP.reload).
THEOREM GeoInvariant == GeoSpec => []GeoInv
  <1>1. GeoInv /\ [GeoNext]_geoVars => GeoInv'
    <2> SUFFICES ASSUME GeoInv, [GeoNext]_geoVars PROVE GeoInv'
      OBVIOUS
    <2>1. CASE GeoNext
      BY <2>1, GeoInvDownload, GeoInvLookup DEF GeoNext
    <2>2. CASE UNCHANGED geoVars
      BY <2>2 DEF geoVars, GeoInv, GeoTypeOK, VersionsInOrder, TimesTellVersions
    <2>3. QED
      BY <2>1, <2>2
  <1>2. QED
    BY <1>1, GeoInvInit, PTL DEF GeoSpec

\* No tag hides an update, wherever downloads are cut off (Runtime.Fetch).
THEOREM TagIsSafe == GeoSpec => []TagHidesNoUpdate
  <1>1. GeoInv => TagHidesNoUpdate
    BY DEF GeoInv, GeoTypeOK, VersionsInOrder, TagHidesNoUpdate
  <1>2. QED
    BY <1>1, GeoInvariant, PTL

-----------------------------------------------------------------------------
(***************************************************************************)
(* The refinement.  A download maps to a stutter but for the rename, which *)
(* publishes; the lock maps to a stutter; a look at the file answers from  *)
(* the database in place, a failure to open from the one last answered     *)
(* from.                                                                   *)
(***************************************************************************)

LEMMA StoreInits == GeoInit => Store!StoreInit
  BY DEF GeoInit, Store!StoreInit, NotLooking, Store!NotLooking

LEMMA DownloadMaps ==
    ASSUME GeoInv, ServerPublishes \/ stepGeoIP \/ download \/ Verify \/ Install \/ FetchCut
    PROVE  Store!Publish \/ UNCHANGED Store!storeVars
  <1>1. CASE ServerPublishes \/ stepGeoIP \/ download \/ Verify \/ FetchCut
    BY <1>1 DEF ServerPublishes, stepGeoIP, download, Verify, FetchCut, Store!storeVars
  <1>2. CASE Install
    <2>1. CASE fetch.at = "rename"
      BY <1>2, <2>1 DEF Install, renameThenTag, Store!Publish, GeoInv, VersionsInOrder
    <2>2. CASE fetch.at = "tag"
      BY <1>2, <2>2 DEF Install, renameThenTag, Store!storeVars
    <2>3. QED
      BY <1>2, <2>1, <2>2 DEF Install, renameThenTag
  <1>3. QED
    BY <1>1, <1>2

LEMMA LookupMaps ==
    ASSUME GeoInv, NEW l \in Lookups,
           Lookup(l) \/ Lock(l) \/ loadStat(l) \/ loadOpen(l) \/ loadFails(l) \/ Unlock(l)
    PROVE  Store!StoreNext \/ UNCHANGED Store!storeVars
  <1> USE DEF GeoInv, GeoTypeOK, LookupType
  <1>1. CASE Lookup(l)
    <2>1. Store!Ask(l)
      BY <1>1 DEF Lookup, Store!Ask
    <2>2. QED
      BY <2>1 DEF Store!StoreNext
  <1>2. CASE Lock(l)
    BY <1>2 DEF Lock, Store!storeVars
  <1>3. CASE loadStat(l)
    <2>1. CASE dest.ver # 0 /\ ~current
      BY <1>3, <2>1 DEF loadStat, Store!storeVars
    <2>2. CASE dest.ver = 0 \/ current
      <3>1. lookup[l].at = "locked" /\ Answer(l, dest.ver) /\ reader'.ver = dest.ver
        BY <1>3, <2>2 DEF loadStat, current, TimesTellVersions
      <3>2. UNCHANGED <<dest, openFails>>
        BY <1>3 DEF loadStat
      <3>3. Store!ReadCurrent(l)
        BY <3>1, <3>2 DEF Answer, Store!ReadCurrent, Store!Read
      <3>4. QED
        BY <3>3 DEF Store!StoreNext
    <2>3. QED
      BY <2>1, <2>2
  <1>4. CASE loadOpen(l)
    <2>1. Store!ReadCurrent(l)
      BY <1>4 DEF loadOpen, Answer, Store!ReadCurrent, Store!Read
    <2>2. QED
      BY <2>1 DEF Store!StoreNext
  <1>5. CASE loadFails(l)
    <2>1. Store!ReadLast(l)
      BY <1>5 DEF loadFails, Answer, Store!ReadLast, Store!Read
    <2>2. QED
      BY <2>1 DEF Store!StoreNext
  <1>6. CASE Unlock(l)
    <2>1. Store!Return(l)
      BY <1>6 DEF Unlock, NotLooking, Store!Return, Store!NotLooking
    <2>2. QED
      BY <2>1 DEF Store!StoreNext
  <1>7. QED
    BY <1>1, <1>2, <1>3, <1>4, <1>5, <1>6

\* The files, the reader and its test by modification time are a register for
\* those who look up (GeoDB.load, DBIP.reload, Runtime.Fetch).
THEOREM FilesImplementStore == GeoSpec => ImplementsStore
  <1>1. GeoInv /\ [GeoNext]_geoVars => [Store!StoreNext]_Store!storeVars
    <2> SUFFICES ASSUME GeoInv, [GeoNext]_geoVars
                 PROVE  Store!StoreNext \/ UNCHANGED Store!storeVars
      OBVIOUS
    <2>1. CASE GeoNext
      BY <2>1, DownloadMaps, LookupMaps DEF GeoNext, Store!StoreNext
    <2>2. CASE UNCHANGED geoVars
      BY <2>2 DEF geoVars, Store!storeVars
    <2>3. QED
      BY <2>1, <2>2
  <1>2. QED
    BY <1>1, StoreInits, GeoInvariant, PTL DEF GeoSpec, ImplementsStore, Store!StoreSpec
-----------------------------------------------------------------------------
(***************************************************************************)
(* The evidence on forged addresses, while collections do not overlap and  *)
(* no evidence was made up.  Whatever a finished collection observed is in *)
(* the evidence, and on the list, unless it has expired or the evidence    *)
(* was lost; and evidence is never newer than the last observation.        *)
(***************************************************************************)
Days == {Never} \cup 0..MaxDay

CollectionRecord ==
    [pc : {"idle", "run", "list", "evidence", "networks"}, observed : SUBSET Forged,
     list : SUBSET Forged, kept : [Forged -> Days], day : 0..MaxDay]

PollutedTypes ==
    /\ today \in 0..MaxDay
    /\ evidence \in [Forged -> Days] /\ observedOn \in [Forged -> Days] /\ seenOn \in [Forged -> Days]
    /\ \A a \in Forged : seenOn[a] <= today
    /\ polluted \in SUBSET Forged
    /\ collection \in [Collectors -> CollectionRecord]
    /\ renewed \in BOOLEAN /\ disturbed \in BOOLEAN

OneAtATime == \A c, d \in Collectors : c # d => collection[c].pc = "idle" \/ collection[d].pc = "idle"

\* What is known of a day holds every finished observation but expired ones.
Covers(known, day) == \A a \in Forged : observedOn[a] <= known[a] \/ observedOn[a] + MaxAgeDays < day

NotNewer(known) == \A a \in Forged : known[a] <= seenOn[a]

CollectionOK(k) ==
    /\ k.pc \in {"list", "evidence", "networks"} =>
          /\ k.day <= today
          /\ k.list = {a \in Forged : k.kept[a] # Never}
          /\ \A a \in k.list : k.kept[a] + MaxAgeDays >= k.day
          /\ \A a \in k.observed : k.kept[a] = k.day
          /\ renewed \/ (NotNewer(k.kept) /\ Covers(k.kept, k.day))
    /\ k.pc \in {"evidence", "networks"} => polluted = k.list
    /\ k.pc = "networks" => evidence = k.kept \/ evidence = NoEvidence

Supported ==
    /\ NotNewer(evidence)
    /\ evidence = NoEvidence \/ Covers(evidence, today)
    /\ \A a \in Forged \ polluted : observedOn[a] + MaxAgeDays < today

PollutedInv ==
    /\ PollutedTypes
    /\ disturbed \/
          /\ OneAtATime
          /\ \A c \in Collectors : CollectionOK(collection[c])
          /\ renewed \/ Supported
          /\ EvidenceDecides

LEMMA DaysFacts ==
    /\ Never \in Int /\ Never + MaxAgeDays < 0 /\ Never \in Days /\ Never < 0
    /\ MaxAgeDays \in Nat \ {0} /\ MaxDay \in Nat
    /\ \A d \in Days : d \in Int /\ Never <= d /\ (d # Never => d >= 0)
    /\ \A d \in 0..MaxDay : d \in Days /\ d \in Nat /\ d # Never
    /\ NoEvidence \in [Forged -> Days] /\ \A a \in Forged : NoEvidence[a] = Never
  <1>1. MaxAgeDays \in Nat \ {0} /\ MaxDay \in Nat
    BY PollutedConstants
  <1>2. Never \in Int /\ Never + MaxAgeDays < 0 /\ Never < 0
    BY <1>1 DEF Never
  <1>3. Never \in Days /\ \A d \in Days : d = Never \/ d \in 0..MaxDay
    BY DEF Days
  <1>4. \A d \in 0..MaxDay : d \in Days /\ d \in Nat /\ d # Never
    BY <1>1, <1>2 DEF Days
  <1>5. \A d \in Days : d \in Int /\ Never <= d /\ (d # Never => d >= 0)
    BY <1>1, <1>2, <1>3
  <1>6. NoEvidence \in [Forged -> Days] /\ \A a \in Forged : NoEvidence[a] = Never
    BY <1>3 DEF NoEvidence
  <1>7. QED
    BY <1>1, <1>2, <1>3, <1>4, <1>5, <1>6

LEMMA CollectingIs ==
    ASSUME NEW stage \in {"idle", "run"}, NEW found \in SUBSET Forged
    PROVE  /\ Collecting(stage, found) \in CollectionRecord
           /\ Collecting(stage, found).pc = stage /\ CollectionOK(Collecting(stage, found))
  <1>1. 0 \in 0..MaxDay /\ NoEvidence \in [Forged -> Days]
    BY DaysFacts
  <1>2. QED
    BY <1>1 DEF Collecting, CollectionRecord, CollectionOK

LEMMA PollutedInvInit == PollutedInit => PollutedInv
  <1> SUFFICES ASSUME PollutedInit PROVE PollutedInv
    OBVIOUS
  <1>1. NoCollection \in CollectionRecord /\ NoCollection.pc = "idle" /\ CollectionOK(NoCollection)
    BY CollectingIs DEF NoCollection
  <1>2. PollutedTypes
    <2>1. today \in 0..MaxDay
      BY DaysFacts DEF PollutedInit
    <2>2. collection \in [Collectors -> CollectionRecord]
      BY <1>1 DEF PollutedInit
    <2>3. evidence \in [Forged -> Days] /\ observedOn \in [Forged -> Days] /\ seenOn \in [Forged -> Days]
      BY DaysFacts DEF PollutedInit
    <2>4. \A a \in Forged : seenOn[a] <= today
      BY DaysFacts DEF PollutedInit
    <2>5. renewed \in BOOLEAN /\ disturbed \in BOOLEAN /\ polluted \in SUBSET Forged
      BY DEF PollutedInit
    <2>6. QED
      BY <2>1, <2>2, <2>3, <2>4, <2>5 DEF PollutedTypes
  <1>3. OneAtATime /\ \A c \in Collectors : CollectionOK(collection[c])
    BY <1>1 DEF PollutedInit, OneAtATime
  <1>4. Supported
    BY DaysFacts DEF PollutedInit, Supported, NotNewer, Covers
  <1>5. EvidenceDecides
    BY DEF PollutedInit, EvidenceDecides
  <1>6. QED
    BY <1>2, <1>3, <1>4, <1>5 DEF PollutedInv

\* The world outside: another day, or the evidence is lost.
LEMMA OutsideSteps ==
    ASSUME PollutedInv, NextDay \/ EvidenceLost
    PROVE  PollutedInv'
  <1>1. /\ polluted' = polluted /\ networks' = networks /\ collection' = collection /\ observedOn' = observedOn
        /\ seenOn' = seenOn /\ renewed' = renewed /\ disturbed' = disturbed /\ finishedOn' = finishedOn
    BY DEF NextDay, EvidenceLost
  <1>2. evidence' = evidence \/ evidence' = NoEvidence
    BY DEF NextDay, EvidenceLost
  <1>3. PollutedTypes
    BY DEF PollutedInv
  <1>4. today \in 0..MaxDay /\ today' \in 0..MaxDay /\ today <= today'
    BY <1>3, DaysFacts DEF NextDay, EvidenceLost, PollutedTypes
  <1>5. PollutedTypes'
    <2>1. \A a \in Forged : seenOn[a] \in Int /\ seenOn[a] <= today
      BY <1>3, DaysFacts DEF PollutedTypes
    <2>2. \A a \in Forged : seenOn'[a] <= today'
      BY <1>1, <1>4, <2>1, DaysFacts
    <2>3. QED
      BY <1>1, <1>2, <1>3, <1>4, <2>2, DaysFacts DEF PollutedTypes
  <1>6. SUFFICES ASSUME ~disturbed
                 PROVE  /\ OneAtATime' /\ \A c \in Collectors : CollectionOK(collection[c])'
                        /\ renewed' \/ Supported'
                        /\ EvidenceDecides'
    BY <1>1, <1>5 DEF PollutedInv
  <1>7. OneAtATime' /\ EvidenceDecides'
    BY <1>1, <1>6 DEF PollutedInv, OneAtATime, EvidenceDecides
  <1>8. ASSUME NEW c \in Collectors PROVE CollectionOK(collection[c])'
    <2>1. PICK k \in CollectionRecord : k = collection[c] /\ k = collection'[c]
      BY <1>1, <1>3 DEF PollutedTypes
    <2>2. CollectionOK(k)
      BY <1>6, <2>1 DEF PollutedInv
    <2>3. k.day \in 0..MaxDay
      BY DEF CollectionRecord
    <2>4. k.day <= today => k.day <= today'
      BY <1>4, <2>3, DaysFacts
    <2>5. QED
      BY <1>1, <1>2, <2>1, <2>2, <2>4 DEF CollectionOK, NotNewer, Covers
  <1>9. ASSUME ~renewed PROVE Supported'
    <2>1. Supported
      BY <1>6, <1>9 DEF PollutedInv
    <2>2. \A a \in Forged : observedOn[a] \in Int /\ seenOn[a] \in Int /\ Never <= seenOn[a]
      BY <1>3, DaysFacts DEF PollutedTypes
    <2>3. \A a \in Forged : observedOn[a] + MaxAgeDays < today => observedOn[a] + MaxAgeDays < today'
      BY <1>4, <2>2, DaysFacts
    <2>4. NotNewer(NoEvidence)
      BY <2>2, DaysFacts DEF NotNewer
    <2>5. QED
      BY <1>1, <1>2, <2>1, <2>3, <2>4 DEF Supported, NotNewer, Covers
  <1>10. QED
    BY <1>1, <1>7, <1>8, <1>9

LEMMA CollectStep ==
    ASSUME PollutedInv, NEW c \in Collectors, NEW captured, Collect(c, captured)
    PROVE  PollutedInv'
  <1>1. /\ polluted' = polluted /\ networks' = networks /\ observedOn' = observedOn /\ today' = today
        /\ seenOn' = seenOn /\ renewed' = renewed /\ finishedOn' = finishedOn /\ evidence' = evidence
        /\ disturbed' = (disturbed \/ \E d \in Collectors : collection[d].pc # "idle")
    BY DEF Collect
  <1>2. PICK found \in SUBSET Forged : collection' = [collection EXCEPT ![c] = Collecting("run", found)]
    BY DEF Collect, Observed
  <1>3. PICK n \in CollectionRecord : n = Collecting("run", found) /\ n.pc = "run" /\ CollectionOK(n)
    BY CollectingIs
  <1>4. PollutedTypes
    BY DEF PollutedInv
  <1>5. PollutedTypes'
    BY <1>1, <1>2, <1>3, <1>4 DEF PollutedTypes
  <1>6. collection'[c] = n /\ \A d \in Collectors : d # c => collection'[d] = collection[d]
    BY <1>2, <1>3, <1>4 DEF PollutedTypes
  <1>7. SUFFICES ASSUME ~disturbed, \A d \in Collectors : collection[d].pc = "idle"
                 PROVE  /\ OneAtATime' /\ \A d \in Collectors : CollectionOK(collection[d])'
                        /\ renewed' \/ Supported'
                        /\ EvidenceDecides'
    BY <1>1, <1>5 DEF PollutedInv
  <1>8. OneAtATime'
    BY <1>6, <1>7 DEF OneAtATime
  <1>9. \A d \in Collectors : CollectionOK(collection[d])'
    BY <1>1, <1>3, <1>6, <1>7 DEF CollectionOK
  <1>10. renewed' \/ Supported'
    BY <1>1, <1>7 DEF PollutedInv, Supported, NotNewer, Covers
  <1>11. EvidenceDecides'
    BY <1>3, <1>6 DEF EvidenceDecides
  <1>12. QED
    BY <1>8, <1>9, <1>10, <1>11

\* A step of the one collection under way: the others are idle.
LEMMA OneCollection ==
    ASSUME PollutedInv, ~disturbed, NEW c \in Collectors, collection[c].pc # "idle",
           NEW n \in CollectionRecord, collection' = [collection EXCEPT ![c] = n], CollectionOK(n)'
    PROVE  /\ OneAtATime' /\ \A d \in Collectors : CollectionOK(collection[d])'
           /\ n.pc # "idle" => EvidenceDecides'
  <1>1. PollutedTypes /\ OneAtATime
    BY DEF PollutedInv
  <1>2. collection'[c] = n /\ \A d \in Collectors : d # c => collection'[d] = collection[d]
    BY <1>1 DEF PollutedTypes
  <1>3. \A d \in Collectors : d # c => collection[d].pc = "idle"
    BY <1>1 DEF OneAtATime
  <1>4. ASSUME NEW d \in Collectors PROVE CollectionOK(collection[d])'
    <2>1. CASE d = c
      BY <1>2, <2>1
    <2>2. CASE d # c
      BY <1>2, <1>3, <2>2 DEF CollectionOK
    <2>3. QED
      BY <2>1, <2>2
  <1>5. OneAtATime'
    BY <1>2, <1>3 DEF OneAtATime
  <1>6. n.pc # "idle" => EvidenceDecides'
    BY <1>2 DEF EvidenceDecides
  <1>7. QED
    BY <1>4, <1>5, <1>6

LEMMA RunStep ==
    ASSUME PollutedInv, NEW c \in Collectors, Run(c)
    PROVE  PollutedInv'
  <1>1. /\ polluted' = polluted /\ networks' = networks /\ observedOn' = observedOn /\ today' = today
        /\ disturbed' = disturbed /\ finishedOn' = finishedOn /\ evidence' = evidence
        /\ renewed' = (renewed \/ madeUp) /\ collection[c].pc = "run"
    BY DEF Run
  <1>2. PollutedTypes
    BY DEF PollutedInv
  <1>3. PICK k \in CollectionRecord : k = collection[c]
    BY <1>2 DEF PollutedTypes
  <1>4. k.observed \subseteq Forged /\ today \in 0..MaxDay /\ today \in Days /\ today \in Nat /\ today # Never
    BY <1>2, DaysFacts DEF CollectionRecord, PollutedTypes
  <1>5. PICK new \in [Forged -> Days] :
           new = [a \in Forged |-> IF a \in k.observed THEN today
                                   ELSE IF madeUp /\ a \in polluted THEN today ELSE evidence[a]]
    BY <1>2, <1>4 DEF PollutedTypes
  <1>6. PICK rest \in [Forged -> Days] :
           rest = [a \in Forged |-> IF expired(new[a]) THEN Never ELSE new[a]]
    BY DaysFacts
  <1>7. PICK on \in SUBSET Forged : on = {a \in Forged : rest[a] # Never}
    OBVIOUS
  <1>8. /\ collection' = [collection EXCEPT ![c].pc = "list", ![c].kept = rest, ![c].day = today, ![c].list = on]
        /\ seenOn' = [a \in Forged |-> IF a \in k.observed THEN today ELSE seenOn[a]]
    <2>1. new = [a \in Forged |-> IF a \in k.observed THEN today
                                  ELSE [b \in Forged |-> IF madeUp /\ b \in polluted THEN today ELSE evidence[b]][a]]
      BY <1>5
    <2>2. QED
      BY <1>3, <1>6, <1>7, <2>1 DEF Run
  <1>9. PICK n \in CollectionRecord :
           /\ collection' = [collection EXCEPT ![c] = n]
           /\ n.pc = "list" /\ n.kept = rest /\ n.day = today /\ n.list = on /\ n.observed = k.observed
    <2>1. PICK n : n = [[[[k EXCEPT !.pc = "list"] EXCEPT !.kept = rest] EXCEPT !.day = today] EXCEPT !.list = on]
      OBVIOUS
    <2>2. collection' = [collection EXCEPT ![c] = n]
      BY <1>2, <1>3, <1>8, <2>1 DEF PollutedTypes, CollectionRecord
    <2>3. n \in CollectionRecord
      BY <1>4, <2>1 DEF CollectionRecord
    <2>4. n.pc = "list" /\ n.kept = rest /\ n.day = today /\ n.list = on /\ n.observed = k.observed
      BY <2>1 DEF CollectionRecord
    <2>5. QED
      BY <2>2, <2>3, <2>4
  <1>10. PollutedTypes'
    <2>1. collection' \in [Collectors -> CollectionRecord] /\ seenOn' \in [Forged -> Days]
      <3>1. seenOn' = [a \in Forged |-> IF a \in k.observed THEN today ELSE seenOn[a]]
        BY <1>8
      <3>2. seenOn' \in [Forged -> Days]
        BY <1>2, <1>4, <3>1 DEF PollutedTypes
      <3>3. QED
        BY <1>2, <1>9, <3>2 DEF PollutedTypes
    <2>2. renewed' \in BOOLEAN
      BY <1>1
    <2>3. \A a \in Forged : seenOn'[a] <= today'
      BY <1>1, <1>2, <1>4, <1>8 DEF PollutedTypes
    <2>4. QED
      BY <1>1, <1>2, <2>1, <2>2, <2>3 DEF PollutedTypes
  <1>11. SUFFICES ASSUME ~disturbed
                  PROVE  /\ OneAtATime' /\ \A d \in Collectors : CollectionOK(collection[d])'
                         /\ renewed' \/ Supported'
                         /\ EvidenceDecides'
    BY <1>1, <1>10 DEF PollutedInv
  <1>12. \A a \in Forged : /\ new[a] \in Int /\ rest[a] \in Int /\ Never <= rest[a] /\ observedOn[a] \in Int
                           /\ evidence[a] \in Int /\ seenOn[a] \in Int /\ Never <= seenOn[a]
                           /\ seenOn[a] <= today /\ Never <= observedOn[a]
    BY <1>2, <1>4, DaysFacts DEF PollutedTypes
  <1>13. \A a \in Forged : rest[a] = IF new[a] + MaxAgeDays < today THEN Never ELSE new[a]
    BY <1>6 DEF expired
  <1>14. CollectionOK(n)'
    <2>1. \A a \in on : rest[a] + MaxAgeDays >= today
      BY <1>4, <1>7, <1>12, <1>13, DaysFacts
    <2>2. \A a \in k.observed : rest[a] = today
      BY <1>4, <1>5, <1>12, <1>13, DaysFacts
    <2>3. ASSUME ~renewed' PROVE NotNewer(rest)' /\ Covers(rest, today)
      <3>1. ~renewed /\ ~madeUp /\ Supported
        BY <1>1, <1>11, <2>3 DEF PollutedInv
      <3>2. \A a \in Forged : new[a] = IF a \in k.observed THEN today ELSE evidence[a]
        BY <1>5, <3>1
      <3>3. ASSUME NEW a \in Forged PROVE rest[a] <= seenOn'[a]
        <4>1. evidence[a] <= seenOn[a] /\ seenOn'[a] = IF a \in k.observed THEN today ELSE seenOn[a]
          BY <1>8, <3>1 DEF Supported, NotNewer
        <4>2. QED
          BY <1>4, <1>12, <1>13, <3>2, <4>1, DaysFacts
      <3>4. ASSUME NEW a \in Forged PROVE observedOn[a] <= rest[a] \/ observedOn[a] + MaxAgeDays < today
        <4>1. CASE evidence = NoEvidence
          <5>1. a \notin polluted
            BY <3>1, <4>1 DEF madeUp
          <5>2. QED
            BY <3>1, <5>1 DEF Supported
        <4>2. CASE Covers(evidence, today)
          <5>1. observedOn[a] <= evidence[a] \/ observedOn[a] + MaxAgeDays < today
            BY <4>2 DEF Covers
          <5>2. evidence[a] <= seenOn[a] /\ seenOn[a] <= today
            BY <1>2, <3>1 DEF Supported, NotNewer, PollutedTypes
          <5>3. QED
            BY <1>4, <1>12, <1>13, <3>2, <5>1, <5>2, DaysFacts
        <4>3. QED
          BY <3>1, <4>1, <4>2 DEF Supported
      <3>5. QED
        BY <3>3, <3>4 DEF NotNewer, Covers
    <2>4. today <= today
      BY <1>4
    <2>5. QED
      BY <1>1, <1>7, <1>9, <2>1, <2>2, <2>3, <2>4 DEF CollectionOK, Covers
  <1>15. ASSUME ~renewed' PROVE Supported'
    <2>1. Supported
      BY <1>1, <1>11, <1>15 DEF PollutedInv
    <2>2. ASSUME NEW a \in Forged PROVE evidence[a] <= seenOn'[a]
      <3>1. evidence[a] <= seenOn[a] /\ seenOn'[a] = IF a \in k.observed THEN today ELSE seenOn[a]
        BY <1>8, <2>1 DEF Supported, NotNewer
      <3>2. QED
        BY <1>4, <1>12, <3>1
    <2>3. QED
      BY <1>1, <2>1, <2>2 DEF Supported, NotNewer, Covers
  <1>16. QED
    BY <1>1, <1>9, <1>11, <1>14, <1>15, OneCollection

\* What a collection under way has worked out supports every day from its own
\* on.
LEMMA KeptCovers ==
    ASSUME PollutedInv, NEW k \in CollectionRecord, CollectionOK(k),
           k.pc \in {"list", "evidence", "networks"}, ~renewed
    PROVE  /\ NotNewer(k.kept) /\ Covers(k.kept, today)
           /\ \A a \in Forged \ k.list : observedOn[a] + MaxAgeDays < today
  <1>1. PollutedTypes /\ NotNewer(k.kept) /\ Covers(k.kept, k.day) /\ k.day <= today
    BY DEF PollutedInv, CollectionOK
  <1>2. /\ k.day \in Nat /\ today \in Nat
        /\ \A a \in Forged : observedOn[a] \in Int /\ Never <= observedOn[a] /\ k.kept[a] \in Int
    BY <1>1, DaysFacts DEF PollutedTypes, CollectionRecord
  <1>3. Covers(k.kept, today)
    BY <1>1, <1>2, DaysFacts DEF Covers
  <1>4. ASSUME NEW a \in Forged \ k.list PROVE observedOn[a] + MaxAgeDays < today
    <2>1. k.kept[a] = Never
      BY DEF CollectionOK
    <2>2. observedOn[a] <= k.kept[a] \/ observedOn[a] + MaxAgeDays < today
      BY <1>3 DEF Covers
    <2>3. QED
      BY <1>2, <2>1, <2>2, DaysFacts
  <1>5. QED
    BY <1>1, <1>3, <1>4

LEMMA FileSteps ==
    ASSUME PollutedInv, NEW c \in Collectors, writeList(c) \/ moveEvidence(c)
    PROVE  PollutedInv'
  <1>1. /\ networks' = networks /\ observedOn' = observedOn /\ today' = today /\ seenOn' = seenOn
        /\ disturbed' = disturbed /\ finishedOn' = finishedOn /\ renewed' = renewed
    BY DEF writeList, moveEvidence
  <1>2. PollutedTypes
    BY DEF PollutedInv
  <1>3. PICK k \in CollectionRecord : k = collection[c]
    BY <1>2 DEF PollutedTypes
  <1>4. PICK stage \in {"evidence", "networks"} :
           /\ collection' = [collection EXCEPT ![c].pc = stage]
           /\ stage = "evidence" => k.pc = "list" /\ polluted' = k.list /\ evidence' = evidence
           /\ stage = "networks" => k.pc = "evidence" /\ polluted' = polluted /\ evidence' = k.kept
    BY <1>3 DEF writeList, moveEvidence
  <1>5. PICK n \in CollectionRecord :
           /\ collection' = [collection EXCEPT ![c] = n]
           /\ n.pc = stage /\ n.kept = k.kept /\ n.day = k.day /\ n.list = k.list /\ n.observed = k.observed
    <2>1. PICK n : n = [k EXCEPT !.pc = stage]
      OBVIOUS
    <2>2. collection' = [collection EXCEPT ![c] = n]
      BY <1>2, <1>3, <1>4, <2>1 DEF PollutedTypes
    <2>3. /\ n \in CollectionRecord
          /\ n.pc = stage /\ n.kept = k.kept /\ n.day = k.day /\ n.list = k.list /\ n.observed = k.observed
      BY <2>1 DEF CollectionRecord
    <2>4. QED
      BY <2>2, <2>3
  <1>6. PollutedTypes'
    <2>1. collection' \in [Collectors -> CollectionRecord]
      BY <1>2, <1>5 DEF PollutedTypes
    <2>2. polluted' \in SUBSET Forged /\ evidence' \in [Forged -> Days]
      BY <1>2, <1>4 DEF PollutedTypes, CollectionRecord
    <2>3. QED
      BY <1>1, <1>2, <2>1, <2>2 DEF PollutedTypes
  <1>7. SUFFICES ASSUME ~disturbed
                 PROVE  /\ OneAtATime' /\ \A d \in Collectors : CollectionOK(collection[d])'
                        /\ renewed' \/ Supported'
                        /\ EvidenceDecides'
    BY <1>1, <1>6 DEF PollutedInv
  <1>8. CollectionOK(k) /\ k.pc \in {"list", "evidence"}
    BY <1>3, <1>4, <1>7 DEF PollutedInv
  <1>9. CollectionOK(n)'
    BY <1>1, <1>4, <1>5, <1>8 DEF CollectionOK, NotNewer, Covers
  <1>10. ASSUME ~renewed PROVE Supported'
    <2>1. Supported
      BY <1>7, <1>10 DEF PollutedInv
    <2>2. /\ NotNewer(k.kept) /\ Covers(k.kept, today)
          /\ \A a \in Forged \ k.list : observedOn[a] + MaxAgeDays < today
      BY <1>8, <1>10, KeptCovers
    <2>3. QED
      BY <1>1, <1>4, <2>1, <2>2 DEF Supported, NotNewer, Covers
  <1>11. QED
    BY <1>1, <1>3, <1>5, <1>7, <1>8, <1>9, <1>10, OneCollection

LEMMA FinishStep ==
    ASSUME PollutedInv, NEW c \in Collectors, moveNetworks(c)
    PROVE  PollutedInv'
  <1>1. /\ polluted' = polluted /\ evidence' = evidence /\ today' = today /\ seenOn' = seenOn
        /\ disturbed' = disturbed /\ renewed' = renewed /\ collection' = [collection EXCEPT ![c] = NoCollection]
    BY DEF moveNetworks
  <1>2. PollutedTypes
    BY DEF PollutedInv
  <1>3. PICK k \in CollectionRecord : k = collection[c]
    BY <1>2 DEF PollutedTypes
  <1>4. /\ k.pc = "networks" /\ networks' = k.list /\ finishedOn' = k.day
        /\ observedOn' = [a \in Forged |-> IF a \in k.observed THEN k.day ELSE observedOn[a]]
    BY <1>3 DEF moveNetworks
  <1>5. k.day \in 0..MaxDay /\ k.day \in Days /\ k.day \in Nat /\ k.observed \subseteq Forged
    BY DaysFacts DEF CollectionRecord
  <1>6. NoCollection \in CollectionRecord /\ NoCollection.pc = "idle"
    BY CollectingIs DEF NoCollection
  <1>7. PollutedTypes'
    <2>1. collection' \in [Collectors -> CollectionRecord]
      BY <1>1, <1>2, <1>6 DEF PollutedTypes
    <2>2. observedOn' \in [Forged -> Days]
      BY <1>2, <1>4, <1>5 DEF PollutedTypes
    <2>3. QED
      BY <1>1, <1>2, <2>1, <2>2 DEF PollutedTypes
  <1>8. SUFFICES ASSUME ~disturbed
                 PROVE  /\ OneAtATime' /\ \A d \in Collectors : CollectionOK(collection[d])'
                        /\ renewed' \/ Supported'
                        /\ EvidenceDecides'
    BY <1>1, <1>7 DEF PollutedInv
  <1>9. CollectionOK(k)
    BY <1>3, <1>8 DEF PollutedInv
  <1>10. /\ polluted = k.list /\ k.list = {a \in Forged : k.kept[a] # Never} /\ k.day <= today
         /\ \A a \in k.list : k.kept[a] + MaxAgeDays >= k.day
         /\ \A a \in k.observed : k.kept[a] = k.day /\ a \in k.list
         /\ evidence = k.kept \/ evidence = NoEvidence
    BY <1>4, <1>5, <1>9, DaysFacts DEF CollectionOK
  <1>11. CollectionOK(NoCollection)'
    BY <1>6 DEF CollectionOK
  <1>12. \A a \in Forged : /\ k.kept[a] \in Int /\ observedOn[a] \in Int /\ seenOn[a] \in Int
                           /\ Never <= observedOn[a] /\ today \in Nat
    BY <1>2, DaysFacts DEF PollutedTypes, CollectionRecord
  <1>13. ASSUME ~renewed PROVE Supported'
    <2>1. Supported
      BY <1>8, <1>13 DEF PollutedInv
    <2>2. /\ NotNewer(k.kept) /\ Covers(k.kept, today)
          /\ \A a \in Forged \ k.list : observedOn[a] + MaxAgeDays < today
      BY <1>4, <1>9, <1>13, KeptCovers
    <2>3. \A a \in Forged : observedOn'[a] <= k.kept[a] \/ observedOn'[a] + MaxAgeDays < today
      BY <1>4, <1>5, <1>10, <1>12, <2>2 DEF Covers
    <2>4. \A a \in Forged \ polluted : observedOn'[a] + MaxAgeDays < today
      BY <1>4, <1>10, <2>2
    <2>5. QED
      BY <1>1, <1>10, <2>1, <2>3, <2>4 DEF Supported, NotNewer, Covers
  <1>14. EvidenceDecides'
    <2>1. networks' = polluted'
      BY <1>1, <1>4, <1>10
    <2>2. ASSUME ~renewed, NEW a \in Forged
          PROVE  /\ observedOn'[a] + MaxAgeDays >= k.day => a \in polluted
                 /\ a \in polluted => seenOn[a] + MaxAgeDays >= k.day
      <3>1. k.kept[a] <= seenOn[a] /\ (observedOn[a] <= k.kept[a] \/ observedOn[a] + MaxAgeDays < k.day)
        BY <1>4, <1>9, <2>2 DEF CollectionOK, NotNewer, Covers
      <3>2. CASE a \in k.observed
        BY <1>5, <1>10, <1>12, <3>1, <3>2, DaysFacts
      <3>3. CASE a \notin k.observed
        <4>1. observedOn'[a] = observedOn[a]
          BY <1>4, <3>3
        <4>2. a \notin polluted => k.kept[a] = Never
          BY <1>10
        <4>3. QED
          BY <1>5, <1>10, <1>12, <3>1, <4>1, <4>2, DaysFacts
      <3>4. QED
        BY <3>2, <3>3
    <2>3. QED
      BY <1>1, <1>4, <2>1, <2>2 DEF EvidenceDecides
  <1>15. OneAtATime' /\ \A d \in Collectors : CollectionOK(collection[d])'
    BY <1>1, <1>3, <1>4, <1>6, <1>8, <1>11, OneCollection
  <1>16. QED
    BY <1>1, <1>13, <1>14, <1>15

LEMMA FailStep ==
    ASSUME PollutedInv, NEW c \in Collectors, collectionFails(c)
    PROVE  PollutedInv'
  <1>1. /\ polluted' = polluted /\ evidence' = evidence /\ today' = today /\ seenOn' = seenOn
        /\ networks' = networks /\ observedOn' = observedOn /\ finishedOn' = Never
        /\ disturbed' = disturbed /\ renewed' = renewed /\ collection' = [collection EXCEPT ![c] = NoCollection]
        /\ collection[c].pc # "idle"
    BY DEF collectionFails
  <1>2. PollutedTypes
    BY DEF PollutedInv
  <1>3. NoCollection \in CollectionRecord /\ NoCollection.pc = "idle"
    BY CollectingIs DEF NoCollection
  <1>4. PollutedTypes'
    BY <1>1, <1>2, <1>3 DEF PollutedTypes
  <1>5. SUFFICES ASSUME ~disturbed
                 PROVE  /\ OneAtATime' /\ \A d \in Collectors : CollectionOK(collection[d])'
                        /\ renewed' \/ Supported'
                        /\ EvidenceDecides'
    BY <1>1, <1>4 DEF PollutedInv
  <1>6. CollectionOK(NoCollection)'
    BY <1>3 DEF CollectionOK
  <1>7. renewed' \/ Supported'
    BY <1>1, <1>5 DEF PollutedInv, Supported, NotNewer, Covers
  <1>8. EvidenceDecides'
    BY <1>1 DEF EvidenceDecides
  <1>9. QED
    BY <1>1, <1>3, <1>5, <1>6, <1>7, <1>8, OneCollection

LEMMA PollutedInvStep == PollutedInv /\ [PollutedNext]_pollutedVars => PollutedInv'
  <1> SUFFICES ASSUME PollutedInv, [PollutedNext]_pollutedVars PROVE PollutedInv'
    OBVIOUS
  <1>1. CASE UNCHANGED pollutedVars
    BY <1>1 DEF pollutedVars, PollutedInv, PollutedTypes, OneAtATime, CollectionOK, Supported, NotNewer, Covers,
                EvidenceDecides
  <1>2. QED
    BY <1>1, OutsideSteps, CollectStep, RunStep, FileSteps, FinishStep, FailStep DEF PollutedNext

\* For every set of addresses, every number of days and collections, every
\* age limit and wherever collections are killed or the evidence is lost:
\* after a finished collection that overlapped no other, list and networks
\* agree, and unless evidence was made up they hold what was observed within
\* the limit and nothing that was not (Run, moveEvidence, moveNetworks).
THEOREM EvidenceDecidesAlways == PollutedSpec => []EvidenceDecides
  <1>1. PollutedInv => EvidenceDecides
    BY DEF PollutedInv, EvidenceDecides
  <1>2. QED
    BY <1>1, PollutedInvInit, PollutedInvStep, PTL DEF PollutedSpec

(***************************************************************************)
(* The authorities.  The list of servers that are sent the client's subnet *)
(* stays right.  The inductive invariant says what a round computed, that  *)
(* the retention on file counts at least as long as an address is missing, *)
(* that what a round has written is of one computation, and that a server  *)
(* derived in time is in the record the next round starts from.            *)
(***************************************************************************)
InRound == pc # "idle" \/ outcome = "done"

\* What a round computed, as long as it is spoken of.
Computed ==
    InRound =>
        /\ round.list = FewestPrefixes(Cover(round.ecs) \cup Cover(DOMAIN round.state))
        /\ \A p \in round.own : p \subseteq Cover(round.ecs)
        /\ \A a \in Cover(round.ecs) \cap up.disputed : \E p \in round.own : a \in p /\ p # {a}
        /\ \A p \in DOMAIN round.state : round.state[p] <= AccumTTL /\ ~Disputed(p)

\* How long an address has not been derived is at most how long what covers it
\* has been retained.
Counted ==
    InRound =>
        /\ \A a \in Cover(round.ecs) : missing[a] = -1
        /\ \A p \in DOMAIN round.state : \A a \in p : missing[a] <= round.state[p]

Uncounted == \A a \in Addrs : missing[a] = -1

\* What a round has written it has written of the same computation, or nothing
\* is counted.
Written ==
    /\ pc = "targets" => Uncounted \/ targets = round.own
    /\ pc \in {"staged", "loaded", "ecs", "check"} =>
           Uncounted \/ (targets = round.own /\ accum = round.state)
    /\ pc = "check" => conf = round.list
    /\ outcome = "done" => pc = "idle" /\ Cover(conf) \subseteq Cover(round.list)

CountedOnFile ==
    pc = "idle" => \A p \in prev(accum) : \A a \in p :
        IF p \in DOMAIN accum THEN missing[a] <= accum[p] ELSE missing[a] = -1

\* The record a sighting is found in: what the round is about to write, or the
\* files.
NamesNow == IF pc = "computed" THEN round.own ELSE targets
StateNow == IF pc \in {"computed", "targets"} THEN round.state ELSE accum

Remembered ==
    \A p \in DOMAIN seen : seen[p] <= AccumTTL =>
        /\ p \in NamesNow \cup DOMAIN StateNow
        /\ p \in DOMAIN StateNow => StateNow[p] <= seen[p]
        /\ pc # "idle" => p \subseteq Cover(round.list)

AuthInv == TypeOK /\ Computed /\ Counted /\ Written /\ CountedOnFile /\ Remembered

LEMMA AuthConstants ==
    /\ Addrs \subseteq Nat /\ IsFiniteSet(Addrs)
    /\ \A p \in PrefixSets : p \subseteq Addrs /\ p # {}
    /\ \A a \in Addrs : {a} \in PrefixSets
    /\ \A a \in Addrs : Block24[a] \in PrefixSets /\ a \in Block24[a] /\ Block24[a] # {a}
    /\ \A u \in Upstreams : u.direct \subseteq Addrs
    /\ \A z \in Zones : Authorities[z] \subseteq Addrs
    /\ AccumTTL \in Nat /\ ReloadMin \in Nat /\ MaxFaults \in Nat
  <1>1. \A p \in PrefixSets : p \subseteq Addrs /\ p # {}
    <2>1. PrefixSets \subseteq (SUBSET Addrs) \ {{}}
      BY AuthorityAssumption
    <2> QED BY <2>1
  <1>2. \A a \in Addrs : Block24[a] \in PrefixSets /\ a \in Block24[a] /\ Block24[a] # {a}
    BY AuthorityAssumption
  <1>3. \A u \in Upstreams : u.direct \subseteq Addrs
    BY AuthorityAssumption
  <1>4. \A z \in Zones : Authorities[z] \subseteq Addrs
    BY AuthorityAssumption
  <1>5. AccumTTL \in Nat /\ ReloadMin \in Nat /\ MaxFaults \in Nat
    BY AuthorityAssumption
  <1> QED BY <1>1, <1>2, <1>3, <1>4, <1>5, AuthorityAssumption

\* A prefix with a second address has more than one.
LEMMA MoreThanOne ==
    ASSUME NEW p \in PrefixSets, NEW a \in p
    PROVE  IsFiniteSet(p) /\ (p # {a} => Cardinality(p) > 1) /\ (Cardinality(p) = 1 => p = {a})
  <1>1. IsFiniteSet(p) /\ Cardinality(p) \in Nat
    BY AuthConstants, FS_Subset, FS_CardinalityType
  <1>2. Cardinality(p) # 0
    BY <1>1, FS_EmptySet
  <1>3. Cardinality(p) = 1 => p = {a}
    BY <1>1, FS_Singleton
  <1> QED BY <1>1, <1>2, <1>3

\* The fewest prefixes with the same addresses have the same addresses.
LEMMA CollapseCovers ==
    ASSUME NEW S, S \subseteq Addrs
    PROVE  FewestPrefixes(S) \subseteq PrefixSets /\ Cover(FewestPrefixes(S)) = S
  <1>1. FewestPrefixes(S) \subseteq PrefixSets /\ Cover(FewestPrefixes(S)) \subseteq S
    BY DEF FewestPrefixes, Cover
  <1>2. ASSUME NEW a \in S PROVE \E p \in FewestPrefixes(S) : a \in p
    <2> DEFINE C == {p \in PrefixSets : a \in p /\ p \subseteq S}
               n == Cardinality(Addrs)
               T == {n - Cardinality(p) : p \in C}
    <2>1. \A p \in C : IsFiniteSet(p) /\ Cardinality(p) \in Nat /\ Cardinality(p) <= n
      BY AuthConstants, FS_Subset, FS_CardinalityType
    <2>2. n \in Nat
      BY AuthConstants, FS_CardinalityType
    <2>3. {a} \in C
      BY AuthConstants
    <2> HIDE DEF C, n
    <2>4. T \subseteq Nat /\ T # {}
      <3>1. \A p \in C : n - Cardinality(p) \in Nat
        BY <2>1, <2>2
      <3> QED BY <2>3, <3>1
    <2>5. PICK t \in T : \A y \in T : ~ (<<y, t>> \in OpToRel(<, Nat))
      <3> HIDE DEF T
      <3> QED BY <2>4, NatLessThanWellFounded, WFMin
    <2>6. \A y \in T : ~(y < t)
      BY <2>4, <2>5 DEF OpToRel
    <2>7. PICK p \in C : t = n - Cardinality(p)
      OBVIOUS
    <2>8. ASSUME NEW q \in PrefixSets, p \subseteq q, q \subseteq S PROVE q = p
      <3>1. q \in C
        BY <2>7, <2>8 DEF C
      <3>2. n - Cardinality(q) \in T
        BY <3>1
      <3>3. ~(n - Cardinality(q) < n - Cardinality(p))
        BY <2>6, <2>7, <3>2
      <3> HIDE DEF T
      <3>4. Cardinality(q) <= Cardinality(p)
        BY <2>1, <2>2, <2>7, <3>1, <3>3
      <3>5. IsFiniteSet(q) /\ Cardinality(p) <= Cardinality(q) /\ (Cardinality(q) = Cardinality(p) => q = p)
        BY <2>1, <2>8, <3>1, FS_Subset
      <3>6. Cardinality(q) = Cardinality(p)
        BY <2>1, <2>7, <3>1, <3>4, <3>5
      <3> QED BY <3>5, <3>6
    <2>9. p \in PrefixSets /\ a \in p /\ p \subseteq S
      BY <2>7 DEF C
    <2> QED BY <2>8, <2>9 DEF FewestPrefixes
  <1> QED BY <1>1, <1>2 DEF Cover

\* An address by itself on a collapsed list is in no other prefix of the set.
LEMMA AloneOnList ==
    ASSUME NEW S, NEW a, {a} \in FewestPrefixes(S), NEW q \in PrefixSets, a \in q, q \subseteq S
    PROVE  q = {a}
  BY DEF FewestPrefixes

\* What Build returns.
LEMMA BuildFacts ==
    ASSUME up \in Upstreams, NEW b \in Builds
    PROVE  /\ b.route \subseteq PrefixSets /\ b.own \subseteq PrefixSets /\ b.ecs \subseteq PrefixSets
           /\ \A p \in b.own : p \subseteq Cover(b.ecs)
           /\ \A a \in Cover(b.ecs) \cap up.disputed : \E p \in b.own : a \in p /\ p # {a}
  <1>1. PICK visible \in Visible, dead \in SUBSET Zones : b = Build(visible, dead)
    BY DEF Builds
  <1> DEFINE own == AuthorityECS(visible, dead)
  <1>2. b.route = RoutePrefixes(visible, dead) /\ b.own = own /\ b.ecs = ECSPrefixes(own)
    BY <1>1 DEF Build
  <1>3. \A z \in Zones : visible[z] \subseteq Addrs
    BY AuthConstants DEF Visible
  <1>4. \A p \in own : \E a \in Addrs : p = Block24[a] \/ (p = {a} /\ a \notin up.disputed)
    <2>1. ASSUME NEW z \in Zones, NEW a \in visible[z] \ up.disputed
          PROVE  ECSPrefix(z, a) = Block24[a] \/ (ECSPrefix(z, a) = {a} /\ a \notin up.disputed)
      BY DEF ECSPrefix
    <2> SUFFICES ASSUME NEW p \in own
                 PROVE  \E a \in Addrs : p = Block24[a] \/ (p = {a} /\ a \notin up.disputed)
      OBVIOUS
    <2>2. \/ \E z \in Zones : \E a \in visible[z] \ up.disputed : p = ECSPrefix(z, a)
          \/ \E z \in Zones : \E a \in visible[z] : p = Block24[a]
      <3>1. Matched(visible, dead) \subseteq Zones /\ OnlySteered(visible) \subseteq Zones
        BY AuthorityAssumption DEF Matched, OnlySteered
      <3>2. \/ \E z \in Matched(visible, dead) : p \in {ECSPrefix(z, a) : a \in visible[z] \ up.disputed}
            \/ \E z \in OnlySteered(visible) : p \in {Block24[a] : a \in visible[z]}
        <4>1. \/ p \in UNION {{ECSPrefix(z, a) : a \in visible[z] \ up.disputed} : z \in Matched(visible, dead)}
              \/ p \in UNION {{Block24[a] : a \in visible[z]} : z \in OnlySteered(visible)}
          BY DEF AuthorityECS
        <4> QED BY <4>1
      <3> QED BY <3>1, <3>2
    <2> QED BY <1>3, <2>1, <2>2
  <1>5. own \subseteq PrefixSets
    BY <1>4, AuthConstants
  <1>6. directECS \cup Cover(own) \subseteq Addrs
    BY <1>5, AuthConstants DEF directECS, Cover
  <1> HIDE DEF own
  <1>7. ECSPrefixes(own) \subseteq PrefixSets /\ Cover(ECSPrefixes(own)) = directECS \cup Cover(own)
    BY <1>6, CollapseCovers DEF ECSPrefixes
  <1>8. RoutePrefixes(visible, dead) \subseteq PrefixSets
    BY DEF RoutePrefixes, FewestPrefixes
  <1>9. \A p \in own : p \subseteq Cover(ECSPrefixes(own))
    BY <1>7 DEF Cover
  <1>10. ASSUME NEW a \in Cover(ECSPrefixes(own)) \cap up.disputed
         PROVE  \E p \in own : a \in p /\ p # {a}
    <2>1. a \notin directECS
      BY DEF directECS
    <2>2. PICK p \in own : a \in p
      BY <1>7, <2>1 DEF Cover
    <2>3. p # {a}
      BY <1>4, <2>2, AuthConstants
    <2> QED BY <2>2, <2>3
  <1> QED BY <1>2, <1>5, <1>7, <1>8, <1>9, <1>10

LEMMA EmptyFunction == DOMAIN <<>> = {}
  OBVIOUS

\* The parts of the type invariant, with the fields of a round by name.
LEMMA AuthTypes ==
    ASSUME TypeOK
    PROVE  /\ up \in Upstreams /\ result \subseteq PrefixSets /\ kernel \subseteq PrefixSets
           /\ conf \subseteq PrefixSets /\ targets \subseteq PrefixSets
           /\ round.route \subseteq PrefixSets /\ round.ecs \subseteq PrefixSets /\ round.own \subseteq PrefixSets
           /\ round.list \subseteq PrefixSets /\ round.previous \subseteq PrefixSets
           /\ \A p \in DOMAIN accum : p \in PrefixSets /\ accum[p] \in Nat
           /\ \A p \in DOMAIN round.state : p \in PrefixSets /\ round.state[p] \in Nat
           /\ \A p \in DOMAIN seen : p \in PrefixSets /\ seen[p] \in Nat
           /\ \A a \in Addrs : missing[a] \in Int /\ missing[a] >= -1
  BY AuthConstants DEF TypeOK, Ages

\* What applyAccumulation retains.
LEMMA AccumulationFacts ==
    ASSUME TypeOK, NEW stateOK \in BOOLEAN, NEW state, state = (IF stateOK THEN accum ELSE <<>>), NEW ecs,
           NEW next, next = applyAccumulation(state, stateOK, ecs)
    PROVE  /\ \A p \in DOMAIN next :
                 /\ p \in PrefixSets /\ p \in prev(state)
                 /\ ~Disputed(p) /\ ~(p \subseteq Cover(ecs))
                 /\ next[p] = Since(state, p) /\ next[p] \in Ages /\ next[p] <= AccumTTL
           /\ fits(ecs, kept(state, stateOK, ecs)) => DOMAIN next = kept(state, stateOK, ecs)
  <1> DEFINE K == kept(state, stateOK, ecs)
  <1>1. DOMAIN state \subseteq PrefixSets /\ \A p \in DOMAIN state : state[p] \in Ages
    BY EmptyFunction DEF TypeOK
  <1>2. prev(state) \subseteq PrefixSets
    BY <1>1 DEF prev, TypeOK
  <1>3. ASSUME NEW p \in K
        PROVE  /\ p \in PrefixSets /\ p \in prev(state) /\ ~Disputed(p) /\ ~(p \subseteq Cover(ecs))
               /\ Since(state, p) \in Ages /\ Since(state, p) <= AccumTTL
    <2>1. p \in prev(state) /\ ~Disputed(p) /\ ~isExpired(state, stateOK, p) /\ ~(p \subseteq Cover(ecs))
      BY DEF kept
    <2>2. Since(state, p) \in Ages
      BY <1>1, AuthConstants DEF Since, Ages
    <2>3. Since(state, p) <= AccumTTL
      <3>1. CASE stateOK
        BY <2>1, <2>2, <3>1, AuthConstants DEF isExpired, Ages
      <3>2. CASE ~stateOK
        <4>1. Since(state, p) = 0
          BY <3>2, EmptyFunction DEF Since
        <4> QED BY <4>1, AuthConstants
      <3> QED BY <3>1, <3>2
    <2> QED BY <1>2, <2>1, <2>2, <2>3
  <1>4. CASE fits(ecs, K)
    <2>1. next = [p \in K |-> Since(state, p)]
      BY <1>4 DEF applyAccumulation
    <2> HIDE DEF K
    <2>2. DOMAIN next = K /\ \A p \in K : next[p] = Since(state, p)
      BY <2>1
    <2>3. QED
      BY <1>3, <2>2 DEF K
  <1>5. CASE ~fits(ecs, K)
    <2>1. next = <<>>
      BY <1>5 DEF applyAccumulation
    <2> QED BY <1>5, <2>1, EmptyFunction
  <1> QED BY <1>4, <1>5

LEMMA AuthInvInit == Init => AuthInv
  <1> SUFFICES ASSUME Init PROVE AuthInv
    OBVIOUS
  <1>1. TypeOK
    <2>1. NoRound.state = <<>> /\ DOMAIN accum = {} /\ DOMAIN seen = {} /\ DOMAIN round.state = {}
      BY EmptyFunction DEF Init, NoRound
    <2>2. missing \in [Addrs -> -1 .. AccumTTL + 1]
      BY AuthConstants DEF Init
    <2> QED BY <2>1, <2>2, AuthConstants DEF Init, TypeOK, NoRound
  <1>2. DOMAIN seen = {} /\ Uncounted
    BY EmptyFunction DEF Init, Uncounted
  <1>3. prev(accum) = {}
    BY EmptyFunction DEF Init, prev
  <1> QED BY <1>1, <1>2, <1>3 DEF Init, AuthInv, InRound, Computed, Counted, Written, CountedOnFile, Remembered

LEMMA ComputeStep ==
    ASSUME AuthInv, compute PROVE AuthInv'
  <1>1. PICK found \in Builds, stateOK \in BOOLEAN :
           /\ IF stateOK THEN UNCHANGED faults ELSE Fault /\ accum # <<>>
           /\ LET state == IF stateOK THEN accum ELSE <<>>
                  next  == applyAccumulation(state, stateOK, found.ecs)
              IN  /\ round' = [route |-> found.route, ecs |-> found.ecs, own |-> found.own,
                               list |-> FewestPrefixes(Cover(found.ecs) \cup Cover(DOMAIN next)),
                               previous |-> {}, state |-> next]
                  /\ look(found.own, found.ecs, state, stateOK)
    BY DEF compute
  <1> DEFINE state == IF stateOK THEN accum ELSE <<>>
             next == applyAccumulation(state, stateOK, found.ecs)
             own == found.own
             ecs == found.ecs
             S == Cover(ecs) \cup Cover(DOMAIN next)
             K == kept(state, stateOK, ecs)
  <1>2. TypeOK /\ up \in Upstreams /\ pc = "idle" /\ pc' = "computed" /\ outcome' = "none"
        /\ UNCHANGED <<up, result, conf, confAge, targets, accum, kernel, entries>>
    BY DEF compute, AuthInv, TypeOK, disk
  <1>3. /\ found.route \subseteq PrefixSets /\ own \subseteq PrefixSets /\ ecs \subseteq PrefixSets
        /\ \A p \in own : p \subseteq Cover(ecs)
        /\ \A a \in Cover(ecs) \cap up.disputed : \E p \in own : a \in p /\ p # {a}
    BY <1>2, BuildFacts
  <1>4. /\ \A p \in DOMAIN next :
             /\ p \in PrefixSets /\ p \in prev(state)
             /\ ~Disputed(p) /\ ~(p \subseteq Cover(ecs))
             /\ next[p] = Since(state, p) /\ next[p] \in Ages /\ next[p] <= AccumTTL
        /\ fits(ecs, K) => DOMAIN next = K
    <2>1. state = (IF stateOK THEN accum ELSE <<>>) /\ next = applyAccumulation(state, stateOK, ecs)
      OBVIOUS
    <2>2. TypeOK /\ stateOK \in BOOLEAN
      BY <1>2
    <2> HIDE DEF state, next, ecs, own
    <2>3. /\ \A p \in DOMAIN next :
               /\ p \in PrefixSets /\ p \in prev(state)
               /\ ~Disputed(p) /\ ~(p \subseteq Cover(ecs))
               /\ next[p] = Since(state, p) /\ next[p] \in Ages /\ next[p] <= AccumTTL
          /\ fits(ecs, kept(state, stateOK, ecs)) => DOMAIN next = kept(state, stateOK, ecs)
      BY ONLY <2>1, <2>2, AccumulationFacts
    <2> QED BY <2>3
  <1>5. /\ round'.route = found.route /\ round'.ecs = ecs /\ round'.own = own /\ round'.list = FewestPrefixes(S)
        /\ round'.previous = {} /\ round'.state = next
        /\ DOMAIN round' = DOMAIN NoRound
    BY <1>1 DEF NoRound
  <1>6. look(own, ecs, state, stateOK)
    BY <1>1
  <1>7. state = IF stateOK THEN accum ELSE <<>>
    OBVIOUS
  <1>8. faults' \in 0 .. MaxFaults
    BY <1>1, <1>2, AuthConstants DEF Fault, TypeOK
  <1>9. S = Cover(ecs) \cup Cover(DOMAIN next) /\ K = kept(state, stateOK, ecs)
    OBVIOUS
  <1> HIDE DEF state, next, own, ecs, S, K
  <1>10. S \subseteq Addrs /\ FewestPrefixes(S) \subseteq PrefixSets /\ Cover(FewestPrefixes(S)) = S
    <2>1. S \subseteq Addrs
      BY <1>3, <1>4, <1>9, AuthConstants DEF Cover
    <2> QED BY <2>1, CollapseCovers
  <1> DEFINE waited == {p \in DOMAIN seen : /\ ~Disputed(p) /\ ~(p \subseteq Cover(ecs))
                                            /\ stateOK \/ p \in prev(state)}
             rest == IF fits(ecs, K) THEN waited ELSE {}
  <1>11. seen' = [p \in own \cup rest |-> IF p \in own THEN 0 ELSE seen[p]]
    BY <1>6, <1>9 DEF look
  <1>12. missing' = [a \in Addrs |-> IF a \in Cover(ecs) THEN -1
                                    ELSE IF missing[a] = -1 \/ ~stateOK THEN 0 ELSE missing[a]]
    BY <1>6 DEF look
  <1>13. rest \subseteq DOMAIN seen /\ rest \subseteq waited
    OBVIOUS
  <1>14. \A p \in rest : /\ p \in DOMAIN seen /\ ~Disputed(p) /\ ~(p \subseteq Cover(ecs))
                         /\ stateOK \/ p \in prev(state)
                         /\ fits(ecs, K)
    OBVIOUS
  <1> HIDE DEF waited, rest
  <1>15. DOMAIN seen' = own \cup rest /\ \A p \in DOMAIN seen' : seen'[p] = IF p \in own THEN 0 ELSE seen[p]
    BY <1>11
  <1>16. TypeOK'
    <2>1. DOMAIN seen' \subseteq PrefixSets /\ \A p \in DOMAIN seen' : seen'[p] \in Ages
      BY <1>2, <1>3, <1>13, <1>15, AuthConstants DEF TypeOK, Ages
    <2>2. missing' \in [Addrs -> -1 .. AccumTTL + 1]
      BY <1>2, <1>12, AuthConstants DEF TypeOK
    <2>3. DOMAIN next \subseteq PrefixSets /\ \A p \in DOMAIN next : next[p] \in Ages
      BY <1>4
    <2> QED BY <1>2, <1>3, <1>5, <1>8, <1>10, <2>1, <2>2, <2>3 DEF TypeOK
  <1>17. Computed'
    <2>1. \A p : Disputed(p)' <=> Disputed(p)
      BY <1>2 DEF Disputed
    <2> QED BY <1>2, <1>3, <1>4, <1>5, <1>9, <2>1 DEF Computed
  <1>18. Counted'
    <2>1. \A a \in Cover(ecs) : a \in Addrs
      BY <1>3, AuthConstants DEF Cover
    <2>2. \A a \in Cover(ecs) : missing'[a] = -1
      BY <1>12, <2>1
    <2>3. ASSUME NEW p \in DOMAIN next, NEW a \in p PROVE missing'[a] <= next[p]
      <3>1. a \in Addrs /\ next[p] \in Nat
        BY <1>4, AuthConstants DEF Ages
      <3>2. CASE missing'[a] \in {-1, 0}
        BY <3>1, <3>2
      <3>3. CASE stateOK /\ missing'[a] = missing[a] /\ missing[a] # -1
        <4>1. p \in prev(accum) /\ next[p] = Since(accum, p)
          BY <1>4, <1>7, <3>3
        <4>2. IF p \in DOMAIN accum THEN missing[a] <= accum[p] ELSE missing[a] = -1
          BY <1>2, <4>1 DEF AuthInv, CountedOnFile
        <4> QED BY <3>3, <4>1, <4>2 DEF Since
      <3> QED BY <1>12, <3>1, <3>2, <3>3
    <2> QED BY <1>5, <2>2, <2>3 DEF Counted
  <1>19. Written' /\ CountedOnFile'
    BY <1>2 DEF Written, CountedOnFile
  <1>20. Remembered'
    <2> SUFFICES ASSUME NEW p \in DOMAIN seen', seen'[p] <= AccumTTL
                 PROVE  /\ p \in own \cup DOMAIN next
                        /\ p \in DOMAIN next => next[p] <= seen'[p]
                        /\ p \subseteq S
      BY <1>2, <1>5, <1>10 DEF Remembered, NamesNow, StateNow
    <2>1. CASE p \in own
      BY <1>3, <1>4, <1>9, <2>1
    <2>2. CASE p \notin own
      <3>1. p \in rest /\ seen'[p] = seen[p] /\ seen[p] \in Nat
        BY <1>13, <1>15, <1>2, <2>2, AuthTypes
      <3>2. p \in DOMAIN seen /\ ~Disputed(p) /\ ~(p \subseteq Cover(ecs)) /\ (stateOK \/ p \in prev(state))
            /\ fits(ecs, K)
        BY <1>14, <3>1
      <3>3. CASE stateOK
        <4>1. state = accum
          BY <1>7, <3>3
        <4>2. /\ p \in targets \cup DOMAIN accum
              /\ p \in DOMAIN accum => accum[p] <= seen[p]
          BY <1>2, <3>1, <3>2 DEF AuthInv, Remembered, NamesNow, StateNow
        <4>3. p \in prev(state)
          BY <4>1, <4>2 DEF prev
        <4>4. Since(state, p) \in Nat /\ Since(state, p) <= seen[p]
          BY <1>2, <3>1, <4>1, <4>2, AuthTypes DEF Since
        <4>5. ~isExpired(state, stateOK, p)
          BY <3>1, <4>4, AuthConstants DEF isExpired
        <4>6. p \in K
          BY <1>9, <3>2, <4>3, <4>5 DEF kept
        <4> QED BY <1>4, <1>9, <3>1, <3>2, <4>4, <4>6 DEF Cover
      <3>4. CASE ~stateOK
        <4>1. Since(state, p) = 0
          BY <1>7, <3>4, EmptyFunction DEF Since
        <4>2. p \in K
          BY <1>9, <3>2, <3>4 DEF kept, isExpired
        <4> QED BY <1>4, <1>9, <3>1, <3>2, <4>1, <4>2 DEF Cover
      <3> QED BY <3>3, <3>4
    <2> QED BY <2>1, <2>2
  <1> QED BY <1>16, <1>17, <1>18, <1>19, <1>20 DEF AuthInv

\* What is remembered of the sightings when only some files are left.
LEMMA RecordedFacts ==
    ASSUME TypeOK, NEW names, NEW state, \A p \in DOMAIN state : state[p] \in Ages,
           seen' = recorded(names, state)
    PROVE  /\ DOMAIN seen' \subseteq PrefixSets
           /\ \A p \in DOMAIN seen' :
                 /\ p \in DOMAIN seen /\ seen[p] \in Nat
                 /\ seen'[p] \in Ages /\ seen[p] <= seen'[p]
                 /\ p \in names \cup DOMAIN state
                 /\ p \in DOMAIN state => state[p] <= seen'[p]
  <1>1. DOMAIN seen' = DOMAIN seen \cap (names \cup DOMAIN state)
        /\ \A p \in DOMAIN seen' :
              seen'[p] = IF p \in DOMAIN state /\ state[p] > seen[p] THEN state[p] ELSE seen[p]
    BY DEF recorded
  <1>2. \A p \in DOMAIN seen : p \in PrefixSets /\ seen[p] \in Ages
    BY DEF TypeOK
  <1> HIDE DEF recorded
  <1>3. ASSUME NEW p \in DOMAIN seen'
        PROVE  /\ seen'[p] \in Ages /\ seen[p] <= seen'[p] /\ seen[p] \in Nat
               /\ p \in DOMAIN state => state[p] <= seen'[p]
    <2>1. seen[p] \in Ages /\ (p \in DOMAIN state => state[p] \in Ages)
      BY <1>1, <1>2
    <2> QED BY <1>1, <2>1, AuthConstants DEF Ages
  <1> QED BY <1>1, <1>2, <1>3

LEMMA NoCounts ==
    ASSUME missing' = [a \in Addrs |-> -1]
    PROVE  Uncounted' /\ missing' \in [Addrs -> -1 .. AccumTTL + 1]
  BY AuthConstants DEF Uncounted

\* A round that ends without publishing: nothing is claimed of it any more.
LEMMA HoldStep ==
    ASSUME AuthInv, hold, UNCHANGED <<up, targets, accum>>,
           result' \subseteq PrefixSets, kernel' \subseteq PrefixSets, conf' \subseteq PrefixSets,
           confAge' \in 0 .. ReloadMin, faults' \in 0 .. MaxFaults, entries' = entries
    PROVE  AuthInv'
  <1>1. /\ pc' = "idle" /\ outcome' = "held" /\ round' = NoRound
        /\ seen' = recorded(targets, accum) /\ missing' = [a \in Addrs |-> -1]
    BY DEF hold
  <1>2. TypeOK /\ \A p \in DOMAIN accum : accum[p] \in Ages
    BY DEF AuthInv, TypeOK
  <1>3. TypeOK'
    <2>1. DOMAIN round' = DOMAIN NoRound /\ DOMAIN round'.state = {}
          /\ {round'.route, round'.ecs, round'.own, round'.list, round'.previous} \subseteq SUBSET PrefixSets
      BY <1>1, EmptyFunction DEF NoRound
    <2>2. DOMAIN seen' \subseteq PrefixSets /\ \A p \in DOMAIN seen' : seen'[p] \in Ages
      BY <1>1, <1>2, RecordedFacts
    <2> QED BY <1>1, <1>2, <2>1, <2>2, NoCounts DEF TypeOK
  <1>4. ~InRound'
    BY <1>1 DEF InRound
  <1>5. Computed' /\ Counted' /\ Written'
    BY <1>1, <1>4 DEF Computed, Counted, Written
  <1>6. CountedOnFile'
    <2>1. \A p \in prev(accum)' : p \subseteq Addrs
      BY <1>3, AuthConstants DEF TypeOK, prev
    <2>2. \A p \in DOMAIN accum' : accum'[p] \in Nat
      BY <1>3, AuthConstants DEF TypeOK, Ages
    <2> QED BY <1>1, <2>1, <2>2 DEF CountedOnFile
  <1>7. Remembered'
    <2>1. NamesNow' = targets /\ StateNow' = accum
      BY <1>1 DEF NamesNow, StateNow
    <2> QED BY <1>1, <1>2, <2>1, RecordedFacts DEF Remembered
  <1> QED BY <1>3, <1>5, <1>6, <1>7 DEF AuthInv

LEMMA FaultType ==
    ASSUME AuthInv, Fault \/ UNCHANGED faults PROVE faults' \in 0 .. MaxFaults
  BY AuthConstants DEF AuthInv, TypeOK, Fault

\* The two files a round writes before anything is published.
LEMMA TargetsStep ==
    ASSUME AuthInv, writeECSTargets PROVE AuthInv'
  <1>1. /\ pc = "computed" /\ pc' = "targets"
        /\ UNCHANGED <<up, result, conf, confAge, accum, kernel, round, entries, outcome>>
    BY DEF writeECSTargets
  <1>2. faults' \in 0 .. MaxFaults
    BY FaultType DEF writeECSTargets
  <1>3. TypeOK /\ \A p \in DOMAIN round.state : round.state[p] \in Ages
    BY DEF AuthInv, TypeOK
  <1>4. outcome # "done" /\ InRound /\ InRound'
    BY <1>1 DEF AuthInv, Written, InRound
  <1>5. Computed'
    BY <1>1, <1>4 DEF AuthInv, Computed, Disputed
  <1>6. CountedOnFile'
    BY <1>1 DEF CountedOnFile
  <1>7. NamesNow' = targets' /\ StateNow' = round.state /\ NamesNow = round.own /\ StateNow = round.state
    BY <1>1 DEF NamesNow, StateNow
  <1>8. CASE targets' = round.own /\ UNCHANGED <<seen, missing>>
    <2>1. TypeOK'
      BY <1>1, <1>2, <1>8 DEF AuthInv, TypeOK
    <2>2. Counted' /\ Written'
      BY <1>1, <1>4, <1>8 DEF AuthInv, Counted, Written
    <2>3. Remembered'
      BY <1>1, <1>7, <1>8 DEF AuthInv, Remembered
    <2> QED BY <1>5, <1>6, <2>1, <2>2, <2>3 DEF AuthInv
  <1>9. CASE /\ UNCHANGED targets
             /\ seen' = recorded(targets, round.state)
             /\ missing' = [a \in Addrs |-> -1]
    <2>1. DOMAIN seen' \subseteq PrefixSets /\ \A p \in DOMAIN seen' : seen'[p] \in Ages
      BY <1>3, <1>9, RecordedFacts
    <2>2. TypeOK'
      BY <1>1, <1>2, <1>3, <1>9, <2>1, NoCounts DEF TypeOK
    <2>3. Uncounted'
      BY <1>9, NoCounts
    <2>4. Written'
      BY <1>1, <1>4, <2>3 DEF Written
    <2>5. Counted'
      BY <1>1, <1>3, <1>9, AuthConstants, AuthTypes DEF Counted, Cover
    <2>6. Remembered'
      <3> SUFFICES ASSUME NEW p \in DOMAIN seen', seen'[p] <= AccumTTL
                   PROVE  /\ p \in targets \cup DOMAIN round.state
                          /\ p \in DOMAIN round.state => round.state[p] <= seen'[p]
                          /\ p \subseteq Cover(round.list)
        BY <1>1, <1>7, <1>9 DEF Remembered
      <3>1. /\ p \in DOMAIN seen /\ seen[p] \in Nat /\ seen'[p] \in Ages /\ seen[p] <= seen'[p]
            /\ p \in targets \cup DOMAIN round.state
            /\ p \in DOMAIN round.state => round.state[p] <= seen'[p]
        BY <1>3, <1>9, RecordedFacts
      <3>2. seen[p] <= AccumTTL
        BY <3>1, AuthConstants DEF Ages
      <3> QED BY <1>1, <3>1, <3>2 DEF AuthInv, Remembered
    <2> QED BY <1>5, <1>6, <2>2, <2>4, <2>5, <2>6 DEF AuthInv
  <1> QED BY <1>8, <1>9 DEF writeECSTargets

LEMMA StateStep ==
    ASSUME AuthInv, writeAccumState PROVE AuthInv'
  <1>1. /\ pc = "targets" /\ pc' = "staged"
        /\ UNCHANGED <<up, result, conf, confAge, targets, kernel, round, entries, outcome>>
    BY DEF writeAccumState
  <1>2. faults' \in 0 .. MaxFaults
    BY FaultType DEF writeAccumState
  <1>3. TypeOK /\ \A p \in DOMAIN accum : accum[p] \in Ages
    BY DEF AuthInv, TypeOK
  <1>4. outcome # "done" /\ InRound /\ InRound'
    BY <1>1 DEF AuthInv, Written, InRound
  <1>5. Computed'
    BY <1>1, <1>4 DEF AuthInv, Computed, Disputed
  <1>6. CountedOnFile'
    BY <1>1 DEF CountedOnFile
  <1>7. NamesNow' = targets /\ StateNow' = accum' /\ NamesNow = targets /\ StateNow = round.state
    BY <1>1 DEF NamesNow, StateNow
  <1>8. CASE accum' = round.state /\ UNCHANGED <<seen, missing>>
    <2>1. TypeOK'
      BY <1>1, <1>2, <1>8 DEF AuthInv, TypeOK
    <2>2. Counted' /\ Written'
      BY <1>1, <1>4, <1>8 DEF AuthInv, Counted, Written, Uncounted
    <2>3. Remembered'
      BY <1>1, <1>7, <1>8 DEF AuthInv, Remembered
    <2> QED BY <1>5, <1>6, <2>1, <2>2, <2>3 DEF AuthInv
  <1>9. CASE /\ UNCHANGED accum
             /\ seen' = recorded(targets, accum)
             /\ missing' = [a \in Addrs |-> -1]
    <2>1. DOMAIN seen' \subseteq PrefixSets /\ \A p \in DOMAIN seen' : seen'[p] \in Ages
      BY <1>3, <1>9, RecordedFacts
    <2>2. TypeOK'
      BY <1>1, <1>2, <1>3, <1>9, <2>1, NoCounts DEF TypeOK
    <2>3. Uncounted'
      BY <1>9, NoCounts
    <2>4. Written'
      BY <1>1, <1>4, <2>3 DEF Written
    <2>5. Counted'
      BY <1>1, <1>3, <1>9, AuthConstants, AuthTypes DEF Counted, Cover
    <2>6. Remembered'
      <3> SUFFICES ASSUME NEW p \in DOMAIN seen', seen'[p] <= AccumTTL
                   PROVE  /\ p \in targets \cup DOMAIN accum
                          /\ p \in DOMAIN accum => accum[p] <= seen'[p]
                          /\ p \subseteq Cover(round.list)
        BY <1>1, <1>7, <1>9 DEF Remembered
      <3>1. /\ p \in DOMAIN seen /\ seen[p] \in Nat /\ seen'[p] \in Ages /\ seen[p] <= seen'[p]
            /\ p \in targets \cup DOMAIN accum
            /\ p \in DOMAIN accum => accum[p] <= seen'[p]
        BY <1>3, <1>9, RecordedFacts
      <3>2. seen[p] <= AccumTTL
        BY <3>1, AuthConstants DEF Ages
      <3> QED BY <1>1, <3>1, <3>2 DEF AuthInv, Remembered
    <2> QED BY <1>5, <1>6, <2>2, <2>4, <2>5, <2>6 DEF AuthInv
  <1> QED BY <1>8, <1>9 DEF writeAccumState

\* A step of the round that moves neither the computation nor what is recorded.
LEMMA OnwardStep ==
    ASSUME AuthInv, TypeOK', pc \in {"staged", "loaded", "ecs"}, pc' \in {"staged", "loaded", "ecs"},
           UNCHANGED <<up, targets, accum, round, outcome, seen, missing>>
    PROVE  AuthInv'
  <1>1. outcome # "done" /\ InRound /\ InRound'
    BY DEF AuthInv, Written, InRound
  <1>2. Computed'
    BY <1>1 DEF AuthInv, Computed, Disputed
  <1>3. Counted' /\ Written' /\ CountedOnFile'
    BY <1>1 DEF AuthInv, Counted, Written, Uncounted, CountedOnFile
  <1>4. Remembered'
    BY DEF AuthInv, Remembered, NamesNow, StateNow
  <1> QED BY <1>2, <1>3, <1>4 DEF AuthInv

LEMMA PublishSteps ==
    ASSUME AuthInv, refuseSet \/ LoadNFTSet \/ renameResult \/ refuseECS \/ kill
    PROVE  AuthInv'
  <1>1. faults' \in 0 .. MaxFaults
    BY FaultType DEF refuseSet, LoadNFTSet, renameResult, refuseECS, kill, hold
  <1>2. TypeOK
    BY DEF AuthInv
  <1>3. CASE refuseSet \/ refuseECS \/ kill
    BY <1>1, <1>2, <1>3, AuthTypes, HoldStep DEF refuseSet, refuseECS, kill, disk, TypeOK
  <1>4. CASE LoadNFTSet
    <2>1. TypeOK'
      BY <1>1, <1>2, <1>4 DEF LoadNFTSet, loads, TypeOK, disk, history
    <2> QED BY <1>4, <2>1, OnwardStep DEF LoadNFTSet, disk, history
  <1>5. CASE renameResult
    <2>1. CASE result' = round.route /\ pc' = "ecs" /\ UNCHANGED <<round, history, faults>>
      <3>1. TypeOK'
        BY <1>1, <1>2, <1>5, <2>1 DEF renameResult, TypeOK, history
      <3> QED BY <1>5, <2>1, <3>1, OnwardStep DEF renameResult, history
    <2>2. CASE hold /\ UNCHANGED result
      BY <1>1, <1>2, <1>5, <2>2, AuthTypes, HoldStep DEF renameResult, TypeOK
    <2> QED BY <1>5, <2>1, <2>2 DEF renameResult
  <1> QED BY <1>3, <1>4, <1>5

LEMMA PreviousOnly ==
    ASSUME TypeOK, NEW v, v \subseteq PrefixSets, round' = [round EXCEPT !.previous = v]
    PROVE  /\ DOMAIN round' = DOMAIN NoRound /\ round'.previous = v
           /\ round'.route = round.route /\ round'.ecs = round.ecs /\ round'.own = round.own
           /\ round'.list = round.list /\ round'.state = round.state
  <1>1. DOMAIN round = {"route", "ecs", "own", "list", "previous", "state"}
    BY DEF TypeOK, NoRound
  <1>2. DOMAIN round = DOMAIN NoRound
    BY DEF TypeOK
  <1> QED BY <1>1, <1>2

LEMMA ReplaceStep ==
    ASSUME AuthInv, replaceConf PROVE AuthInv'
  <1>1. /\ pc = "ecs" /\ pc' = "check" /\ conf' = round.list /\ confAge' = 0
        /\ round' = [round EXCEPT !.previous = conf]
        /\ UNCHANGED <<up, result, targets, accum, kernel, entries, seen, missing, outcome, faults>>
    BY DEF replaceConf, history
  <1>2. TypeOK /\ conf \subseteq PrefixSets
    BY DEF AuthInv, TypeOK
  <1>3. /\ DOMAIN round' = DOMAIN NoRound /\ round'.previous = conf
        /\ round'.route = round.route /\ round'.ecs = round.ecs /\ round'.own = round.own
        /\ round'.list = round.list /\ round'.state = round.state
    BY <1>1, <1>2, PreviousOnly
  <1>4. TypeOK'
    BY <1>1, <1>2, <1>3, AuthConstants DEF TypeOK
  <1>5. outcome # "done" /\ InRound /\ InRound'
    BY <1>1 DEF AuthInv, Written, InRound
  <1>6. Computed'
    BY <1>1, <1>3, <1>5 DEF AuthInv, Computed, Disputed
  <1>7. Counted' /\ Written' /\ CountedOnFile'
    BY <1>1, <1>3, <1>5 DEF AuthInv, Counted, Written, Uncounted, CountedOnFile
  <1>8. Remembered'
    BY <1>1, <1>3 DEF AuthInv, Remembered, NamesNow, StateNow
  <1> QED BY <1>4, <1>6, <1>7, <1>8 DEF AuthInv

\* What a round that published, or found nothing to publish, leaves behind:
\* what the next one takes for retained has been counted as long as it was.
LEMMA DoneStep ==
    ASSUME AuthInv, TypeOK', pc \in {"ecs", "check"}, pc' = "idle", outcome' = "done",
           round'.list = round.list, round'.ecs = round.ecs, round'.own = round.own,
           round'.state = round.state,
           UNCHANGED <<up, conf, targets, accum, seen>>,
           Cover(conf) \subseteq Cover(round.list),
           \A a \in Addrs : missing'[a] \in {-1, missing[a]},
           \A a \in Addrs : {a} \in conf \ DOMAIN round.state => missing'[a] = -1
    PROVE  AuthInv'
  <1>1. TypeOK /\ InRound /\ InRound'
    BY DEF AuthInv, InRound
  <1>2. Computed'
    BY <1>1 DEF AuthInv, Computed, Disputed
  <1>3. Counted'
    <2>1. \A a \in Cover(round.ecs) : a \in Addrs /\ missing[a] = -1
      BY <1>1, AuthTypes, AuthConstants DEF AuthInv, Counted, Cover
    <2>2. ASSUME NEW p \in DOMAIN round.state, NEW a \in p PROVE missing'[a] <= round.state[p]
      <3>1. a \in Addrs /\ round.state[p] \in Nat /\ missing[a] <= round.state[p]
        BY <1>1, AuthTypes, AuthConstants DEF AuthInv, Counted
      <3>2. missing'[a] \in {-1, missing[a]}
        BY <3>1
      <3> QED BY <3>1, <3>2
    <2> QED BY <2>1, <2>2 DEF Counted
  <1>4. Written'
    BY DEF Written
  <1>5. CountedOnFile'
    <2> SUFFICES ASSUME NEW p \in prev(accum), NEW a \in p
                 PROVE  IF p \in DOMAIN accum THEN missing'[a] <= accum[p] ELSE missing'[a] = -1
      BY DEF CountedOnFile, prev
    <2>1. p \in PrefixSets /\ a \in Addrs
      BY <1>1, AuthTypes, AuthConstants DEF prev
    <2>2. p \in DOMAIN accum => accum[p] \in Nat
      BY <1>1, AuthTypes
    <2>3. CASE Uncounted
      <3>1. missing'[a] = -1
        BY <2>1, <2>3 DEF Uncounted
      <3> QED BY <2>2, <3>1
    <2>4. CASE targets = round.own /\ accum = round.state
      <3>1. CASE p \in DOMAIN accum
        BY <1>1, <1>3, <2>4, <3>1 DEF Counted
      <3>2. CASE p \notin DOMAIN accum /\ p \in targets
        <4>1. a \in Cover(round.ecs)
          BY <1>1, <2>4, <3>2 DEF AuthInv, Computed
        <4>2. missing'[a] = -1
          BY <1>3, <4>1, <1>1 DEF Counted
        <4> QED BY <3>2, <4>2
      <3>3. CASE p \notin DOMAIN accum /\ p \in conf /\ Cardinality(p) = 1
        <4>1. p = {a}
          BY <2>1, <3>3, MoreThanOne
        <4> QED BY <2>1, <2>4, <3>3, <4>1
      <3> QED BY <3>1, <3>2, <3>3 DEF prev
    <2> QED BY <2>3, <2>4 DEF AuthInv, Written
  <1>6. Remembered'
    BY DEF AuthInv, Remembered, NamesNow, StateNow
  <1> QED BY <1>2, <1>3, <1>4, <1>5, <1>6 DEF AuthInv

LEMMA SkipStep ==
    ASSUME AuthInv, skipECS PROVE AuthInv'
  <1>1. /\ pc = "ecs" /\ pc' = "idle" /\ outcome' = "done"
        /\ missing' = [a \in Addrs |-> IF {a} \in conf \ DOMAIN round.state THEN -1 ELSE missing[a]]
        /\ UNCHANGED <<up, result, conf, confAge, targets, accum, kernel, round, entries, seen, faults>>
    BY DEF skipECS, disk
  <1>2. TypeOK'
    <2>1. missing' \in [Addrs -> -1 .. AccumTTL + 1]
      BY <1>1, AuthConstants DEF AuthInv, TypeOK
    <2> QED BY <1>1, <2>1 DEF AuthInv, TypeOK
  <1>3. Cover(conf) \subseteq Cover(round.list)
    BY DEF skipECS, waits, ecsOnlyGrew
  <1>4. \A a \in Addrs : missing'[a] = IF {a} \in conf \ DOMAIN round.state THEN -1 ELSE missing[a]
    BY <1>1
  <1> QED BY <1>1, <1>2, <1>3, <1>4, DoneStep

LEMMA CheckStep ==
    ASSUME AuthInv, unboundCheckConf PROVE AuthInv'
  <1>1. /\ pc = "check" /\ UNCHANGED <<up, result, targets, accum, kernel, entries>>
        /\ TypeOK /\ conf = round.list
    BY DEF unboundCheckConf, AuthInv, Written
  <1>2. faults' \in 0 .. MaxFaults
    BY FaultType DEF unboundCheckConf
  <1>3. CASE /\ pc' = "idle" /\ outcome' = "done" /\ round' = [round EXCEPT !.previous = {}]
             /\ UNCHANGED <<conf, confAge, seen, missing, faults>>
    <2>1. /\ DOMAIN round' = DOMAIN NoRound /\ round'.previous = {}
          /\ round'.route = round.route /\ round'.ecs = round.ecs /\ round'.own = round.own
          /\ round'.list = round.list /\ round'.state = round.state
      BY <1>1, <1>3, PreviousOnly
    <2>2. TypeOK'
      BY <1>1, <1>2, <1>3, <2>1 DEF TypeOK
    <2>3. ASSUME NEW a \in Addrs, {a} \in conf \ DOMAIN round.state PROVE missing[a] = -1
      <3> DEFINE S == Cover(round.ecs) \cup Cover(DOMAIN round.state)
      <3>1. {a} \in FewestPrefixes(S) /\ a \in S
        <4>1. round.list = FewestPrefixes(S)
          BY <1>1 DEF AuthInv, Computed, InRound
        <4> HIDE DEF S
        <4> QED BY <1>1, <2>3, <4>1 DEF FewestPrefixes
      <3>2. CASE a \in Cover(round.ecs)
        BY <1>1, <3>2 DEF AuthInv, Counted, InRound
      <3>3. ASSUME NEW q \in DOMAIN round.state, a \in q PROVE FALSE
        <4>1. q \in PrefixSets /\ q \subseteq S
          BY <1>1, AuthTypes DEF Cover
        <4> HIDE DEF S
        <4>2. q = {a}
          BY <3>1, <3>3, <4>1, AloneOnList
        <4> QED BY <2>3, <3>3, <4>2
      <3> QED BY <3>1, <3>2, <3>3 DEF Cover
    <2> QED BY <1>1, <1>3, <2>1, <2>2, <2>3, DoneStep
  <1>4. CASE hold /\ conf' = round.previous /\ confAge' = 0
    <2>1. confAge' \in 0 .. ReloadMin
      BY <1>4, AuthConstants
    <2> QED BY <1>1, <1>2, <1>4, <2>1, AuthTypes, HoldStep
  <1>5. CASE hold /\ UNCHANGED <<conf, confAge>>
    <2>1. confAge' \in 0 .. ReloadMin
      BY <1>1, <1>5 DEF TypeOK
    <2> QED BY <1>1, <1>2, <1>5, <2>1, AuthTypes, HoldStep
  <1> QED BY <1>3, <1>4, <1>5 DEF unboundCheckConf

\* Between rounds: other inputs, and time.
LEMMA BetweenRounds ==
    ASSUME AuthInv, upstream \/ Elapse PROVE AuthInv'
  <1>1. TypeOK /\ pc = "idle" /\ pc' = "idle" /\ outcome' = "none" /\ round' = NoRound
        /\ UNCHANGED <<result, conf, targets, kernel, entries, faults>>
    BY DEF AuthInv, upstream, Elapse, disk
  <1>2. ~InRound'
    BY <1>1 DEF InRound
  <1>3. Computed' /\ Counted' /\ Written'
    BY <1>1, <1>2 DEF Computed, Counted, Written
  <1>4. DOMAIN round' = DOMAIN NoRound /\ DOMAIN round'.state = {}
        /\ {round'.route, round'.ecs, round'.own, round'.list, round'.previous} \subseteq SUBSET PrefixSets
    BY <1>1, EmptyFunction DEF NoRound
  <1>5. NamesNow' = targets /\ StateNow' = accum' /\ NamesNow = targets /\ StateNow = accum
    BY <1>1 DEF NamesNow, StateNow
  <1>6. CASE upstream
    <2>1. up' \in Upstreams /\ UNCHANGED <<confAge, accum, seen, missing>>
      BY <1>6 DEF upstream, disk
    <2>2. TypeOK'
      BY <1>1, <1>4, <2>1 DEF TypeOK
    <2>3. CountedOnFile'
      BY <1>1, <2>1 DEF AuthInv, CountedOnFile, prev
    <2>4. Remembered'
      BY <1>1, <1>5, <2>1 DEF AuthInv, Remembered
    <2> QED BY <1>3, <2>2, <2>3, <2>4 DEF AuthInv
  <1>7. CASE Elapse
    <2>1. /\ up' = up
          /\ accum' = [p \in DOMAIN accum |-> Older(accum[p])]
          /\ seen' = [p \in {q \in DOMAIN seen : seen[q] < AccumTTL} |-> Older(seen[p])]
          /\ missing' = [a \in Addrs |-> Older(missing[a])]
          /\ confAge' = IF confAge < ReloadMin THEN confAge + 1 ELSE confAge
      BY <1>7 DEF Elapse
    <2>2. /\ DOMAIN accum' = DOMAIN accum /\ \A p \in DOMAIN accum : accum'[p] = Older(accum[p])
          /\ \A a \in Addrs : missing'[a] = Older(missing[a])
          /\ DOMAIN seen' = {q \in DOMAIN seen : seen[q] < AccumTTL}
          /\ \A p \in DOMAIN seen' : seen'[p] = Older(seen[p])
      BY <2>1
    <2>3. \A x \in -1 .. AccumTTL + 1 : Older(x) \in -1 .. AccumTTL + 1
      BY AuthConstants DEF Older
    <2>4. \A x \in Ages : Older(x) \in Ages
      BY AuthConstants DEF Older, Ages
    <2>5. TypeOK'
      <3>1. confAge' \in 0 .. ReloadMin
        BY <1>1, <2>1, AuthConstants DEF TypeOK
      <3>2. missing' \in [Addrs -> -1 .. AccumTTL + 1]
        BY <1>1, <2>1, <2>3 DEF TypeOK
      <3>3. DOMAIN accum' \subseteq PrefixSets /\ \A p \in DOMAIN accum' : accum'[p] \in Ages
        BY <1>1, <2>2, <2>4 DEF TypeOK
      <3>4. DOMAIN seen' \subseteq PrefixSets /\ \A p \in DOMAIN seen' : seen'[p] \in Ages
        BY <1>1, <2>2, <2>4 DEF TypeOK
      <3> QED BY <1>1, <1>4, <2>1, <3>1, <3>2, <3>3, <3>4 DEF TypeOK
    <2>6. CountedOnFile'
      <3> SUFFICES ASSUME NEW p \in prev(accum), NEW a \in p
                   PROVE  IF p \in DOMAIN accum THEN missing'[a] <= accum'[p] ELSE missing'[a] = -1
        BY <1>1, <2>2 DEF CountedOnFile, prev
      <3>1. p \in PrefixSets /\ a \in Addrs
        BY <1>1, AuthTypes, AuthConstants DEF prev
      <3>2. IF p \in DOMAIN accum THEN missing[a] <= accum[p] ELSE missing[a] = -1
        BY <1>1 DEF AuthInv, CountedOnFile
      <3>3. missing[a] \in -1 .. AccumTTL + 1 /\ (p \in DOMAIN accum => accum[p] \in 0 .. AccumTTL + 1)
        BY <1>1, <3>1 DEF TypeOK, Ages
      <3>4. CASE p \in DOMAIN accum
        BY <2>2, <3>1, <3>2, <3>3, <3>4, AuthConstants DEF Older
      <3>5. CASE p \notin DOMAIN accum
        BY <2>2, <3>1, <3>2, <3>5, AuthConstants DEF Older
      <3> QED BY <3>4, <3>5
    <2>7. Remembered'
      <3> SUFFICES ASSUME NEW p \in DOMAIN seen'
                   PROVE  /\ p \in targets \cup DOMAIN accum
                          /\ p \in DOMAIN accum => accum'[p] <= seen'[p]
        BY <1>1, <1>5, <2>2 DEF Remembered
      <3>1. p \in DOMAIN seen /\ seen[p] \in Nat /\ seen[p] < AccumTTL /\ seen'[p] = seen[p] + 1
        BY <1>1, <2>2, AuthTypes, AuthConstants DEF Older
      <3>2. p \in targets \cup DOMAIN accum /\ (p \in DOMAIN accum => accum[p] <= seen[p])
        BY <1>5, <3>1, AuthConstants DEF AuthInv, Remembered
      <3>3. p \in DOMAIN accum => accum[p] \in Nat /\ accum'[p] = accum[p] + 1
        BY <1>1, <2>2, <3>1, <3>2, AuthTypes, AuthConstants DEF Older
      <3> QED BY <3>1, <3>2, <3>3
    <2> QED BY <1>3, <2>5, <2>6, <2>7 DEF AuthInv
  <1> QED BY <1>6, <1>7

\* The routing unit moves the kernel's set only.
LEMMA RoutingUnit ==
    ASSUME AuthInv, cnAuthorityEntries \/ installChain \/ UNCHANGED vars PROVE AuthInv'
  <1>1. UNCHANGED <<up, result, conf, confAge, targets, accum, pc, round, seen, missing, outcome>>
    BY DEF cnAuthorityEntries, installChain, vars, disk, history
  <1>2. TypeOK'
    <2>1. faults' \in 0 .. MaxFaults
      BY FaultType DEF cnAuthorityEntries, installChain, vars
    <2>2. kernel' \subseteq PrefixSets /\ (entries' = NotRead \/ entries' \in SUBSET PrefixSets)
      BY DEF cnAuthorityEntries, installChain, vars, AuthInv, TypeOK
    <2> QED BY <1>1, <2>1, <2>2 DEF AuthInv, TypeOK
  <1>3. Computed' /\ Counted' /\ Written'
    BY <1>1 DEF AuthInv, InRound, Computed, Counted, Written, Uncounted, Disputed
  <1>4. CountedOnFile' /\ Remembered'
    BY <1>1 DEF AuthInv, CountedOnFile, Remembered, NamesNow, StateNow, prev
  <1> QED BY <1>2, <1>3, <1>4 DEF AuthInv

LEMMA AuthInvStep == AuthInv /\ [Next]_vars => AuthInv'
  <1> SUFFICES ASSUME AuthInv, [Next]_vars PROVE AuthInv'
    OBVIOUS
  <1> QED BY ComputeStep, TargetsStep, StateStep, PublishSteps, ReplaceStep, SkipStep, CheckStep,
             BetweenRounds, RoutingUnit DEF Next, Step

LEMMA RightFromInv == AuthInv => ListIsRight
  <1> SUFFICES ASSUME AuthInv PROVE ListIsRight
    OBVIOUS
  <1>1. TypeOK
    BY DEF AuthInv
  <1>2. AuthoritiesAreKept
    BY DEF AuthInv, Remembered, AuthoritiesAreKept
  <1> DEFINE S == Cover(round.ecs) \cup Cover(DOMAIN round.state)
  <1>3. ASSUME outcome = "done", NEW a \in Cover(conf)
        PROVE  a \in Addrs /\ (a \in Cover(round.ecs) \/ \E q \in DOMAIN round.state : a \in q)
    <2>1. round.list = FewestPrefixes(S) /\ a \in Cover(round.list)
      BY <1>3 DEF AuthInv, Computed, InRound, Written
    <2>2. S \subseteq Addrs
      BY <1>1, AuthTypes, AuthConstants DEF Cover
    <2>3. a \in S
      <3> HIDE DEF S
      <3> QED BY <2>1, <2>2, CollapseCovers
    <2> QED BY <2>2, <2>3 DEF Cover
  <1>4. RetentionIsBounded
    <2> SUFFICES ASSUME outcome = "done", NEW a \in Cover(conf), a \notin Cover(round.ecs)
                 PROVE  missing[a] <= AccumTTL
      BY DEF RetentionIsBounded
    <2>1. PICK q \in DOMAIN round.state : a \in q
      BY <1>3
    <2>2. missing[a] <= round.state[q] /\ round.state[q] <= AccumTTL
      BY <2>1 DEF AuthInv, Counted, Computed, InRound
    <2>3. missing[a] \in Int /\ round.state[q] \in Nat
      BY <1>1, <1>3, AuthTypes
    <2> QED BY <2>2, <2>3, AuthConstants
  <1>5. DisputedOnlySteered
    <2> SUFFICES ASSUME outcome = "done", NEW a \in Cover(conf), a \in up.disputed
                 PROVE  \E p \in round.own \cup DOMAIN round.state : a \in p /\ Cardinality(p) > 1
      BY DEF DisputedOnlySteered
    <2>1. CASE a \in Cover(round.ecs)
      <3>1. PICK p \in round.own : a \in p /\ p # {a}
        BY <2>1 DEF AuthInv, Computed, InRound
      <3>2. Cardinality(p) > 1
        BY <1>1, <3>1, AuthTypes, MoreThanOne
      <3> QED BY <3>1, <3>2
    <2>2. CASE a \notin Cover(round.ecs)
      <3>1. PICK q \in DOMAIN round.state : a \in q
        BY <1>3, <2>2
      <3>2. Min(q) \notin up.disputed
        BY <3>1 DEF AuthInv, Computed, InRound, Disputed
      <3>3. q # {a}
        <4>1. Min({a}) = a
          BY DEF Min
        <4> QED BY <3>2, <4>1
      <3>4. Cardinality(q) > 1
        BY <1>1, <3>1, <3>3, AuthTypes, MoreThanOne
      <3> QED BY <3>1, <3>4
    <2> QED BY <2>1, <2>2
  <1> QED BY <1>1, <1>2, <1>4, <1>5 DEF ListIsRight

(***************************************************************************)
(* The list of servers that are sent the client's subnet is right, for     *)
(* every set of addresses, zones and inputs, every retention time, reload  *)
(* interval and limit, and however often rounds fail or are killed: what   *)
(* was derived within AccumTTL is on it, what no round derived for longer  *)
(* is off it, and disputed addresses are on it only in a CDN's /24         *)
(* (applyAccumulation, commitAuthoritySet, commitECSConf).                 *)
(***************************************************************************)
THEOREM ListStaysRight == Spec => []ListIsRight
  <1> QED BY AuthInvInit, AuthInvStep, RightFromInv, PTL DEF Spec

(***************************************************************************)
(* Sorted lists. What the proofs about ranges rest on: induction over the  *)
(* numbers, said of a set of them; a function by recursion; a finite set   *)
(* has a last element in an order; a list that is sorted by taking the     *)
(* first again and again holds each member once, in order.                 *)
(***************************************************************************)

\* Induction, for a set of numbers.
LEMMA EveryNumber ==
    ASSUME NEW G, 0 \in G, \A n \in Nat : n \in G => n + 1 \in G
    PROVE  Nat \subseteq G
  <1> SUFFICES ASSUME NEW m \in Nat, m \notin G PROVE FALSE
    OBVIOUS
  <1> DEFINE T == {n \in Nat : n \notin G}
  <1>1. T \subseteq Nat /\ T # {}
    OBVIOUS
  <1>2. PICK t \in T : \A y \in T : ~ (<<y, t>> \in OpToRel(<, Nat))
    <2> HIDE DEF T
    <2> QED BY <1>1, NatLessThanWellFounded, WFMin
  <1>3. \A y \in T : ~(y < t)
    BY <1>1, <1>2 DEF OpToRel
  <1>4. t # 0 /\ t \in Nat
    OBVIOUS
  <1>5. t - 1 \in Nat /\ t - 1 < t
    BY <1>4
  <1>6. t - 1 \in G
    BY <1>3, <1>5
  <1>7. (t - 1) + 1 = t
    BY <1>4
  <1> QED BY <1>5, <1>6, <1>7

\* A relation that orders a set, with ties.
Orders(R, S) ==
    /\ \A x, y \in S : <<x, y>> \in R \/ <<y, x>> \in R
    /\ \A x, y, z \in S : <<x, y>> \in R /\ <<y, z>> \in R => <<x, z>> \in R

LEMMA LastExists ==
    ASSUME NEW S, IsFiniteSet(S), NEW R, Orders(R, S), S # {}
    PROVE  \E m \in S : \A x \in S : <<x, m>> \in R
  <1> DEFINE G == {n \in Nat : \A T \in SUBSET S : Cardinality(T) = n /\ T # {} =>
                                  \E m \in T : \A x \in T : <<x, m>> \in R}
  <1>1. \A T \in SUBSET S : IsFiniteSet(T) /\ Cardinality(T) \in Nat
    BY FS_Subset, FS_CardinalityType
  <1>2. 0 \in G
    <2>1. \A T \in SUBSET S : Cardinality(T) = 0 => T = {}
      BY <1>1, FS_EmptySet
    <2> QED BY <2>1
  <1>3. ASSUME NEW n \in Nat, n \in G PROVE n + 1 \in G
    <2> SUFFICES ASSUME NEW T \in SUBSET S, Cardinality(T) = n + 1, T # {}
                 PROVE  \E m \in T : \A x \in T : <<x, m>> \in R
      BY <1>3
    <2>1. PICK y \in T : TRUE
      OBVIOUS
    <2>2. Cardinality(T \ {y}) = n
      BY <1>1, FS_RemoveElement
    <2>3. CASE T \ {y} = {}
      BY <2>3 DEF Orders
    <2>4. CASE T \ {y} # {}
      <3>1. PICK m \in T \ {y} : \A x \in T \ {y} : <<x, m>> \in R
        BY <1>3, <2>2, <2>4
      <3>2. CASE <<y, m>> \in R
        BY <3>1, <3>2
      <3>3. CASE <<y, m>> \notin R
        BY <3>1, <3>3 DEF Orders
      <3> QED BY <3>2, <3>3
    <2> QED BY <2>3, <2>4
  <1> HIDE DEF G
  <1>4. Cardinality(S) \in G
    BY <1>1, <1>2, <1>3, EveryNumber
  <1> QED BY <1>4 DEF G

\* A function by recursion over the numbers up to n, with the step to each.
Recursive(f, T, base, n, G) == f \in [0..n -> T] /\ f[0] = base /\ \A i \in 1..n : f[i] = G[i][f[i-1]]

\* Functions by recursion over the numbers up to n: there is one, and it is the
\* one that is chosen.
LEMMA RecursionExists ==
    ASSUME NEW T, NEW base \in T, NEW n \in Nat, NEW G \in [1..n -> [T -> T]]
    PROVE  \E f : Recursive(f, T, base, n, G)
  <1> DEFINE Ok == {k \in Nat : k <= n => \E f \in [0..k -> T] : f[0] = base /\ \A i \in 1..k : f[i] = G[i][f[i-1]]}
  <1>1. 0 \in Ok
    <2> DEFINE f == [i \in 0..0 |-> base]
    <2>1. f \in [0..0 -> T] /\ f[0] = base /\ \A i \in 1..0 : f[i] = G[i][f[i-1]]
      OBVIOUS
    <2> HIDE DEF f
    <2> QED BY <2>1
  <1>2. ASSUME NEW k \in Nat, k \in Ok PROVE k + 1 \in Ok
    <2> SUFFICES ASSUME k + 1 <= n
                 PROVE  \E f \in [0..(k + 1) -> T] : f[0] = base /\ \A i \in 1..(k + 1) : f[i] = G[i][f[i-1]]
      OBVIOUS
    <2>1. PICK f \in [0..k -> T] : f[0] = base /\ \A i \in 1..k : f[i] = G[i][f[i-1]]
      BY <1>2
    <2> DEFINE g == [i \in 0..(k + 1) |-> IF i = k + 1 THEN G[k + 1][f[k]] ELSE f[i]]
    <2>2. g \in [0..(k + 1) -> T]
      BY <2>1
    <2>3. g[0] = base /\ \A i \in 1..(k + 1) : g[i] = G[i][g[i-1]]
      BY <2>1
    <2> HIDE DEF g
    <2> QED BY <2>2, <2>3
  <1> HIDE DEF Ok
  <1>3. n \in Ok
    BY <1>1, <1>2, EveryNumber
  <1> QED BY <1>3 DEF Ok, Recursive

\* A list but for its last member.
LEMMA LastOne ==
    ASSUME NEW T, NEW m \in Seq(T), m # <<>>
    PROVE  /\ Len(m) \in Nat \ {0} /\ Last(m) = m[Len(m)] /\ Last(m) \in T
           /\ Front(m) \in Seq(T) /\ Len(Front(m)) = Len(m) - 1
           /\ \A i \in 1..(Len(m) - 1) : Front(m)[i] = m[i]
  <1>1. Len(m) \in Nat \ {0}
    BY EmptySeq
  <1>2. Last(m) = m[Len(m)] /\ Last(m) \in T
    BY <1>1 DEF Last
  <1>3. Front(m) = SubSeq(m, 1, Len(m) - 1)
    BY DEF Front
  <1>4. SubSeq(m, 1, Len(m) - 1) \in Seq(T) /\ Len(SubSeq(m, 1, Len(m) - 1)) = Len(m) - 1
        /\ \A i \in 1..(Len(m) - 1) : SubSeq(m, 1, Len(m) - 1)[i] = m[i]
    <2> DEFINE n == Len(m) - 1
    <2>1. 1 \in 1..(Len(m) + 1) /\ n \in (1 - 1)..Len(m) /\ n \in Nat
      BY <1>1
    <2>2. /\ SubSeq(m, 1, n) \in Seq(T)
          /\ Len(SubSeq(m, 1, n)) = IF 1 <= n THEN n - 1 + 1 ELSE 0
          /\ \A i \in 1..(n - 1 + 1) : SubSeq(m, 1, n)[i] = m[1 + i - 1]
      <3> HIDE DEF n
      <3> QED BY <2>1, SubSeqProperties
    <2>3. n - 1 + 1 = n /\ \A i \in 1..n : 1 + i - 1 = i
      BY <2>1
    <2> HIDE DEF n
    <2>4. (IF 1 <= n THEN n - 1 + 1 ELSE 0) = n
      BY <2>1
    <2>5. SubSeq(m, 1, n) \in Seq(T) /\ Len(SubSeq(m, 1, n)) = n /\ \A i \in 1..n : SubSeq(m, 1, n)[i] = m[i]
      BY <2>2, <2>3, <2>4
    <2> QED BY <2>5 DEF n
  <1> QED BY <1>1, <1>2, <1>3, <1>4

Spanned(S) == IsFiniteSet(S) /\ \A x \in S : x.lo \in Int /\ x.hi \in Int

LEMMA FirstExists ==
    ASSUME NEW S, Spanned(S), S # {}
    PROVE  FirstOf(S) \in S /\ \A x \in S : Earlier(FirstOf(S), x)
  <1> DEFINE R == {p \in S \X S : Earlier(p[2], p[1])}
  <1>1. \A x, y \in S : <<x, y>> \in R <=> Earlier(y, x)
    OBVIOUS
  <1>2. Orders(R, S)
    <2> HIDE DEF R
    <2>1. \A x, y \in S : Earlier(x, y) \/ Earlier(y, x)
      BY DEF Spanned, Earlier
    <2>2. \A x, y, z \in S : Earlier(x, y) /\ Earlier(y, z) => Earlier(x, z)
      BY DEF Spanned, Earlier
    <2> QED BY <1>1, <2>1, <2>2 DEF Orders
  <1>3. IsFiniteSet(S)
    BY DEF Spanned
  <1> HIDE DEF R
  <1>4. \E m \in S : \A x \in S : <<x, m>> \in R
    BY <1>2, <1>3, LastExists
  <1>5. \E m \in S : \A x \in S : Earlier(m, x)
    BY <1>1, <1>4
  <1> QED BY <1>5 DEF FirstOf

SortedFacts(S, s) ==
    /\ s \in Seq(S) /\ Len(s) = Cardinality(S)
    /\ \A x \in S : \E i \in 1..Len(s) : s[i] = x
    /\ \A i, j \in 1..Len(s) : i < j => s[i] # s[j] /\ Earlier(s[i], s[j])

LEMMA SortedRight ==
    ASSUME NEW S, Spanned(S)
    PROVE  SortedFacts(S, Sorted(S))
  <1> DEFINE n == Cardinality(S)
             F(f) == f = [k \in 0..n |-> IF k = 0 THEN S ELSE f[k - 1] \ {FirstOf(f[k - 1])}]
             rest == CHOOSE f : F(f)
  <1>1. n \in Nat /\ IsFiniteSet(S)
    BY FS_CardinalityType DEF Spanned
  <1>2. \E f \in [0..n -> SUBSET S] : f[0] = S /\ \A i \in 1..n : f[i] = f[i-1] \ {FirstOf(f[i-1])}
    <2> DEFINE G == [i \in 1..n |-> [T \in SUBSET S |-> T \ {FirstOf(T)}]]
    <2>1. G \in [1..n -> [SUBSET S -> SUBSET S]]
      OBVIOUS
    <2>2. \A i \in 1..n : \A T \in SUBSET S : G[i][T] = T \ {FirstOf(T)}
      OBVIOUS
    <2> DEFINE T == SUBSET S
    <2>3. S \in T /\ G \in [1..n -> [T -> T]]
      BY <2>1
    <2> HIDE DEF G, n, T
    <2>4. PICK f : Recursive(f, T, S, n, G)
      BY <1>1, <2>3, RecursionExists
    <2> USE DEF Recursive
    <2>5. ASSUME NEW i \in 1..n PROVE f[i] = f[i-1] \ {FirstOf(f[i-1])}
      <3>1. f[i-1] \in SUBSET S
        BY <1>1, <2>4 DEF T
      <3> QED BY <2>2, <2>4, <3>1
    <2>6. f \in [0..n -> SUBSET S]
      BY <2>4 DEF T
    <2> QED BY <2>4, <2>5, <2>6
  <1>3. \E f : F(f)
    <2> HIDE DEF n
    <2>1. PICK f \in [0..n -> SUBSET S] : f[0] = S /\ \A i \in 1..n : f[i] = f[i-1] \ {FirstOf(f[i-1])}
      BY <1>2
    <2>2. F(f)
      BY <1>1, <2>1
    <2> QED BY <2>2
  <1>4. F(rest)
    BY <1>3
  <1>5. Sorted(S) = [k \in 1..n |-> FirstOf(rest[k - 1])]
    BY DEF Sorted
  <1> HIDE DEF rest, n
  <1>6. rest[0] = S /\ \A i \in 1..n : rest[i] = rest[i-1] \ {FirstOf(rest[i-1])}
    <2>1. \A k \in 0..n : rest[k] = IF k = 0 THEN S ELSE rest[k - 1] \ {FirstOf(rest[k - 1])}
      BY <1>4
    <2> HIDE DEF F
    <2>2. 0 \in 0..n /\ \A i \in 1..n : i \in 0..n /\ i # 0
      BY <1>1
    <2> QED BY <2>1, <2>2
  <1> HIDE DEF F
  \* What is left shrinks by one each time.
  <1>7. \A k \in Nat : k <= n => rest[k] \in SUBSET S /\ Cardinality(rest[k]) = n - k
    <2> DEFINE Ok == {k \in Nat : k <= n => rest[k] \in SUBSET S /\ Cardinality(rest[k]) = n - k}
    <2>1. 0 \in Ok
      BY <1>1, <1>6 DEF n
    <2>2. ASSUME NEW k \in Nat, k \in Ok PROVE k + 1 \in Ok
      <3> SUFFICES ASSUME k + 1 <= n
                   PROVE  rest[k + 1] \in SUBSET S /\ Cardinality(rest[k + 1]) = n - (k + 1)
        OBVIOUS
      <3>1. rest[k] \in SUBSET S /\ Cardinality(rest[k]) = n - k
        BY <1>1, <2>2
      <3>2. Spanned(rest[k])
        BY <3>1, FS_Subset DEF Spanned
      <3>3. rest[k] # {}
        BY <1>1, <3>1, FS_EmptySet
      <3>4. FirstOf(rest[k]) \in rest[k]
        BY <3>2, <3>3, FirstExists
      <3>5. rest[k + 1] = rest[k] \ {FirstOf(rest[k])}
        BY <1>1, <1>6
      <3>6. Cardinality(rest[k + 1]) = Cardinality(rest[k]) - 1
        BY <3>2, <3>4, <3>5, FS_RemoveElement DEF Spanned
      <3> QED BY <1>1, <3>1, <3>5, <3>6
    <2> HIDE DEF Ok
    <2>3. Nat \subseteq Ok
      BY <2>1, <2>2, EveryNumber
    <2> QED BY <2>3 DEF Ok
  <1>8. \A k \in 1..n : /\ rest[k - 1] \in SUBSET S
                        /\ FirstOf(rest[k - 1]) \in rest[k - 1]
                        /\ \A x \in rest[k - 1] : Earlier(FirstOf(rest[k - 1]), x)
    <2> TAKE k \in 1..n
    <2>1. rest[k - 1] \in SUBSET S /\ Cardinality(rest[k - 1]) = n - (k - 1)
      BY <1>1, <1>7
    <2>2. Spanned(rest[k - 1])
      BY <2>1, FS_Subset DEF Spanned
    <2>3. rest[k - 1] # {}
      BY <1>1, <2>1, FS_EmptySet
    <2> QED BY <2>1, <2>2, <2>3, FirstExists
  <1>9. \A k \in Nat : k <= n => \A i \in 1..k : rest[k] \subseteq rest[i]
    <2> DEFINE Ok == {k \in Nat : k <= n => \A i \in 1..k : rest[k] \subseteq rest[i]}
    <2>1. 0 \in Ok
      OBVIOUS
    <2>2. ASSUME NEW k \in Nat, k \in Ok PROVE k + 1 \in Ok
      <3> SUFFICES ASSUME k + 1 <= n, NEW i \in 1..(k + 1)
                   PROVE  rest[k + 1] \subseteq rest[i]
        OBVIOUS
      <3>1. CASE i = k + 1
        BY <3>1
      <3>2. CASE i \in 1..k
        <4>1. rest[k] \subseteq rest[i]
          BY <1>1, <2>2, <3>2
        <4>2. rest[k + 1] \subseteq rest[k]
          BY <1>1, <1>6
        <4> QED BY <4>1, <4>2
      <3> QED BY <3>1, <3>2
    <2> HIDE DEF Ok
    <2>3. Nat \subseteq Ok
      BY <2>1, <2>2, EveryNumber
    <2> QED BY <2>3 DEF Ok
  <1>10. ASSUME NEW x \in S PROVE \E i \in 1..n : FirstOf(rest[i - 1]) = x
    <2> SUFFICES ASSUME \A i \in 1..n : FirstOf(rest[i - 1]) # x PROVE FALSE
      OBVIOUS
    <2> DEFINE Ok == {k \in Nat : k <= n => x \in rest[k]}
    <2>1. 0 \in Ok
      BY <1>6
    <2>2. ASSUME NEW k \in Nat, k \in Ok PROVE k + 1 \in Ok
      <3> SUFFICES ASSUME k + 1 <= n PROVE x \in rest[k + 1]
        OBVIOUS
      <3>1. x \in rest[k] /\ k + 1 \in 1..n /\ (k + 1) - 1 = k
        BY <1>1, <2>2
      <3>2. FirstOf(rest[k]) # x
        BY <3>1
      <3>3. rest[k + 1] = rest[k] \ {FirstOf(rest[k])}
        BY <1>6, <3>1
      <3> QED BY <3>1, <3>2, <3>3
    <2> HIDE DEF Ok
    <2>3. n \in Ok
      BY <1>1, <2>1, <2>2, EveryNumber
    <2>4. x \in rest[n]
      BY <1>1, <2>3 DEF Ok
    <2>5. rest[n] = {}
      <3>1. rest[n] \in SUBSET S /\ Cardinality(rest[n]) = 0
        BY <1>1, <1>7
      <3> QED BY <1>1, <3>1, FS_Subset, FS_EmptySet
    <2> QED BY <2>4, <2>5
  <1>11. ASSUME NEW i \in 1..n, NEW j \in 1..n, i < j
         PROVE  /\ FirstOf(rest[i - 1]) # FirstOf(rest[j - 1])
                /\ Earlier(FirstOf(rest[i - 1]), FirstOf(rest[j - 1]))
    <2>1. rest[j - 1] \subseteq rest[i]
      BY <1>1, <1>9, <1>11
    <2>2. rest[i] = rest[i - 1] \ {FirstOf(rest[i - 1])}
      BY <1>6
    <2> QED BY <1>8, <2>1, <2>2
  <1>12. Sorted(S) \in Seq(S) /\ Len(Sorted(S)) = n
    BY <1>1, <1>5, <1>8
  <1>13. \A i \in 1..n : Sorted(S)[i] = FirstOf(rest[i - 1])
    BY <1>5
  <1>14. \A x \in S : \E i \in 1..n : Sorted(S)[i] = x
    BY <1>10, <1>13
  <1>15. \A i, j \in 1..n : i < j => Sorted(S)[i] # Sorted(S)[j] /\ Earlier(Sorted(S)[i], Sorted(S)[j])
    BY <1>11, <1>13
  <1> QED BY <1>12, <1>14, <1>15 DEF SortedFacts, n

\* The powers of two are what they are defined to be.
LEMMA PowersOfTwo ==
    /\ Pow2 \in [Nat -> Nat \ {0}]
    /\ Pow2[0] = 1
    /\ \A k \in Nat : Pow2[k + 1] = 2 * Pow2[k]
  <1> DEFINE P == Nat \ {0}
             Rec(f, n) == f \in [0..n -> P] /\ f[0] = 1 /\ \A i \in 1..n : f[i] = 2 * f[i - 1]
             First(n) == CHOOSE f : Rec(f, n)
             F(f) == f = [k \in Nat |-> IF k = 0 THEN 1 ELSE 2 * f[k - 1]]
  <1>1. \A n \in Nat : \E f : Rec(f, n)
    <2> TAKE n \in Nat
    <2> DEFINE G == [i \in 1..n |-> [x \in P |-> 2 * x]]
    <2>1. G \in [1..n -> [P -> P]] /\ 1 \in P /\ \A i \in 1..n : \A x \in P : G[i][x] = 2 * x
      OBVIOUS
    <2> HIDE DEF G, P
    <2>2. PICK f : Recursive(f, P, 1, n, G)
      BY <2>1, RecursionExists
    <2>3. \A i \in 1..n : f[i - 1] \in P
      BY <2>2 DEF Recursive
    <2>4. Rec(f, n)
      BY <2>1, <2>2, <2>3 DEF Recursive
    <2> QED BY <2>4
  <1>2. \A n \in Nat : Rec(First(n), n)
    BY <1>1
  <1> HIDE DEF First
  <1>3. \A n \in Nat : First(n + 1)[n] = First(n)[n]
    <2> TAKE n \in Nat
    <2> DEFINE Ok == {k \in Nat : k <= n => First(n + 1)[k] = First(n)[k]}
    <2>1. 0 \in Ok
      <3>1. First(n + 1)[0] = 1 /\ First(n)[0] = 1
        <4>1. n + 1 \in Nat
          OBVIOUS
        <4> QED BY <1>2, <4>1
      <3> QED BY <3>1
    <2>2. ASSUME NEW k \in Nat, k \in Ok PROVE k + 1 \in Ok
      <3> SUFFICES ASSUME k + 1 <= n PROVE First(n + 1)[k + 1] = First(n)[k + 1]
        OBVIOUS
      <3>1. k + 1 \in 1..n /\ k + 1 \in 1..(n + 1) /\ (k + 1) - 1 = k /\ First(n + 1)[k] = First(n)[k]
        BY <2>2
      <3>2. First(n + 1)[k + 1] = 2 * First(n + 1)[k]
        BY <1>2, <3>1
      <3>3. First(n)[k + 1] = 2 * First(n)[k]
        BY <1>2, <3>1
      <3> QED BY <3>1, <3>2, <3>3
    <2> HIDE DEF Ok
    <2>3. n \in Ok
      BY <2>1, <2>2, EveryNumber
    <2> QED BY <2>3 DEF Ok
  <1>4. \E f : F(f)
    <2> DEFINE f == [n \in Nat |-> First(n)[n]]
    <2>1. f[0] = 1
      BY <1>2
    <2>2. ASSUME NEW n \in Nat, n # 0 PROVE f[n] = 2 * f[n - 1]
      <3>1. n - 1 \in Nat /\ (n - 1) + 1 = n /\ n \in 1..n
        BY <2>2
      <3>2. First(n)[n] = 2 * First(n)[n - 1]
        BY <1>2, <3>1
      <3>3. First(n)[n - 1] = First(n - 1)[n - 1]
        BY <1>3, <3>1
      <3> QED BY <3>1, <3>2, <3>3
    <2>3. F(f)
      <3>1. f = [k \in Nat |-> f[k]]
        OBVIOUS
      <3> HIDE DEF f
      <3> QED BY <2>1, <2>2, <3>1
    <2> QED BY <2>3
  <1>5. F(Pow2)
    <2>1. Pow2 = CHOOSE f : F(f)
      BY DEF Pow2
    <2> HIDE DEF F
    <2> QED BY <1>4, <2>1
  <1>6. \A k \in Nat : Pow2[k] = IF k = 0 THEN 1 ELSE 2 * Pow2[k - 1]
    BY <1>5
  <1>6a. DOMAIN Pow2 = Nat /\ Pow2 = [k \in Nat |-> Pow2[k]]
    BY <1>5
  <1> HIDE DEF F
  <1>7. Pow2[0] = 1
    BY <1>6
  <1>8. \A k \in Nat : Pow2[k + 1] = 2 * Pow2[k]
    <2> TAKE k \in Nat
    <2>1. k + 1 \in Nat /\ k + 1 # 0 /\ (k + 1) - 1 = k
      OBVIOUS
    <2> QED BY <1>6, <2>1
  <1>9. \A k \in Nat : Pow2[k] \in P
    <2> DEFINE Ok == {k \in Nat : Pow2[k] \in P}
    <2>1. 0 \in Ok
      BY <1>7
    <2>2. \A k \in Nat : k \in Ok => k + 1 \in Ok
      BY <1>8
    <2> HIDE DEF Ok
    <2>3. Nat \subseteq Ok
      BY <2>1, <2>2, EveryNumber
    <2> QED BY <2>3 DEF Ok
  <1> QED BY <1>6a, <1>7, <1>8, <1>9

(***************************************************************************)
(* The arithmetic of ranges. For every width of an address and all lists:  *)
(* Collapse, Subtract, the two searches and Prefixes answer with exactly   *)
(* the addresses that they should. The invariant says of each pass how far *)
(* it is and that what it has returned is right up to there.               *)
(***************************************************************************)

LEMMA WordFacts ==
    /\ Top \in Nat /\ Pow2[Word] = Top + 1
    /\ \A x, y \in Nat : x + y <= Top => Add(x, y) = x + y
    /\ \A r \in Ranges : r.lo \in Nat /\ r.hi \in Nat /\ r.lo <= r.hi /\ r.hi <= Top
    /\ \A lo, hi \in Nat : lo <= hi /\ hi <= Top =>
          From(lo, hi) \in Ranges /\ From(lo, hi).lo = lo /\ From(lo, hi).hi = hi
  <1>1. Word \in Nat /\ Pow2[Word] \in Nat \ {0}
    BY RangeConstants, PowersOfTwo
  <1>2. Top \in Nat /\ Pow2[Word] = Top + 1
    BY <1>1 DEF Top
  <1>3. ASSUME NEW x \in Nat, NEW y \in Nat, x + y <= Top PROVE Add(x, y) = x + y
    <2> DEFINE m == Pow2[Word]
               z == x + y
    <2>1. m \in Nat \ {0} /\ z \in Nat /\ z < m
      BY <1>1, <1>2, <1>3
    <2> HIDE DEF m, z
    <2>2. z % m = z
      BY <2>1
    <2> QED BY <2>2 DEF Add, m, z
  <1> QED BY <1>2, <1>3 DEF Ranges, From

Member(list, v) == \E i \in 1..Len(list) : list[i].lo <= v /\ v <= list[i].hi

\* Ranges in order, with an address or more between two of them.
Apart(list) ==
    /\ list \in Seq(Ranges)
    /\ \A i, j \in 1..Len(list) : i < j => list[i].hi + 1 < list[j].lo

LEMMA ListTyped ==
    ASSUME NEW list \in Seq(Ranges)
    PROVE  /\ Len(list) \in Nat /\ DOMAIN list = 1..Len(list)
           /\ \A i \in 1..Len(list) : /\ list[i] \in Ranges /\ list[i].lo \in Nat /\ list[i].hi \in Nat
                                      /\ list[i].lo <= list[i].hi /\ list[i].hi <= Top
  <1>1. \A i \in 1..Len(list) : list[i] \in Ranges
    OBVIOUS
  <1> QED BY <1>1, WordFacts

LEMMA MembersCovered ==
    ASSUME NEW list \in Seq(Ranges)
    PROVE  Members(list) = {v \in 0..Top : Member(list, v)}
  <1>1. Members(list) = UNION {list[i].lo..list[i].hi : i \in 1..Len(list)}
    BY DEF Members, ToSet
  <1>2. \A v : v \in Members(list) <=> \E i \in 1..Len(list) : v \in list[i].lo..list[i].hi
    BY <1>1
  <1>3. \A v, i : i \in 1..Len(list) => (v \in list[i].lo..list[i].hi <=> v \in 0..Top /\ list[i].lo <= v /\ v <= list[i].hi)
    BY ListTyped, WordFacts
  <1> QED BY <1>2, <1>3 DEF Member

\* A range after all the others.
LEMMA RangeAdded ==
    ASSUME NEW list, Apart(list), NEW r \in Ranges,
           \A i \in 1..Len(list) : list[i].hi + 1 < r.lo
    PROVE  LET next == Append(list, r) IN
           /\ Apart(next) /\ next # <<>> /\ Len(next) = Len(list) + 1 /\ next[Len(next)] = r
           /\ \A i \in 1..Len(list) : next[i] = list[i]
           /\ \A v : Member(next, v) <=> Member(list, v) \/ (r.lo <= v /\ v <= r.hi)
  <1> DEFINE next == Append(list, r)
             L == Len(list)
  <1>1. list \in Seq(Ranges) /\ L \in Nat
    BY DEF Apart
  <1>2. next \in Seq(Ranges) /\ Len(next) = L + 1 /\ next[L + 1] = r /\ \A i \in 1..L : next[i] = list[i]
    BY <1>1
  <1> HIDE DEF next
  <1>3. \A i \in 1..(L + 1) : i = L + 1 \/ i \in 1..L
    BY <1>1
  <1>4. Apart(next)
    <2> SUFFICES ASSUME NEW i \in 1..(L + 1), NEW j \in 1..(L + 1), i < j PROVE next[i].hi + 1 < next[j].lo
      BY <1>2 DEF Apart
    <2>1. i \in 1..L
      BY <1>1
    <2>2. CASE j \in 1..L
      BY <1>2, <2>1, <2>2 DEF Apart
    <2>3. CASE j = L + 1
      BY <1>2, <2>1, <2>3
    <2> QED BY <1>3, <2>2, <2>3
  <1>5. \A v : Member(next, v) <=> Member(list, v) \/ (r.lo <= v /\ v <= r.hi)
    <2>1. L + 1 \in 1..(L + 1) /\ \A i \in 1..L : i \in 1..(L + 1)
      BY <1>1
    <2> QED BY <1>2, <1>3, <2>1 DEF Member
  <1>6. next # <<>>
    BY <1>1, <1>2
  <1> QED BY <1>2, <1>4, <1>5, <1>6 DEF next

\* One range joined to a list that starts no later.
LEMMA RangeJoined ==
    ASSUME NEW out, Apart(out), NEW r \in Ranges,
           out # <<>> => out[Len(out)].lo <= r.lo
    PROVE  LET next == Join(out, r) IN
           /\ Apart(next) /\ next # <<>> /\ next[Len(next)].lo <= r.lo
           /\ \A v \in Nat : Member(next, v) <=> Member(out, v) \/ (r.lo <= v /\ v <= r.hi)
  <1> DEFINE next == Join(out, r)
             L == Len(out)
             last == out[L]
  <1>1. out \in Seq(Ranges) /\ L \in Nat /\ r.lo \in Nat /\ r.hi \in Nat /\ r.lo <= r.hi /\ r.hi <= Top /\ Top \in Nat
    BY WordFacts DEF Apart
  <1>2. \A i \in 1..L : /\ out[i] \in Ranges /\ out[i].lo \in Nat /\ out[i].hi \in Nat
                        /\ out[i].lo <= out[i].hi /\ out[i].hi <= Top
    BY <1>1, ListTyped
  <1>3. CASE out = <<>> \/ ~touches(Last(out), r)
    <2>1. next = Append(out, r)
      BY <1>3 DEF Join
    <2>2. \A i \in 1..L : out[i].hi + 1 < r.lo
      <3> SUFFICES ASSUME NEW i \in 1..L PROVE out[i].hi + 1 < r.lo
        OBVIOUS
      <3>1. out # <<>> /\ L \in 1..L
        BY <1>1
      <3>2. Last(out) = last
        BY <1>1, <3>1, LastOne
      <3>3. ~touches(last, r)
        BY <1>3, <3>1, <3>2
      <3>4. r.lo > last.hi
        BY <1>1, <1>2, <3>1, <3>3 DEF touches
      <3>5. last.hi # Top
        BY <1>1, <1>2, <3>1, <3>4
      <3>6. Add(last.hi, 1) = last.hi + 1
        <4>1. last.hi + 1 <= Top /\ last.hi \in Nat /\ 1 \in Nat
          BY <1>1, <1>2, <3>1, <3>5
        <4> QED BY <4>1, WordFacts
      <3>7. r.lo # last.hi + 1
        BY <3>3, <3>5, <3>6 DEF touches
      <3>8. last.hi + 1 < r.lo
        BY <1>1, <1>2, <3>1, <3>4, <3>7
      <3>9. CASE i = L
        BY <3>8, <3>9
      <3>10. CASE i < L
        <4>1. out[i].hi + 1 < last.lo
          BY <3>1, <3>10 DEF Apart
        <4> QED BY <1>1, <1>2, <3>1, <3>8, <4>1
      <3> QED BY <1>1, <3>9, <3>10
    <2> HIDE DEF next
    <2>3. /\ Apart(next) /\ next # <<>> /\ next[Len(next)] = r
          /\ \A v : Member(next, v) <=> Member(out, v) \/ (r.lo <= v /\ v <= r.hi)
      BY <2>1, <2>2, RangeAdded
    <2> QED BY <1>1, <2>3 DEF next
  <1>4. CASE out # <<>> /\ touches(Last(out), r)
    <2> DEFINE hi == IF r.hi > last.hi THEN r.hi ELSE last.hi
               joined == From(last.lo, hi)
    <2>1. /\ L \in Nat \ {0} /\ L \in 1..L /\ Last(out) = last
          /\ Front(out) \in Seq(Ranges) /\ Len(Front(out)) = L - 1
          /\ \A i \in 1..(L - 1) : Front(out)[i] = out[i]
      <3>1. out # <<>> /\ out \in Seq(Ranges)
        BY <1>1, <1>4
      <3>2. /\ Len(out) \in Nat \ {0} /\ Last(out) = out[Len(out)]
            /\ Front(out) \in Seq(Ranges) /\ Len(Front(out)) = Len(out) - 1
            /\ \A i \in 1..(Len(out) - 1) : Front(out)[i] = out[i]
        BY <3>1, LastOne
      <3> QED BY <3>2
    <2>2. next = Append(Front(out), joined)
      BY <1>4, <2>1 DEF Join
    <2>3. last.lo \in Nat /\ last.hi \in Nat /\ last.lo <= last.hi /\ last.hi <= Top /\ last.lo <= r.lo
      BY <1>2, <1>4, <2>1
    <2>4. hi \in Nat /\ last.lo <= hi /\ hi <= Top /\ last.hi <= hi /\ r.hi <= hi /\ (hi = r.hi \/ hi = last.hi)
      BY <1>1, <2>3
    <2>5. r.lo <= last.hi + 1
      <3>1. touches(last, r)
        BY <1>4, <2>1
      <3>2. last.hi # Top => Add(last.hi, 1) = last.hi + 1
        <4> SUFFICES ASSUME last.hi # Top PROVE Add(last.hi, 1) = last.hi + 1
          OBVIOUS
        <4>1. last.hi + 1 <= Top /\ last.hi \in Nat /\ 1 \in Nat
          BY <1>1, <2>3
        <4> QED BY <4>1, WordFacts
      <3> QED BY <1>1, <2>3, <3>1, <3>2 DEF touches
    <2> HIDE DEF hi
    <2>6. joined \in Ranges /\ joined.lo = last.lo /\ joined.hi = hi
      BY <2>3, <2>4, WordFacts
    <2> HIDE DEF joined, next
    <2>7. /\ next \in Seq(Ranges) /\ Len(next) = L /\ next[L] = joined
          /\ \A i \in 1..(L - 1) : next[i] = out[i]
      BY <2>1, <2>2, <2>6
    <2>8. \A i \in 1..L : i = L \/ i \in 1..(L - 1)
      BY <2>1
    <2>9. Apart(next)
      <3> SUFFICES ASSUME NEW i \in 1..L, NEW j \in 1..L, i < j PROVE next[i].hi + 1 < next[j].lo
        BY <2>7 DEF Apart
      <3>1. i \in 1..(L - 1) /\ out[i].hi + 1 < out[j].lo
        BY <2>1 DEF Apart
      <3>2. next[j].lo = out[j].lo
        BY <2>6, <2>7, <2>8
      <3> QED BY <2>7, <3>1, <3>2
    <2>10. ASSUME NEW v \in Nat PROVE Member(next, v) <=> Member(out, v) \/ (r.lo <= v /\ v <= r.hi)
      <3>1. (joined.lo <= v /\ v <= joined.hi) <=> (last.lo <= v /\ v <= last.hi) \/ (r.lo <= v /\ v <= r.hi)
        BY <1>1, <2>3, <2>4, <2>5, <2>6
      <3> QED BY <2>1, <2>7, <2>8, <3>1 DEF Member
    <2>11. next # <<>>
      BY <2>1, <2>7
    <2>12. next[Len(next)].lo <= r.lo
      BY <2>3, <2>6, <2>7
    <2> QED BY <2>9, <2>10, <2>11, <2>12 DEF next
  <1> QED BY <1>3, <1>4

\* Collapse: the same addresses, in ranges that lie apart.
LEMMA CollapseRight ==
    ASSUME NEW list \in Seq(Ranges)
    PROVE  Apart(Collapse(list)) /\ \A v \in Nat : Member(Collapse(list), v) <=> Member(list, v)
  <1> DEFINE S == ToSet(list)
             s == Sorted(S)
             n == Len(s)
             F(f) == f = [k \in 0..n |-> IF k = 0 THEN <<>> ELSE Join(f[k - 1], s[k])]
             m == CHOOSE f : F(f)
             Among(k, v) == \E i \in 1..k : s[i].lo <= v /\ v <= s[i].hi
  <1>1. \A x : x \in S <=> \E i \in 1..Len(list) : x = list[i]
    BY ListTyped DEF ToSet
  <1>2. S \subseteq Ranges /\ Spanned(S)
    <2>1. S \subseteq Ranges
      BY <1>1, ListTyped
    <2>2. IsFiniteSet(S)
      <3> DEFINE f == [i \in 1..Len(list) |-> list[i]]
      <3>1. f \in [1..Len(list) -> S] /\ \A x \in S : \E i \in 1..Len(list) : f[i] = x
        BY <1>1
      <3> HIDE DEF S, f
      <3>2. f \in Surjection(1..Len(list), S)
        BY <3>1 DEF Surjection
      <3>3. 1 \in Int /\ Len(list) \in Int
        OBVIOUS
      <3>4. IsFiniteSet(1..Len(list))
        BY <3>3, FS_Interval
      <3> QED BY <3>2, <3>4, FS_Surjection
    <2> QED BY <2>1, <2>2, WordFacts DEF Spanned
  <1>3. Collapse(list) = m[n]
    BY DEF Collapse
  <1> HIDE DEF S
  <1>4. SortedFacts(S, s)
    BY <1>2, SortedRight
  <1> HIDE DEF s
  <1>5. s \in Seq(Ranges) /\ n \in Nat
    <2>1. s \in Seq(S)
      BY <1>4 DEF SortedFacts
    <2> QED BY <1>2, <2>1
  <1>6. \A i \in 1..n : s[i] \in Ranges /\ s[i] \in S
    BY <1>4, <1>5 DEF SortedFacts
  <1>7. \A i, j \in 1..n : i < j => s[i].lo <= s[j].lo
    <2>1. \A i \in 1..n : s[i].lo \in Nat /\ s[i].hi \in Nat
      BY <1>6, WordFacts
    <2>2. \A i, j \in 1..n : i < j => Earlier(s[i], s[j])
      BY <1>4 DEF SortedFacts
    <2> QED BY <2>1, <2>2 DEF Earlier
  <1> HIDE DEF n
  <1>8. \E f : F(f)
    <2> DEFINE T == {out \in Seq(Ranges) : \A i \in 1..Len(out) : out[i] \in Ranges}
               G == [k \in 1..n |-> [r \in T |-> Join(r, s[k])]]
               none == <<>>
    <2>1. ASSUME NEW r \in T, NEW k \in 1..n PROVE Join(r, s[k]) \in T
      <3>1. r \in Seq(Ranges) /\ s[k] \in Ranges
        BY <1>6
      <3> HIDE DEF T
      <3>2. Join(r, s[k]) \in Seq(Ranges)
        <4>1. CASE r = <<>> \/ ~touches(Last(r), s[k])
          BY <3>1, <4>1 DEF Join
        <4>2. CASE ~(r = <<>> \/ ~touches(Last(r), s[k]))
          <5> DEFINE hi == IF s[k].hi > Last(r).hi THEN s[k].hi ELSE Last(r).hi
          <5>1. Last(r) \in Ranges /\ Front(r) \in Seq(Ranges)
            BY <3>1, <4>2, LastOne
          <5>2. hi \in Nat /\ Last(r).lo \in Nat /\ Last(r).lo <= hi /\ hi <= Top
            <6>1. /\ Last(r).lo \in Nat /\ Last(r).hi \in Nat /\ Last(r).lo <= Last(r).hi /\ Last(r).hi <= Top
                  /\ s[k].hi \in Nat /\ s[k].hi <= Top /\ Top \in Nat
              BY <3>1, <5>1, WordFacts
            <6> QED BY <6>1
          <5>3. Join(r, s[k]) = Append(Front(r), From(Last(r).lo, hi))
            BY <4>2 DEF Join
          <5> HIDE DEF hi
          <5>4. From(Last(r).lo, hi) \in Ranges
            BY <5>2, WordFacts
          <5> QED BY <5>1, <5>3, <5>4
        <4> QED BY <4>1, <4>2
      <3> QED BY <3>2, ListTyped DEF T
    <2>2. G \in [1..n -> [T -> T]]
      BY <2>1
    <2>3. none \in T
      OBVIOUS
    <2>4. \A k \in 1..n : \A r \in T : G[k][r] = Join(r, s[k])
      OBVIOUS
    <2> HIDE DEF T, G, none, F
    <2>5. n \in Nat
      BY <1>5 DEF n
    <2>6. PICK f : Recursive(f, T, none, n, G)
      BY <2>2, <2>3, <2>5, RecursionExists
    <2>7. \A i \in 1..n : f[i - 1] \in T /\ f[i] = Join(f[i - 1], s[i])
      BY <2>4, <2>5, <2>6 DEF Recursive
    <2>8. F(f)
      BY <2>5, <2>6, <2>7 DEF Recursive, F, none
    <2> QED BY <2>8
  <1>9. F(m)
    BY <1>8
  <1> HIDE DEF m
  <1>10. n \in Nat /\ m[0] = <<>> /\ \A i \in 1..n : m[i] = Join(m[i - 1], s[i])
    <2>1. \A k \in 0..n : m[k] = IF k = 0 THEN <<>> ELSE Join(m[k - 1], s[k])
      BY <1>9
    <2> HIDE DEF F
    <2>2. n \in Nat
      BY <1>5 DEF n
    <2>3. 0 \in 0..n /\ \A i \in 1..n : i \in 0..n /\ i # 0
      BY <2>2
    <2> QED BY <2>1, <2>2, <2>3
  <1> HIDE DEF F
  <1> DEFINE Good(k) == /\ Apart(m[k])
                        /\ m[k] # <<>> => k \in 1..n /\ m[k][Len(m[k])].lo <= s[k].lo
                        /\ \A v \in Nat : Member(m[k], v) <=> Among(k, v)
             Ok == {k \in Nat : k <= n => Good(k)}
  <1>11. 0 \in Ok
    <2>1. Apart(<<>>) /\ \A v : ~Member(<<>>, v) /\ ~Among(0, v)
      BY DEF Apart, Member
    <2> QED BY <1>10, <2>1
  <1>12. ASSUME NEW k \in Nat, k \in Ok PROVE k + 1 \in Ok
    <2> SUFFICES ASSUME k + 1 <= n PROVE Good(k + 1)
      OBVIOUS
    <2>1. Good(k)
      BY <1>10, <1>12
    <2>2. k + 1 \in 1..n /\ (k + 1) - 1 = k
      BY <1>10
    <2> DEFINE out == m[k]
               r == s[k + 1]
               next == m[k + 1]
    <2>3. Apart(out) /\ r \in Ranges
      BY <1>6, <2>1, <2>2
    <2>4. out # <<>> => out[Len(out)].lo <= r.lo
      <3> SUFFICES ASSUME out # <<>> PROVE out[Len(out)].lo <= r.lo
        OBVIOUS
      <3>1. k \in 1..n /\ out[Len(out)].lo <= s[k].lo
        BY <2>1
      <3>2. s[k].lo <= r.lo
        BY <1>7, <2>2, <3>1
      <3>3. s[k].lo \in Nat /\ r.lo \in Nat /\ out[Len(out)].lo \in Nat
        <4>1. out \in Seq(Ranges)
          BY <2>3 DEF Apart
        <4>2. Last(out) = out[Len(out)] /\ Last(out) \in Ranges
          BY <4>1, LastOne
        <4> HIDE DEF out, r
        <4>3. s[k] \in Ranges /\ r \in Ranges /\ out[Len(out)] \in Ranges
          BY <1>6, <2>3, <3>1, <4>2
        <4> QED BY <4>3, WordFacts
      <3> QED BY <3>1, <3>2, <3>3
    <2>5. next = Join(out, r)
      BY <1>10, <2>2
    <2> HIDE DEF next, out, r
    <2>6. /\ Apart(next) /\ next # <<>> /\ next[Len(next)].lo <= r.lo
          /\ \A v \in Nat : Member(next, v) <=> Member(out, v) \/ (r.lo <= v /\ v <= r.hi)
      BY <2>3, <2>4, <2>5, RangeJoined
    <2>7. ASSUME NEW v \in Nat PROVE Member(next, v) <=> Among(k + 1, v)
      <3>1. Member(out, v) <=> Among(k, v)
        BY <2>1 DEF out
      <3>2. \A i \in Nat : i \in 1..(k + 1) <=> i \in 1..k \/ i = k + 1
        OBVIOUS
      <3>3. Among(k + 1, v) <=> Among(k, v) \/ (r.lo <= v /\ v <= r.hi)
        BY <2>2, <3>2 DEF r
      <3> QED BY <2>6, <3>1, <3>3
    <2> QED BY <2>2, <2>6, <2>7 DEF next, r
  <1> HIDE DEF Ok
  <1>13. n \in Ok
    BY <1>10, <1>11, <1>12, EveryNumber
  <1>14. Good(n)
    BY <1>10, <1>13 DEF Ok
  <1>15. \A v \in Nat : Among(n, v) <=> Member(list, v)
    <2>1. \A x \in S : \E i \in 1..n : s[i] = x
      BY <1>4 DEF SortedFacts, n
    <2>2. \A i \in 1..n : \E j \in 1..Len(list) : s[i] = list[j]
      BY <1>1, <1>6
    <2>3. \A j \in 1..Len(list) : \E i \in 1..n : s[i] = list[j]
      BY <1>1, <2>1
    <2> QED BY <2>2, <2>3 DEF Member
  <1> QED BY <1>3, <1>14, <1>15

\* A list that is in order needs no more; one that ends with the address space
\* is not tested, as none that is removed does.
LEMMA NormalizedRight ==
    ASSUME NEW list \in Seq(Ranges), \A i \in 1..Len(list) : list[i].hi # Top
    PROVE  Apart(Normalized(list)) /\ \A v \in Nat : Member(Normalized(list), v) <=> Member(list, v)
  <1> DEFINE L == Len(list)
  <1>1. CASE ~isNormalized(list)
    BY <1>1, CollapseRight DEF Normalized
  <1>2. CASE isNormalized(list)
    <2>1. Normalized(list) = list
      BY <1>2 DEF Normalized
    <2>2. L \in Nat /\ \A i \in 1..L : list[i].lo \in Nat /\ list[i].hi \in Nat /\ list[i].lo <= list[i].hi /\ list[i].hi <= Top
      BY ListTyped
    <2>3. ASSUME NEW k \in 1..L, k > 1 PROVE list[k - 1].hi + 1 < list[k].lo
      <3>1. ~(list[k].lo <= Add(list[k - 1].hi, 1))
        BY <1>2, <2>2, <2>3, ListTyped DEF isNormalized
      <3>2. k - 1 \in 1..L
        BY <2>2, <2>3
      <3>3. Add(list[k - 1].hi, 1) = list[k - 1].hi + 1
        <4>1. list[k - 1].hi \in Nat /\ 1 \in Nat /\ list[k - 1].hi + 1 <= Top
          BY <2>2, <3>2, WordFacts
        <4> QED BY <4>1, WordFacts
      <3> QED BY <2>2, <3>1, <3>2, <3>3
    <2> DEFINE Ok == {n \in Nat : \A i, j \in 1..L : i < j /\ j <= n => list[i].hi + 1 < list[j].lo}
    <2>4. 0 \in Ok
      OBVIOUS
    <2>5. ASSUME NEW n \in Nat, n \in Ok PROVE n + 1 \in Ok
      <3> SUFFICES ASSUME NEW i \in 1..L, NEW j \in 1..L, i < j, j <= n + 1
                   PROVE  list[i].hi + 1 < list[j].lo
        OBVIOUS
      <3>1. CASE j <= n
        BY <2>5, <3>1
      <3>2. CASE j = n + 1
        <4>1. j - 1 \in 1..L /\ list[j - 1].hi + 1 < list[j].lo
          BY <2>2, <2>3
        <4>2. CASE i = j - 1
          BY <4>1, <4>2
        <4>3. CASE i < j - 1
          <5>1. list[i].hi + 1 < list[j - 1].lo
            BY <2>5, <3>2, <4>1, <4>3
          <5> QED BY <2>2, <4>1, <5>1
        <4> QED BY <4>2, <4>3
      <3> QED BY <3>1, <3>2
    <2> HIDE DEF Ok
    <2>6. L \in Ok
      BY <2>2, <2>4, <2>5, EveryNumber
    <2>7. Apart(list)
      BY <2>2, <2>6 DEF Ok, Apart
    <2> QED BY <2>1, <2>7
  <1> QED BY <1>1, <1>2

\* How far Subtract is: the span s, the cut c and the address cur; what it has
\* returned are the addresses before, that are in a span and in no cut.
Subtracted(sp, cu, out, s, c, cur) ==
    /\ Apart(sp) /\ Apart(cu) /\ Apart(out)
    /\ s \in 1..(Len(sp) + 1) /\ c \in 1..(Len(cu) + 1) /\ cur \in Nat
    /\ s <= Len(sp) => /\ sp[s].lo <= cur /\ cur <= sp[s].hi
                       /\ \A i \in 1..Len(out) : out[i].hi + 1 < cur
                       /\ \A i \in 1..(c - 1) : cu[i].hi < cur
    /\ \A v \in 0..Top : Member(out, v) <=> /\ Member(sp, v) /\ ~Member(cu, v)
                                            /\ s <= Len(sp) => v < cur

StartOf(sp, s) == IF s <= Len(sp) THEN sp[s].lo ELSE 0

LEMMA SubtractedTyped ==
    ASSUME NEW sp, NEW cu, NEW out, NEW s, NEW c, NEW cur, Subtracted(sp, cu, out, s, c, cur)
    PROVE  /\ Len(sp) \in Nat /\ Len(cu) \in Nat /\ Len(out) \in Nat /\ s \in Nat /\ c \in Nat /\ Top \in Nat
           /\ \A i \in 1..Len(sp) : /\ sp[i] \in Ranges /\ sp[i].lo \in Nat /\ sp[i].hi \in Nat
                                    /\ sp[i].lo <= sp[i].hi /\ sp[i].hi <= Top
           /\ \A i \in 1..Len(cu) : /\ cu[i] \in Ranges /\ cu[i].lo \in Nat /\ cu[i].hi \in Nat
                                    /\ cu[i].lo <= cu[i].hi /\ cu[i].hi <= Top
           /\ \A i \in 1..Len(out) : /\ out[i] \in Ranges /\ out[i].lo \in Nat /\ out[i].hi \in Nat
                                     /\ out[i].lo <= out[i].hi /\ out[i].hi <= Top
  <1>1. sp \in Seq(Ranges) /\ cu \in Seq(Ranges) /\ out \in Seq(Ranges)
    BY DEF Subtracted, Apart
  <1>2. s \in 1..(Len(sp) + 1) /\ c \in 1..(Len(cu) + 1)
    BY DEF Subtracted
  <1> QED BY <1>1, <1>2, ListTyped, WordFacts

\* Within the span that is reached, and up to its end.
LEMMA SpanAt ==
    ASSUME NEW sp, Apart(sp), NEW s \in 1..Len(sp), NEW cur \in Nat, sp[s].lo <= cur, cur <= sp[s].hi
    PROVE  /\ \A v \in 0..Top : cur <= v /\ v <= sp[s].hi => Member(sp, v)
           /\ \A v \in 0..Top : Member(sp, v) /\ v <= sp[s].hi => v < cur \/ (cur <= v /\ v <= sp[s].hi)
           /\ \A v \in 0..Top : Member(sp, v) /\ (s + 1 <= Len(sp) => v < sp[s + 1].lo) => v <= sp[s].hi
           /\ s + 1 <= Len(sp) => sp[s].hi + 1 < sp[s + 1].lo
  <1> DEFINE L == Len(sp)
  <1>1. /\ L \in Nat /\ s \in 1..L /\ cur \in Nat /\ sp[s].lo <= cur /\ cur <= sp[s].hi
        /\ \A i, j \in 1..L : i < j => sp[i].hi + 1 < sp[j].lo
        /\ \A i \in 1..L : sp[i].lo \in Nat /\ sp[i].hi \in Nat /\ sp[i].lo <= sp[i].hi
        /\ Top \in Nat
    <2>1. sp \in Seq(Ranges) /\ \A i, j \in 1..L : i < j => sp[i].hi + 1 < sp[j].lo
      BY DEF Apart
    <2>2. L \in Nat /\ Top \in Nat /\ \A i \in 1..L : sp[i].lo \in Nat /\ sp[i].hi \in Nat /\ sp[i].lo <= sp[i].hi
      BY <2>1, ListTyped, WordFacts
    <2> QED BY <2>1, <2>2
  <1> HIDE DEF L
  <1>2. ASSUME NEW v \in 0..Top, Member(sp, v), s + 1 <= L => v < sp[s + 1].lo PROVE v <= sp[s].hi
    <2>1. PICK i \in 1..L : sp[i].lo <= v /\ v <= sp[i].hi
      BY <1>2 DEF Member, L
    <2>2. ~(i > s)
      <3> SUFFICES ASSUME i > s PROVE FALSE
        OBVIOUS
      <3>1. s + 1 <= L /\ s + 1 \in 1..L /\ v \in Int
        BY <1>1
      <3>2. v < sp[s + 1].lo
        BY <1>2, <3>1
      <3>3. CASE i = s + 1
        BY <1>1, <2>1, <3>1, <3>2, <3>3
      <3>4. CASE i > s + 1
        <4>1. sp[s + 1].hi + 1 < sp[i].lo
          BY <1>1, <3>1, <3>4
        <4>2. sp[s + 1].lo \in Nat /\ sp[s + 1].hi \in Nat /\ sp[s + 1].lo <= sp[s + 1].hi /\ sp[i].lo \in Nat
          BY <1>1, <3>1
        <4> QED BY <2>1, <3>1, <3>2, <4>1, <4>2
      <3>5. i = s + 1 \/ i > s + 1
        <4>1. i \in Nat /\ s \in Nat
          BY <1>1
        <4> QED BY <4>1
      <3> QED BY <3>3, <3>4, <3>5
    <2>3. CASE i = s
      BY <2>1, <2>3
    <2>4. CASE i < s
      <3>1. sp[i].hi + 1 < sp[s].lo
        BY <1>1, <2>4
      <3> QED BY <1>1, <2>1, <3>1
    <2> QED BY <1>1, <2>2, <2>3, <2>4
  <1>3. \A v \in 0..Top : cur <= v /\ v <= sp[s].hi => Member(sp, v)
    <2> SUFFICES ASSUME NEW v \in 0..Top, cur <= v, v <= sp[s].hi PROVE Member(sp, v)
      OBVIOUS
    <2>1. sp[s].lo <= v
      BY <1>1
    <2> QED BY <1>1, <2>1 DEF Member, L
  <1>4. s + 1 <= L => sp[s].hi + 1 < sp[s + 1].lo
    <2> SUFFICES ASSUME s + 1 <= L PROVE sp[s].hi + 1 < sp[s + 1].lo
      OBVIOUS
    <2>1. s + 1 \in 1..L /\ s < s + 1
      BY <1>1
    <2> QED BY <1>1, <2>1
  <1>5. \A v \in 0..Top : v < cur \/ cur <= v
    BY <1>1
  <1> QED BY <1>1, <1>2, <1>3, <1>4, <1>5 DEF L

LEMMA SpanReached ==
    ASSUME NEW sp, NEW cu, NEW out, NEW s, NEW c, NEW cur, Subtracted(sp, cu, out, s, c, cur),
           s <= Len(sp)
    PROVE  /\ s \in 1..Len(sp)
           /\ \A v \in 0..Top : cur <= v /\ v <= sp[s].hi => Member(sp, v)
           /\ \A v \in 0..Top : Member(sp, v) /\ v <= sp[s].hi => v < cur \/ (cur <= v /\ v <= sp[s].hi)
           /\ \A v \in 0..Top : Member(sp, v) /\ (s + 1 <= Len(sp) => v < sp[s + 1].lo) => v <= sp[s].hi
           /\ s + 1 <= Len(sp) => sp[s].hi + 1 < sp[s + 1].lo
  <1>1. Len(sp) \in Nat /\ s \in 1..(Len(sp) + 1)
    BY SubtractedTyped DEF Subtracted
  <1>2. s \in 1..Len(sp)
    BY <1>1
  <1>3. Apart(sp) /\ cur \in Nat /\ sp[s].lo <= cur /\ cur <= sp[s].hi
    BY DEF Subtracted
  <1> QED BY <1>2, <1>3, SpanAt

\* The rest of the span is returned but for the cuts; then comes the next one.
LEMMA SpanEnded ==
    ASSUME NEW sp, NEW cu, NEW out, NEW s, NEW c, NEW cur, Subtracted(sp, cu, out, s, c, cur),
           s <= Len(sp), NEW new, Apart(new),
           \A i \in 1..Len(new) : new[i].hi <= sp[s].hi,
           \A v \in 0..Top : Member(new, v) <=> Member(out, v) \/ (cur <= v /\ v <= sp[s].hi /\ ~Member(cu, v))
    PROVE  Subtracted(sp, cu, new, s + 1, c, StartOf(sp, s + 1))
  <1> DEFINE L == Len(sp)
             next == StartOf(sp, s + 1)
  <1>1. /\ s \in 1..L
        /\ \A v \in 0..Top : cur <= v /\ v <= sp[s].hi => Member(sp, v)
        /\ \A v \in 0..Top : Member(sp, v) /\ v <= sp[s].hi => v < cur \/ (cur <= v /\ v <= sp[s].hi)
        /\ \A v \in 0..Top : Member(sp, v) /\ (s + 1 <= L => v < sp[s + 1].lo) => v <= sp[s].hi
        /\ s + 1 <= L => sp[s].hi + 1 < sp[s + 1].lo
    BY SpanReached
  <1>2. /\ L \in Nat /\ s \in Nat /\ Top \in Nat /\ cur \in Nat /\ cur <= sp[s].hi
        /\ \A i \in 1..L : sp[i].lo \in Nat /\ sp[i].hi \in Nat /\ sp[i].lo <= sp[i].hi
    BY <1>1, SubtractedTyped DEF Subtracted
  <1>3. s + 1 <= L => next = sp[s + 1].lo /\ next \in Nat /\ sp[s].hi + 1 < next /\ sp[s + 1].lo <= next /\ next <= sp[s + 1].hi
    <2> SUFFICES ASSUME s + 1 <= L
                 PROVE  next = sp[s + 1].lo /\ next \in Nat /\ sp[s].hi + 1 < next /\ sp[s + 1].lo <= next /\ next <= sp[s + 1].hi
      OBVIOUS
    <2>1. s + 1 \in 1..L
      BY <1>1, <1>2
    <2> QED BY <1>1, <1>2, <2>1 DEF StartOf
  <1>4. next \in Nat
    BY <1>3 DEF StartOf
  <1>5. s + 1 <= L => /\ \A i \in 1..Len(new) : new[i].hi + 1 < next
                      /\ \A i \in 1..(c - 1) : cu[i].hi < next
    <2> SUFFICES ASSUME s + 1 <= L
                 PROVE  /\ \A i \in 1..Len(new) : new[i].hi + 1 < next
                        /\ \A i \in 1..(c - 1) : cu[i].hi < next
      OBVIOUS
    <2>1. ASSUME NEW i \in 1..Len(new) PROVE new[i].hi + 1 < next
      <3>1. new[i].hi \in Nat
        BY ListTyped DEF Apart
      <3>2. sp[s].hi \in Nat /\ new[i].hi <= sp[s].hi
        BY <1>1, <1>2
      <3> QED BY <1>3, <3>1, <3>2
    <2>2. ASSUME NEW i \in 1..(c - 1) PROVE cu[i].hi < next
      <3>1. cu[i].hi < cur /\ i \in 1..Len(cu)
        BY SubtractedTyped DEF Subtracted
      <3>2. cu[i].hi \in Nat /\ sp[s].hi \in Nat
        BY <1>1, <1>2, <3>1, SubtractedTyped
      <3> QED BY <1>2, <1>3, <3>1, <3>2
    <2> QED BY <2>1, <2>2
  <1>6. ASSUME NEW v \in 0..Top
        PROVE  Member(new, v) <=> Member(sp, v) /\ ~Member(cu, v) /\ (s + 1 <= L => v < next)
    <2>1. Member(out, v) <=> Member(sp, v) /\ ~Member(cu, v) /\ v < cur
      BY DEF Subtracted
    <2>2. v \in Nat /\ sp[s].hi \in Nat
      BY <1>1, <1>2
    <2>3. v < cur \/ (cur <= v /\ v <= sp[s].hi) => v <= sp[s].hi
      BY <1>2, <2>2
    <2>4. v <= sp[s].hi => (s + 1 <= L => v < next)
      BY <1>3, <2>2
    <2>5. Member(sp, v) /\ (s + 1 <= L => v < next) => v <= sp[s].hi
      BY <1>1, <1>3
    <2>6. Member(sp, v) /\ v <= sp[s].hi => v < cur \/ (cur <= v /\ v <= sp[s].hi)
      BY <1>1
    <2>7. cur <= v /\ v <= sp[s].hi => Member(sp, v)
      BY <1>1
    <2>8. Member(new, v) <=> Member(out, v) \/ (cur <= v /\ v <= sp[s].hi /\ ~Member(cu, v))
      OBVIOUS
    <2> QED BY <2>1, <2>3, <2>4, <2>5, <2>6, <2>7, <2>8
  <1>7. s + 1 \in 1..(L + 1) /\ c \in 1..(Len(cu) + 1) /\ Apart(sp) /\ Apart(cu)
    BY <1>1, <1>2 DEF Subtracted
  <1> HIDE DEF next
  <1> QED BY <1>3, <1>4, <1>5, <1>6, <1>7 DEF Subtracted, next

\* A part of the span is passed, up to the end of a cut.
LEMMA CutPassed ==
    ASSUME NEW sp, NEW cu, NEW out, NEW s, NEW c, NEW cur, Subtracted(sp, cu, out, s, c, cur),
           s <= Len(sp), NEW new, Apart(new), NEW end \in Nat, cur <= end, end < sp[s].hi,
           \A i \in 1..Len(new) : new[i].hi < end,
           \A v \in 0..Top : Member(new, v) <=> Member(out, v) \/ (cur <= v /\ v <= end /\ ~Member(cu, v))
    PROVE  Subtracted(sp, cu, new, s, c, end + 1)
  <1> DEFINE L == Len(sp)
  <1>1. /\ s \in 1..L
        /\ \A v \in 0..Top : cur <= v /\ v <= sp[s].hi => Member(sp, v)
    BY SpanReached
  <1>2. /\ L \in Nat /\ s \in Nat /\ Top \in Nat /\ cur \in Nat /\ sp[s].lo <= cur
        /\ sp[s].lo \in Nat /\ sp[s].hi \in Nat
    BY <1>1, SubtractedTyped DEF Subtracted
  <1>3. end + 1 \in Nat /\ sp[s].lo <= end + 1 /\ end + 1 <= sp[s].hi
    BY <1>2
  <1>4. ASSUME NEW i \in 1..Len(new) PROVE new[i].hi + 1 < end + 1
    <2>1. new[i].hi \in Nat /\ new[i].hi < end
      BY ListTyped DEF Apart
    <2> QED BY <2>1
  <1>5. ASSUME NEW i \in 1..(c - 1) PROVE cu[i].hi < end + 1
    <2>1. cu[i].hi < cur /\ i \in 1..Len(cu)
      BY SubtractedTyped DEF Subtracted
    <2>2. cu[i].hi \in Nat
      BY <2>1, SubtractedTyped
    <2> QED BY <1>2, <2>1, <2>2
  <1>6. ASSUME NEW v \in 0..Top
        PROVE  Member(new, v) <=> Member(sp, v) /\ ~Member(cu, v) /\ v < end + 1
    <2>1. Member(out, v) <=> Member(sp, v) /\ ~Member(cu, v) /\ v < cur
      BY DEF Subtracted
    <2>2. v < end + 1 <=> v < cur \/ (cur <= v /\ v <= end)
      BY <1>2
    <2>3. cur <= v /\ v <= end => Member(sp, v)
      <3>1. v <= end => v <= sp[s].hi
        BY <1>2
      <3> QED BY <1>1, <3>1
    <2> QED BY <2>1, <2>2, <2>3
  <1>7. s \in 1..(L + 1) /\ c \in 1..(Len(cu) + 1) /\ Apart(sp) /\ Apart(cu)
    BY DEF Subtracted
  <1> QED BY <1>3, <1>4, <1>5, <1>6, <1>7 DEF Subtracted

\* The four passes of the inner loop.
LEMMA CutSkipped ==
    ASSUME NEW sp, NEW cu, NEW out, NEW s, NEW c, NEW cur, Subtracted(sp, cu, out, s, c, cur),
           s <= Len(sp), c <= Len(cu), cu[c].hi < cur
    PROVE  Subtracted(sp, cu, out, s, c + 1, cur)
  <1>1. Len(cu) \in Nat /\ c \in 1..(Len(cu) + 1)
    BY SubtractedTyped DEF Subtracted
  <1>2. c + 1 \in 1..(Len(cu) + 1)
    BY <1>1
  <1>3. \A i \in 1..((c + 1) - 1) : cu[i].hi < cur
    <2>1. \A i \in 1..((c + 1) - 1) : i = c \/ i \in 1..(c - 1)
      BY <1>1
    <2> QED BY <2>1 DEF Subtracted
  <1> QED BY <1>2, <1>3 DEF Subtracted

\* What the cuts take of the rest of the span.
LEMMA CutsAhead ==
    ASSUME NEW sp, NEW cu, NEW out, NEW s, NEW c, NEW cur, Subtracted(sp, cu, out, s, c, cur),
           s <= Len(sp)
    PROVE  /\ c > Len(cu) => \A v \in 0..Top : cur <= v => ~Member(cu, v)
           /\ c <= Len(cu) => \A v \in 0..Top : cur <= v /\ v < cu[c].lo => ~Member(cu, v)
           /\ c <= Len(cu) => \A v \in 0..Top : cu[c].lo <= v /\ v <= cu[c].hi => Member(cu, v)
  <1> DEFINE C == Len(cu)
  <1>1. /\ C \in Nat /\ c \in 1..(C + 1) /\ cur \in Nat /\ Top \in Nat
        /\ \A i \in 1..C : cu[i].lo \in Nat /\ cu[i].hi \in Nat /\ cu[i].lo <= cu[i].hi
    BY SubtractedTyped DEF Subtracted
  <1>2. \A i \in 1..(c - 1) : cu[i].hi < cur
    BY DEF Subtracted
  <1>3. \A i, j \in 1..C : i < j => cu[i].hi + 1 < cu[j].lo
    BY DEF Subtracted, Apart
  <1> HIDE DEF C
  <1>4. ASSUME c > C, NEW v \in 0..Top, cur <= v PROVE ~Member(cu, v)
    <2> SUFFICES ASSUME NEW i \in 1..C, cu[i].lo <= v, v <= cu[i].hi PROVE FALSE
      BY DEF Member, C
    <2>1. i \in 1..(c - 1)
      BY <1>1, <1>4
    <2> QED BY <1>1, <1>2, <1>4, <2>1
  <1>5. ASSUME c <= C, NEW v \in 0..Top, cur <= v, v < cu[c].lo PROVE ~Member(cu, v)
    <2> SUFFICES ASSUME NEW i \in 1..C, cu[i].lo <= v, v <= cu[i].hi PROVE FALSE
      BY DEF Member, C
    <2>1. c \in 1..C
      BY <1>1, <1>5
    <2>2. CASE i < c
      <3>1. i \in 1..(c - 1)
        BY <1>1, <2>2
      <3> QED BY <1>1, <1>2, <1>5, <3>1
    <2>3. CASE i = c
      BY <1>1, <1>5, <2>1, <2>3
    <2>4. CASE i > c
      <3>1. cu[c].hi + 1 < cu[i].lo
        BY <1>3, <2>1, <2>4
      <3> QED BY <1>1, <1>5, <2>1, <3>1
    <2> QED BY <1>1, <2>2, <2>3, <2>4
  <1>6. ASSUME c <= C, NEW v \in 0..Top, cu[c].lo <= v, v <= cu[c].hi PROVE Member(cu, v)
    <2>1. c \in 1..C
      BY <1>1, <1>6
    <2> QED BY <1>6, <2>1 DEF Member, C
  <1> QED BY <1>4, <1>5, <1>6 DEF C

LEMMA SpanKept ==
    ASSUME NEW sp, NEW cu, NEW out, NEW s, NEW c, NEW cur, Subtracted(sp, cu, out, s, c, cur),
           s <= Len(sp), IF c > Len(cu) THEN TRUE ELSE cu[c].hi >= cur /\ cu[c].lo > sp[s].hi
    PROVE  Subtracted(sp, cu, Append(out, From(cur, sp[s].hi)), s + 1, c, StartOf(sp, s + 1))
  <1> DEFINE r == From(cur, sp[s].hi)
             new == Append(out, r)
  <1>1. /\ s \in 1..Len(sp) /\ cur \in Nat /\ cur <= sp[s].hi /\ sp[s].hi \in Nat /\ sp[s].hi <= Top /\ Top \in Nat
        /\ \A i \in 1..Len(out) : out[i].hi + 1 < cur
        /\ \A i \in 1..Len(out) : out[i].hi \in Nat
    <2>1. s \in 1..Len(sp)
      BY SpanReached
    <2> QED BY <2>1, SubtractedTyped DEF Subtracted
  <1>2. r \in Ranges /\ r.lo = cur /\ r.hi = sp[s].hi
    BY <1>1, WordFacts
  <1>3. Apart(out) /\ c \in 1..(Len(cu) + 1) /\ Len(cu) \in Nat
    BY SubtractedTyped DEF Subtracted
  <1> HIDE DEF r
  <1>4. /\ Apart(new) /\ Len(new) = Len(out) + 1 /\ new[Len(new)] = r /\ \A i \in 1..Len(out) : new[i] = out[i]
        /\ \A v : Member(new, v) <=> Member(out, v) \/ (r.lo <= v /\ v <= r.hi)
    BY <1>1, <1>2, <1>3, RangeAdded
  <1> HIDE DEF new
  <1>5. ASSUME NEW i \in 1..Len(new) PROVE new[i].hi <= sp[s].hi
    <2>1. Len(out) \in Nat
      BY SubtractedTyped
    <2>2. CASE i = Len(new)
      BY <1>1, <1>2, <1>4, <2>2
    <2>3. CASE i \in 1..Len(out)
      <3>1. new[i].hi = out[i].hi /\ out[i].hi + 1 < cur /\ out[i].hi \in Nat
        BY <1>1, <1>4, <2>3
      <3> QED BY <1>1, <3>1
    <2> QED BY <1>4, <2>1, <2>2, <2>3
  <1>6. ASSUME NEW v \in 0..Top, cur <= v, v <= sp[s].hi PROVE ~Member(cu, v)
    <2>1. CASE c > Len(cu)
      BY <1>6, <2>1, CutsAhead
    <2>2. CASE c <= Len(cu)
      <3>1. c \in 1..Len(cu) /\ cu[c].lo > sp[s].hi
        BY <1>3, <2>2
      <3>2. cu[c].lo \in Nat
        BY <3>1, SubtractedTyped
      <3>3. v < cu[c].lo
        BY <1>1, <1>6, <3>1, <3>2
      <3> QED BY <1>6, <2>2, <3>3, CutsAhead
    <2> QED BY <1>3, <2>1, <2>2
  <1>7. \A v \in 0..Top : Member(new, v) <=> Member(out, v) \/ (cur <= v /\ v <= sp[s].hi /\ ~Member(cu, v))
    BY <1>2, <1>4, <1>6
  <1>8. Subtracted(sp, cu, new, s + 1, c, StartOf(sp, s + 1))
    BY <1>4, <1>5, <1>7, SpanEnded
  <1> QED BY <1>8 DEF new, r

\* The range before a cut that begins in the span.
BeforeCut(cu, c, cur) == IF cu[c].lo > cur THEN <<From(cur, cu[c].lo - 1)>> ELSE <<>>

LEMMA CutBegins ==
    ASSUME NEW sp, NEW cu, NEW out, NEW s, NEW c, NEW cur, Subtracted(sp, cu, out, s, c, cur),
           s <= Len(sp), c <= Len(cu), cu[c].lo <= sp[s].hi
    PROVE  LET new == out \o BeforeCut(cu, c, cur) IN
           /\ Apart(new)
           /\ \A i \in 1..Len(new) : new[i].hi < cu[c].lo \/ new[i].hi + 1 < cur
           /\ \A v \in 0..Top : Member(new, v) <=> Member(out, v) \/ (cur <= v /\ v < cu[c].lo)
  <1> DEFINE new == out \o BeforeCut(cu, c, cur)
             r == From(cur, cu[c].lo - 1)
  <1>1. /\ s \in 1..Len(sp) /\ cur \in Nat /\ sp[s].hi \in Nat /\ sp[s].hi <= Top /\ Top \in Nat
        /\ Len(out) \in Nat
        /\ \A i \in 1..Len(out) : out[i].hi + 1 < cur /\ out[i].hi \in Nat
    <2>1. s \in 1..Len(sp)
      BY SpanReached
    <2> QED BY <2>1, SubtractedTyped DEF Subtracted
  <1>2. c \in 1..Len(cu) /\ cu[c].lo \in Nat /\ out \in Seq(Ranges) /\ Apart(out)
    <2>1. Len(cu) \in Nat /\ c \in 1..(Len(cu) + 1)
      BY SubtractedTyped DEF Subtracted
    <2>2. c \in 1..Len(cu)
      BY <2>1
    <2> QED BY <2>2, SubtractedTyped DEF Subtracted, Apart
  <1>3. CASE cu[c].lo > cur
    <2>1. r \in Ranges /\ r.lo = cur /\ r.hi = cu[c].lo - 1
      <3>1. cu[c].lo - 1 \in Nat /\ cur <= cu[c].lo - 1 /\ cu[c].lo - 1 <= Top
        BY <1>1, <1>2, <1>3
      <3> QED BY <1>1, <3>1, WordFacts
    <2>2. new = Append(out, r)
      <3>1. new = out \o <<r>>
        BY <1>3 DEF BeforeCut
      <3> HIDE DEF r, new
      <3> QED BY <1>2, <2>1, <3>1
    <2> HIDE DEF r, new
    <2>3. /\ Apart(new) /\ Len(new) = Len(out) + 1 /\ new[Len(new)] = r /\ \A i \in 1..Len(out) : new[i] = out[i]
          /\ \A v : Member(new, v) <=> Member(out, v) \/ (r.lo <= v /\ v <= r.hi)
      BY <1>1, <1>2, <2>1, <2>2, RangeAdded
    <2>4. ASSUME NEW i \in 1..Len(new) PROVE new[i].hi < cu[c].lo \/ new[i].hi + 1 < cur
      <3>1. CASE i = Len(new)
        BY <1>2, <2>1, <2>3, <3>1
      <3>2. CASE i \in 1..Len(out)
        BY <1>1, <2>3, <3>2
      <3> QED BY <1>1, <2>3, <3>1, <3>2
    <2>5. \A v \in 0..Top : v <= r.hi <=> v < cu[c].lo
      BY <1>1, <1>2, <2>1
    <2>6. \A v \in 0..Top : Member(new, v) <=> Member(out, v) \/ (cur <= v /\ v < cu[c].lo)
      BY <2>1, <2>3, <2>5
    <2> QED BY <2>3, <2>4, <2>6 DEF new
  <1>4. CASE ~(cu[c].lo > cur)
    <2>1. new = out
      <3>1. new = out \o <<>>
        BY <1>4 DEF BeforeCut
      <3> HIDE DEF new
      <3> QED BY <1>2, <3>1
    <2>2. \A v \in 0..Top : ~(cur <= v /\ v < cu[c].lo)
      BY <1>1, <1>2, <1>4
    <2> HIDE DEF new
    <2>3. /\ Apart(new) /\ \A i \in 1..Len(new) : new[i].hi < cu[c].lo \/ new[i].hi + 1 < cur
          /\ \A v \in 0..Top : Member(new, v) <=> Member(out, v) \/ (cur <= v /\ v < cu[c].lo)
      BY <1>1, <1>2, <2>1, <2>2
    <2> QED BY <2>3 DEF new
  <1> QED BY <1>3, <1>4

LEMMA CutEnds ==
    ASSUME NEW sp, NEW cu, NEW out, NEW s, NEW c, NEW cur, Subtracted(sp, cu, out, s, c, cur),
           s <= Len(sp), c <= Len(cu), cu[c].lo <= sp[s].hi, cu[c].hi >= cur
    PROVE  LET new == out \o BeforeCut(cu, c, cur) IN
           /\ cu[c].hi >= sp[s].hi => Subtracted(sp, cu, new, s + 1, c, StartOf(sp, s + 1))
           /\ cu[c].hi < sp[s].hi => Subtracted(sp, cu, new, s, c, cu[c].hi + 1)
  <1> DEFINE new == out \o BeforeCut(cu, c, cur)
  <1>1. /\ Apart(new)
        /\ \A i \in 1..Len(new) : new[i].hi < cu[c].lo \/ new[i].hi + 1 < cur
        /\ \A v \in 0..Top : Member(new, v) <=> Member(out, v) \/ (cur <= v /\ v < cu[c].lo)
    BY CutBegins
  <1> HIDE DEF new
  <1>2. /\ s \in 1..Len(sp) /\ cur \in Nat /\ cur <= sp[s].hi /\ sp[s].hi \in Nat /\ Top \in Nat
        /\ c \in 1..Len(cu) /\ cu[c].lo \in Nat /\ cu[c].hi \in Nat /\ cu[c].lo <= cu[c].hi
    <2>1. s \in 1..Len(sp)
      BY SpanReached
    <2>2. Len(cu) \in Nat /\ c \in 1..(Len(cu) + 1)
      BY SubtractedTyped DEF Subtracted
    <2>3. c \in 1..Len(cu)
      BY <2>2
    <2> QED BY <2>1, <2>3, SubtractedTyped DEF Subtracted
  <1>3. \A i \in 1..Len(new) : new[i].hi \in Nat
    BY <1>1, ListTyped DEF Apart
  <1>4. /\ \A v \in 0..Top : cur <= v /\ v < cu[c].lo => ~Member(cu, v)
        /\ \A v \in 0..Top : cu[c].lo <= v /\ v <= cu[c].hi => Member(cu, v)
    BY CutsAhead
  <1>5. CASE cu[c].hi >= sp[s].hi
    <2>1. \A i \in 1..Len(new) : new[i].hi <= sp[s].hi
      BY <1>1, <1>2, <1>3
    <2>2. ASSUME NEW v \in 0..Top
          PROVE  cur <= v /\ v < cu[c].lo <=> cur <= v /\ v <= sp[s].hi /\ ~Member(cu, v)
      <3>1. v < cu[c].lo => v <= sp[s].hi
        BY <1>2
      <3>2. v <= sp[s].hi => v < cu[c].lo \/ (cu[c].lo <= v /\ v <= cu[c].hi)
        BY <1>2, <1>5
      <3>3. cur <= v /\ v < cu[c].lo => ~Member(cu, v)
        BY <1>4
      <3>4. cu[c].lo <= v /\ v <= cu[c].hi => Member(cu, v)
        BY <1>4
      <3> QED BY <3>1, <3>2, <3>3, <3>4
    <2>3. \A v \in 0..Top : Member(new, v) <=> Member(out, v) \/ (cur <= v /\ v <= sp[s].hi /\ ~Member(cu, v))
      BY <1>1, <2>2
    <2>4. Subtracted(sp, cu, new, s + 1, c, StartOf(sp, s + 1))
      BY <1>1, <2>1, <2>3, SpanEnded
    <2>5. ~(cu[c].hi < sp[s].hi)
      BY <1>2, <1>5
    <2> QED BY <2>4, <2>5 DEF new
  <1>6. CASE cu[c].hi < sp[s].hi
    <2>1. ASSUME NEW i \in 1..Len(new) PROVE new[i].hi < cu[c].hi
      <3>1. new[i].hi \in Nat /\ (new[i].hi < cu[c].lo \/ new[i].hi + 1 < cur)
        BY <1>1, <1>3
      <3>2. cur <= cu[c].hi
        BY <1>2
      <3> QED BY <1>2, <3>1, <3>2
    <2>2. ASSUME NEW v \in 0..Top
          PROVE  cur <= v /\ v < cu[c].lo <=> cur <= v /\ v <= cu[c].hi /\ ~Member(cu, v)
      <3>1. v < cu[c].lo => v <= cu[c].hi
        BY <1>2
      <3>2. v <= cu[c].hi => v < cu[c].lo \/ (cu[c].lo <= v /\ v <= cu[c].hi)
        BY <1>2
      <3>3. cur <= v /\ v < cu[c].lo => ~Member(cu, v)
        BY <1>4
      <3>4. cu[c].lo <= v /\ v <= cu[c].hi => Member(cu, v)
        BY <1>4
      <3> QED BY <3>1, <3>2, <3>3, <3>4
    <2>3. \A v \in 0..Top : Member(new, v) <=> Member(out, v) \/ (cur <= v /\ v <= cu[c].hi /\ ~Member(cu, v))
      BY <1>1, <2>2
    <2>4. Subtracted(sp, cu, new, s, c, cu[c].hi + 1)
      BY <1>1, <1>2, <1>6, <2>1, <2>3, CutPassed
    <2>5. ~(cu[c].hi >= sp[s].hi)
      BY <1>2, <1>6
    <2> QED BY <2>4, <2>5 DEF new
  <1> QED BY <1>2, <1>5, <1>6

\* A block at a multiple of its size ends within the address space.
LEMMA NoBlockWraps ==
    ASSUME NEW k \in 0..Word, NEW lo \in 0..Top, lo % Pow2[k] = 0
    PROVE  Pow2[k] \in Nat \ {0} /\ lo + (Pow2[k] - 1) <= Top
  <1>1. Word \in Nat /\ k \in Nat /\ Top \in Nat /\ Pow2[Word] = Top + 1
    BY RangeConstants, WordFacts
  <1>2. \A n \in Nat : Pow2[n] \in Nat \ {0} /\ Pow2[n + 1] = 2 * Pow2[n]
    BY PowersOfTwo
  <1> DEFINE Ok == {n \in Nat : n <= Word => \E q \in Nat : Pow2[Word] = q * Pow2[Word - n]}
  <1>3. 0 \in Ok
    <2>1. Pow2[Word] = 1 * Pow2[Word - 0]
      BY <1>1, <1>2
    <2> QED BY <2>1
  <1>4. ASSUME NEW n \in Nat, n \in Ok PROVE n + 1 \in Ok
    <2> SUFFICES ASSUME n + 1 <= Word PROVE \E q \in Nat : Pow2[Word] = q * Pow2[Word - (n + 1)]
      OBVIOUS
    <2>1. PICK q \in Nat : Pow2[Word] = q * Pow2[Word - n]
      BY <1>1, <1>4
    <2> DEFINE x == Pow2[Word - (n + 1)]
    <2>2. Pow2[Word - n] = 2 * x /\ x \in Nat
      <3>1. Word - (n + 1) \in Nat /\ (Word - (n + 1)) + 1 = Word - n
        BY <1>1
      <3> QED BY <1>2, <3>1
    <2> HIDE DEF x
    <2>3. q * (2 * x) = (2 * q) * x
      BY <2>2
    <2>4. Pow2[Word] = (2 * q) * x /\ 2 * q \in Nat
      BY <2>1, <2>2, <2>3
    <2> QED BY <2>4 DEF x
  <1> HIDE DEF Ok
  <1>5. Word - k \in Ok
    <2>1. Word - k \in Nat
      BY <1>1
    <2> QED BY <1>3, <1>4, <2>1, EveryNumber
  <1>6. PICK q \in Nat : Pow2[Word] = q * Pow2[k]
    <2>1. Word - k \in Nat /\ Word - k <= Word /\ Word - (Word - k) = k
      BY <1>1
    <2> QED BY <1>5, <2>1 DEF Ok
  <1> DEFINE d == Pow2[k]
             p == lo \div d
  <1>7. d \in Nat \ {0}
    BY <1>1, <1>2
  <1>8. lo \in Nat /\ lo % d = 0 /\ lo < Top + 1 /\ q * d = Top + 1
    BY <1>1, <1>6
  <1> HIDE DEF d
  <1>9. lo = d * p /\ p \in Nat
    BY <1>7, <1>8
  <1> HIDE DEF p
  <1>10. p * d < q * d
    BY <1>7, <1>8, <1>9
  <1>11. p < q
    BY <1>7, <1>9, <1>10
  <1>12. (q - p) * d >= d
    BY <1>7, <1>9, <1>11
  <1>13. p * d + d <= q * d
    BY <1>7, <1>9, <1>12
  <1>14. lo + d <= Top + 1
    BY <1>7, <1>8, <1>9, <1>13
  <1>15. lo + (d - 1) <= Top
    BY <1>1, <1>7, <1>8, <1>14
  <1> QED BY <1>7, <1>15 DEF d

\* The block that is chosen is in the range.
LEMMA LargestFits ==
    ASSUME NEW lo \in Nat, NEW hi \in Nat, lo <= hi, hi <= Top
    PROVE  LET size == Pow2[Largest(lo, hi)] - 1 IN
           size \in Nat /\ Add(lo, size) = lo + size /\ lo + size <= hi
  <1> DEFINE At(k) == /\ \A m \in 0..k : Fits(lo, hi, m)
                      /\ k = Word \/ ~Fits(lo, hi, k + 1)
             Ok == {n \in Nat : n <= Word => \A m \in 0..n : Fits(lo, hi, m)}
  <1>1. Word \in Nat /\ Top \in Nat
    BY RangeConstants, WordFacts
  <1>2. Fits(lo, hi, 0)
    <2>1. Pow2[0] = 1
      BY PowersOfTwo
    <2>2. lo % 1 = 0
      OBVIOUS
    <2>3. Add(lo, 1 - 1) = lo
      <3>1. lo + 0 <= Top /\ 0 \in Nat /\ 1 - 1 = 0
        BY <1>1
      <3>2. Add(lo, 0) = lo + 0
        BY <3>1, WordFacts
      <3> QED BY <3>1, <3>2
    <2> QED BY <2>1, <2>2, <2>3 DEF Fits
  <1>3. \E k \in 0..Word : At(k)
    <2> SUFFICES ASSUME \A k \in 0..Word : ~At(k) PROVE FALSE
      OBVIOUS
    <2>1. 0 \in Ok
      BY <1>2
    <2>2. ASSUME NEW n \in Nat, n \in Ok PROVE n + 1 \in Ok
      <3> SUFFICES ASSUME n + 1 <= Word PROVE \A m \in 0..(n + 1) : Fits(lo, hi, m)
        OBVIOUS
      <3>1. \A m \in 0..n : Fits(lo, hi, m)
        BY <1>1, <2>2
      <3>2. n \in 0..Word /\ n # Word
        BY <1>1
      <3>3. Fits(lo, hi, n + 1)
        BY <3>1, <3>2
      <3>4. \A m \in 0..(n + 1) : m \in 0..n \/ m = n + 1
        OBVIOUS
      <3> QED BY <3>1, <3>3, <3>4
    <2> HIDE DEF Ok
    <2>3. Word \in Ok
      BY <1>1, <2>1, <2>2, EveryNumber
    <2>4. At(Word)
      BY <1>1, <2>3 DEF Ok
    <2> QED BY <1>1, <2>4
  <1> DEFINE k == Largest(lo, hi)
  <1>4. k \in 0..Word /\ At(k)
    BY <1>3 DEF Largest
  <1>5. Fits(lo, hi, k)
    BY <1>1, <1>4
  <1> HIDE DEF k
  <1>6. lo % Pow2[k] = 0 /\ Add(lo, Pow2[k] - 1) <= hi
    BY <1>5 DEF Fits
  <1>7. Pow2[k] \in Nat \ {0} /\ lo + (Pow2[k] - 1) <= Top
    <2>1. lo \in 0..Top
      BY <1>1
    <2> QED BY <1>4, <1>6, <2>1, NoBlockWraps
  <1> DEFINE size == Pow2[k] - 1
  <1>8. size \in Nat /\ lo + size <= Top
    BY <1>7
  <1> HIDE DEF size
  <1>9. Add(lo, size) = lo + size
    BY <1>8, WordFacts
  <1>10. lo + size <= hi
    BY <1>6, <1>9 DEF size
  <1> QED BY <1>8, <1>9, <1>10 DEF size, k

\* How far the prefixes of a list are written.
Emitted(list, pre, s, cur) ==
    /\ Apart(list) /\ pre \in Seq(Ranges)
    /\ \A i, j \in 1..Len(pre) : i < j => pre[i].hi < pre[j].lo
    /\ s \in 1..(Len(list) + 1) /\ cur \in Nat
    /\ s <= Len(list) => /\ list[s].lo <= cur /\ cur <= list[s].hi
                         /\ \A i \in 1..Len(pre) : pre[i].hi < cur
    /\ \A v \in 0..Top : Member(pre, v) <=> Member(list, v) /\ (s <= Len(list) => v < cur)

LEMMA PrefixWritten ==
    ASSUME NEW list, NEW pre, NEW s, NEW cur, Emitted(list, pre, s, cur), s <= Len(list),
           NEW end \in Nat, cur <= end, end <= list[s].hi
    PROVE  LET new == Append(pre, From(cur, end)) IN
           /\ end = list[s].hi => Emitted(list, new, s + 1, StartOf(list, s + 1))
           /\ end < list[s].hi => Emitted(list, new, s, end + 1)
  <1> DEFINE r == From(cur, end)
             new == Append(pre, r)
             L == Len(list)
             P == Len(pre)
             next == StartOf(list, s + 1)
  <1>1. /\ L \in Nat /\ s \in 1..L /\ P \in Nat /\ cur \in Nat /\ Top \in Nat
        /\ list[s].lo <= cur /\ cur <= list[s].hi
        /\ \A i \in 1..L : list[i].lo \in Nat /\ list[i].hi \in Nat /\ list[i].lo <= list[i].hi /\ list[i].hi <= Top
        /\ \A i \in 1..P : pre[i].hi < cur /\ pre[i].hi \in Nat /\ pre[i] \in Ranges
    <2>1. list \in Seq(Ranges) /\ pre \in Seq(Ranges) /\ s \in 1..(L + 1)
      BY DEF Emitted, Apart
    <2>2. /\ \A i \in 1..L : list[i].lo \in Nat /\ list[i].hi \in Nat /\ list[i].lo <= list[i].hi /\ list[i].hi <= Top
          /\ \A i \in 1..P : pre[i].hi \in Nat /\ pre[i] \in Ranges
      BY <2>1, ListTyped
    <2>3. L \in Nat /\ P \in Nat
      BY <2>1
    <2>4. s \in 1..L
      BY <2>1, <2>3
    <2> QED BY <2>2, <2>3, <2>4, WordFacts DEF Emitted
  <1>2. r \in Ranges /\ r.lo = cur /\ r.hi = end
    <2>1. end <= Top
      BY <1>1
    <2> QED BY <1>1, <2>1, WordFacts
  <1>3. /\ \A v \in 0..Top : cur <= v /\ v <= list[s].hi => Member(list, v)
        /\ \A v \in 0..Top : Member(list, v) /\ v <= list[s].hi => v < cur \/ (cur <= v /\ v <= list[s].hi)
        /\ \A v \in 0..Top : Member(list, v) /\ (s + 1 <= L => v < list[s + 1].lo) => v <= list[s].hi
        /\ s + 1 <= L => list[s].hi + 1 < list[s + 1].lo
    <2>1. Apart(list)
      BY DEF Emitted
    <2> QED BY <1>1, <2>1, SpanAt
  <1> HIDE DEF r
  <1>4. /\ new \in Seq(Ranges) /\ Len(new) = P + 1 /\ new[P + 1] = r /\ \A i \in 1..P : new[i] = pre[i]
    <2>1. pre \in Seq(Ranges)
      BY DEF Emitted
    <2> QED BY <1>2, <2>1
  <1> HIDE DEF new
  <1>5. \A i \in 1..(P + 1) : i = P + 1 \/ i \in 1..P
    BY <1>1
  <1>6. \A i \in 1..(P + 1) : new[i].hi \in Nat /\ new[i].hi <= end
    <2> TAKE i \in 1..(P + 1)
    <2>1. CASE i = P + 1
      BY <1>2, <1>4, <2>1
    <2>2. CASE i \in 1..P
      <3>1. new[i].hi = pre[i].hi /\ pre[i].hi < cur /\ pre[i].hi \in Nat
        BY <1>1, <1>4, <2>2
      <3> QED BY <1>1, <3>1
    <2> QED BY <1>5, <2>1, <2>2
  <1>7. ASSUME NEW i \in 1..(P + 1), NEW j \in 1..(P + 1), i < j PROVE new[i].hi < new[j].lo
    <2>1. i \in 1..P
      BY <1>1, <1>7
    <2>2. CASE j = P + 1
      BY <1>1, <1>2, <1>4, <2>1, <2>2
    <2>3. CASE j \in 1..P
      BY <1>4, <1>7, <2>1, <2>3 DEF Emitted
    <2> QED BY <1>5, <2>2, <2>3
  <1>8. ASSUME NEW v \in 0..Top PROVE Member(new, v) <=> Member(pre, v) \/ (cur <= v /\ v <= end)
    <2>1. P + 1 \in 1..(P + 1) /\ \A i \in 1..P : i \in 1..(P + 1)
      BY <1>1
    <2> QED BY <1>2, <1>4, <1>5, <2>1 DEF Member
  <1>9. ASSUME NEW v \in 0..Top PROVE Member(pre, v) <=> Member(list, v) /\ v < cur
    BY DEF Emitted
  <1>10. CASE end = list[s].hi
    <2>1. s + 1 <= L => next = list[s + 1].lo /\ next \in Nat /\ end + 1 < next /\ list[s + 1].lo <= next /\ next <= list[s + 1].hi
      <3> SUFFICES ASSUME s + 1 <= L
                   PROVE  next = list[s + 1].lo /\ next \in Nat /\ end + 1 < next /\ list[s + 1].lo <= next /\ next <= list[s + 1].hi
        OBVIOUS
      <3>1. s + 1 \in 1..L /\ next = list[s + 1].lo
        BY <1>1 DEF StartOf
      <3> QED BY <1>1, <1>3, <1>10, <3>1
    <2>2. next \in Nat
      BY <2>1 DEF StartOf
    <2>3. s + 1 <= L => \A i \in 1..(P + 1) : new[i].hi < next
      BY <1>6, <2>1
    <2>4. ASSUME NEW v \in 0..Top PROVE Member(new, v) <=> Member(list, v) /\ (s + 1 <= L => v < next)
      <3>1. v \in Nat
        BY <1>1
      <3>2. v < cur => v <= end
        BY <1>1, <3>1
      <3>3. v <= end => (s + 1 <= L => v < next)
        BY <2>1, <3>1
      <3>4. Member(list, v) /\ (s + 1 <= L => v < next) => v <= end
        BY <1>3, <1>10, <2>1
      <3>5. Member(list, v) /\ v <= end => v < cur \/ (cur <= v /\ v <= end)
        BY <1>3, <1>10
      <3>6. cur <= v /\ v <= end => Member(list, v)
        BY <1>3, <1>10
      <3> QED BY <1>8, <1>9, <3>2, <3>3, <3>4, <3>5, <3>6
    <2>5. s + 1 \in 1..(L + 1) /\ Apart(list)
      BY <1>1 DEF Emitted
    <2> HIDE DEF next
    <2>6. Emitted(list, new, s + 1, next)
      BY <1>4, <1>7, <2>1, <2>2, <2>3, <2>4, <2>5 DEF Emitted
    <2>7. ~(end < list[s].hi)
      BY <1>10
    <2> QED BY <2>6, <2>7 DEF new, r, next
  <1>11. CASE end < list[s].hi
    <2>1. end + 1 \in Nat /\ list[s].lo <= end + 1 /\ end + 1 <= list[s].hi
      BY <1>1, <1>11
    <2>2. \A i \in 1..(P + 1) : new[i].hi < end + 1
      BY <1>6
    <2>3. ASSUME NEW v \in 0..Top PROVE Member(new, v) <=> Member(list, v) /\ v < end + 1
      <3>1. v \in Nat
        BY <1>1
      <3>2. v < end + 1 <=> v < cur \/ (cur <= v /\ v <= end)
        BY <1>1, <3>1
      <3>3. cur <= v /\ v <= end => Member(list, v)
        <4>1. v <= end => v <= list[s].hi
          BY <1>1, <1>11, <3>1
        <4> QED BY <1>3, <4>1
      <3> QED BY <1>8, <1>9, <3>2, <3>3
    <2>4. s \in 1..(L + 1) /\ Apart(list)
      BY <1>1 DEF Emitted
    <2>5. Emitted(list, new, s, end + 1)
      BY <1>4, <1>7, <2>1, <2>2, <2>3, <2>4 DEF Emitted
    <2>6. ~(end = list[s].hi)
      BY <1>1, <1>11
    <2> QED BY <2>5, <2>6 DEF new, r
  <1>12. end = list[s].hi \/ end < list[s].hi
    BY <1>1
  <1> QED BY <1>10, <1>11, <1>12

\* The search for the range that holds an address.
LEMMA AddressFound ==
    ASSUME NEW list, Apart(list), NEW v \in 0..Top
    PROVE  ContainsUint(list, v) <=> Member(list, v)
  <1> DEFINE L == Len(list)
             At(k) == /\ k = 0 \/ list[k].lo <= v
                      /\ k = L \/ list[k + 1].lo > v
             Ok == {n \in Nat : n <= L => n = 0 \/ list[n].lo <= v}
             k == locate(list, v)
  <1>1. /\ L \in Nat /\ v \in Nat
        /\ \A i \in 1..L : list[i].lo \in Nat /\ list[i].hi \in Nat /\ list[i].lo <= list[i].hi
        /\ \A i, j \in 1..L : i < j => list[i].hi + 1 < list[j].lo
    <2>1. list \in Seq(Ranges)
      BY DEF Apart
    <2>2. L \in Nat /\ \A i \in 1..L : list[i].lo \in Nat /\ list[i].hi \in Nat /\ list[i].lo <= list[i].hi
      BY <2>1, ListTyped
    <2>3. Top \in Nat
      BY WordFacts
    <2>4. \A i, j \in 1..L : i < j => list[i].hi + 1 < list[j].lo
      BY DEF Apart
    <2> HIDE DEF L
    <2> QED BY <2>2, <2>3, <2>4
  <1> HIDE DEF L
  <1>2. \E n \in 0..L : At(n)
    <2> SUFFICES ASSUME \A n \in 0..L : ~At(n) PROVE FALSE
      OBVIOUS
    <2>1. 0 \in Ok
      OBVIOUS
    <2>2. ASSUME NEW n \in Nat, n \in Ok PROVE n + 1 \in Ok
      <3> SUFFICES ASSUME n + 1 <= L PROVE list[n + 1].lo <= v
        OBVIOUS
      <3>1. n \in 0..L /\ n # L /\ n + 1 \in 1..L /\ (n = 0 \/ list[n].lo <= v)
        BY <1>1, <2>2
      <3>2. ~(list[n + 1].lo > v)
        BY <3>1
      <3> QED BY <1>1, <3>1, <3>2
    <2> HIDE DEF Ok
    <2>3. L \in Ok
      BY <1>1, <2>1, <2>2, EveryNumber
    <2>4. At(L)
      BY <1>1, <2>3 DEF Ok
    <2> QED BY <1>1, <2>4
  <1>3. k \in 0..L /\ At(k)
    BY <1>2 DEF locate, L
  <1>4. ContainsUint(list, v) <=> k > 0 /\ list[k].hi >= v
    BY DEF ContainsUint
  <1> HIDE DEF k
  <1>5. ASSUME NEW i \in 1..L, list[i].lo <= v, v <= list[i].hi PROVE k > 0 /\ list[k].hi >= v
    <2>1. ~(k < i)
      <3> SUFFICES ASSUME k < i PROVE FALSE
        OBVIOUS
      <3>1. k # L /\ k + 1 \in 1..L
        BY <1>1, <1>3
      <3>2. list[k + 1].lo > v
        BY <1>3, <3>1
      <3>3. k + 1 = i \/ k + 1 < i
        BY <1>3
      <3>4. CASE k + 1 = i
        BY <1>1, <1>5, <3>2, <3>4
      <3>5. CASE k + 1 < i
        <4>1. list[k + 1].hi + 1 < list[i].lo
          BY <1>1, <3>1, <3>5
        <4>2. list[k + 1].lo \in Nat /\ list[k + 1].hi \in Nat /\ list[k + 1].lo <= list[k + 1].hi /\ list[i].lo \in Nat
          BY <1>1, <3>1
        <4> QED BY <1>1, <1>5, <3>2, <4>1, <4>2
      <3> QED BY <3>3, <3>4, <3>5
    <2>2. k \in 1..L /\ list[k].lo <= v
      BY <1>1, <1>3, <2>1
    <2>3. ~(i < k)
      <3> SUFFICES ASSUME i < k PROVE FALSE
        OBVIOUS
      <3>1. list[i].hi + 1 < list[k].lo
        BY <1>1, <2>2
      <3>2. list[i].hi \in Nat /\ list[k].lo \in Nat
        BY <1>1, <2>2
      <3> QED BY <1>1, <1>5, <2>2, <3>1, <3>2
    <2>4. i = k
      BY <1>1, <2>1, <2>2, <2>3
    <2> QED BY <1>1, <1>5, <2>2, <2>4
  <1>6. k > 0 /\ list[k].hi >= v => Member(list, v)
    <2> SUFFICES ASSUME k > 0, list[k].hi >= v PROVE Member(list, v)
      OBVIOUS
    <2>1. k \in 1..L /\ list[k].lo <= v
      BY <1>1, <1>3
    <2>2. v <= list[k].hi
      BY <1>1, <2>1
    <2> QED BY <2>1, <2>2 DEF Member, L
  <1> QED BY <1>4, <1>5, <1>6 DEF Member, L

\* The search for a range that shares an address with another.
LEMMA OverlapFound ==
    ASSUME NEW list, Apart(list), NEW lo \in 0..Top, NEW hi \in 0..Top, lo <= hi
    PROVE  Overlaps(list, lo, hi) <=> \E v \in lo..hi : Member(list, v)
  <1> DEFINE L == Len(list)
             At(n) == /\ n = 1 \/ list[n - 1].hi < lo
                      /\ n > L \/ list[n].hi >= lo
             Ok == {n \in Nat : n <= L => n = 0 \/ list[n].hi < lo}
             k == CHOOSE n \in 1..(L + 1) : At(n)
  <1>1. /\ L \in Nat /\ lo \in Nat /\ hi \in Nat
        /\ \A i \in 1..L : list[i].lo \in Nat /\ list[i].hi \in Nat /\ list[i].lo <= list[i].hi
        /\ \A i, j \in 1..L : i < j => list[i].hi + 1 < list[j].lo
    <2>1. list \in Seq(Ranges)
      BY DEF Apart
    <2>2. L \in Nat /\ \A i \in 1..L : list[i].lo \in Nat /\ list[i].hi \in Nat /\ list[i].lo <= list[i].hi
      BY <2>1, ListTyped
    <2>3. Top \in Nat
      BY WordFacts
    <2>4. \A i, j \in 1..L : i < j => list[i].hi + 1 < list[j].lo
      BY DEF Apart
    <2> HIDE DEF L
    <2> QED BY <2>2, <2>3, <2>4
  <1>2. Overlaps(list, lo, hi) <=> k <= L /\ list[k].lo <= hi
    BY DEF Overlaps
  <1> HIDE DEF L
  <1>3. \E n \in 1..(L + 1) : At(n)
    <2> SUFFICES ASSUME \A n \in 1..(L + 1) : ~At(n) PROVE FALSE
      OBVIOUS
    <2>1. 0 \in Ok
      OBVIOUS
    <2>2. ASSUME NEW n \in Nat, n \in Ok PROVE n + 1 \in Ok
      <3> SUFFICES ASSUME n + 1 <= L PROVE list[n + 1].hi < lo
        OBVIOUS
      <3>1. n + 1 \in 1..(L + 1) /\ n + 1 \in 1..L /\ (n + 1) - 1 = n /\ (n = 0 \/ list[n].hi < lo)
        BY <1>1, <2>2
      <3>2. n + 1 = 1 \/ list[(n + 1) - 1].hi < lo
        BY <3>1
      <3>3. ~(list[n + 1].hi >= lo)
        BY <3>1, <3>2
      <3> QED BY <1>1, <3>1, <3>3
    <2> HIDE DEF Ok
    <2>3. L \in Ok
      BY <1>1, <2>1, <2>2, EveryNumber
    <2>4. At(L + 1)
      <3>1. L = 0 \/ list[L].hi < lo
        BY <1>1, <2>3 DEF Ok
      <3>2. (L + 1) - 1 = L /\ L + 1 > L /\ (L = 0 => L + 1 = 1)
        BY <1>1
      <3> QED BY <3>1, <3>2
    <2> QED BY <1>1, <2>4
  <1>4. k \in 1..(L + 1) /\ At(k)
    BY <1>3
  <1> HIDE DEF k
  <1>5. ASSUME NEW v \in lo..hi, NEW i \in 1..L, list[i].lo <= v, v <= list[i].hi
        PROVE  k <= L /\ list[k].lo <= hi
    <2>1. ~(i < k)
      <3> SUFFICES ASSUME i < k PROVE FALSE
        OBVIOUS
      <3>1. k # 1 /\ k - 1 \in 1..L
        BY <1>1, <1>4
      <3>2. list[k - 1].hi < lo
        BY <1>4, <3>1
      <3>3. i = k - 1 \/ i < k - 1
        BY <1>4
      <3>4. CASE i = k - 1
        BY <1>1, <1>5, <3>2, <3>4
      <3>5. CASE i < k - 1
        <4>1. list[i].hi + 1 < list[k - 1].lo
          BY <1>1, <3>1, <3>5
        <4>2. list[k - 1].lo \in Nat /\ list[k - 1].hi \in Nat /\ list[k - 1].lo <= list[k - 1].hi /\ list[i].hi \in Nat
          BY <1>1, <3>1
        <4> QED BY <1>1, <1>5, <3>2, <4>1, <4>2
      <3> QED BY <3>3, <3>4, <3>5
    <2>2. k \in 1..L
      BY <1>1, <1>4, <2>1
    <2>3. CASE k = i
      BY <1>1, <1>5, <2>2, <2>3
    <2>4. CASE k < i
      <3>1. list[k].hi + 1 < list[i].lo
        BY <1>1, <2>2, <2>4
      <3>2. list[k].lo \in Nat /\ list[k].hi \in Nat /\ list[k].lo <= list[k].hi /\ list[i].lo \in Nat
        BY <1>1, <2>2
      <3> QED BY <1>1, <1>5, <2>2, <3>1, <3>2
    <2> QED BY <1>1, <2>1, <2>2, <2>3, <2>4
  <1>6. ASSUME k <= L, list[k].lo <= hi PROVE \E v \in lo..hi : Member(list, v)
    <2>1. k \in 1..L /\ list[k].hi >= lo
      BY <1>1, <1>4, <1>6
    <2> DEFINE v == IF list[k].lo > lo THEN list[k].lo ELSE lo
    <2>2. v \in lo..hi /\ list[k].lo <= v /\ v <= list[k].hi
      BY <1>1, <1>6, <2>1
    <2> HIDE DEF v
    <2> QED BY <2>1, <2>2 DEF Member, L
  <1> QED BY <1>2, <1>5, <1>6 DEF Member, L

Wanted(list) == \A v \in 0..Top : Member(list, v) <=> Member(given.base, v) /\ ~Member(given.remove, v)

\* What each step knows of the lists it works on.
RangeInv ==
    /\ given \in [base : Seq(Ranges), remove : Seq(Ranges)]
    /\ given.base = Collapse(given.base)
    /\ \A i \in 1..Len(given.remove) : given.remove[i].hi # Top
    /\ at \in [span : Nat, cut : Nat, cur : Nat]
    /\ rangePC \in {"given", "subtract", "prefixes", "done"}
    /\ rangePC \in {"given", "subtract"} => prefixes = <<>>
    /\ rangePC = "given" => left = <<>>
    /\ rangePC = "subtract" =>
          /\ \A v \in 0..Top : /\ Member(spans, v) <=> Member(given.base, v)
                               /\ Member(cuts, v) <=> Member(given.remove, v)
          /\ Subtracted(spans, cuts, left, at.span, at.cut, at.cur)
    /\ rangePC \in {"prefixes", "done"} => Wanted(left)
    /\ rangePC = "prefixes" => Emitted(left, prefixes, at.span, at.cur)
    /\ rangePC = "done" => Emitted(left, prefixes, Len(left) + 1, 0)

LEMMA RangeInvInit == RangeInit => RangeInv
  <1> SUFFICES ASSUME RangeInit PROVE RangeInv
    OBVIOUS
  <1>1. ASSUME NEW S PROVE SeqOf(S, MaxRanges) \subseteq Seq(S)
    <2> SUFFICES ASSUME NEW list \in SeqOf(S, MaxRanges) PROVE list \in Seq(S)
      OBVIOUS
    <2>1. PICK m \in 0..MaxRanges : list \in [1..m -> S]
      BY DEF SeqOf
    <2> QED BY <2>1
  <1>2. given \in [base : Seq(Ranges), remove : Seq(Ranges)] /\ given.base = Collapse(given.base)
        /\ given.remove \in Seq({r \in Ranges : r.hi # Top})
    <2>1. {r \in Ranges : r.hi # Top} \subseteq Ranges
      OBVIOUS
    <2>2. Seq({r \in Ranges : r.hi # Top}) \subseteq Seq(Ranges)
      OBVIOUS
    <2>3. given \in [base : {list \in SeqOf(Ranges, MaxRanges) : list = Collapse(list)},
                     remove : SeqOf({r \in Ranges : r.hi # Top}, MaxRanges)]
      BY DEF RangeInit
    <2> DEFINE B == SeqOf(Ranges, MaxRanges)
               C == SeqOf({r \in Ranges : r.hi # Top}, MaxRanges)
    <2>4. B \subseteq Seq(Ranges) /\ C \subseteq Seq({r \in Ranges : r.hi # Top})
      BY <1>1
    <2> HIDE DEF B, C
    <2>5. given \in [base : {list \in B : list = Collapse(list)}, remove : C]
      BY <2>3 DEF B, C
    <2>6. /\ given = [base |-> given.base, remove |-> given.remove]
          /\ given.base \in B /\ given.base = Collapse(given.base) /\ given.remove \in C
      BY <2>5
    <2>7. given.base \in Seq(Ranges) /\ given.remove \in Seq(Ranges)
          /\ given.remove \in Seq({r \in Ranges : r.hi # Top})
      BY <2>2, <2>4, <2>6
    <2> QED BY <2>6, <2>7
  <1>3. \A i \in 1..Len(given.remove) : given.remove[i].hi # Top
    <2>1. \A i \in 1..Len(given.remove) : given.remove[i] \in {r \in Ranges : r.hi # Top}
      BY <1>2
    <2> QED BY <2>1
  <1> QED BY <1>2, <1>3 DEF RangeInit, RangeInv

\* What is returned, before the first prefix is written.
LEMMA NothingWritten ==
    ASSUME NEW list, Apart(list)
    PROVE  Emitted(list, <<>>, 1, StartOf(list, 1))
  <1>1. Len(list) \in Nat /\ \A i \in 1..Len(list) : list[i].lo \in Nat /\ list[i].hi \in Nat /\ list[i].lo <= list[i].hi
    BY ListTyped DEF Apart
  <1>2. StartOf(list, 1) \in Nat /\ 1 \in 1..(Len(list) + 1)
    BY <1>1 DEF StartOf
  <1>3. ASSUME 1 <= Len(list)
        PROVE  list[1].lo <= StartOf(list, 1) /\ StartOf(list, 1) <= list[1].hi
    BY <1>1, <1>3 DEF StartOf
  <1>4. <<>> \in Seq(Ranges) /\ Len(<<>>) = 0 /\ 1..0 = {}
    OBVIOUS
  <1>5. \A v : ~Member(<<>>, v)
    BY <1>4 DEF Member
  <1>6. ASSUME NEW v \in 0..Top PROVE ~(Member(list, v) /\ (1 <= Len(list) => v < StartOf(list, 1)))
    <2> SUFFICES ASSUME Member(list, v), 1 <= Len(list) => v < StartOf(list, 1) PROVE FALSE
      OBVIOUS
    <2>1. PICK i \in 1..Len(list) : list[i].lo <= v /\ v <= list[i].hi
      BY DEF Member
    <2>2. v < list[1].lo /\ v \in Nat /\ 1 \in 1..Len(list)
      BY <1>1, <2>1, WordFacts DEF StartOf
    <2>3. i = 1 \/ 1 < i
      BY <2>1
    <2>4. 1 < i => list[1].hi + 1 < list[i].lo
      BY <2>2 DEF Apart
    <2> QED BY <1>1, <2>1, <2>2, <2>3, <2>4
  <1> QED BY <1>2, <1>3, <1>4, <1>5, <1>6 DEF Emitted

\* Two lists in order, before the first pass.
LEMMA NothingSubtracted ==
    ASSUME NEW sp, NEW cu, Apart(sp), Apart(cu)
    PROVE  Subtracted(sp, cu, <<>>, 1, 1, StartOf(sp, 1))
  <1>1. Emitted(sp, <<>>, 1, StartOf(sp, 1))
    BY NothingWritten
  <1>2. Len(<<>>) = 0 /\ 1..0 = {} /\ 1 - 1 = 0 /\ <<>> \in Seq(Ranges)
    OBVIOUS
  <1>3. Apart(<<>>) /\ \A v : ~Member(<<>>, v)
    BY <1>2 DEF Apart, Member
  <1>4. Len(cu) \in Nat
    BY DEF Apart
  <1>5. 1 \in 1..(Len(cu) + 1)
    BY <1>4
  <1>6. /\ 1 \in 1..(Len(sp) + 1) /\ StartOf(sp, 1) \in Nat
        /\ 1 <= Len(sp) => sp[1].lo <= StartOf(sp, 1) /\ StartOf(sp, 1) <= sp[1].hi
        /\ \A v \in 0..Top : ~(Member(sp, v) /\ (1 <= Len(sp) => v < StartOf(sp, 1)))
    BY <1>1, <1>3 DEF Emitted
  <1>7. \A v \in 0..Top : Member(<<>>, v) <=> Member(sp, v) /\ ~Member(cu, v) /\ (1 <= Len(sp) => v < StartOf(sp, 1))
    BY <1>3, <1>6
  <1> QED BY <1>2, <1>3, <1>5, <1>6, <1>7 DEF Subtracted

LEMMA RangeInvStep == RangeInv /\ [RangeNext]_rangeVars => RangeInv'
  <1> SUFFICES ASSUME RangeInv, [RangeNext]_rangeVars PROVE RangeInv'
    OBVIOUS
  <1> USE DEF RangeInv
  <1>1. CASE SubtractBegins
    <2>1. /\ rangePC = "given" /\ rangePC' = "subtract" /\ given' = given /\ left' = <<>> /\ prefixes' = <<>>
          /\ spans' = Normalized(given.base) /\ cuts' = Normalized(given.remove)
          /\ at' = [span |-> 1, cut |-> 1, cur |-> Start(1)]
      BY <1>1 DEF SubtractBegins
    <2>2. given.base \in Seq(Ranges) /\ given.remove \in Seq(Ranges)
      OBVIOUS
    <2>3. Normalized(given.base) = Collapse(given.base)
      BY DEF Normalized
    <2>4. Apart(spans') /\ \A v \in Nat : Member(spans', v) <=> Member(given.base, v)
      BY <2>1, <2>2, <2>3, CollapseRight
    <2>5. Apart(cuts') /\ \A v \in Nat : Member(cuts', v) <=> Member(given.remove, v)
      BY <2>1, <2>2, NormalizedRight
    <2>6. Start(1) = StartOf(spans', 1) /\ StartOf(spans', 1) \in Nat
      <3>1. Start(1) = StartOf(spans', 1)
        BY DEF Start, StartOf
      <3>2. Subtracted(spans', cuts', <<>>, 1, 1, StartOf(spans', 1))
        BY <2>4, <2>5, NothingSubtracted
      <3> QED BY <3>1, <3>2 DEF Subtracted
    <2>7. Subtracted(spans', cuts', left', at'.span, at'.cut, at'.cur)
      <3>1. Subtracted(spans', cuts', <<>>, 1, 1, StartOf(spans', 1))
        BY <2>4, <2>5, NothingSubtracted
      <3> QED BY <2>1, <2>6, <3>1
    <2>8. at' \in [span : Nat, cut : Nat, cur : Nat]
      BY <2>1, <2>6
    <2>9. \A v \in 0..Top : v \in Nat
      BY WordFacts
    <2> QED BY <2>1, <2>4, <2>5, <2>7, <2>8, <2>9
  <1>2. CASE Subtract
    <2>1. /\ rangePC = "subtract" /\ rangePC' = rangePC /\ given' = given /\ prefixes' = prefixes
          /\ spans' = spans /\ cuts' = cuts /\ at.span <= Len(spans)
      BY <1>2 DEF Subtract
    <2>2. /\ Subtracted(spans, cuts, left, at.span, at.cut, at.cur)
          /\ at = [span |-> at.span, cut |-> at.cut, cur |-> at.cur]
          /\ at.span \in Nat /\ at.cut \in Nat /\ at.cur \in Nat
      BY <2>1
    <2>3. Start(at.span + 1) = StartOf(spans, at.span + 1)
      BY <2>1 DEF Start, StartOf
    <2>4. NextSpan = [span |-> at.span + 1, cut |-> at.cut, cur |-> StartOf(spans, at.span + 1)]
      <3>1. NextSpan = [at EXCEPT !.span = @ + 1, !.cur = StartOf(spans, at.span + 1)]
        BY <2>3 DEF NextSpan
      <3>2. at \in [span : Nat, cut : Nat, cur : Nat]
        OBVIOUS
      <3> HIDE DEF RangeInv
      <3> QED BY <3>1, <3>2
    <2>5. at.cut <= Len(cuts) => /\ Cut.lo \in Nat /\ Cut.hi \in Nat /\ Cut.lo <= Cut.hi /\ at.cut \in 1..Len(cuts)
      <3> SUFFICES ASSUME at.cut <= Len(cuts)
                   PROVE  Cut.lo \in Nat /\ Cut.hi \in Nat /\ Cut.lo <= Cut.hi /\ at.cut \in 1..Len(cuts)
        OBVIOUS
      <3>1. Len(cuts) \in Nat /\ at.cut \in 1..(Len(cuts) + 1)
        BY <2>2, SubtractedTyped DEF Subtracted
      <3>2. at.cut \in 1..Len(cuts)
        BY <3>1
      <3> QED BY <2>2, <3>2, SubtractedTyped DEF Cut
    <2>6. at.span \in 1..Len(spans) /\ Span.hi \in Nat /\ Span.hi <= Top /\ Top \in Nat
      <3>1. at.span \in 1..Len(spans)
        BY <2>1, <2>2, SpanReached
      <3> QED BY <2>2, <3>1, SubtractedTyped, WordFacts DEF Span
    <2>7. Before = BeforeCut(cuts, at.cut, at.cur)
      BY DEF Before, BeforeCut, Cut
    <2> DEFINE Goal == Subtracted(spans, cuts, left', at'.span, at'.cut, at'.cur) /\ at' \in [span : Nat, cut : Nat, cur : Nat]
    <2>8. ASSUME skipCut PROVE Goal
      <3>1. /\ at.cut <= Len(cuts) /\ cuts[at.cut].hi < at.cur /\ left' = left
            /\ at' = [span |-> at.span, cut |-> at.cut + 1, cur |-> at.cur]
        BY <2>2, <2>8 DEF skipCut, Cut
      <3>2. Subtracted(spans, cuts, left, at.span, at.cut + 1, at.cur)
        BY <2>1, <2>2, <3>1, CutSkipped
      <3> QED BY <2>2, <3>1, <3>2
    <2>9. ASSUME keepSpan PROVE Goal
      <3>1. /\ IF at.cut > Len(cuts) THEN TRUE ELSE cuts[at.cut].hi >= at.cur /\ cuts[at.cut].lo > spans[at.span].hi
            /\ left' = Append(left, From(at.cur, spans[at.span].hi))
            /\ at' = [span |-> at.span + 1, cut |-> at.cut, cur |-> StartOf(spans, at.span + 1)]
        BY <2>4, <2>9 DEF keepSpan, Cut, Span
      <3>2. Subtracted(spans, cuts, left', at.span + 1, at.cut, StartOf(spans, at.span + 1))
        BY <2>1, <2>2, <3>1, SpanKept
      <3>3. StartOf(spans, at.span + 1) \in Nat
        BY <3>2 DEF Subtracted
      <3> QED BY <2>2, <3>1, <3>2, <3>3
    <2>10. ASSUME cutEnd PROVE Goal
      <3>1. /\ at.cut <= Len(cuts) /\ cuts[at.cut].hi >= at.cur /\ cuts[at.cut].lo <= spans[at.span].hi
            /\ cuts[at.cut].hi >= spans[at.span].hi
            /\ left' = left \o BeforeCut(cuts, at.cut, at.cur)
            /\ at' = [span |-> at.span + 1, cut |-> at.cut, cur |-> StartOf(spans, at.span + 1)]
        BY <2>4, <2>7, <2>10 DEF cutEnd, Cut, Span
      <3>2. Subtracted(spans, cuts, left', at.span + 1, at.cut, StartOf(spans, at.span + 1))
        BY <2>1, <2>2, <3>1, CutEnds
      <3>3. StartOf(spans, at.span + 1) \in Nat
        BY <3>2 DEF Subtracted
      <3> QED BY <2>2, <3>1, <3>2, <3>3
    <2>11. ASSUME cutMiddle PROVE Goal
      <3>1. /\ at.cut <= Len(cuts) /\ cuts[at.cut].hi >= at.cur /\ cuts[at.cut].lo <= spans[at.span].hi
            /\ cuts[at.cut].hi < spans[at.span].hi
            /\ left' = left \o BeforeCut(cuts, at.cut, at.cur)
            /\ at' = [span |-> at.span, cut |-> at.cut, cur |-> Add(cuts[at.cut].hi, 1)]
        BY <2>2, <2>7, <2>11 DEF cutMiddle, Cut, Span
      <3>2. Subtracted(spans, cuts, left', at.span, at.cut, cuts[at.cut].hi + 1)
        BY <2>1, <2>2, <3>1, CutEnds
      <3>3. Add(cuts[at.cut].hi, 1) = cuts[at.cut].hi + 1
        <4>1. cuts[at.cut].hi \in Nat /\ spans[at.span].hi \in Nat /\ spans[at.span].hi <= Top /\ Top \in Nat
          BY <2>5, <2>6, <3>1 DEF Cut, Span
        <4>2. cuts[at.cut].hi + 1 <= Top /\ 1 \in Nat
          BY <3>1, <4>1
        <4> QED BY <4>1, <4>2, WordFacts
      <3>4. cuts[at.cut].hi + 1 \in Nat
        BY <3>2 DEF Subtracted
      <3> QED BY <2>2, <3>1, <3>2, <3>3, <3>4
    <2>12. Goal
      BY <1>2, <2>8, <2>9, <2>10, <2>11 DEF Subtract
    <2> HIDE DEF Goal
    <2>13. /\ Subtracted(spans, cuts, left', at'.span, at'.cut, at'.cur)
           /\ at' \in [span : Nat, cut : Nat, cur : Nat]
      BY <2>12 DEF Goal
    <2>14. \A v \in 0..Top : /\ Member(spans, v) <=> Member(given.base, v)
                             /\ Member(cuts, v) <=> Member(given.remove, v)
      BY <2>1
    <2> QED BY <2>1, <2>13, <2>14
  <1>3. CASE SubtractEnds
    <2>1. /\ rangePC = "subtract" /\ rangePC' = "prefixes" /\ given' = given /\ left' = left /\ prefixes' = <<>>
          /\ at.span > Len(spans)
          /\ at' = [span |-> 1, cut |-> 1, cur |-> IF left = <<>> THEN 0 ELSE left[1].lo]
      BY <1>3 DEF SubtractEnds
    <2>2. /\ Subtracted(spans, cuts, left, at.span, at.cut, at.cur)
          /\ \A v \in 0..Top : /\ Member(spans, v) <=> Member(given.base, v)
                               /\ Member(cuts, v) <=> Member(given.remove, v)
      BY <2>1
    <2>3. Apart(left) /\ left \in Seq(Ranges)
      BY <2>2 DEF Subtracted, Apart
    <2>4. (IF left = <<>> THEN 0 ELSE left[1].lo) = StartOf(left, 1)
      <3>1. left = <<>> <=> ~(1 <= Len(left))
        BY <2>3
      <3> QED BY <3>1 DEF StartOf
    <2>5. Emitted(left, <<>>, 1, StartOf(left, 1))
      BY <2>3, NothingWritten
    <2>6. StartOf(left, 1) \in Nat
      BY <2>5 DEF Emitted
    <2>7. ~(at.span <= Len(spans))
      <3>1. Len(spans) \in Nat /\ at.span \in Nat
        BY <2>2, SubtractedTyped
      <3> QED BY <2>1, <3>1
    <2>8. Wanted(left)
      <3>1. \A v \in 0..Top : Member(left, v) <=> Member(spans, v) /\ ~Member(cuts, v)
        BY <2>2, <2>7 DEF Subtracted
      <3> SUFFICES ASSUME NEW v \in 0..Top
                   PROVE  Member(left, v) <=> Member(given.base, v) /\ ~Member(given.remove, v)
        BY DEF Wanted
      <3> HIDE DEF RangeInv
      <3> QED BY <2>2, <3>1
    <2>9. Wanted(left)'
      BY <2>1, <2>8 DEF Wanted
    <2>10. Emitted(left', prefixes', at'.span, at'.cur)
      BY <2>1, <2>4, <2>5
    <2>11. at' \in [span : Nat, cut : Nat, cur : Nat]
      BY <2>1, <2>4, <2>6
    <2> QED BY <2>1, <2>9, <2>10, <2>11
  <1>4. CASE rangeToPrefixes
    <2> DEFINE hi == left[at.span].hi
               k == Largest(at.cur, hi)
               size == Pow2[k] - 1
               end == Add(at.cur, size)
    <2>1. /\ rangePC = "prefixes" /\ rangePC' = rangePC /\ given' = given /\ left' = left
          /\ at.span <= Len(left) /\ prefixes' = Append(prefixes, From(at.cur, end))
          /\ at' = IF end >= hi \/ end < at.cur
                   THEN [at EXCEPT !.span = @ + 1,
                                   !.cur = IF at.span < Len(left) THEN left[at.span + 1].lo ELSE 0]
                   ELSE [at EXCEPT !.cur = Add(at.cur, size + 1)]
      BY <1>4 DEF rangeToPrefixes
    <2>2. /\ Emitted(left, prefixes, at.span, at.cur) /\ Wanted(left)
          /\ at = [span |-> at.span, cut |-> at.cut, cur |-> at.cur]
          /\ at.span \in Nat /\ at.cut \in Nat /\ at.cur \in Nat
      BY <2>1
    <2>3. /\ hi \in Nat /\ hi <= Top /\ Top \in Nat /\ at.cur <= hi /\ at.span \in 1..Len(left) /\ Len(left) \in Nat
      <3>1. left \in Seq(Ranges) /\ at.span \in 1..(Len(left) + 1) /\ at.cur <= hi
        BY <2>1, <2>2 DEF Emitted, Apart
      <3>2. Len(left) \in Nat
        BY <3>1
      <3>3. at.span \in 1..Len(left)
        BY <2>1, <3>1, <3>2
      <3> QED BY <3>1, <3>2, <3>3, ListTyped, WordFacts
    <2>4. size \in Nat /\ end = at.cur + size /\ at.cur + size <= hi
      <3> HIDE DEF hi
      <3> QED BY <2>2, <2>3, LargestFits
    <2> HIDE DEF hi, k, size, end
    <2>5. end \in Nat /\ at.cur <= end /\ end <= left[at.span].hi
      BY <2>2, <2>4 DEF hi
    <2>6. /\ end = hi => Emitted(left, prefixes', at.span + 1, StartOf(left, at.span + 1))
          /\ end < hi => Emitted(left, prefixes', at.span, end + 1)
      BY <2>1, <2>2, <2>5, PrefixWritten DEF hi
    <2>7. Wanted(left)'
      BY <2>1, <2>2 DEF Wanted
    <2>8. CASE end = hi
      <3>1. at' = [span |-> at.span + 1, cut |-> at.cut,
                   cur |-> IF at.span < Len(left) THEN left[at.span + 1].lo ELSE 0]
        <4>1. end >= hi
          BY <2>3, <2>8
        <4> QED BY <2>1, <2>2, <4>1
      <3>2. (IF at.span < Len(left) THEN left[at.span + 1].lo ELSE 0) = StartOf(left, at.span + 1)
        BY <2>3 DEF StartOf
      <3>3. Emitted(left, prefixes', at.span + 1, StartOf(left, at.span + 1))
        BY <2>6, <2>8
      <3>4. StartOf(left, at.span + 1) \in Nat
        BY <3>3 DEF Emitted
      <3>5. at' \in [span : Nat, cut : Nat, cur : Nat]
        BY <2>2, <3>1, <3>2, <3>4
      <3>6. Emitted(left', prefixes', at'.span, at'.cur)
        BY <2>1, <3>1, <3>2, <3>3
      <3> QED BY <2>1, <2>7, <3>5, <3>6
    <2>9. CASE end < hi
      <3>1. ~(end >= hi \/ end < at.cur)
        BY <2>2, <2>3, <2>5, <2>9
      <3>2. at' = [span |-> at.span, cut |-> at.cut, cur |-> Add(at.cur, size + 1)]
        BY <2>1, <2>2, <3>1
      <3>3. Add(at.cur, size + 1) = end + 1
        <4>1. at.cur \in Nat /\ size + 1 \in Nat /\ at.cur + (size + 1) <= Top /\ at.cur + (size + 1) = end + 1
          BY <2>2, <2>3, <2>4, <2>9
        <4>2. Add(at.cur, size + 1) = at.cur + (size + 1)
          BY <4>1, WordFacts
        <4> QED BY <4>1, <4>2
      <3>4. Emitted(left, prefixes', at.span, end + 1)
        BY <2>6, <2>9
      <3>5. at' \in [span : Nat, cut : Nat, cur : Nat]
        BY <2>2, <2>5, <3>2, <3>3
      <3>6. Emitted(left', prefixes', at'.span, at'.cur)
        <4> HIDE DEF RangeInv
        <4>1. left' = left
          BY <2>1
        <4>2. at'.span = at.span /\ at'.cur = end + 1
          BY <3>2, <3>3
        <4> QED BY <3>4, <4>1, <4>2
      <3> QED BY <2>1, <2>7, <3>5, <3>6
    <2>10. end = hi \/ end < hi
      BY <2>3, <2>5 DEF hi
    <2> QED BY <2>8, <2>9, <2>10
  <1>5. CASE RangesDone
    <2>1. /\ rangePC = "prefixes" /\ rangePC' = "done" /\ at.span > Len(left)
          /\ given' = given /\ at' = at /\ left' = left /\ prefixes' = prefixes
      BY <1>5 DEF RangesDone
    <2>2. Emitted(left, prefixes, at.span, at.cur) /\ Wanted(left) /\ at.span \in Nat
      BY <2>1
    <2>3. at.span = Len(left) + 1 /\ ~(at.span <= Len(left))
      <3>1. left \in Seq(Ranges) /\ at.span \in 1..(Len(left) + 1)
        BY <2>2 DEF Emitted, Apart
      <3>2. Len(left) \in Nat
        BY <3>1
      <3> QED BY <2>1, <3>1, <3>2
    <2>4. Emitted(left, prefixes, at.span, 0)
      BY <2>2, <2>3 DEF Emitted
    <2>5. Wanted(left)'
      BY <2>1, <2>2 DEF Wanted
    <2> QED BY <2>1, <2>3, <2>4, <2>5
  <1>6. CASE UNCHANGED rangeVars
    <2>1. /\ given' = given /\ spans' = spans /\ cuts' = cuts /\ at' = at /\ left' = left
          /\ prefixes' = prefixes /\ rangePC' = rangePC
      BY <1>6 DEF rangeVars
    <2>2. Wanted(left)' <=> Wanted(left)
      BY <2>1 DEF Wanted
    <2> QED BY <2>1, <2>2
  <1> QED BY <1>1, <1>2, <1>3, <1>4, <1>5, <1>6 DEF RangeNext

\* What the invariant says when the pass is over.
LEMMA RangesRight == RangeInv => RangesAreExact
  <1> SUFFICES ASSUME RangeInv, rangePC = "done" PROVE RangesAreExact
    BY DEF RangesAreExact
  <1> DEFINE wanted == Members(given.base) \ Members(given.remove)
             n == Len(left) + 1
  <1>1. /\ given.base \in Seq(Ranges) /\ given.remove \in Seq(Ranges)
        /\ Wanted(left) /\ Emitted(left, prefixes, n, 0)
    BY DEF RangeInv
  <1>2. Apart(left) /\ left \in Seq(Ranges) /\ prefixes \in Seq(Ranges) /\ Len(left) \in Nat
    BY <1>1 DEF Emitted, Apart
  <1>3. ~(n <= Len(left))
    BY <1>2
  <1> HIDE DEF n
  <1>4. \A v \in 0..Top : /\ Member(left, v) <=> Member(given.base, v) /\ ~Member(given.remove, v)
                          /\ Member(prefixes, v) <=> Member(left, v)
    BY <1>1, <1>3 DEF Wanted, Emitted
  <1>5. wanted = {v \in 0..Top : Member(left, v)}
    <2>1. Members(given.base) = {v \in 0..Top : Member(given.base, v)}
      BY <1>1, MembersCovered
    <2>2. Members(given.remove) = {v \in 0..Top : Member(given.remove, v)}
      BY <1>1, MembersCovered
    <2> QED BY <1>4, <2>1, <2>2
  <1> HIDE DEF wanted
  <1>6. Members(left) = wanted
    BY <1>2, <1>5, MembersCovered
  <1>7. \A v \in 0..Top : ContainsUint(left, v) <=> v \in wanted
    BY <1>2, <1>5, AddressFound
  <1>8. ASSUME NEW r \in Ranges PROVE Overlaps(left, r.lo, r.hi) <=> (r.lo..r.hi) \cap wanted # {}
    <2>1. r.lo \in 0..Top /\ r.hi \in 0..Top /\ r.lo <= r.hi
      BY DEF Ranges
    <2>2. Overlaps(left, r.lo, r.hi) <=> \E v \in r.lo..r.hi : Member(left, v)
      BY <1>2, <2>1, OverlapFound
    <2>3. \A v \in r.lo..r.hi : v \in 0..Top
      BY <2>1, WordFacts
    <2> QED BY <1>5, <2>2, <2>3
  <1>9. Members(prefixes) = wanted
    <2>1. Members(prefixes) = {v \in 0..Top : Member(prefixes, v)}
      BY <1>2, MembersCovered
    <2> QED BY <1>4, <1>5, <2>1
  <1>10. ASSUME NEW i \in DOMAIN prefixes, NEW j \in DOMAIN prefixes, i # j
         PROVE  Members(<<prefixes[i]>>) \cap Members(<<prefixes[j]>>) = {}
    <2>1. /\ i \in 1..Len(prefixes) /\ j \in 1..Len(prefixes)
          /\ prefixes[i].lo \in Nat /\ prefixes[i].hi \in Nat /\ prefixes[j].lo \in Nat /\ prefixes[j].hi \in Nat
          /\ prefixes[i].lo <= prefixes[i].hi /\ prefixes[j].lo <= prefixes[j].hi
      BY <1>2, ListTyped
    <2>2. i < j \/ j < i
      BY <1>10, <2>1
    <2>3. prefixes[i].hi < prefixes[j].lo \/ prefixes[j].hi < prefixes[i].lo
      BY <1>1, <2>1, <2>2 DEF Emitted
    <2>4. \A r : Members(<<r>>) = r.lo..r.hi
      <3> TAKE r
      <3>1. ToSet(<<r>>) = {r}
        BY DEF ToSet
      <3> QED BY <3>1 DEF Members
    <2>5. (prefixes[i].lo..prefixes[i].hi) \cap (prefixes[j].lo..prefixes[j].hi) = {}
      BY <2>1, <2>3
    <2> QED BY <2>4, <2>5
  <1> QED BY <1>6, <1>7, <1>8, <1>9, <1>10 DEF RangesAreExact, wanted

\* For every width of an address and all lists: what Subtract returns are the
\* addresses of the base that are not removed, the two searches find exactly
\* those, and the prefixes hold each of them once (ipset: Collapse, Subtract,
\* Contains, Overlaps, Prefixes).
THEOREM RangesStayExact == RangeSpec => []RangesAreExact
  <1>1. RangeInv /\ [RangeNext]_rangeVars => RangeInv'
    BY RangeInvStep
  <1> QED BY <1>1, RangeInvInit, RangesRight, PTL DEF RangeSpec

(***************************************************************************)
(* The agreement of the databases. For every set of databases and all      *)
(* their opinions: the sweep over the bounds of their ranges finds exactly *)
(* the addresses on which enough of them agree. The invariant says that    *)
(* the depth is the number that agree on the address before, and that what *)
(* is closed and what is open is what they agree on so far.                *)
(***************************************************************************)

Kinds == {"disputed", "promoted"}

\* The databases that scanned an address, and what a sweep has to find below it.
Agreeing(list, a) == {s \in usable : a \in Scanned(list, s)}
Agreed(list, n) == {a \in Global : a < n /\ Cardinality(Agreeing(list, a)) >= Need(list)}

AuditType == [list : Kinds, at : Nat, depth : Int, start : Nat, out : SUBSET Nat]
ReportType == [disputed : SUBSET Nat, promoted : SUBSET Nat, refused : SUBSET Kinds]

ListTypes ==
    /\ usable \subseteq Databases
    /\ audit \in AuditType
    /\ report \in ReportType

\* The depth counts the databases that agree on the address before, and what is
\* found, with the range that is open, is what they agree on so far.
SweepOK ==
    /\ audit.at <= LastAddr + 1
    /\ audit.depth = Cardinality(Agreeing(audit.list, audit.at - 1))
    /\ audit.depth < Need(audit.list) => audit.out = Agreed(audit.list, audit.at)
    /\ audit.depth >= Need(audit.list) =>
           audit.start < audit.at /\
           audit.out \cup (audit.start..(audit.at - 1)) = Agreed(audit.list, audit.at)
    /\ audit.list = "promoted" => report.disputed = Agreed("disputed", LastAddr + 1)

SweepInv ==
    /\ ListTypes
    /\ listStep \in {"sweep", "write"} => Cardinality(usable) >= 2
    /\ listStep = "sweep" => SweepOK
    /\ listStep = "write" => \A list \in Kinds : report[list] = Agreed(list, LastAddr + 1)

LEMMA UsableFinite ==
    ASSUME ListTypes
    PROVE  IsFiniteSet(usable) /\ Cardinality(usable) \in Nat
  BY ListConstants, FS_Subset, FS_CardinalityType DEF ListTypes

LEMMA NeedIs ==
    ASSUME ListTypes, Cardinality(usable) >= 2, NEW list
    PROVE  Need(list) \in Nat /\ Need(list) >= 2
  BY UsableFinite DEF Need, DisputeNeed

LEMMA ScannedGlobal ==
    ASSUME NEW list, NEW s
    PROVE  Scanned(list, s) \subseteq Global
  BY DEF Scanned, Offshore, Mainland, LoadReader

LEMMA AgreeingFinite ==
    ASSUME ListTypes, NEW list, NEW a
    PROVE  /\ IsFiniteSet(Agreeing(list, a)) /\ Cardinality(Agreeing(list, a)) \in Nat
           /\ a \notin Global => Cardinality(Agreeing(list, a)) = 0
  <1>1. IsFiniteSet(Agreeing(list, a))
    BY UsableFinite, FS_Subset DEF Agreeing
  <1>2. a \notin Global => Agreeing(list, a) = {}
    BY ScannedGlobal DEF Agreeing
  <1> QED BY <1>1, <1>2, FS_CardinalityType, FS_EmptySet

\* The edges at an address are the difference in those who agree.
LEMMA DeltaIsDifference ==
    ASSUME ListTypes, NEW list, NEW a
    PROVE  Cardinality(Agreeing(list, a)) = Cardinality(Agreeing(list, a - 1)) + Delta(list, a)
  <1> DEFINE A == Agreeing(list, a)
             B == Agreeing(list, a - 1)
  <1>1. IsFiniteSet(A) /\ IsFiniteSet(B)
    BY AgreeingFinite
  <1>2. Delta(list, a) = Cardinality(A \ B) - Cardinality(B \ A)
    <2>1. A \ B = {s \in usable : a \in Scanned(list, s) /\ a - 1 \notin Scanned(list, s)}
      BY DEF Agreeing
    <2>2. B \ A = {s \in usable : a - 1 \in Scanned(list, s) /\ a \notin Scanned(list, s)}
      BY DEF Agreeing
    <2> HIDE DEF A, B
    <2> QED BY <2>1, <2>2 DEF Delta
  <1> HIDE DEF A, B
  <1>3. /\ Cardinality(A \ B) = Cardinality(A) - Cardinality(A \cap B)
        /\ Cardinality(B \ A) = Cardinality(B) - Cardinality(B \cap A)
    BY <1>1, FS_Difference
  <1>4. A \cap B = B \cap A
    OBVIOUS
  <1>5. /\ Cardinality(A) \in Nat /\ Cardinality(B) \in Nat /\ Cardinality(A \cap B) \in Nat
    BY <1>1, FS_Intersection, FS_CardinalityType
  <1>6. \A m, n, k \in Nat : m = n + ((m - k) - (n - k))
    OBVIOUS
  <1>7. Cardinality(A) = Cardinality(B) + ((Cardinality(A) - Cardinality(A \cap B)) - (Cardinality(B) - Cardinality(A \cap B)))
    BY <1>5, <1>6
  <1>8. Delta(list, a) = (Cardinality(A) - Cardinality(A \cap B)) - (Cardinality(B) - Cardinality(A \cap B))
    BY <1>2, <1>3, <1>4
  <1>9. Cardinality(A) = Cardinality(B) + Delta(list, a)
    BY <1>7, <1>8
  <1> QED BY <1>9 DEF A, B

\* What is found up to the next address.
LEMMA AgreedNext ==
    ASSUME NEW list, NEW n \in Nat
    PROVE  Agreed(list, n + 1) =
             IF n \in Global /\ Cardinality(Agreeing(list, n)) >= Need(list)
             THEN Agreed(list, n) \cup {n} ELSE Agreed(list, n)
  BY ListConstants DEF Agreed, Global

LEMMA Unscanned ==
    ASSUME UNCHANGED <<direct, verdict, usable>>
    PROVE  \A list, n : /\ (Agreeing(list, n))' = Agreeing(list, n)
                        /\ (Agreed(list, n))' = Agreed(list, n)
                        /\ Need(list)' = Need(list)
  <1>1. \A list, n : (Agreeing(list, n))' = Agreeing(list, n)
    BY DEF Agreeing, Scanned, Offshore, Mainland, LoadReader
  <1>2. \A list : Need(list)' = Need(list)
    BY DEF Need, DisputeNeed
  <1> QED BY <1>1, <1>2 DEF Agreed

LEMMA SweepInvInit == ListInit => SweepInv
  <1>1. NoAudit \in AuditType /\ NoReport \in ReportType
    BY DEF NoAudit, NoReport, AuditType, ReportType, Kinds
  <1> QED BY <1>1 DEF ListInit, SweepInv, ListTypes

LEMMA SweepTurn ==
    ASSUME SweepInv, mergeAgreement
    PROVE  SweepInv'
  <1> DEFINE ad == audit.at
             list == audit.list
             need == Need(list)
             depth == audit.depth + Delta(list, ad)
  <1>1. ListTypes /\ SweepOK /\ ad \in Nat /\ list \in Kinds /\ ad <= LastAddr
        /\ need \in Nat /\ need >= 2 /\ audit.depth \in Int /\ audit.start \in Nat /\ audit.out \subseteq Nat
    BY NeedIs DEF mergeAgreement, SweepInv, ListTypes, AuditType
  <1>2. UNCHANGED <<direct, verdict, usable, listStep, report>> /\ listStep = "sweep"
    BY DEF mergeAgreement, inputs
  <1>3. depth = Cardinality(Agreeing(list, ad)) /\ depth \in Nat
    <2>1. Cardinality(Agreeing(list, ad)) = Cardinality(Agreeing(list, ad - 1)) + Delta(list, ad)
      BY <1>1, DeltaIsDifference
    <2> QED BY <1>1, <2>1, AgreeingFinite DEF SweepOK
  <1>4. audit.depth \in Nat
    BY <1>1, AgreeingFinite DEF SweepOK
  <1>5. /\ audit'.list = list /\ audit'.at = ad + 1 /\ audit'.depth = depth
        /\ audit'.start = IF audit.depth < need /\ depth >= need THEN ad ELSE audit.start
        /\ audit'.out = IF audit.depth >= need /\ depth < need
                        THEN audit.out \cup (audit.start..(ad - 1)) ELSE audit.out
        /\ audit' \in AuditType
    <2>1. PICK start \in Nat : start = IF audit.depth < need /\ depth >= need THEN ad ELSE audit.start
      BY <1>1
    <2>2. PICK out \in SUBSET Nat : out = IF audit.depth >= need /\ depth < need
                        THEN audit.out \cup (audit.start..(ad - 1)) ELSE audit.out
      <3>1. audit.start..(ad - 1) \subseteq Nat
        BY <1>1
      <3> QED BY <1>1, <3>1
    <2>3. audit' = [audit EXCEPT !.at = ad + 1, !.depth = depth, !.start = start, !.out = out]
      BY <2>1, <2>2 DEF mergeAgreement
    <2> HIDE DEF depth, need
    <2>4. audit \in AuditType
      BY <1>1 DEF ListTypes
    <2>5. audit' = [list |-> list, at |-> ad + 1, depth |-> depth, start |-> start, out |-> out]
      BY <2>3, <2>4 DEF AuditType
    <2> QED BY <1>1, <1>3, <2>1, <2>2, <2>5 DEF AuditType
  <1>6. depth >= need => ad \in Global
    BY <1>1, <1>3, AgreeingFinite
  <1>7. Agreed(list, ad + 1) = IF depth >= need THEN Agreed(list, ad) \cup {ad} ELSE Agreed(list, ad)
    BY <1>1, <1>3, <1>6, AgreedNext
  <1> HIDE DEF depth, need
  <1>8. /\ depth < need => audit'.out = Agreed(list, ad + 1)
        /\ depth >= need => audit'.out \cup (audit'.start..ad) = Agreed(list, ad + 1)
    <2>1. CASE audit.depth < need
      <3>1. audit.out = Agreed(list, ad)
        BY <1>1, <2>1 DEF SweepOK, need
      <3> QED BY <1>1, <1>3, <1>5, <1>7, <2>1, <3>1
    <2>2. CASE audit.depth >= need
      <3>1. audit.out \cup (audit.start..(ad - 1)) = Agreed(list, ad)
        BY <1>1, <2>2 DEF SweepOK, need
      <3>2. audit.start < ad
        BY <1>1, <2>2 DEF SweepOK, need
      <3>3. audit.start..ad = (audit.start..(ad - 1)) \cup {ad}
        BY <1>1, <3>2
      <3>4. CASE depth >= need
        BY <1>1, <1>3, <1>5, <1>7, <2>2, <3>1, <3>3, <3>4
      <3>5. CASE depth < need
        <4>1. audit'.out = Agreed(list, ad + 1)
          BY <1>5, <1>7, <2>2, <3>1, <3>5, <1>1, <1>3
        <4>2. ~(depth >= need)
          BY <1>1, <1>3, <3>5
        <4> QED BY <4>1, <4>2
      <3>6. depth >= need \/ depth < need
        BY <1>1, <1>3
      <3> QED BY <3>4, <3>5, <3>6
    <2>3. audit.depth < need \/ audit.depth >= need
      BY <1>1, <1>4
    <2> QED BY <2>1, <2>2, <2>3
  <1>9. SweepOK'
    <2>1. (Need(audit.list))' = need
      BY <1>2, <1>5 DEF Need, DisputeNeed, need
    <2>2. (Agreeing(audit.list, audit.at - 1))' = Agreeing(list, ad)
      <3>1. audit'.at - 1 = ad
        BY <1>1, <1>5
      <3> QED BY <1>2, <1>5, <3>1 DEF Agreeing, Scanned, Offshore, Mainland, LoadReader
    <2>3. (Agreed(audit.list, audit.at))' = Agreed(list, ad + 1)
      BY <1>2, <1>5 DEF Agreed, Agreeing, Need, DisputeNeed, Scanned, Offshore, Mainland, LoadReader
    <2>4. (Agreed("disputed", LastAddr + 1))' = Agreed("disputed", LastAddr + 1)
      BY <1>2 DEF Agreed, Agreeing, Need, DisputeNeed, Scanned, Offshore, Mainland, LoadReader
    <2>5. audit'.at - 1 = ad /\ audit'.at <= LastAddr + 1
      BY <1>1, <1>5, ListConstants
    <2>6. depth >= need => audit'.start < audit'.at
      BY <1>1, <1>4, <1>5 DEF SweepOK, need
    <2> QED BY <1>1, <1>2, <1>3, <1>5, <1>8, <2>1, <2>2, <2>3, <2>4, <2>5, <2>6 DEF SweepOK
  <1> QED BY <1>1, <1>2, <1>5, <1>9 DEF SweepInv, ListTypes

\* A sweep begins before the first address.
LEMMA SweepBegins ==
    ASSUME ListTypes, Cardinality(usable) >= 2, usable' = usable,
           audit'.at = 0, audit'.depth = 0, audit'.out = {},
           audit'.list = "promoted" => report'.disputed = (Agreed("disputed", LastAddr + 1))'
    PROVE  SweepOK'
  <1>1. (Need(audit.list))' \in Nat /\ (Need(audit.list))' >= 2
    BY UsableFinite DEF Need, DisputeNeed
  <1>2. (Agreeing(audit.list, audit.at - 1))' = {}
    <2>1. -1 \notin Global /\ audit'.at - 1 = -1
      BY ListConstants DEF Global
    <2> QED BY <2>1 DEF Agreeing, Scanned, Offshore, Mainland, LoadReader
  <1>3. (Agreed(audit.list, audit.at))' = {}
    BY ListConstants DEF Agreed, Global
  <1>4. Cardinality({}) = 0
    BY FS_EmptySet
  <1>5. (audit.at <= LastAddr + 1)' /\ (audit.depth = Cardinality(Agreeing(audit.list, audit.at - 1)))'
    BY <1>2, <1>4, ListConstants
  <1>6. (audit.depth < Need(audit.list) => audit.out = Agreed(audit.list, audit.at))'
    BY <1>3
  <1>7. (~(audit.depth >= Need(audit.list)))'
    BY <1>1
  <1> QED BY <1>5, <1>6, <1>7 DEF SweepOK

LEMMA SweepEnd ==
    ASSUME SweepInv, mergeAgreementEnds
    PROVE  SweepInv'
  <1>1. ListTypes /\ SweepOK /\ audit.list \in Kinds /\ Cardinality(usable) >= 2
    BY DEF mergeAgreementEnds, SweepInv, ListTypes, AuditType
  <1>2. UNCHANGED <<direct, verdict, usable>>
    BY DEF mergeAgreementEnds, inputs
  <1>3. audit.at = LastAddr + 1
    <2>1. audit.at \in Nat /\ ~(audit.at <= LastAddr) /\ audit.at <= LastAddr + 1
      <3>1. ~(audit.at <= LastAddr)
        <4>1. audit.at > LastAddr
          BY DEF mergeAgreementEnds
        <4> QED BY <1>1, <4>1, ListConstants DEF ListTypes, AuditType
      <3> QED BY <1>1, <3>1 DEF SweepOK, ListTypes, AuditType
    <2> QED BY <2>1, ListConstants
  <1>4. audit.depth = 0 /\ audit.out = Agreed(audit.list, LastAddr + 1)
    <2>1. LastAddr \notin Global /\ audit.at - 1 = LastAddr
      BY <1>3, ListConstants DEF Global
    <2>2. audit.depth = 0
      BY <1>1, <2>1, AgreeingFinite DEF SweepOK
    <2> QED BY <1>1, <1>3, <2>2, NeedIs DEF SweepOK
  <1>5. /\ report' = [report EXCEPT ![audit.list] = audit.out,
                          !.refused = IF Refused(audit.list, audit.out) THEN @ \cup {audit.list} ELSE @]
        /\ audit' = [NoAudit EXCEPT !.list = "promoted"]
        /\ listStep' = IF audit.list = "disputed" THEN "sweep" ELSE "write"
    BY DEF mergeAgreementEnds
  <1>6. ListTypes'
    <2>1. audit' \in AuditType
      <3>1. audit' = [list |-> "promoted", at |-> 0, depth |-> 0, start |-> 0, out |-> {}]
        BY <1>5 DEF NoAudit
      <3> QED BY <3>1 DEF AuditType, Kinds
    <2>2. PICK r \in SUBSET Kinds : r = IF Refused(audit.list, audit.out) THEN report.refused \cup {audit.list} ELSE report.refused
      <3>1. report.refused \in SUBSET Kinds
        BY <1>1 DEF ListTypes, ReportType
      <3> QED BY <1>1, <3>1
    <2>3. report' = [report EXCEPT ![audit.list] = audit.out, !.refused = r]
      BY <1>1, <1>5, <2>2 DEF ListTypes, ReportType, Kinds
    <2>4. report' \in ReportType
      <3>1. audit.out \in SUBSET Nat /\ report \in ReportType
        BY <1>1 DEF ListTypes, AuditType
      <3> QED BY <1>1, <2>3, <3>1 DEF ReportType, Kinds
    <2> QED BY <1>1, <1>2, <2>1, <2>4 DEF ListTypes
  <1>7. report'[audit.list] = audit.out /\ (audit.list = "promoted" => report'.disputed = report.disputed)
    BY <1>1, <1>5 DEF ListTypes, ReportType, Kinds
  <1>8. CASE audit.list = "disputed"
    <2>1. /\ listStep' = "sweep" /\ audit'.list = "promoted" /\ audit'.at = 0 /\ audit'.depth = 0 /\ audit'.out = {}
      BY <1>5, <1>8 DEF NoAudit
    <2>2. (Agreed("disputed", LastAddr + 1))' = Agreed("disputed", LastAddr + 1)
      BY <1>2 DEF Agreed, Agreeing, Need, DisputeNeed, Scanned, Offshore, Mainland, LoadReader
    <2>3. report'.disputed = Agreed("disputed", LastAddr + 1)
      BY <1>4, <1>7, <1>8
    <2>4. SweepOK'
      BY <1>1, <1>2, <2>1, <2>2, <2>3, SweepBegins
    <2> QED BY <1>1, <1>2, <1>6, <2>1, <2>4 DEF SweepInv
  <1>9. CASE audit.list = "promoted"
    <2>1. listStep' = "write"
      BY <1>5, <1>9
    <2>2. \A list \in Kinds : report'[list] = Agreed(list, LastAddr + 1)
      BY <1>1, <1>4, <1>7, <1>9 DEF SweepOK, Kinds
    <2> QED BY <1>1, <1>2, <1>6, <2>1, <2>2, Unscanned DEF SweepInv
  <1> QED BY <1>1, <1>8, <1>9 DEF Kinds

\* The other steps leave the sweep alone, or begin it.
LEMMA SweepInvStep == SweepInv /\ [ListNext]_listVars => SweepInv'
  <1> SUFFICES ASSUME SweepInv, [ListNext]_listVars PROVE SweepInv'
    OBVIOUS
  <1>1. CASE GeoIPStep
    BY <1>1 DEF GeoIPStep, SweepInv, ListTypes
  <1>2. CASE stepChnroute
    BY <1>2 DEF stepChnroute, inputs, SweepInv, ListTypes
  <1>3. CASE geoCrossFailsOpen
    BY <1>3 DEF geoCrossFailsOpen, inputs, SweepInv, ListTypes
  <1>4. CASE geoCrossBegins
    <2>1. /\ ListTypes /\ Cardinality(usable) >= 2 /\ usable' = usable /\ listStep' = "sweep"
          /\ audit' = NoAudit /\ report' = NoReport
      BY <1>4, UsableFinite DEF geoCrossBegins, inputs, SweepInv
    <2>2. NoAudit \in AuditType /\ NoReport \in ReportType
      BY DEF NoAudit, NoReport, AuditType, ReportType, Kinds
    <2>3. SweepOK'
      BY <2>1, SweepBegins DEF NoAudit
    <2> QED BY <2>1, <2>2, <2>3 DEF SweepInv, ListTypes
  <1>5. CASE mergeAgreement
    BY <1>5, SweepTurn
  <1>6. CASE mergeAgreementEnds
    BY <1>6, SweepEnd
  <1>7. CASE WriteSnapshots
    BY <1>7 DEF WriteSnapshots, inputs, SweepInv, ListTypes
  <1>8. CASE stepAnycast
    BY <1>8 DEF stepAnycast, inputs, SweepInv, ListTypes
  <1>9. CASE stepECSZone
    BY <1>9 DEF stepECSZone, inputs, SweepInv, ListTypes
  <1>10. CASE RoundEnds
    BY <1>10 DEF RoundEnds, inputs, SweepInv, ListTypes
  <1>11. CASE UNCHANGED listVars
    <2>1. UNCHANGED <<direct, verdict, usable, audit, report, listStep>>
      BY <1>11 DEF listVars
    <2>2. SweepOK' = SweepOK
      BY <2>1 DEF SweepOK, Agreed, Agreeing, Need, DisputeNeed, Scanned, Offshore, Mainland, LoadReader
    <2> QED BY <2>1, <2>2, Unscanned DEF SweepInv, ListTypes
  <1> QED BY <1>1, <1>2, <1>3, <1>4, <1>5, <1>6, <1>7, <1>8, <1>9, <1>10, <1>11 DEF ListNext

THEOREM AgreementStaysExact == ListSpec => []AgreementIsExact
  <1>1. SweepInv => AgreementIsExact
    <2> SUFFICES ASSUME SweepInv, listStep = "write", NEW list \in Kinds
                 PROVE  /\ report[list] = {a \in Global : Cardinality({s \in usable : a \in Scanned(list, s)}) >= Need(list)}
                        /\ Need(list) >= 2
      BY DEF AgreementIsExact, Kinds
    <2>1. report[list] = Agreed(list, LastAddr + 1) /\ ListTypes /\ Cardinality(usable) >= 2
      BY DEF SweepInv
    <2>2. \A a \in Global : a < LastAddr + 1
      BY ListConstants DEF Global
    <2> QED BY <2>1, <2>2, NeedIs DEF Agreed, Agreeing
  <1> QED BY <1>1, SweepInvInit, SweepInvStep, PTL DEF ListSpec

(***************************************************************************)
(* The cache zones. Rows that were merged where their zones are equal and  *)
(* they touch, and a search that finds the row of an address.              *)
(***************************************************************************)

ZoneRow == [lo : Global, hi : Global, zone : {ZoneName[a] : a \in Global}]

InRow(row, a) == row.lo <= a /\ a <= row.hi

\* Rows in order, apart, that hold the given addresses, each with its own zone.
TableOf(m, addrs) ==
    /\ m \in Seq(ZoneRow)
    /\ \A i \in 1..Len(m) : m[i].lo <= m[i].hi
    /\ \A i, j \in 1..Len(m) : i < j => m[i].hi < m[j].lo
    /\ \A a \in Global : (\E i \in 1..Len(m) : InRow(m[i], a)) <=> a \in addrs
    /\ \A i \in 1..Len(m) : \A a \in Global : InRow(m[i], a) => m[i].zone = ZoneName[a]

\* The last row is the one just reached.
Reaches(m, k, s) == IF k = 0 THEN m = <<>> ELSE m # <<>> /\ m[Len(m)].hi = s[k].lo

LEMMA RowMerges ==
    ASSUME NEW addrs, addrs \subseteq Global, NEW m, TableOf(m, addrs),
           NEW a \in Global, \A b \in addrs : b < a,
           m # <<>> => m[Len(m)].hi \in addrs
    PROVE  LET next == MergeRow(m, Row(a)) IN
           TableOf(next, addrs \cup {a}) /\ next # <<>> /\ next[Len(next)].hi = a
  <1> DEFINE row == Row(a)
             next == MergeRow(m, row)
             L == Len(m)
  <1>0. Global \subseteq Nat
    BY ListConstants DEF Global
  <1>1. row \in ZoneRow /\ row.lo = a /\ row.hi = a /\ row.zone = ZoneName[a]
    BY DEF Row, ZoneRow
  <1>2. m \in Seq(ZoneRow) /\ L \in Nat
    BY DEF TableOf
  <1>2a. \A i \in 1..L : m[i] \in ZoneRow /\ m[i].lo \in Nat /\ m[i].hi \in Nat
    <2>1. \A i \in 1..L : m[i] \in ZoneRow
      BY <1>2
    <2> QED BY <1>0, <2>1 DEF ZoneRow
  <1>2b. \A i \in 1..L : m[i].hi \in addrs \/ m[i].hi < a
    <2> TAKE i \in 1..L
    <2>1. m # <<>> /\ L \in 1..L
      BY <1>2
    <2>2. m[L].hi < a
      BY <2>1
    <2>3. CASE i = L
      BY <2>2, <2>3
    <2>4. CASE i < L
      <3>1. m[i].hi < m[L].lo /\ m[L].lo <= m[L].hi
        BY <2>1, <2>4 DEF TableOf
      <3> QED BY <1>0, <1>2a, <2>1, <2>2, <3>1
    <2> QED BY <1>2, <2>3, <2>4
  <1>2c. \A i \in 1..L : m[i].hi < a
    BY <1>2b
  <1> HIDE DEF row
  <1>3. CASE m = <<>>
    <2>1. next = <<row>> /\ L = 0
      BY <1>3 DEF MergeRow
    <2>2. Len(next) = 1 /\ next[1] = row /\ next \in Seq(ZoneRow) /\ next # <<>>
      BY <1>1, <2>1
    <2>3. addrs = {}
      BY <1>2, <2>1 DEF TableOf
    <2> HIDE DEF next
    <2>4. TableOf(next, addrs \cup {a})
      BY <1>0, <1>1, <2>2, <2>3 DEF TableOf, InRow
    <2> QED BY <1>1, <2>2, <2>4 DEF next, row
  <1>4. CASE m # <<>>
    <2> DEFINE last == m[L]
               lo == IF row.lo <= last.hi THEN last.hi + 1 ELSE row.lo
    <2>1. /\ L \in Nat \ {0} /\ Last(m) = last /\ last \in ZoneRow
          /\ Front(m) \in Seq(ZoneRow) /\ Len(Front(m)) = L - 1
          /\ \A i \in 1..(L - 1) : Front(m)[i] = m[i]
      BY <1>2, <1>4, LastOne
    <2>2. L \in 1..L /\ last.hi < a /\ last.hi \in Nat /\ last.lo \in Nat /\ last.lo <= last.hi /\ a \in Nat
      BY <1>0, <1>2a, <1>2c, <2>1 DEF TableOf
    <2>3. lo = a
      BY <1>1, <2>2
    <2>4. next = IF row.zone = last.zone /\ row.lo <= last.hi + 1
                 THEN Append(Front(m), [last EXCEPT !.hi = IF row.hi > @ THEN row.hi ELSE @])
                 ELSE IF lo > row.hi THEN m ELSE Append(m, [row EXCEPT !.lo = lo])
      BY <1>4, <2>1 DEF MergeRow
    <2>5. CASE row.zone = last.zone /\ row.lo <= last.hi + 1
      <3> DEFINE joined == [lo |-> last.lo, hi |-> a, zone |-> last.zone]
      <3>1. [last EXCEPT !.hi = IF row.hi > @ THEN row.hi ELSE @] = joined
        BY <1>1, <2>1, <2>2 DEF ZoneRow
      <3>2. joined \in ZoneRow
        BY <2>1 DEF ZoneRow
      <3>3. next = Append(Front(m), joined)
        BY <2>4, <2>5, <3>1
      <3>3a. joined.lo = last.lo /\ joined.hi = a /\ joined.zone = last.zone
        OBVIOUS
      <3> HIDE DEF joined, next
      <3>4. /\ next \in Seq(ZoneRow) /\ Len(next) = L /\ next[L] = joined
            /\ \A i \in 1..(L - 1) : next[i] = m[i]
        BY <2>1, <3>2, <3>3
      <3>5. last.hi = a - 1
        BY <1>1, <2>2, <2>5
      <3>6. \A i \in 1..L : i = L \/ i \in 1..(L - 1)
        BY <2>1
      <3>7. \A i \in 1..L : next[i].lo <= next[i].hi
        BY <2>2, <3>3a, <3>4, <3>6 DEF TableOf
      <3>8. ASSUME NEW i \in 1..L, NEW j \in 1..L, i < j PROVE next[i].hi < next[j].lo
        <4>1. m[i].hi < m[j].lo /\ i \in 1..(L - 1)
          BY <2>1, <3>8 DEF TableOf
        <4>2. next[j].lo = m[j].lo
          BY <3>3a, <3>4, <3>6
        <4> QED BY <3>4, <4>1, <4>2
      <3>9. ASSUME NEW b \in Global
            PROVE  (\E i \in 1..L : InRow(next[i], b)) <=> b \in addrs \cup {a}
        <4>1. InRow(next[L], b) <=> InRow(m[L], b) \/ b = a
          BY <1>0, <2>2, <3>3a, <3>4, <3>5 DEF InRow
        <4>2. (\E i \in 1..L : InRow(next[i], b)) <=> (\E i \in 1..L : InRow(m[i], b)) \/ b = a
          BY <2>2, <3>4, <3>6, <4>1
        <4> QED BY <4>2 DEF TableOf
      <3>10. ASSUME NEW i \in 1..L, NEW b \in Global, InRow(next[i], b) PROVE next[i].zone = ZoneName[b]
        <4>1. CASE i \in 1..(L - 1)
          BY <3>4, <3>10, <4>1 DEF TableOf
        <4>2. CASE i = L
          <5>1. InRow(m[L], b) \/ b = a
            BY <1>0, <2>2, <3>3a, <3>4, <3>5, <3>10, <4>2 DEF InRow
          <5> QED BY <1>1, <2>2, <2>5, <3>3a, <3>4, <4>2, <5>1 DEF TableOf
        <4> QED BY <3>6, <4>1, <4>2
      <3>11. TableOf(next, addrs \cup {a})
        BY <3>4, <3>7, <3>8, <3>9, <3>10 DEF TableOf
      <3>12. next # <<>>
        BY <2>1, <3>4
      <3> QED BY <3>3a, <3>4, <3>11, <3>12 DEF next, row
    <2>6. CASE ~(row.zone = last.zone /\ row.lo <= last.hi + 1)
      <3>1. [row EXCEPT !.lo = lo] = row
        BY <1>1, <2>3 DEF ZoneRow
      <3>2. ~(lo > row.hi)
        BY <1>1, <2>2, <2>3
      <3>3. next = Append(m, row)
        BY <2>4, <2>6, <3>1, <3>2
      <3> HIDE DEF next, lo
      <3>4. /\ next \in Seq(ZoneRow) /\ Len(next) = L + 1 /\ next[L + 1] = row
            /\ \A i \in 1..L : next[i] = m[i]
        BY <1>1, <1>2, <3>3
      <3>6. \A i \in 1..(L + 1) : i = L + 1 \/ i \in 1..L
        BY <2>1
      <3>7. \A i \in 1..(L + 1) : next[i].lo <= next[i].hi
        BY <1>1, <2>2, <3>4, <3>6 DEF TableOf
      <3>8. ASSUME NEW i \in 1..(L + 1), NEW j \in 1..(L + 1), i < j PROVE next[i].hi < next[j].lo
        <4>1. i \in 1..L
          BY <2>1, <3>8
        <4>2. CASE j \in 1..L
          BY <3>4, <3>8, <4>1, <4>2 DEF TableOf
        <4>3. CASE j = L + 1
          BY <1>1, <1>2c, <3>4, <4>1, <4>3
        <4> QED BY <3>6, <4>2, <4>3
      <3>9. ASSUME NEW b \in Global
            PROVE  (\E i \in 1..(L + 1) : InRow(next[i], b)) <=> b \in addrs \cup {a}
        <4>1. InRow(row, b) <=> b = a
          BY <1>0, <1>1 DEF InRow
        <4>2. (\E i \in 1..(L + 1) : InRow(next[i], b)) <=> (\E i \in 1..L : InRow(m[i], b)) \/ b = a
          <5>1. L + 1 \in 1..(L + 1) /\ \A i \in 1..L : i \in 1..(L + 1)
            BY <2>1
          <5> QED BY <3>4, <3>6, <4>1, <5>1
        <4> QED BY <4>2 DEF TableOf
      <3>10. ASSUME NEW i \in 1..(L + 1), NEW b \in Global, InRow(next[i], b) PROVE next[i].zone = ZoneName[b]
        <4>1. CASE i \in 1..L
          BY <3>4, <3>10, <4>1 DEF TableOf
        <4>2. CASE i = L + 1
          <5>1. b = a
            BY <1>0, <1>1, <3>4, <3>10, <4>2 DEF InRow
          <5> QED BY <1>1, <3>4, <4>2, <5>1
        <4> QED BY <3>6, <4>1, <4>2
      <3>11. TableOf(next, addrs \cup {a})
        BY <3>4, <3>7, <3>8, <3>9, <3>10 DEF TableOf
      <3>12. next # <<>>
        BY <2>1, <3>4
      <3> QED BY <1>1, <3>4, <3>11, <3>12 DEF next, row
    <2> QED BY <2>5, <2>6
  <1> QED BY <1>3, <1>4

LEMMA RowsMerge ==
    ASSUME NEW addrs \in SUBSET Global
    PROVE  TableOf(MergeRows({Row(a) : a \in addrs}), addrs)
  <1> DEFINE S == {Row(a) : a \in addrs}
             s == Sorted(S)
             n == Len(s)
             F(f) == f = [k \in 0..n |-> IF k = 0 THEN <<>> ELSE MergeRow(f[k - 1], s[k])]
             m == CHOOSE f : F(f)
             Up(k) == {a \in addrs : \E i \in 1..k : s[i] = Row(a)}
  <1>1. Global \subseteq Nat /\ addrs \subseteq Global /\ IsFiniteSet(addrs)
    <2>1. IsFiniteSet(Global)
      <3>1. 1 \in Int /\ LastAddr - 1 \in Int
        BY ListConstants
      <3> QED BY <3>1, FS_Interval DEF Global
    <2>2. Global \subseteq Nat
      BY ListConstants DEF Global
    <2>3. IsFiniteSet(addrs)
      <3> HIDE DEF Global
      <3> QED BY <2>1, FS_Subset
    <2> QED BY <2>2, <2>3
  <1>2. \A a \in Global : Row(a) \in ZoneRow /\ Row(a).lo = a /\ Row(a).hi = a /\ Row(a).zone = ZoneName[a]
    BY DEF Row, ZoneRow
  <1>3. Spanned(S)
    <2> DEFINE f == [a \in addrs |-> Row(a)]
    <2>1. f \in Surjection(addrs, S)
      BY DEF Surjection
    <2>2. IsFiniteSet(S)
      BY <1>1, <2>1, FS_Surjection
    <2> QED BY <1>1, <1>2, <2>2 DEF Spanned
  <1>4. SortedFacts(S, s)
    BY <1>3, SortedRight
  <1>5. MergeRows(S) = m[n]
    BY DEF MergeRows
  <1> HIDE DEF s, S, Row
  <1>6. s \in Seq(S) /\ n \in Nat
    BY <1>4 DEF SortedFacts
  <1>7. \A i \in 1..n : s[i] \in S
    BY <1>6
  <1> HIDE DEF n
  <1>8. \A i \in 1..n : \E a \in addrs : s[i] = Row(a)
    BY <1>7 DEF S
  <1>9. \E f : F(f)
    <2> DEFINE T == Seq(ZoneRow)
               G == [k \in 1..n |-> [r \in T |-> MergeRow(r, s[k])]]
    <2>1. ASSUME NEW r \in T, NEW k \in 1..n PROVE MergeRow(r, s[k]) \in T
      <3>1. PICK a \in Global : s[k] = Row(a)
        BY <1>1, <1>8
      <3>2. s[k] \in ZoneRow /\ s[k].lo = a /\ s[k].hi = a
        BY <1>2, <3>1
      <3>3. CASE r = <<>>
        <4>1. MergeRow(r, s[k]) = <<s[k]>>
          BY <3>3 DEF MergeRow
        <4> QED BY <3>2, <4>1
      <3>4. CASE r # <<>>
        <4>1. Last(r) \in ZoneRow /\ Front(r) \in Seq(ZoneRow)
          BY <3>4, LastOne
        <4> DEFINE last == Last(r)
                   lo == IF s[k].lo <= last.hi THEN last.hi + 1 ELSE s[k].lo
        <4>2. MergeRow(r, s[k]) = IF s[k].zone = last.zone /\ s[k].lo <= last.hi + 1
                 THEN Append(Front(r), [last EXCEPT !.hi = IF s[k].hi > @ THEN s[k].hi ELSE @])
                 ELSE IF lo > s[k].hi THEN r ELSE Append(r, [s[k] EXCEPT !.lo = lo])
          BY <3>4 DEF MergeRow
        <4>3. [last EXCEPT !.hi = IF s[k].hi > @ THEN s[k].hi ELSE @] \in ZoneRow
          BY <3>2, <4>1 DEF ZoneRow
        <4>4. ~(lo > s[k].hi) => lo \in Global
          <5>1. last.hi \in Nat /\ last.hi >= 1 /\ a \in Nat /\ a >= 1 /\ a <= LastAddr - 1
            BY <3>2, <4>1, ListConstants DEF ZoneRow, Global
          <5> QED BY <3>2, <5>1, ListConstants DEF Global
        <4> HIDE DEF lo, last
        <4>5. ~(lo > s[k].hi) => [s[k] EXCEPT !.lo = lo] \in ZoneRow
          BY <3>2, <4>4 DEF ZoneRow
        <4> QED BY <4>1, <4>2, <4>3, <4>5
      <3> QED BY <3>3, <3>4
    <2> DEFINE none == <<>>
    <2>2. G \in [1..n -> [T -> T]] /\ none \in T
      BY <2>1
    <2>3. \A k \in 1..n : \A r \in T : G[k][r] = MergeRow(r, s[k])
      OBVIOUS
    <2> HIDE DEF T, G, none, F, m, Up
    <2>3a. n \in Nat
      BY <1>6
    <2>3b. none \in T
      BY <2>2
    <2>3c. G \in [1..n -> [T -> T]]
      BY <2>2
    <2>4. PICK f : Recursive(f, T, none, n, G)
      BY <2>3a, <2>3b, <2>3c, RecursionExists
    <2> USE DEF Recursive
    <2>5. \A i \in 1..n : f[i] = MergeRow(f[i-1], s[i])
      <3>1. \A i \in 1..n : f[i-1] \in T
        BY <1>6, <2>4
      <3> QED BY <2>3, <2>4, <3>1
    <2>6. F(f)
      BY <1>6, <2>4, <2>5 DEF none, F
    <2> QED BY <2>6
  <1>10. F(m)
    BY <1>9
  <1> HIDE DEF m
  <1>11. m[0] = <<>> /\ \A i \in 1..n : m[i] = MergeRow(m[i - 1], s[i])
    <2>1. \A k \in 0..n : m[k] = IF k = 0 THEN <<>> ELSE MergeRow(m[k - 1], s[k])
      BY <1>10
    <2> HIDE DEF F
    <2>2. 0 \in 0..n /\ \A i \in 1..n : i \in 0..n /\ i # 0
      BY <1>6
    <2> QED BY <2>1, <2>2
  <1> HIDE DEF F
  <1> DEFINE Good(k) == /\ TableOf(m[k], Up(k))
                        /\ m[k] # <<>> => k \in 1..n /\ m[k][Len(m[k])].hi = s[k].lo
             Ok == {k \in Nat : k <= n => Good(k)}
  <1> HIDE DEF Up
  <1>12. 0 \in Ok
    <2>1. Up(0) = {}
      BY DEF Up
    <2>2. TableOf(<<>>, {})
      BY DEF TableOf
    <2> QED BY <1>11, <2>1, <2>2
  <1>13. ASSUME NEW k \in Nat, k \in Ok PROVE k + 1 \in Ok
    <2> SUFFICES ASSUME k + 1 <= n
                 PROVE  /\ TableOf(m[k + 1], Up(k + 1))
                        /\ k + 1 \in 1..n /\ m[k + 1][Len(m[k + 1])].hi = s[k + 1].lo
      OBVIOUS
    <2>1. /\ TableOf(m[k], Up(k))
          /\ m[k] # <<>> => k \in 1..n /\ m[k][Len(m[k])].hi = s[k].lo
      BY <1>6, <1>13
    <2>2. k + 1 \in 1..n /\ (k + 1) - 1 = k
      BY <1>6
    <2>3. PICK a \in addrs : s[k + 1] = Row(a)
      BY <1>8, <2>2
    <2>4. m[k + 1] = MergeRow(m[k], Row(a))
      BY <1>11, <2>2, <2>3
    <2>5. Up(k + 1) = Up(k) \cup {a}
      <3>1. \A b \in addrs : s[k + 1] = Row(b) <=> b = a
        BY <1>1, <1>2, <2>3
      <3>2. \A i \in Nat : i \in 1..(k + 1) <=> i \in 1..k \/ i = k + 1
        OBVIOUS
      <3> QED BY <2>2, <3>1, <3>2 DEF Up
    <2>6. ASSUME NEW b \in Up(k) PROVE b < a
      <3>1. PICK i \in 1..k : s[i] = Row(b)
        BY DEF Up
      <3>2. i \in 1..n /\ i < k + 1
        BY <1>6, <2>2
      <3>3. s[i] # s[k + 1] /\ Earlier(s[i], s[k + 1])
        BY <1>4, <2>2, <3>2 DEF SortedFacts, n
      <3>4. b \in addrs /\ a # b
        BY <2>3, <3>1, <3>3 DEF Up
      <3> QED BY <1>1, <1>2, <2>3, <3>1, <3>3, <3>4 DEF Earlier
    <2>7. m[k] # <<>> => m[k][Len(m[k])].hi \in Up(k)
      <3> SUFFICES ASSUME m[k] # <<>> PROVE m[k][Len(m[k])].hi \in Up(k)
        OBVIOUS
      <3>1. k \in 1..n /\ m[k][Len(m[k])].hi = s[k].lo
        BY <2>1
      <3>2. PICK b \in addrs : s[k] = Row(b)
        BY <1>8, <3>1
      <3>3. s[k].lo = b
        BY <1>1, <1>2, <3>2
      <3>4. b \in Up(k)
        BY <3>1, <3>2 DEF Up
      <3> QED BY <3>1, <3>3, <3>4
    <2>8. Up(k) \subseteq Global /\ a \in Global
      BY <1>1 DEF Up
    <2>9. LET next == MergeRow(m[k], Row(a)) IN
          TableOf(next, Up(k) \cup {a}) /\ next # <<>> /\ next[Len(next)].hi = a
      <3> DEFINE U == Up(k)
                 t == m[k]
      <3>1. /\ U \subseteq Global /\ TableOf(t, U) /\ a \in Global
            /\ \A b \in U : b < a
            /\ t # <<>> => t[Len(t)].hi \in U
        BY <2>1, <2>6, <2>7, <2>8
      <3> HIDE DEF U, t
      <3>2. LET next == MergeRow(t, Row(a)) IN
            TableOf(next, U \cup {a}) /\ next # <<>> /\ next[Len(next)].hi = a
        BY <3>1, RowMerges
      <3> QED BY <3>2 DEF U, t
    <2>10. s[k + 1].lo = a
      BY <1>2, <2>3, <2>8
    <2> QED BY <2>2, <2>4, <2>5, <2>9, <2>10
  <1> HIDE DEF Ok
  <1>14. n \in Ok
    BY <1>6, <1>12, <1>13, EveryNumber
  <1>15. TableOf(m[n], Up(n))
    BY <1>6, <1>14 DEF Ok
  <1>16. Up(n) = addrs
    <2>1. \A a \in addrs : Row(a) \in S
      BY DEF S
    <2>2. \A a \in addrs : \E i \in 1..n : s[i] = Row(a)
      BY <1>4, <2>1 DEF SortedFacts, n
    <2> QED BY <2>2 DEF Up
  <1> QED BY <1>5, <1>15, <1>16 DEF S

\* The search for an address: the last row that starts there or before.
LEMMA RowLocated ==
    ASSUME NEW addrs, NEW m, TableOf(m, addrs), NEW a \in Global
    PROVE  LET k == CHOOSE n \in 0..Len(m) : /\ n = 0 \/ m[n].lo <= a
                                             /\ n = Len(m) \/ m[n + 1].lo > a
               marked == k > 0 /\ m[k].hi >= a
           IN /\ marked <=> a \in addrs
              /\ marked => m[k].zone = ZoneName[a]
  <1> DEFINE L == Len(m)
             At(n) == /\ n = 0 \/ m[n].lo <= a
                      /\ n = L \/ m[n + 1].lo > a
             k == CHOOSE n \in 0..L : At(n)
  <1>1. L \in Nat /\ a \in Nat /\ \A i \in 1..L : m[i].lo \in Nat /\ m[i].hi \in Nat
    <2>1. Global \subseteq Nat
      BY ListConstants DEF Global
    <2>2. m \in Seq(ZoneRow)
      BY DEF TableOf
    <2>3. L \in Nat /\ \A i \in 1..L : m[i] \in ZoneRow
      BY <2>2
    <2> HIDE DEF L
    <2>4. \A i \in 1..L : m[i].lo \in Global /\ m[i].hi \in Global
      BY <2>3 DEF ZoneRow
    <2> QED BY <2>1, <2>3, <2>4
  <1>2. \A i, j \in 1..L : i < j => m[i].lo < m[j].lo /\ m[i].hi < m[j].lo
    <2> TAKE i, j \in 1..L
    <2> HAVE i < j
    <2>1. m[i].hi < m[j].lo /\ m[i].lo <= m[i].hi
      BY DEF TableOf
    <2> QED BY <1>1, <2>1
  <1> HIDE DEF L
  <1>3. \E n \in 0..L : At(n)
    <2> DEFINE Ok == {n \in Nat : n <= L => (n = 0 \/ m[n].lo <= a)}
    <2> SUFFICES ASSUME \A n \in 0..L : ~At(n) PROVE FALSE
      OBVIOUS
    <2>1. 0 \in Ok
      OBVIOUS
    <2>2. ASSUME NEW n \in Nat, n \in Ok PROVE n + 1 \in Ok
      <3> SUFFICES ASSUME n + 1 <= L PROVE m[n + 1].lo <= a
        OBVIOUS
      <3>1. n \in 0..L /\ n # L /\ n + 1 \in 1..L /\ (n = 0 \/ m[n].lo <= a)
        BY <1>1, <2>2
      <3>2. ~(m[n + 1].lo > a)
        BY <3>1
      <3> QED BY <1>1, <3>1, <3>2
    <2> HIDE DEF Ok
    <2>3. L \in Ok
      BY <1>1, <2>1, <2>2, EveryNumber
    <2>4. At(L)
      BY <1>1, <2>3 DEF Ok
    <2> QED BY <1>1, <2>4
  <1>4. k \in 0..L /\ At(k)
    BY <1>3
  <1> HIDE DEF k
  <1>5. ASSUME NEW i \in 1..L, InRow(m[i], a) PROVE k > 0 /\ i = k
    <2>1. m[i].lo <= a /\ a <= m[i].hi
      BY <1>5 DEF InRow
    <2>2. ~(k < i)
      <3> SUFFICES ASSUME k < i PROVE FALSE
        OBVIOUS
      <3>1. k # L /\ k + 1 \in 1..L
        BY <1>1, <1>4
      <3>2. m[k + 1].lo > a
        BY <1>4, <3>1
      <3>3. k + 1 = i \/ k + 1 < i
        BY <1>4
      <3>4. m[k + 1].lo <= m[i].lo
        BY <1>1, <1>2, <3>1, <3>3
      <3> QED BY <1>1, <2>1, <3>1, <3>2, <3>4
    <2>3. k > 0 /\ k \in 1..L
      BY <1>4, <2>2
    <2>4. ~(i < k)
      BY <1>1, <1>2, <1>4, <2>1, <2>3
    <2> QED BY <1>4, <2>2, <2>3, <2>4
  <1>6. k > 0 /\ m[k].hi >= a <=> k \in 1..L /\ InRow(m[k], a)
    BY <1>1, <1>4 DEF InRow
  <1>7. k > 0 /\ m[k].hi >= a <=> a \in addrs
    BY <1>5, <1>6 DEF TableOf, L
  <1>8. k > 0 /\ m[k].hi >= a => m[k].zone = ZoneName[a]
    BY <1>6 DEF TableOf, L
  <1> QED BY <1>7, <1>8 DEF k, L

RowsRight == listStep = "published" => TableOf(rows, Zoned)

THEOREM ZonesStayMatched == ListSpec => []ZonesMatchLists
  <1>1. ListInit => RowsRight
    BY DEF ListInit, RowsRight
  <1>2. RowsRight /\ [ListNext]_listVars => RowsRight'
    <2> SUFFICES ASSUME RowsRight, [ListNext]_listVars PROVE RowsRight'
      OBVIOUS
    <2>1. CASE stepECSZone
      <3>1. UNCHANGED <<direct, verdict, disputed>>
        BY <2>1 DEF stepECSZone, inputs
      <3>2. Zoned' = Zoned
        BY <3>1 DEF Zoned, LoadReader
      <3>3. listStep' = "published" => rows' = MergeRows({Row(a) : a \in Zoned})
        BY <2>1 DEF stepECSZone
      <3>4. Zoned \in SUBSET Global
        BY DEF Zoned, LoadReader
      <3>5. RowsRight' <=> (listStep' = "published" => TableOf(rows', Zoned'))
        BY DEF RowsRight, TableOf, InRow, ZoneRow, Zoned, LoadReader
      <3> HIDE DEF Zoned
      <3>6. TableOf(MergeRows({Row(a) : a \in Zoned}), Zoned)
        BY <3>4, RowsMerge
      <3> QED BY <3>2, <3>3, <3>5, <3>6
    <2>2. CASE UNCHANGED listVars
      BY <2>2 DEF listVars, RowsRight, TableOf, Zoned, LoadReader
    <2>3. ASSUME ListNext, ~stepECSZone PROVE listStep' # "published"
      BY <2>3 DEF ListNext, GeoIPStep, stepChnroute, geoCrossFailsOpen, geoCrossBegins, mergeAgreement,
           mergeAgreementEnds, WriteSnapshots, stepAnycast, RoundEnds
    <2> QED BY <2>1, <2>2, <2>3 DEF RowsRight
  <1>3. RowsRight => ZonesMatchLists
    <2> SUFFICES ASSUME TableOf(rows, Zoned) PROVE
          \A a \in Global :
            LET k == CHOOSE n \in 0..Len(rows) : /\ n = 0 \/ rows[n].lo <= a
                                                 /\ n = Len(rows) \/ rows[n + 1].lo > a
                marked == k > 0 /\ rows[k].hi >= a
            IN /\ marked <=> a \in Zoned
               /\ marked => rows[k].zone = ZoneName[a]
      BY DEF RowsRight, ZonesMatchLists
    <2> HIDE DEF Zoned
    <2> QED BY RowLocated
  <1> QED BY <1>1, <1>2, <1>3, PTL DEF ListSpec

(***************************************************************************)
(* The CDN rules. The search from the last block that starts no later,     *)
(* back until no earlier one can reach the address, finds the longest      *)
(* block that holds it.                                                    *)
(***************************************************************************)

CdnSpan == [lo : CdnAddrs, hi : CdnAddrs, k : 0..AddrBits, provider : Providers, mainland : BOOLEAN]

LEMMA CdnNumbers == CdnAddrs \subseteq Int /\ IsFiniteSet(CdnAddrs) /\ \A k \in 0..AddrBits : Pow2[k] \in Nat
  <1>1. AddrBits \in Nat /\ \A k \in 0..AddrBits : k \in Nat
    BY CdnConstants
  <1>2. Pow2[AddrBits] \in Nat
    BY <1>1, PowersOfTwo
  <1>3. 0 \in Int /\ Pow2[AddrBits] - 1 \in Int
    BY <1>2
  <1>4. IsFiniteSet(CdnAddrs)
    BY <1>3, FS_Interval DEF CdnAddrs
  <1>5. CdnAddrs \subseteq Int
    BY <1>3 DEF CdnAddrs
  <1>6. \A k \in 0..AddrBits : Pow2[k] \in Nat
    BY <1>1, PowersOfTwo
  <1> QED BY <1>4, <1>5, <1>6

LEMMA SpansTyped ==
    ASSUME NEW feeds
    PROVE  Spans(feeds) \subseteq CdnSpan /\ Spanned(Spans(feeds))
  <1>1. ASSUME NEW b \in Aligned, NEW p \in Providers, NEW m \in BOOLEAN PROVE span(b, p, m) \in CdnSpan
    BY DEF Aligned, Blocks, span, CdnSpan
  <1>2. \A addrs : CollapsePrefixes(addrs) \subseteq Aligned
    BY DEF CollapsePrefixes
  <1>3. Spans(feeds) \subseteq CdnSpan
    <2> SUFFICES ASSUME NEW p \in Providers, NEW x, NEW c, NEW d,
                        x \in {span(b, p, TRUE) : b \in CollapsePrefixes(c)}
                                \cup {span(b, p, FALSE) : b \in CollapsePrefixes(d)}
                 PROVE  x \in CdnSpan
      BY DEF Spans
    <2> QED BY <1>1, <1>2
  <1>4. IsFiniteSet(CdnSpan)
    <2> DEFINE D == (CdnAddrs \X CdnAddrs) \X ((0..AddrBits) \X (Providers \X BOOLEAN))
               f == [d \in D |-> [lo |-> d[1][1], hi |-> d[1][2], k |-> d[2][1],
                                  provider |-> d[2][2][1], mainland |-> d[2][2][2]]]
    <2>1. IsFiniteSet(0..AddrBits) /\ IsFiniteSet(BOOLEAN) /\ IsFiniteSet(Providers)
      <3>1. 0 \in Int /\ AddrBits \in Int
        BY CdnConstants
      <3>2. IsFiniteSet(BOOLEAN)
        <4>1. IsFiniteSet({FALSE})
          BY FS_Singleton, Zenon
        <4>2. IsFiniteSet({FALSE} \cup {TRUE})
          BY <4>1, FS_AddElement, Zenon
        <4>3. BOOLEAN = {FALSE} \cup {TRUE}
          BY Zenon
        <4> QED BY <4>2, <4>3, Zenon
      <3>3. IsFiniteSet(0..AddrBits)
        BY <3>1, FS_Interval
      <3> QED BY <3>2, <3>3, CdnConstants
    <2>2. IsFiniteSet(D)
      <3>1. IsFiniteSet(Providers \X BOOLEAN)
        BY <2>1, FS_Product
      <3>2. IsFiniteSet((0..AddrBits) \X (Providers \X BOOLEAN))
        BY <2>1, <3>1, FS_Product
      <3>3. IsFiniteSet(CdnAddrs \X CdnAddrs)
        BY CdnNumbers, FS_Product
      <3> QED BY <3>2, <3>3, FS_Product
    <2>3. f \in [D -> CdnSpan]
      BY DEF CdnSpan
    <2>4. ASSUME NEW s \in CdnSpan PROVE \E d \in D : f[d] = s
      <3> DEFINE d == <<<<s.lo, s.hi>>, <<s.k, <<s.provider, s.mainland>>>>>>
      <3>1. d \in D
        BY DEF CdnSpan
      <3>2. f[d] = s
        BY <3>1 DEF CdnSpan
      <3> QED BY <3>1, <3>2
    <2> HIDE DEF D, f
    <2>5. f \in Surjection(D, CdnSpan)
      BY <2>3, <2>4 DEF Surjection
    <2> QED BY <2>2, <2>5, FS_Surjection
  <1>5. \A s \in CdnSpan : s.lo \in Int /\ s.hi \in Int
    BY CdnNumbers DEF CdnSpan
  <1> QED BY <1>3, <1>4, <1>5, FS_Subset DEF Spanned

\* What a search has: the spans in order of their start.
SpansInOrder(s) ==
    /\ s \in Seq(CdnSpan)
    /\ \A i, j \in 1..Len(s) : i < j => s[i].lo <= s[j].lo

\* Those above the position that hold the address are no longer prefixes than the best.
Searched ==
    /\ SpansInOrder(owner.spans)
    /\ owner.addr \in CdnAddrs
    /\ owner.i \in 0..Len(owner.spans)
    /\ owner.best \in 0..Len(owner.spans)
    /\ owner.best > 0 => Holds(owner.spans[owner.best], owner.addr)
    /\ \A j \in (owner.i + 1)..Len(owner.spans) :
          Holds(owner.spans[j], owner.addr) =>
              owner.best > 0 /\ owner.spans[owner.best].k <= owner.spans[j].k

SearchInv ==
    /\ owner.at \in {"idle", "scan", "found"}
    /\ owner.at # "idle" => Searched
    /\ owner.at = "found" =>
          \A j \in 1..Len(owner.spans) :
              Holds(owner.spans[j], owner.addr) =>
                  owner.best > 0 /\ owner.spans[owner.best].k <= owner.spans[j].k

LEMMA CountedStart ==
    ASSUME NEW s, SpansInOrder(s), NEW a \in CdnAddrs
    PROVE  /\ StartedBy(s, a) \in 0..Len(s)
           /\ \A j \in (StartedBy(s, a) + 1)..Len(s) : ~Holds(s[j], a)
  <1> DEFINE L == Len(s)
             P == {i \in DOMAIN s : s[i].lo <= a}
             Ok == {n \in Nat : n <= L => \E c \in 0..n : {i \in 1..n : s[i].lo <= a} = 1..c}
  <1>1. L \in Nat /\ DOMAIN s = 1..L /\ a \in Int /\ \A i \in 1..L : s[i].lo \in Int
    <2>1. s \in Seq(CdnSpan)
      BY DEF SpansInOrder
    <2>2. \A i \in 1..L : s[i] \in CdnSpan
      BY <2>1
    <2>3. \A x \in CdnSpan : x.lo \in CdnAddrs
      BY DEF CdnSpan
    <2>4. L \in Nat /\ DOMAIN s = 1..L
      BY <2>1
    <2> HIDE DEF L
    <2>5. \A i \in 1..L : s[i].lo \in Int
      BY <2>2, <2>3, CdnNumbers
    <2> QED BY <2>4, <2>5, CdnNumbers
  <1>2. \A i, j \in 1..L : i < j => s[i].lo <= s[j].lo
    BY DEF SpansInOrder
  <1> HIDE DEF L
  <1>3. 0 \in Ok
    BY <1>1
  <1>4. ASSUME NEW n \in Nat, n \in Ok PROVE n + 1 \in Ok
    <2> SUFFICES ASSUME n + 1 <= L
                 PROVE  \E c \in 0..(n + 1) : {i \in 1..(n + 1) : s[i].lo <= a} = 1..c
      OBVIOUS
    <2>1. PICK c \in 0..n : {i \in 1..n : s[i].lo <= a} = 1..c
      BY <1>1, <1>4
    <2>2. CASE s[n + 1].lo <= a
      <3>1. \A i \in 1..(n + 1) : s[i].lo <= a
        <4> TAKE i \in 1..(n + 1)
        <4>1. CASE i = n + 1
          BY <2>2, <4>1
        <4>2. CASE i < n + 1
          <5>1. i \in 1..L /\ n + 1 \in 1..L
            BY <1>1
          <5>2. s[i].lo <= s[n + 1].lo
            BY <1>2, <4>2, <5>1
          <5> QED BY <1>1, <2>2, <5>1, <5>2
        <4> QED BY <4>1, <4>2
      <3>2. {i \in 1..(n + 1) : s[i].lo <= a} = 1..(n + 1)
        BY <3>1
      <3> QED BY <3>2
    <2>3. CASE ~(s[n + 1].lo <= a)
      <3>1. {i \in 1..(n + 1) : s[i].lo <= a} = {i \in 1..n : s[i].lo <= a}
        <4>1. \A i \in Nat : i \in 1..(n + 1) <=> i \in 1..n \/ i = n + 1
          OBVIOUS
        <4> QED BY <2>3, <4>1
      <3> QED BY <2>1, <3>1
    <2> QED BY <2>2, <2>3
  <1> HIDE DEF Ok
  <1>5. L \in Ok
    BY <1>1, <1>3, <1>4, EveryNumber
  <1>6. PICK c \in 0..L : P = 1..c
    BY <1>1, <1>5 DEF Ok
  <1>7. Cardinality(1..c) = c
    BY <1>1, FS_Interval
  <1>8. StartedBy(s, a) = c
    BY <1>6, <1>7 DEF StartedBy
  <1>9. \A j \in (c + 1)..L : ~(s[j].lo <= a)
    BY <1>1, <1>6
  <1> QED BY <1>1, <1>8, <1>9 DEF Holds, L

\* The running maximum is no less than any end it covers.
LEMMA MaxHiCovers ==
    ASSUME Searched, NEW i \in 1..Len(owner.spans)
    PROVE  \A j \in 1..i : owner.spans[j].hi \in Int /\ maxHi(i) \in Int /\ owner.spans[j].hi <= maxHi(i)
  <1> DEFINE s == owner.spans
             S == {s[j].hi : j \in 1..i}
             R == {p \in S \X S : p[1] <= p[2]}
  <1>1. s \in Seq(CdnSpan)
    BY DEF Searched, SpansInOrder
  <1>2. \A j \in 1..i : s[j].hi \in Int
    <2>1. \A j \in 1..i : s[j] \in CdnSpan
      BY <1>1
    <2> QED BY <2>1, CdnNumbers DEF CdnSpan
  <1>3. IsFiniteSet(S) /\ S # {} /\ S \subseteq Int
    <2> DEFINE f == [j \in 1..i |-> s[j].hi]
    <2>1. f \in Surjection(1..i, S)
      BY DEF Surjection
    <2>2. IsFiniteSet(1..i)
      BY FS_Interval, <1>1
    <2>3. IsFiniteSet(S)
      BY <2>1, <2>2, FS_Surjection
    <2>4. s[1].hi \in S
      BY <1>1
    <2> QED BY <1>2, <2>3, <2>4
  <1> HIDE DEF S
  <1>4. \A x, y \in S : <<x, y>> \in R <=> x <= y
    OBVIOUS
  <1> HIDE DEF R
  <1>5. Orders(R, S)
    BY <1>3, <1>4 DEF Orders
  <1>6. \E m \in S : \A x \in S : x <= m
    BY <1>3, <1>4, <1>5, LastExists
  <1>7. maxHi(i) \in S /\ \A j \in 1..i : s[j].hi <= maxHi(i)
    BY <1>6 DEF maxHi, S
  <1> QED BY <1>2, <1>3, <1>7

LEMMA SearchInvStep == SearchInv /\ [CdnNext]_cdnVars => SearchInv'
  <1> SUFFICES ASSUME SearchInv, [CdnNext]_cdnVars PROVE SearchInv'
    OBVIOUS
  <1>1. CASE UNCHANGED owner
    BY <1>1 DEF SearchInv, Searched, Holds
  <1>2. ASSUME NEW a \in CdnAddrs, OwnerBegins(a) PROVE SearchInv'
    <2> DEFINE S == Spans(rules.feeds)
               s == Sorted(S)
    <2>1. owner' = [at |-> "scan", spans |-> s, addr |-> a, i |-> StartedBy(s, a), best |-> 0]
      BY <1>2 DEF OwnerBegins
    <2>2. S \subseteq CdnSpan /\ Spanned(S)
      BY SpansTyped
    <2> HIDE DEF S
    <2>3. SortedFacts(S, s)
      BY <2>2, SortedRight
    <2> HIDE DEF s
    <2>4. SpansInOrder(s)
      <3>1. s \in Seq(S)
        BY <2>3 DEF SortedFacts
      <3>2. s \in Seq(CdnSpan)
        BY <2>2, <3>1
      <3>3. \A i \in 1..Len(s) : s[i].lo \in Int /\ s[i].hi \in Int
        <4>1. \A i \in 1..Len(s) : s[i] \in CdnSpan
          BY <3>2
        <4> QED BY <4>1, CdnNumbers DEF CdnSpan
      <3>4. \A i, j \in 1..Len(s) : i < j => Earlier(s[i], s[j])
        BY <2>3 DEF SortedFacts
      <3>5. \A i, j \in 1..Len(s) : i < j => s[i].lo <= s[j].lo
        BY <3>3, <3>4 DEF Earlier
      <3> QED BY <3>2, <3>5 DEF SpansInOrder
    <2>5. /\ StartedBy(s, a) \in 0..Len(s)
          /\ \A j \in (StartedBy(s, a) + 1)..Len(s) : ~Holds(s[j], a)
      BY <2>4, CountedStart
    <2>6. Len(s) \in Nat
      BY <2>4 DEF SpansInOrder
    <2>7. Searched'
      BY <2>1, <2>4, <2>5, <2>6 DEF Searched, Holds, SpansInOrder
    <2> QED BY <2>1, <2>7 DEF SearchInv
  <1>3. CASE Owner
    <2> DEFINE s == owner.spans
               i == owner.i
               L == Len(s)
               stop == IF i = 0 THEN TRUE ELSE maxHi(i) < owner.addr
               better == Holds(s[i], owner.addr) /\ (owner.best = 0 \/ s[i].k < s[owner.best].k)
    <2>1. Searched /\ owner.at = "scan"
      BY <1>3 DEF Owner, SearchInv
    <2>2. /\ L \in Nat /\ i \in 0..L /\ owner.best \in 0..L /\ owner.addr \in Int
          /\ \A j \in 1..L : s[j].lo \in Int /\ s[j].hi \in Int /\ s[j].k \in Int
      <3>1. s \in Seq(CdnSpan) /\ i \in 0..L /\ owner.best \in 0..L /\ owner.addr \in CdnAddrs
        BY <2>1 DEF Searched, SpansInOrder
      <3>2. L \in Nat /\ \A j \in 1..L : s[j] \in CdnSpan
        BY <3>1
      <3>3. owner.addr \in Int
        BY <3>1, CdnNumbers
      <3> HIDE DEF s, L, i
      <3>4. ASSUME NEW j \in 1..L PROVE s[j].lo \in Int /\ s[j].hi \in Int /\ s[j].k \in Int
        <4>1. s[j].lo \in CdnAddrs /\ s[j].hi \in CdnAddrs /\ s[j].k \in 0..AddrBits
          BY <3>2 DEF CdnSpan
        <4>2. CdnAddrs \subseteq Int /\ AddrBits \in Nat
          BY CdnNumbers, CdnConstants
        <4>3. s[j].k \in Int
          BY <4>1, <4>2
        <4>4. s[j].lo \in Int
          BY <4>1, <4>2
        <4>5. s[j].hi \in Int
          BY <4>1, <4>2
        <4> QED BY <4>3, <4>4, <4>5
      <3> QED BY <3>1, <3>2, <3>3, <3>4
    <2>3. CASE stop
      <3>1. owner' = [owner EXCEPT !.at = "found"]
        BY <1>3, <2>3 DEF Owner
      <3>2. owner'.at = "found" /\ UNCHANGED <<owner.spans, owner.addr, owner.i, owner.best>>
        BY <2>1, <3>1 DEF Searched
      <3>3. ASSUME NEW j \in 1..i PROVE ~Holds(s[j], owner.addr)
        <4>1. i \in 1..L /\ i # 0
          BY <2>2
        <4>2. maxHi(i) < owner.addr
          BY <2>3, <4>1
        <4>3. s[j].hi <= maxHi(i) /\ maxHi(i) \in Int /\ s[j].hi \in Int
          BY <2>1, <4>1, MaxHiCovers
        <4> QED BY <2>2, <4>2, <4>3 DEF Holds
      <3>4. \A j \in 1..L : Holds(s[j], owner.addr) => owner.best > 0 /\ s[owner.best].k <= s[j].k
        <4>1. \A j \in 1..L : j \in 1..i \/ j \in (i + 1)..L
          BY <2>2
        <4> QED BY <2>1, <3>3, <4>1 DEF Searched
      <3> QED BY <2>1, <3>2, <3>4 DEF SearchInv, Searched, Holds
    <2>4. CASE ~stop
      <3>1. i \in 1..L
        BY <2>2, <2>4
      <3>2. owner' = [owner EXCEPT !.i = i - 1, !.best = IF better THEN i ELSE @]
        BY <1>3, <2>4 DEF Owner
      <3>3. /\ owner'.at = "scan" /\ owner'.spans = s /\ owner'.addr = owner.addr
            /\ owner'.i = i - 1 /\ owner'.best = IF better THEN i ELSE owner.best
        <4>1. PICK best : best = IF better THEN i ELSE owner.best
          OBVIOUS
        <4>2. owner' = [owner EXCEPT !.i = i - 1, !.best = best]
          BY <3>2, <4>1
        <4> HIDE DEF better
        <4> QED BY <2>1, <4>1, <4>2
      <3> HIDE DEF stop
      <3>4. owner'.i \in 0..L /\ owner'.best \in 0..L /\ owner'.i + 1 = i
        BY <2>2, <3>1, <3>3
      <3>5. owner'.best > 0 => Holds(s[owner'.best], owner.addr)
        BY <2>1, <3>3 DEF Searched
      <3>6. ASSUME NEW j \in i..L, Holds(s[j], owner.addr)
            PROVE  owner'.best > 0 /\ s[owner'.best].k <= s[j].k
        <4>1. CASE j = i
          <5>1. better \/ (~(owner.best = 0) /\ ~(s[i].k < s[owner.best].k))
            BY <3>6, <4>1
          <5>2. CASE better
            BY <2>2, <3>1, <3>3, <4>1, <5>2
          <5>3. CASE ~better
            <6>1. owner.best \in 1..L /\ s[owner.best].k <= s[i].k
              BY <2>2, <3>1, <5>1, <5>3
            <6> QED BY <3>3, <4>1, <5>3, <6>1
          <5> QED BY <5>2, <5>3
        <4>2. CASE j \in (i + 1)..L
          <5>1. owner.best > 0 /\ s[owner.best].k <= s[j].k
            BY <2>1, <3>6, <4>2 DEF Searched
          <5>2. owner.best \in 1..L /\ j \in 1..L
            BY <2>2, <3>1, <4>2, <5>1
          <5>3. better => s[i].k < s[owner.best].k
            BY <5>2
          <5> HIDE DEF better
          <5> QED BY <2>2, <3>1, <3>3, <5>1, <5>2, <5>3
        <4> QED BY <2>2, <3>1, <4>1, <4>2
      <3>7. Searched'
        <4>1. (SpansInOrder(owner.spans))' /\ (owner.addr \in CdnAddrs)'
          BY <2>1, <3>3 DEF Searched, SpansInOrder
        <4>2. (owner.i \in 0..Len(owner.spans))' /\ (owner.best \in 0..Len(owner.spans))'
          BY <3>3, <3>4
        <4>3. (owner.best > 0 => Holds(owner.spans[owner.best], owner.addr))'
          BY <3>3, <3>5 DEF Holds
        <4>4. (\A j \in (owner.i + 1)..Len(owner.spans) :
                 Holds(owner.spans[j], owner.addr) =>
                   owner.best > 0 /\ owner.spans[owner.best].k <= owner.spans[j].k)'
          BY <3>3, <3>4, <3>6 DEF Holds
        <4> QED BY <4>1, <4>2, <4>3, <4>4 DEF Searched
      <3> QED BY <3>3, <3>7 DEF SearchInv
    <2> QED BY <2>3, <2>4
  <1>4. CASE OwnerEnds
    BY <1>4 DEF OwnerEnds, NoSearch, SearchInv
  <1>5. CdnNext => \/ UNCHANGED owner \/ Owner \/ OwnerEnds
                   \/ \E a \in CdnAddrs : OwnerBegins(a)
    BY DEF CdnNext, BuildRules, stepCDNRules, SyncEnds, MirrorCatchesUp, SyncAsks
  <1> QED BY <1>1, <1>2, <1>3, <1>4, <1>5 DEF cdnVars

THEOREM OwnerStaysLongest == CdnSpec => []OwnerIsLongest
  <1>1. CdnInit => SearchInv
    BY DEF CdnInit, NoSearch, SearchInv
  <1>2. SearchInv => OwnerIsLongest
    <2> SUFFICES ASSUME SearchInv, owner.at = "found"
                 PROVE  LET holding == {s \in ToSet(owner.spans) : Holds(s, owner.addr)} IN
                        /\ owner.best = 0 <=> holding = {}
                        /\ owner.best > 0 => \A s \in holding : owner.spans[owner.best].k <= s.k
                        /\ \A p \in Providers : Classify(p) = "mainland" =>
                               \E s \in holding : s.provider = p /\ s.mainland /\ \A t \in holding : s.k <= t.k
      BY DEF OwnerIsLongest
    <2> DEFINE order == owner.spans
               L == Len(order)
               best == order[owner.best]
               holding == {s \in ToSet(order) : Holds(s, owner.addr)}
    <2>1. Searched /\ L \in Nat /\ DOMAIN order = 1..L
      BY DEF SearchInv, Searched, SpansInOrder
    <2>2. \A s : s \in holding <=> \E j \in 1..L : s = order[j] /\ Holds(order[j], owner.addr)
      BY <2>1 DEF ToSet
    <2>3. \A s \in holding : owner.best > 0 /\ best.k <= s.k
      BY <2>2 DEF SearchInv
    <2>4. owner.best > 0 => best \in holding
      BY <2>1, <2>2 DEF Searched
    <2>5. owner.best = 0 \/ owner.best > 0
      BY <2>1 DEF Searched
    <2>5a. ~(owner.best = 0 /\ owner.best > 0)
      OBVIOUS
    <2>6. \A p \in Providers : Classify(p) = "mainland" =>
              owner.best > 0 /\ best.provider = p /\ best.mainland
      BY DEF Classify
    <2> HIDE DEF holding, best
    <2>7. owner.best = 0 <=> holding = {}
      BY <2>3, <2>4, <2>5, <2>5a
    <2>8. \A p \in Providers : Classify(p) = "mainland" =>
               \E s \in holding : s.provider = p /\ s.mainland /\ \A t \in holding : s.k <= t.k
      BY <2>3, <2>4, <2>6
    <2> QED BY <2>3, <2>7, <2>8 DEF holding, best
  <1> QED BY <1>1, <1>2, SearchInvStep, PTL DEF CdnSpec

(***************************************************************************)
(* The search tree of a location database. The numbers below the items of  *)
(* the stack are the addresses that the walk has still to tell of; of      *)
(* every other address it has told exactly what the lookup of that address *)
(* answers. The halves of an item are the addresses that take the one bit  *)
(* and the other at its node.                                              *)
(***************************************************************************)
\* A file with the nodes t, of which p are there: a node that is read, and the
\* nodes that the bits lead to from a node.
NodeIn(t, p, node, bit) == IF node \in 0..(p - 1) THEN t[node][bit] ELSE OutOfRange

PathIn(t, p, node, bits) ==
    CHOOSE f : f = [i \in 0..Len(bits) |->
                       IF i = 0 THEN node
                       ELSE IF f[i-1] \in Nodes THEN NodeIn(t, p, f[i-1], bits[i]) ELSE f[i-1]]

RootIn(t, p) == PathIn(t, p, 0, V4Path)[Len(V4Path)]

\* The node after d bits of an address.
Reached(t, p, a, d) == PathIn(t, p, 0, V4Path \o Bits(a))[Len(V4Path) + d]

\* The code of a record of which s are sound, and what the walk takes it for.
RecordIn(s, c) == IF c - NodeCount \in s THEN mmdbCountryCode(Data[c - NodeCount]) ELSE "error"

ToldOf(s, c) == IF c = OutOfRange \/ c \in Nodes \cup {NodeCount} THEN {} ELSE {RecordIn(s, c)} \ {"", "error"}

Trees == [Numbers -> [0..1 -> Numbers]]

LEMMA TreeFacts ==
    ASSUME NEW t \in Trees, NEW p \in Nat, NEW n \in Nodes, NEW b \in 0..1
    PROVE  /\ t[n][b] \in Nat /\ n \in Int
           /\ NodeIn(t, p, n, b) \in Int
           /\ n \in 0..(p - 1) => NodeIn(t, p, n, b) = t[n][b] /\ NodeIn(t, p, n, b) # OutOfRange
           /\ n \notin 0..(p - 1) => NodeIn(t, p, n, b) = OutOfRange
  <1>1. NodeCount \in Nat \ {0} /\ Cardinality(DOMAIN Data) \in Nat
    <2>1. DOMAIN Data = 1..4
      BY DEF Data
    <2>2. IsFiniteSet(1..4)
      <3>1. 1 \in Int /\ 4 \in Int
        OBVIOUS
      <3> QED BY <3>1, FS_Interval
    <2> QED BY <2>1, <2>2, FS_CardinalityType, TreeConstants
  <1> DEFINE C == Cardinality(DOMAIN Data)
  <1> HIDE DEF C
  <1>2. t \in [0..(NodeCount + C) -> [0..1 -> 0..(NodeCount + C)]]
    BY DEF Trees, Numbers, C
  <1>3. n \in 0..(NodeCount + C) /\ n \in Int
    BY <1>1 DEF Nodes, C
  <1>4. t[n][b] \in 0..(NodeCount + C)
    BY <1>2, <1>3
  <1>5. t[n][b] \in Nat
    BY <1>1, <1>4 DEF C
  <1> QED BY <1>3, <1>5 DEF NodeIn, OutOfRange

LEMMA PathFacts ==
    ASSUME NEW t \in Trees, NEW p \in Nat, NEW node \in Int, NEW bits \in Seq(0..1)
    PROVE  LET f == PathIn(t, p, node, bits) IN
           /\ f \in [0..Len(bits) -> Int] /\ f[0] = node
           /\ \A i \in 1..Len(bits) : f[i] = IF f[i-1] \in Nodes THEN NodeIn(t, p, f[i-1], bits[i]) ELSE f[i-1]
  <1> DEFINE n == Len(bits)
             F(f) == f = [i \in 0..n |->
                             IF i = 0 THEN node
                             ELSE IF f[i-1] \in Nodes THEN NodeIn(t, p, f[i-1], bits[i]) ELSE f[i-1]]
             G == [i \in 1..n |-> [x \in Int |-> IF x \in Nodes THEN NodeIn(t, p, x, bits[i]) ELSE x]]
  <1>1. n \in Nat /\ \A i \in 1..n : bits[i] \in 0..1
    OBVIOUS
  <1>2. \A i \in 1..n : \A x \in Int : (IF x \in Nodes THEN NodeIn(t, p, x, bits[i]) ELSE x) \in Int
    BY <1>1, TreeFacts
  <1>3. G \in [1..n -> [Int -> Int]]
    BY <1>2
  <1>4. \A i \in 1..n : \A x \in Int : G[i][x] = IF x \in Nodes THEN NodeIn(t, p, x, bits[i]) ELSE x
    OBVIOUS
  <1> HIDE DEF G
  <1>5. PICK f : Recursive(f, Int, node, n, G)
    BY <1>1, <1>3, RecursionExists
  <1>6. F(f)
    <2>1. f \in [0..n -> Int] /\ f[0] = node /\ \A i \in 1..n : f[i] = G[i][f[i-1]]
      BY <1>5 DEF Recursive
    <2>2. \A i \in 1..n : f[i] = IF f[i-1] \in Nodes THEN NodeIn(t, p, f[i-1], bits[i]) ELSE f[i-1]
      <3> TAKE i \in 1..n
      <3>1. f[i-1] \in Int
        BY <2>1
      <3> QED BY <1>4, <2>1, <3>1
    <2>3. \A i \in 0..n : i = 0 \/ i \in 1..n
      BY <1>1
    <2> HIDE DEF n
    <2> QED BY <1>1, <2>1, <2>2, <2>3
  <1> DEFINE c == CHOOSE g : F(g)
  <1>7. F(c)
    BY <1>6
  <1>8. c = PathIn(t, p, node, bits)
    BY DEF PathIn
  <1> HIDE DEF c
  <1>9. c[0] = node /\ \A i \in 1..n : c[i] = IF c[i-1] \in Nodes THEN NodeIn(t, p, c[i-1], bits[i]) ELSE c[i-1]
    <2>1. \A i \in 1..n : i \in 0..n /\ i # 0
      BY <1>1
    <2> HIDE DEF n
    <2> QED BY <1>1, <1>7, <2>1
  <1>10. c \in [0..n -> Int]
    <2> DEFINE Ok == {k \in Nat : k <= n => c[k] \in Int}
    <2>1. 0 \in Ok
      BY <1>9
    <2>2. ASSUME NEW k \in Nat, k \in Ok PROVE k + 1 \in Ok
      <3> SUFFICES ASSUME k + 1 <= n PROVE c[k + 1] \in Int
        OBVIOUS
      <3>1. k + 1 \in 1..n /\ (k + 1) - 1 = k /\ c[k] \in Int
        BY <1>1, <2>2
      <3> HIDE DEF n
      <3>2. c[k + 1] = IF c[k] \in Nodes THEN NodeIn(t, p, c[k], bits[k + 1]) ELSE c[k]
        BY <1>9, <3>1
      <3> QED BY <1>2, <3>1, <3>2
    <2> HIDE DEF Ok
    <2>3. \A k \in 0..n : c[k] \in Int
      <3>1. Nat \subseteq Ok
        BY <2>1, <2>2, EveryNumber
      <3> HIDE DEF n
      <3> QED BY <1>1, <3>1 DEF Ok
    <2>4. DOMAIN c = 0..n
      BY <1>7
    <2> HIDE DEF n
    <2>5. c = [k \in 0..n |-> c[k]]
      BY <1>7, <2>4
    <2> QED BY <2>3, <2>5
  <1> QED BY <1>8, <1>9, <1>10

LEMMA BitsTyped ==
    ASSUME NEW a \in Addresses
    PROVE  /\ Bits(a) \in Seq(0..1) /\ Len(Bits(a)) = Width
           /\ \A i \in 1..Width : Bits(a)[i] = (a \div Pow2[Width - i]) % 2
           /\ a \in Nat /\ a < Pow2[Width]
  <1>1. Width \in Nat \ {0} /\ Pow2[Width] \in Nat \ {0}
    BY TreeConstants, PowersOfTwo
  <1>2. a \in Nat /\ a < Pow2[Width]
    BY <1>1 DEF Addresses
  <1>3. ASSUME NEW i \in 1..Width PROVE (a \div Pow2[Width - i]) % 2 \in 0..1
    <2>1. Pow2[Width - i] \in Nat \ {0}
      <3>1. Width - i \in Nat
        BY <1>1
      <3> QED BY <3>1, PowersOfTwo
    <2> DEFINE s == Pow2[Width - i]
               m == a \div s
    <2> HIDE DEF s
    <2>2. m \in Int
      BY <1>2, <2>1 DEF s
    <2> HIDE DEF m
    <2>3. m % 2 \in 0..1
      BY <2>2
    <2> QED BY <2>3 DEF m, s
  <1>4. Bits(a) \in [1..Width -> 0..1]
    BY <1>3 DEF Bits
  <1>5. Bits(a) \in Seq(0..1) /\ Len(Bits(a)) = Width
    BY <1>1, <1>4
  <1> QED BY <1>2, <1>5 DEF Bits

\* Bit by bit, from the root of the IPv4 addresses on.
LEMMA ReachedFacts ==
    ASSUME NEW t \in Trees, NEW p \in Nat, NEW a \in Addresses
    PROVE  /\ Reached(t, p, a, 0) = RootIn(t, p)
           /\ \A d \in 0..Width : Reached(t, p, a, d) \in Int
           /\ \A d \in 0..(Width - 1) :
                 Reached(t, p, a, d + 1) = IF Reached(t, p, a, d) \in Nodes
                                           THEN NodeIn(t, p, Reached(t, p, a, d), Bits(a)[d + 1])
                                           ELSE Reached(t, p, a, d)
  <1> DEFINE v == V4Path
             V == Len(v)
             w == v \o Bits(a)
             f == PathIn(t, p, 0, w)
             g == PathIn(t, p, 0, v)
  <1>1. Width \in Nat \ {0} /\ v \in Seq(0..1) /\ V \in Nat
    BY TreeConstants
  <1>2. Bits(a) \in Seq(0..1) /\ Len(Bits(a)) = Width
    BY BitsTyped
  <1>3. /\ w \in Seq(0..1) /\ Len(w) = V + Width
        /\ \A i \in 1..V : w[i] = v[i]
        /\ \A i \in 1..Width : w[V + i] = Bits(a)[i]
    <2> HIDE DEF v
    <2> QED BY <1>1, <1>2
  <1>4. /\ f \in [0..(V + Width) -> Int] /\ f[0] = 0
        /\ \A i \in 1..(V + Width) : f[i] = IF f[i-1] \in Nodes THEN NodeIn(t, p, f[i-1], w[i]) ELSE f[i-1]
    <2> HIDE DEF w
    <2>1. 0 \in Int /\ w \in Seq(0..1)
      BY <1>3
    <2>2. /\ f \in [0..Len(w) -> Int] /\ f[0] = 0
          /\ \A i \in 1..Len(w) : f[i] = IF f[i-1] \in Nodes THEN NodeIn(t, p, f[i-1], w[i]) ELSE f[i-1]
      BY <2>1, PathFacts
    <2>3. Len(w) = V + Width
      BY <1>3
    <2> HIDE DEF f, V
    <2> QED BY <2>2, <2>3
  <1>5. /\ g \in [0..V -> Int] /\ g[0] = 0
        /\ \A i \in 1..V : g[i] = IF g[i-1] \in Nodes THEN NodeIn(t, p, g[i-1], v[i]) ELSE g[i-1]
    <2>1. 0 \in Int
      OBVIOUS
    <2> QED BY <1>1, <2>1, PathFacts
  <1>6. \A d : Reached(t, p, a, d) = f[V + d]
    BY DEF Reached
  <1>7. RootIn(t, p) = g[V]
    BY DEF RootIn
  <1> HIDE DEF f, g, w, V, v
  <1>8. f[V] = g[V]
    <2> DEFINE Ok == {k \in Nat : k <= V => f[k] = g[k]}
    <2>1. 0 \in Ok
      BY <1>4, <1>5
    <2>2. ASSUME NEW k \in Nat, k \in Ok PROVE k + 1 \in Ok
      <3> SUFFICES ASSUME k + 1 <= V PROVE f[k + 1] = g[k + 1]
        OBVIOUS
      <3>1. k + 1 \in 1..V /\ k + 1 \in 1..(V + Width) /\ (k + 1) - 1 = k
        BY <1>1
      <3>1a. f[k] = g[k] /\ w[k + 1] = v[k + 1]
        BY <1>1, <1>3, <2>2, <3>1
      <3>2. f[k + 1] = IF f[k] \in Nodes THEN NodeIn(t, p, f[k], w[k + 1]) ELSE f[k]
        BY <1>4, <3>1
      <3>3. g[k + 1] = IF g[k] \in Nodes THEN NodeIn(t, p, g[k], v[k + 1]) ELSE g[k]
        BY <1>5, <3>1
      <3> QED BY <3>1a, <3>2, <3>3
    <2> HIDE DEF Ok
    <2>3. V \in Ok
      BY <1>1, <2>1, <2>2, EveryNumber
    <2> QED BY <1>1, <2>3 DEF Ok
  <1>9. V + 0 = V
    BY <1>1
  <1>10. \A d \in 0..Width : f[V + d] \in Int
    BY <1>1, <1>4
  <1>11. ASSUME NEW d \in 0..(Width - 1)
         PROVE  f[V + (d + 1)] = IF f[V + d] \in Nodes THEN NodeIn(t, p, f[V + d], Bits(a)[d + 1]) ELSE f[V + d]
    <2>1. V + (d + 1) \in 1..(V + Width) /\ (V + (d + 1)) - 1 = V + d /\ d + 1 \in 1..Width
      BY <1>1
    <2>2. w[V + (d + 1)] = Bits(a)[d + 1]
      BY <1>3, <2>1
    <2>3. f[V + (d + 1)] = IF f[V + d] \in Nodes THEN NodeIn(t, p, f[V + d], w[V + (d + 1)]) ELSE f[V + d]
      BY <1>4, <2>1
    <2> QED BY <2>2, <2>3
  <1> QED BY <1>6, <1>7, <1>8, <1>9, <1>10, <1>11

\* A record, and the end of the file, is where the bits lead.
LEMMA StaysOutside ==
    ASSUME NEW t \in Trees, NEW p \in Nat, NEW a \in Addresses, NEW d \in 0..Width,
           Reached(t, p, a, d) \notin Nodes
    PROVE  Reached(t, p, a, Width) = Reached(t, p, a, d)
  <1> DEFINE Ok == {k \in Nat : d + k <= Width => Reached(t, p, a, d + k) = Reached(t, p, a, d)}
  <1>1. Width \in Nat /\ d \in Nat /\ d <= Width
    BY TreeConstants
  <1>2. 0 \in Ok
    <2>1. d + 0 = d
      BY <1>1
    <2> QED BY <2>1
  <1>3. ASSUME NEW k \in Nat, k \in Ok PROVE k + 1 \in Ok
    <2> SUFFICES ASSUME d + (k + 1) <= Width PROVE Reached(t, p, a, d + (k + 1)) = Reached(t, p, a, d)
      OBVIOUS
    <2>1. d + k \in 0..(Width - 1) /\ (d + k) + 1 = d + (k + 1) /\ Reached(t, p, a, d + k) = Reached(t, p, a, d)
      BY <1>1, <1>3
    <2>2. Reached(t, p, a, (d + k) + 1) = Reached(t, p, a, d + k)
      BY <2>1, ReachedFacts
    <2> QED BY <2>1, <2>2
  <1> HIDE DEF Ok
  <1>4. Width - d \in Ok
    <2>1. Width - d \in Nat
      BY <1>1
    <2> QED BY <1>2, <1>3, <2>1, EveryNumber
  <1>5. d + (Width - d) = Width
    BY <1>1
  <1>6. Width - d \in Nat
    BY <1>1
  <1> QED BY <1>1, <1>4, <1>5, <1>6 DEF Ok

\* A quotient, from where the number lies.
LEMMA Quotient ==
    ASSUME NEW a \in Nat, NEW s \in Nat \ {0}, NEW k \in Nat, k * s <= a, a < k * s + s
    PROVE  a \div s = k
  <1> DEFINE m == a \div s
             r == a % s
  <1>1. m \in Nat /\ r \in Nat /\ r < s /\ a = s * m + r
    OBVIOUS
  <1> HIDE DEF m, r
  <1>2. ~(m < k)
    <2> SUFFICES ASSUME m < k PROVE FALSE
      OBVIOUS
    <2>1. (k - m) * s >= s
      BY <1>1
    <2>2. m * s + s <= k * s
      BY <1>1, <2>1
    <2>3. a < m * s + s
      BY <1>1
    <2>4. m * s \in Nat /\ k * s \in Nat
      BY <1>1
    <2> DEFINE x == m * s
               y == k * s
    <2> HIDE DEF x, y
    <2>5. x \in Nat /\ y \in Nat /\ x + s <= y /\ a < x + s /\ y <= a
      BY <2>2, <2>3, <2>4 DEF x, y
    <2> QED BY <2>5
  <1>3. ~(k < m)
    <2> SUFFICES ASSUME k < m PROVE FALSE
      OBVIOUS
    <2>1. (m - k) * s >= s
      BY <1>1
    <2>2. k * s + s <= m * s
      BY <1>1, <2>1
    <2>3. m * s <= a
      BY <1>1
    <2>4. m * s \in Nat /\ k * s \in Nat
      BY <1>1
    <2> DEFINE x == m * s
               y == k * s
    <2> HIDE DEF x, y
    <2>5. x \in Nat /\ y \in Nat /\ y + s <= x /\ x <= a /\ a < y + s
      BY <2>2, <2>3, <2>4 DEF x, y
    <2> QED BY <2>5
  <1> QED BY <1>1, <1>2, <1>3 DEF m

\* A node on the stack, the addresses below it, and those below a child of it.
Item == [node : Nodes, prefix : Nat, depth : 0..(Width - 1)]

\* Nodes deeper than an address has bits may be reached as well; no address is below.
DeepItem == [node : Nodes, prefix : Nat, depth : 0..(Width + 1)]

Below(x) == IF x.depth < Width THEN x.prefix..(x.prefix + Pow2[Width - x.depth] - 1) ELSE {}

ItemIn(t, p, x) ==
    /\ x \in Item
    /\ \E q \in Nat : x.prefix = q * Pow2[Width - x.depth]
    /\ x.prefix + Pow2[Width - x.depth] <= Pow2[Width]
    /\ \A a \in Below(x) : Reached(t, p, a, x.depth) = x.node

EndsInside(t, p) == \E a \in Addresses : Reached(t, p, a, Width) \in Nodes

Placed(t, p, x) == IF x.depth < Width THEN ItemIn(t, p, x) ELSE EndsInside(t, p)

HalfSize(x) == Pow2[Width - 1 - x.depth]
HalfStart(x, b) == x.prefix + b * HalfSize(x)
Half(x, b) == HalfStart(x, b)..(HalfStart(x, b) + HalfSize(x) - 1)

LEMMA HalfSizes ==
    ASSUME NEW x \in Item
    PROVE  /\ x.prefix \in Nat /\ x.depth \in Nat /\ x.depth < Width /\ x.node \in Nodes
           /\ HalfSize(x) \in Nat \ {0} /\ Pow2[Width - x.depth] = 2 * HalfSize(x)
           /\ Pow2[Width] \in Nat /\ Width \in Nat \ {0}
           /\ HalfStart(x, 0) = x.prefix /\ HalfStart(x, 1) = x.prefix + HalfSize(x)
  <1>1. x.prefix \in Nat /\ x.depth \in 0..(Width - 1) /\ x.node \in Nodes /\ Width \in Nat \ {0}
    BY TreeConstants DEF Item
  <1>2. x.depth \in Nat /\ x.depth < Width /\ Width - 1 - x.depth \in Nat /\ (Width - 1 - x.depth) + 1 = Width - x.depth
    BY <1>1
  <1>3. HalfSize(x) \in Nat \ {0} /\ Pow2[Width - x.depth] = 2 * HalfSize(x) /\ Pow2[Width] \in Nat
    BY <1>1, <1>2, PowersOfTwo DEF HalfSize
  <1>4. HalfStart(x, 0) = x.prefix /\ HalfStart(x, 1) = x.prefix + HalfSize(x)
    BY <1>1, <1>3 DEF HalfStart
  <1> QED BY <1>1, <1>2, <1>3, <1>4

LEMMA HalvesOf ==
    ASSUME NEW t, NEW p, NEW x, ItemIn(t, p, x)
    PROVE  /\ Below(x) \subseteq Addresses
           /\ Half(x, 0) \cup Half(x, 1) = Below(x) /\ Half(x, 0) \cap Half(x, 1) = {}
           /\ x.prefix \in Half(x, 0) /\ \A b \in 0..1 : HalfStart(x, b) \in Half(x, b)
           /\ \A b \in 0..1 : \A a \in Half(x, b) : Bits(a)[x.depth + 1] = b
  <1> DEFINE s == HalfSize(x)
             o == x.prefix
             N == Pow2[Width]
  <1>1. x \in Item /\ o + 2 * s <= N
    BY HalfSizes DEF ItemIn
  <1>2. PICK q \in Nat : o = q * (2 * s)
    BY <1>1, HalfSizes DEF ItemIn
  <1>3. /\ o \in Nat /\ s \in Nat \ {0} /\ N \in Nat
        /\ HalfStart(x, 0) = o /\ HalfStart(x, 1) = o + s
        /\ Below(x) = o..(o + 2 * s - 1)
        /\ Half(x, 0) = o..(o + s - 1) /\ Half(x, 1) = (o + s)..(o + s + s - 1)
    BY <1>1, HalfSizes DEF Below, Half
  <1>4. Addresses = 0..(N - 1)
    BY DEF Addresses
  <1>5. Width \in Nat \ {0} /\ x.depth \in Nat /\ x.depth < Width
    BY <1>1, HalfSizes
  <1>6. Width - (x.depth + 1) = Width - 1 - x.depth /\ x.depth + 1 \in 1..Width
    BY <1>5
  <1>7. Pow2[Width - (x.depth + 1)] = s
    BY <1>6 DEF HalfSize
  <1>8. \A a \in Addresses : Bits(a)[x.depth + 1] = (a \div s) % 2
    BY <1>6, <1>7, BitsTyped
  <1> HIDE DEF s, o, N
  <1>9. Below(x) \subseteq Addresses
    BY <1>1, <1>3, <1>4
  <1>10. Half(x, 0) \cup Half(x, 1) = Below(x) /\ Half(x, 0) \cap Half(x, 1) = {}
    BY <1>3
  <1>11. o \in Half(x, 0) /\ \A b \in 0..1 : HalfStart(x, b) \in Half(x, b)
    BY <1>3
  <1>12. (2 * q) * s = o
    BY <1>2, <1>3
  <1>13. (2 * q + 1) * s = o + s
    BY <1>2, <1>3
  <1>14. ASSUME NEW a \in Half(x, 0) PROVE Bits(a)[x.depth + 1] = 0
    <2>1. a \in Nat /\ o <= a /\ a < o + s /\ a \in Addresses /\ 2 * q \in Nat
      BY <1>3, <1>9, <1>10
    <2>2. a \div s = 2 * q
      <3> DEFINE k == 2 * q
      <3>1. k \in Nat /\ k * s = o
        BY <1>12
      <3> HIDE DEF k
      <3>2. k * s <= a /\ a < k * s + s
        BY <2>1, <3>1
      <3>3. a \div s = k
        BY <1>3, <2>1, <3>1, <3>2, Quotient
      <3> QED BY <3>3 DEF k
    <2>3. (2 * q) % 2 = 0
      OBVIOUS
    <2> QED BY <1>8, <2>1, <2>2, <2>3
  <1>15. ASSUME NEW a \in Half(x, 1) PROVE Bits(a)[x.depth + 1] = 1
    <2>1. a \in Nat /\ o + s <= a /\ a < (o + s) + s /\ a \in Addresses /\ 2 * q + 1 \in Nat
      BY <1>3, <1>9, <1>10
    <2>2. a \div s = 2 * q + 1
      <3> DEFINE k == 2 * q + 1
      <3>1. k \in Nat /\ k * s = o + s
        BY <1>13
      <3> HIDE DEF k
      <3>2. k * s <= a /\ a < k * s + s
        BY <2>1, <3>1
      <3>3. a \div s = k
        BY <1>3, <2>1, <3>1, <3>2, Quotient
      <3> QED BY <3>3 DEF k
    <2>3. (2 * q + 1) % 2 = 1
      OBVIOUS
    <2> QED BY <1>8, <2>1, <2>2, <2>3
  <1>16. \A b \in 0..1 : b = 0 \/ b = 1
    OBVIOUS
  <1> QED BY <1>9, <1>10, <1>11, <1>14, <1>15, <1>16 DEF o

\* One bit further, for the addresses below a child.
LEMMA ChildReached ==
    ASSUME NEW t \in Trees, NEW p \in Nat, NEW x, ItemIn(t, p, x), NEW b \in 0..1, NEW a \in Half(x, b)
    PROVE  /\ a \in Addresses /\ a \in Below(x)
           /\ Reached(t, p, a, x.depth + 1) = NodeIn(t, p, x.node, b)
  <1>1. a \in Below(x) /\ a \in Addresses /\ Bits(a)[x.depth + 1] = b
    <2>1. b = 0 \/ b = 1
      OBVIOUS
    <2> QED BY <2>1, HalvesOf
  <1>2. x \in Item /\ Reached(t, p, a, x.depth) = x.node
    BY <1>1 DEF ItemIn
  <1>3. x.depth \in 0..(Width - 1) /\ x.node \in Nodes
    BY <1>2 DEF Item
  <1> QED BY <1>1, <1>2, <1>3, ReachedFacts

LEMMA RecordBelow ==
    ASSUME NEW t \in Trees, NEW p \in Nat, NEW x, ItemIn(t, p, x), NEW b \in 0..1, NEW a \in Half(x, b),
           NodeIn(t, p, x.node, b) \notin Nodes
    PROVE  Reached(t, p, a, Width) = NodeIn(t, p, x.node, b)
  <1>1. a \in Addresses /\ Reached(t, p, a, x.depth + 1) = NodeIn(t, p, x.node, b)
    BY ChildReached
  <1>2. x.depth + 1 \in 0..Width
    <2>1. x \in Item
      BY DEF ItemIn
    <2> QED BY <2>1, HalfSizes
  <1> QED BY <1>1, <1>2, StaysOutside

LEMMA NodeBelow ==
    ASSUME NEW t \in Trees, NEW p \in Nat, NEW x, ItemIn(t, p, x), NEW b \in 0..1,
           NEW c \in Nodes, c = NodeIn(t, p, x.node, b), x.depth + 1 # Width
    PROVE  LET y == [node |-> c, prefix |-> HalfStart(x, b), depth |-> x.depth + 1] IN
           ItemIn(t, p, y) /\ Below(y) = Half(x, b)
  <1> DEFINE y == [node |-> c, prefix |-> HalfStart(x, b), depth |-> x.depth + 1]
             s == HalfSize(x)
             o == x.prefix
  <1>1. x \in Item /\ o + 2 * s <= Pow2[Width]
    BY HalfSizes DEF ItemIn
  <1>2. PICK q \in Nat : o = q * (2 * s)
    BY <1>1, HalfSizes DEF ItemIn
  <1>3. o \in Nat /\ s \in Nat \ {0} /\ x.depth \in Nat /\ x.depth < Width /\ Width \in Nat /\ Pow2[Width] \in Nat
    BY <1>1, HalfSizes
  <1>4. HalfStart(x, b) \in Half(x, b)
    BY HalvesOf
  <1>5. HalfStart(x, b) \in Addresses /\ Reached(t, p, HalfStart(x, b), x.depth + 1) = c
    BY <1>4, ChildReached
  <1>7. x.depth + 1 \in 0..(Width - 1)
    BY <1>3
  <1>8. HalfStart(x, b) = o + b * s /\ b * s \in Nat /\ ((b = 0 /\ b * s = 0) \/ (b = 1 /\ b * s = s))
    <2>1. b = 0 \/ b = 1
      OBVIOUS
    <2> QED BY <1>3, <2>1 DEF HalfStart
  <1>9. HalfStart(x, b) \in Nat /\ HalfStart(x, b) + s <= Pow2[Width]
    <2> HIDE DEF s, o
    <2> QED BY <1>1, <1>3, <1>8
  <1>10. Pow2[Width - y.depth] = s
    <2>1. Width - (x.depth + 1) = Width - 1 - x.depth
      BY <1>3
    <2> QED BY <2>1 DEF HalfSize
  <1>11. \E r \in Nat : HalfStart(x, b) = r * s
    <2> HIDE DEF s, o
    <2>1. (2 * q) * s = q * (2 * s) /\ (2 * q + 1) * s = q * (2 * s) + s /\ 2 * q \in Nat /\ 2 * q + 1 \in Nat
      BY <1>3
    <2>2. CASE b = 0
      <3>1. HalfStart(x, b) = (2 * q) * s
        BY <1>2, <1>3, <1>8, <2>1, <2>2
      <3> QED BY <2>1, <3>1
    <2>3. CASE b = 1
      <3>1. HalfStart(x, b) = (2 * q + 1) * s
        BY <1>2, <1>3, <1>8, <2>1, <2>3
      <3> QED BY <2>1, <3>1
    <2> QED BY <2>2, <2>3
  <1>12. y \in Item /\ y.node = c /\ y.prefix = HalfStart(x, b) /\ y.depth = x.depth + 1
    BY <1>7, <1>9 DEF Item
  <1> HIDE DEF y
  <1>13. Below(y) = Half(x, b)
    BY <1>7, <1>10, <1>12, <1>3 DEF Below, Half
  <1>14. \A a \in Below(y) : Reached(t, p, a, y.depth) = y.node
    BY <1>12, <1>13, ChildReached
  <1>15. ItemIn(t, p, y)
    BY <1>9, <1>10, <1>11, <1>12, <1>14 DEF ItemIn
  <1> QED BY <1>13, <1>15 DEF y

LEMMA RootItem ==
    ASSUME NEW t \in Trees, NEW p \in Nat, RootIn(t, p) \in Nodes
    PROVE  LET y == [node |-> RootIn(t, p), prefix |-> 0, depth |-> 0] IN
           ItemIn(t, p, y) /\ Below(y) = Addresses
  <1> DEFINE y == [node |-> RootIn(t, p), prefix |-> 0, depth |-> 0]
  <1>1. Width \in Nat \ {0} /\ Pow2[Width] \in Nat \ {0} /\ Width - 0 = Width
    <2>1. Width \in Nat \ {0}
      BY TreeConstants
    <2>2. Pow2[Width] \in Nat \ {0}
      BY <2>1, PowersOfTwo
    <2>3. Width - 0 = Width
      BY <2>1
    <2> QED BY <2>1, <2>2, <2>3
  <1>2. y \in Item /\ y.node = RootIn(t, p) /\ y.prefix = 0 /\ y.depth = 0
    BY <1>1 DEF Item
  <1> HIDE DEF y
  <1>3. Below(y) = Addresses
    <2>1. 0 + Pow2[Width] - 1 = Pow2[Width] - 1
      BY <1>1
    <2> QED BY <1>1, <1>2, <2>1 DEF Below, Addresses
  <1>4. \A a \in Below(y) : Reached(t, p, a, y.depth) = y.node
    BY <1>2, <1>3, ReachedFacts
  <1>5. \E q \in Nat : y.prefix = q * Pow2[Width - y.depth]
    <2>1. 0 = 0 * Pow2[Width] /\ 0 \in Nat
      BY <1>1
    <2> QED BY <1>1, <1>2, <2>1
  <1>6. y.prefix + Pow2[Width - y.depth] <= Pow2[Width]
    BY <1>1, <1>2
  <1> QED BY <1>2, <1>3, <1>4, <1>5, <1>6 DEF ItemIn, y

\* The stack: nodes with nothing below in common.
OpenIn(t, p, S) ==
    /\ S \in Seq(DeepItem)
    /\ \A i \in 1..Len(S) : Placed(t, p, S[i])
    /\ \A i, j \in 1..Len(S) : i # j => Below(S[i]) \cap Below(S[j]) = {}

Pending(S) == {a \in Addresses : \E i \in 1..Len(S) : a \in Below(S[i])}

LEMMA PlacedBelow ==
    ASSUME NEW t, NEW p, NEW x, Placed(t, p, x)
    PROVE  Below(x) \subseteq Addresses
  BY HalvesOf DEF Placed, Below

LEMMA ItemPushed ==
    ASSUME NEW t, NEW p, NEW S, OpenIn(t, p, S), NEW x \in DeepItem, Placed(t, p, x), Below(x) \cap Pending(S) = {}
    PROVE  OpenIn(t, p, S \o <<x>>) /\ Pending(S \o <<x>>) = Pending(S) \cup Below(x)
  <1> DEFINE N == S \o <<x>>
             L == Len(S)
  <1>1. S \in Seq(DeepItem) /\ L \in Nat
    BY DEF OpenIn
  <1>2. N \in Seq(DeepItem) /\ Len(N) = L + 1 /\ N[L + 1] = x /\ \A i \in 1..L : N[i] = S[i]
    BY <1>1
  <1>3. \A i \in 1..(L + 1) : i = L + 1 \/ i \in 1..L
    BY <1>1
  <1>4. L + 1 \in 1..(L + 1) /\ \A i \in 1..L : i \in 1..(L + 1)
    BY <1>1
  <1> HIDE DEF N
  <1>5. Below(x) \subseteq Addresses /\ \A i \in 1..L : Below(S[i]) \subseteq Addresses
    BY PlacedBelow DEF OpenIn
  <1>6. \A i \in 1..L : Below(S[i]) \cap Below(x) = {}
    BY <1>5 DEF Pending
  <1>7. \A i \in 1..(L + 1) : Placed(t, p, N[i])
    BY <1>2, <1>3 DEF OpenIn
  <1>8. ASSUME NEW i \in 1..(L + 1), NEW j \in 1..(L + 1), i # j PROVE Below(N[i]) \cap Below(N[j]) = {}
    <2>1. CASE i \in 1..L /\ j \in 1..L
      BY <1>2, <1>8, <2>1 DEF OpenIn
    <2>2. CASE i = L + 1 /\ j \in 1..L
      BY <1>2, <1>6, <2>2
    <2>3. CASE j = L + 1 /\ i \in 1..L
      BY <1>2, <1>6, <2>3
    <2> QED BY <1>3, <1>8, <2>1, <2>2, <2>3
  <1>9. OpenIn(t, p, N)
    BY <1>2, <1>7, <1>8 DEF OpenIn
  <1>10. \A a : (\E i \in 1..(L + 1) : a \in Below(N[i])) <=> (\E i \in 1..L : a \in Below(S[i])) \/ a \in Below(x)
    BY <1>2, <1>3, <1>4
  <1>11. Pending(N) = Pending(S) \cup Below(x)
    BY <1>2, <1>5, <1>10 DEF Pending
  <1> QED BY <1>9, <1>11 DEF N

LEMMA ItemPopped ==
    ASSUME NEW t, NEW p, NEW S, OpenIn(t, p, S), S # <<>>
    PROVE  LET x == S[Len(S)]
               R == SubSeq(S, 1, Len(S) - 1)
           IN /\ Placed(t, p, x) /\ x \in DeepItem /\ OpenIn(t, p, R)
              /\ Pending(S) = Pending(R) \cup Below(x) /\ Pending(R) \cap Below(x) = {}
  <1> DEFINE x == S[Len(S)]
             R == SubSeq(S, 1, Len(S) - 1)
             L == Len(S)
  <1>1. S \in Seq(DeepItem)
    BY DEF OpenIn
  <1>2. L \in Nat \ {0} /\ R \in Seq(DeepItem) /\ Len(R) = L - 1 /\ \A i \in 1..(L - 1) : R[i] = S[i]
    <2>1. /\ L \in Nat \ {0} /\ Front(S) \in Seq(DeepItem) /\ Len(Front(S)) = L - 1
          /\ \A i \in 1..(L - 1) : Front(S)[i] = S[i]
      BY <1>1, LastOne
    <2>2. Front(S) = R
      BY DEF Front
    <2> QED BY <2>1, <2>2
  <1>3. x = S[L] /\ L \in 1..L /\ \A i \in 1..L : i = L \/ i \in 1..(L - 1)
    BY <1>2
  <1>4. \A i \in 1..(L - 1) : i \in 1..L /\ i # L
    BY <1>2
  <1> HIDE DEF R, x, L
  <1>5. Placed(t, p, x) /\ x \in DeepItem
    BY <1>1, <1>2, <1>3 DEF OpenIn, L
  <1>6. OpenIn(t, p, R)
    BY <1>2, <1>4 DEF OpenIn, L
  <1>7. \A i \in 1..(L - 1) : Below(R[i]) \cap Below(x) = {}
    BY <1>2, <1>3, <1>4 DEF OpenIn, L
  <1>8. \A a : (\E i \in 1..L : a \in Below(S[i])) <=> (\E i \in 1..(L - 1) : a \in Below(R[i])) \/ a \in Below(x)
    BY <1>2, <1>3, <1>4
  <1>9. Below(x) \subseteq Addresses
    BY <1>5, PlacedBelow
  <1>10. Pending(S) = Pending(R) \cup Below(x) /\ Pending(R) \cap Below(x) = {}
    BY <1>2, <1>7, <1>8, <1>9 DEF Pending, L
  <1> QED BY <1>5, <1>6, <1>10 DEF x, R

\* What the visitor was told of an address, and what it should be told.
CodesOf(vis, a) == {n.code : n \in {m \in vis : a \in Network(m)}}
Told(t, p, s, a) == ToldOf(s, Reached(t, p, a, Width))

SettledIn(t, p, s, S, vis) ==
    \A a \in Addresses :
        IF a \in Pending(S) THEN CodesOf(vis, a) = {}
        ELSE CodesOf(vis, a) = Told(t, p, s, a) /\ Reached(t, p, a, Width) # OutOfRange

\* The IPv4 addresses begin at a node, or are cut off.
StartsInside(t, p) == RootIn(t, p) \in Nodes \cup {OutOfRange}

\* The tree is as it was opened; an address is either below one node of the
\* stack, and no visited network holds it, or it was told of.
WalkInv ==
    /\ tree \in Trees /\ present \in Nat
    /\ walk \in {"new", "walking", "done", "failed"}
    /\ walk = "new" => stack = <<>> /\ visited = {}
    /\ walk = "done" => stack = <<>>
    /\ StartsInside(tree, present) =>
         /\ walk \in {"walking", "done"} => OpenIn(tree, present, stack) /\ SettledIn(tree, present, sound, stack, visited)
         /\ walk = "failed" => \E a \in Addresses : Reached(tree, present, a, Width) \in Nodes \cup {OutOfRange}

LEMMA TreeLinks ==
    /\ v4Root = RootIn(tree, present)
    /\ \A a \in Addresses : /\ LookedUp(a) = Reached(tree, present, a, Width)
                            /\ {Get(a)} \ {"", "error"} = Told(tree, present, sound, a)
  <1>1. \A node, bits : Follow(node, bits) = PathIn(tree, present, node, bits)[Len(bits)]
    BY DEF Follow, PathIn, readNode, NodeIn
  <1>2. v4Root = RootIn(tree, present)
    BY <1>1 DEF v4Root, RootIn
  <1>3. ASSUME NEW a \in Addresses PROVE LookedUp(a) = Reached(tree, present, a, Width)
    <2>1. Bits(a) \in Seq(0..1) /\ Len(Bits(a)) = Width /\ V4Path \in Seq(0..1)
      BY BitsTyped, TreeConstants
    <2>2. Len(V4Path \o Bits(a)) = Len(V4Path) + Width
      BY <2>1
    <2> QED BY <1>1, <2>2 DEF Reached, LookedUp
  <1>4. ASSUME NEW a \in Addresses PROVE {Get(a)} \ {"", "error"} = Told(tree, present, sound, a)
    <2> DEFINE r == LookedUp(a)
    <2> HIDE DEF r
    <2>1. /\ r = OutOfRange => Get(a) = "error"
          /\ r # OutOfRange /\ r \in Nodes \cup {NodeCount} => Get(a) = ""
          /\ r # OutOfRange /\ r \notin Nodes \cup {NodeCount} => Get(a) = Decode(r)
      <3>1. OutOfRange \notin Nodes \cup {NodeCount}
        BY TreeConstants DEF OutOfRange, Nodes
      <3> QED BY <3>1 DEF Get, r
    <2>2. Decode(r) = RecordIn(sound, r)
      BY DEF Decode, RecordIn
    <2>3. Told(tree, present, sound, a) = ToldOf(sound, r)
      BY <1>3 DEF Told, r
    <2> QED BY <2>1, <2>2, <2>3 DEF ToldOf
  <1> QED BY <1>2, <1>3, <1>4

LEMMA WalkInvInit == TreeInit => WalkInv
  <1> SUFFICES ASSUME TreeInit PROVE WalkInv
    OBVIOUS
  <1>1. present \in Nat /\ tree \in Trees
    BY DEF TreeInit, Trees
  <1> QED BY <1>1 DEF TreeInit, WalkInv

\* One child of a node that an address leads through.
LEMMA ChildVisited ==
    ASSUME tree \in Trees, present \in Nat,
           NEW x, ItemIn(tree, present, x), x.node \in 0..(present - 1), NEW b \in 0..1,
           NEW S, OpenIn(tree, present, S), Pending(S) \cap Half(x, b) = {}
    PROVE  LET N == S \o Pushed(x, b) IN
           /\ OpenIn(tree, present, N)
           /\ \A a \in Addresses :
                 /\ a \notin Half(x, b) => CodesOf(Found(x, b), a) = {} /\ (a \in Pending(N) <=> a \in Pending(S))
                 /\ a \in Half(x, b) =>
                       IF a \in Pending(N) THEN CodesOf(Found(x, b), a) = {}
                       ELSE /\ CodesOf(Found(x, b), a) = Told(tree, present, sound, a)
                            /\ Reached(tree, present, a, Width) # OutOfRange
  <1> DEFINE N == S \o Pushed(x, b)
             child == tree[x.node][b]
             F == Found(x, b)
             y == [node |-> child, prefix |-> HalfStart(x, b), depth |-> x.depth + 1]
  <1>1. x \in Item /\ x.node \in Nodes /\ x.depth \in Nat /\ x.depth < Width /\ Width \in Nat /\ NodeCount \in Nat
    BY HalfSizes, TreeConstants DEF ItemIn
  <1>2. child \in Nat /\ NodeIn(tree, present, x.node, b) = child /\ child # OutOfRange
    BY <1>1, TreeFacts
  <1>3. value(x, b) = HalfStart(x, b)
    BY <1>1 DEF value, HalfStart, HalfSize
  <1>4. Half(x, b) \subseteq Addresses /\ HalfStart(x, b) \in Half(x, b)
    BY ChildReached, HalvesOf
  <1>5. child \in Nodes => ~(child > NodeCount)
    BY <1>1, <1>2 DEF Nodes
  <1>6. CASE child \in Nodes
    <2>1. HalfStart(x, b) \in Nat
      <3>1. HalfStart(x, b) \in Addresses
        BY <1>4
      <3> QED BY <3>1, BitsTyped
    <2>2. /\ y \in DeepItem /\ y.depth = x.depth + 1
          /\ Pushed(x, b) = <<y>>
      BY <1>1, <1>3, <1>6, <2>1 DEF Pushed, DeepItem
    <2>3. F = {}
      BY <1>5, <1>6 DEF Found
    <2>4. \A a : CodesOf(F, a) = {}
      BY <2>3 DEF CodesOf
    <2>5. CASE x.depth + 1 # Width
      <3>1. ItemIn(tree, present, y) /\ Below(y) = Half(x, b)
        BY <1>2, <1>6, <2>5, NodeBelow
      <3>2. y.depth < Width
        BY <1>1, <2>2, <2>5
      <3>3. Placed(tree, present, y)
        BY <3>1, <3>2 DEF Placed
      <3> HIDE DEF y, F, child
      <3>4. OpenIn(tree, present, N) /\ Pending(N) = Pending(S) \cup Half(x, b)
        BY <2>2, <3>1, <3>3, ItemPushed
      <3> HIDE DEF N
      <3> QED BY <2>4, <3>4 DEF N, F
    <2>6. CASE x.depth + 1 = Width
      <3>1. \A a \in Half(x, b) : Reached(tree, present, a, Width) = child
        BY <1>2, <2>6, ChildReached
      <3>2. EndsInside(tree, present)
        BY <1>4, <1>6, <3>1 DEF EndsInside
      <3>3. Below(y) = {} /\ Placed(tree, present, y)
        BY <1>1, <2>2, <2>6, <3>2 DEF Below, Placed
      <3>4. \A a \in Half(x, b) : Told(tree, present, sound, a) = {} /\ Reached(tree, present, a, Width) # OutOfRange
        BY <1>2, <1>6, <3>1 DEF Told, ToldOf
      <3> HIDE DEF y, F, child
      <3>5. Below(y) \cap Pending(S) = {} /\ OpenIn(tree, present, S) /\ y \in DeepItem /\ Placed(tree, present, y)
        BY <2>2, <3>3
      <3>6. OpenIn(tree, present, S \o <<y>>) /\ Pending(S \o <<y>>) = Pending(S) \cup Below(y)
        BY <3>5, ItemPushed
      <3>7. OpenIn(tree, present, N) /\ Pending(N) = Pending(S)
        BY <2>2, <3>3, <3>6
      <3> HIDE DEF N
      <3> QED BY <2>4, <3>4, <3>7 DEF N, F
    <2> QED BY <2>5, <2>6
  <1>7. CASE child \notin Nodes
    <2>1. N = S
      <3>1. Pushed(x, b) = <<>> /\ S \in Seq(DeepItem)
        BY <1>7 DEF Pushed, OpenIn
      <3> QED BY <3>1
    <2>2. \A a \in Half(x, b) : Reached(tree, present, a, Width) = child
      BY <1>2, <1>7, RecordBelow
    <2>3. \A a \in Half(x, b) : Told(tree, present, sound, a) = ToldOf(sound, child)
      BY <2>2 DEF Told
    <2>4. child = NodeCount \/ child > NodeCount
      BY <1>1, <1>2, <1>7 DEF Nodes
    <2>5. Decode(child) = RecordIn(sound, child)
      BY DEF Decode, RecordIn
    <2>6. CASE child > NodeCount /\ decodeAt(child) # ""
      <3> DEFINE n == [lo |-> HalfStart(x, b), len |-> x.depth + 1, code |-> decodeAt(child)]
      <3>1. F = {n}
        BY <1>3, <2>6 DEF Found
      <3>2. Network(n) = Half(x, b)
        <4>1. Width - (x.depth + 1) = Width - 1 - x.depth /\ x.depth + 1 <= Width
          BY <1>1
        <4> QED BY <4>1 DEF Network, Half, HalfSize
      <3>3. n.code = decodeAt(child)
        OBVIOUS
      <3>4. decodeAt(child) = RecordIn(sound, child) /\ RecordIn(sound, child) \notin {"", "error"}
        BY <2>5, <2>6 DEF decodeAt
      <3>5. child \notin Nodes \cup {NodeCount}
        <4>1. child > NodeCount
          BY <2>6
        <4> QED BY <1>1, <1>2, <1>7, <4>1
      <3> HIDE DEF n, F, child, N
      <3>6. \A a : CodesOf(F, a) = IF a \in Half(x, b) THEN {RecordIn(sound, child)} ELSE {}
        BY <3>1, <3>2, <3>3, <3>4 DEF CodesOf
      <3>7. ToldOf(sound, child) = {RecordIn(sound, child)}
        BY <1>2, <3>4, <3>5 DEF ToldOf
      <3> QED BY <1>2, <2>1, <2>2, <2>3, <3>6, <3>7 DEF N, F
    <2>7. CASE ~(child > NodeCount /\ decodeAt(child) # "")
      <3>1. F = {}
        BY <2>7 DEF Found
      <3>2. ToldOf(sound, child) = {}
        <4>1. CASE child = NodeCount
          BY <4>1 DEF ToldOf
        <4>2. CASE child > NodeCount
          <5>1. RecordIn(sound, child) \in {"", "error"}
            BY <2>5, <2>7, <4>2 DEF decodeAt
          <5> QED BY <5>1 DEF ToldOf
        <4> QED BY <2>4, <4>1, <4>2
      <3> HIDE DEF F, child, N
      <3>3. \A a : CodesOf(F, a) = {}
        BY <3>1 DEF CodesOf
      <3> QED BY <1>2, <2>1, <2>2, <2>3, <3>2, <3>3 DEF N, F
    <2> QED BY <2>6, <2>7
  <1> QED BY <1>6, <1>7

\* One child of a node that lies behind the last bit of every address.
LEMMA DeepVisited ==
    ASSUME tree \in Trees, present \in Nat, NEW x \in DeepItem, x.depth = Width, EndsInside(tree, present),
           x.node \in 0..(present - 1), NEW b \in 0..1, NEW S, OpenIn(tree, present, S)
    PROVE  LET N == S \o Pushed(x, b) IN
           /\ OpenIn(tree, present, N) /\ Pending(N) = Pending(S)
           /\ \A a : CodesOf(Found(x, b), a) = {}
  <1> DEFINE child == tree[x.node][b]
             y == [node |-> child, prefix |-> x.prefix, depth |-> Width + 1]
  <1>1. Width \in Nat /\ NodeCount \in Nat /\ x.prefix \in Nat
    BY TreeConstants DEF DeepItem
  <1>2. value(x, b) = x.prefix
    BY <1>1 DEF value
  <1>3. \A a : CodesOf(Found(x, b), a) = {}
    <2> DEFINE r == [lo |-> value(x, b), len |-> x.depth + 1, code |-> decodeAt(child)]
    <2>0. r.len = x.depth + 1
      OBVIOUS
    <2>1. \A n \in Found(x, b) : n.len = x.depth + 1
      <3>1. Found(x, b) \subseteq {r}
        BY Zenon DEF Found
      <3> HIDE DEF r
      <3> QED BY <2>0, <3>1
    <2>1a. \A n \in Found(x, b) : n.len = Width + 1
      BY <2>1
    <2>2. \A n \in Found(x, b) : Network(n) = {}
      BY <1>1, <2>1a DEF Network
    <2> QED BY <2>2 DEF CodesOf
  <1>4. CASE child \in Nodes
    <2>1. y \in DeepItem /\ y.depth = Width + 1 /\ Pushed(x, b) = <<y>>
      BY <1>1, <1>2, <1>4 DEF Pushed, DeepItem
    <2>2. Below(y) = {} /\ Placed(tree, present, y)
      BY <1>1, <2>1 DEF Below, Placed
    <2> HIDE DEF y
    <2>3. Below(y) \cap Pending(S) = {} /\ OpenIn(tree, present, S) /\ y \in DeepItem /\ Placed(tree, present, y)
      BY <2>1, <2>2
    <2>4. OpenIn(tree, present, S \o <<y>>) /\ Pending(S \o <<y>>) = Pending(S) \cup Below(y)
      BY <2>3, ItemPushed
    <2> QED BY <1>3, <2>1, <2>2, <2>4
  <1>5. CASE child \notin Nodes
    <2>1. Pushed(x, b) = <<>> /\ S \in Seq(DeepItem)
      BY <1>5 DEF Pushed, OpenIn
    <2>2. S \o Pushed(x, b) = S
      BY <2>1
    <2> QED BY <1>3, <2>2
  <1> QED BY <1>4, <1>5

LEMMA WalkInvStep == WalkInv /\ [TreeNext]_treeVars => WalkInv'
  <1> SUFFICES ASSUME WalkInv, [TreeNext]_treeVars PROVE WalkInv'
    OBVIOUS
  <1>0. tree \in Trees /\ present \in Nat
    BY DEF WalkInv
  <1>1. CASE WalkBegins
    <2>1. /\ walk = "new" /\ visited = {} /\ stack = <<>> /\ visited' = {}
          /\ UNCHANGED <<tree, present, sound>> /\ walk' \in {"walking", "failed"}
      BY <1>1 DEF WalkBegins, WalkInv
    <2>2. v4Root = RootIn(tree, present)
      BY TreeLinks
    <2>3. CASE RootIn(tree, present) \in Nodes
      <3> DEFINE y == [node |-> RootIn(tree, present), prefix |-> 0, depth |-> 0]
      <3>1. stack' = <<y>> /\ walk' = "walking"
        <4>1. OutOfRange \notin Nodes
          BY DEF OutOfRange, Nodes
        <4> QED BY <1>1, <2>2, <2>3, <4>1 DEF WalkBegins
      <3>2. ItemIn(tree, present, y) /\ Below(y) = Addresses
        BY <1>0, <2>3, RootItem
      <3>3. y \in DeepItem /\ Placed(tree, present, y)
        BY <2>3, <3>2, TreeConstants DEF DeepItem, Placed
      <3> HIDE DEF y
      <3> DEFINE e == <<>>
      <3>4. OpenIn(tree, present, e) /\ Pending(e) = {} /\ e \o <<y>> = <<y>>
        BY DEF OpenIn, Pending
      <3>5. OpenIn(tree, present, <<y>>) /\ Pending(<<y>>) = Addresses
        <4> HIDE DEF e
        <4>1. Below(y) \cap Pending(e) = {} /\ OpenIn(tree, present, e) /\ y \in DeepItem /\ Placed(tree, present, y)
          BY <3>3, <3>4
        <4>2. OpenIn(tree, present, e \o <<y>>) /\ Pending(e \o <<y>>) = Pending(e) \cup Below(y)
          BY <4>1, ItemPushed
        <4> QED BY <3>2, <3>4, <4>2
      <3>6. \A a : CodesOf({}, a) = {}
        BY DEF CodesOf
      <3>7. SettledIn(tree, present, sound, <<y>>, {})
        BY <3>5, <3>6 DEF SettledIn
      <3>8. OpenIn(tree', present', stack') /\ SettledIn(tree', present', sound', stack', visited')
        BY <2>1, <3>1, <3>5, <3>7
      <3> QED BY <1>0, <2>1, <3>1, <3>8 DEF WalkInv
    <2>4. CASE RootIn(tree, present) = OutOfRange
      <3>1. walk' = "failed"
        BY <1>1, <2>2, <2>4 DEF WalkBegins
      <3>2. 0 \in Addresses /\ 0 \in 0..Width
        <4>1. Width \in Nat \ {0}
          BY TreeConstants
        <4>2. Pow2[Width] \in Nat \ {0}
          BY <4>1, PowersOfTwo
        <4> QED BY <4>1, <4>2 DEF Addresses
      <3>3. Reached(tree, present, 0, 0) = OutOfRange
        BY <1>0, <2>4, <3>2, ReachedFacts
      <3>4. OutOfRange \notin Nodes
        BY DEF OutOfRange, Nodes
      <3>5. Reached(tree, present, 0, Width) = OutOfRange
        BY <1>0, <3>2, <3>3, <3>4, StaysOutside
      <3>6. \E a \in Addresses : Reached(tree', present', a, Width) \in Nodes \cup {OutOfRange}
        BY <2>1, <3>2, <3>5
      <3> QED BY <1>0, <2>1, <3>1, <3>6 DEF WalkInv
    <2>5. CASE ~StartsInside(tree, present)
      <3>1. ~StartsInside(tree', present')
        BY <2>1, <2>5
      <3> QED BY <1>0, <2>1, <3>1 DEF WalkInv
    <2> QED BY <2>3, <2>4, <2>5 DEF StartsInside
  <1>2. CASE WalkV4
    <2> DEFINE x == stack[Len(stack)]
               R == SubSeq(stack, 1, Len(stack) - 1)
               S == R \o Pushed(x, 1)
               N == S \o Pushed(x, 0)
               W == (visited \cup Found(x, 1)) \cup Found(x, 0)
    <2>1. /\ walk = "walking" /\ stack # <<>> /\ UNCHANGED <<tree, present, sound>>
          /\ walk' \in {"walking", "failed"} /\ tree' \in Trees /\ present' \in Nat
      BY <1>0, <1>2 DEF WalkV4
    <2>2. CASE ~StartsInside(tree, present)
      <3>1. ~StartsInside(tree', present')
        BY <2>1, <2>2
      <3> QED BY <2>1, <3>1 DEF WalkInv
    <2>3. CASE StartsInside(tree, present)
      <3>1. OpenIn(tree, present, stack) /\ SettledIn(tree, present, sound, stack, visited)
        BY <2>1, <2>3 DEF WalkInv
      <3>2. /\ Placed(tree, present, x) /\ x \in DeepItem /\ OpenIn(tree, present, R)
            /\ Pending(stack) = Pending(R) \cup Below(x) /\ Pending(R) \cap Below(x) = {}
        BY <2>1, <3>1, ItemPopped
      <3>3. x.node \in Nodes /\ x.depth \in Nat /\ Width \in Nat
        BY <3>2, TreeConstants DEF DeepItem
      <3>4. readNode(x.node, 1) = NodeIn(tree, present, x.node, 1)
        BY DEF readNode, NodeIn
      <3>5. ASSUME walk' = "walking", OpenIn(tree, present, stack'),
                   SettledIn(tree, present, sound, stack', visited')
            PROVE  WalkInv'
        <4>1. OpenIn(tree', present', stack') /\ SettledIn(tree', present', sound', stack', visited')
          BY <2>1, <3>5
        <4> QED BY <2>1, <3>5, <4>1 DEF WalkInv
      <3>6. ASSUME walk' = "failed", \E a \in Addresses : Reached(tree, present, a, Width) \in Nodes \cup {OutOfRange}
            PROVE  WalkInv'
        <4>1. \E a \in Addresses : Reached(tree', present', a, Width) \in Nodes \cup {OutOfRange}
          BY <2>1, <3>6
        <4> QED BY <2>1, <3>6, <4>1 DEF WalkInv
      <3>7. CASE x.depth > Width
        <4>0. ~(x.depth <= Width)
          BY <3>3, <3>7
        <4>1. stack' = R /\ visited' = visited /\ walk' = "walking"
          BY <1>2, <2>1, <4>0, Zenon DEF WalkV4
        <4>2. Pending(stack) = Pending(R)
          BY <3>2, <3>3, <3>7 DEF Below
        <4>3. SettledIn(tree, present, sound, R, visited)
          BY <3>1, <4>2 DEF SettledIn
        <4> QED BY <3>2, <3>5, <4>1, <4>3
      <3>8. CASE x.depth <= Width /\ readNode(x.node, 1) = OutOfRange
        <4>0. ~(x.depth > Width)
          BY <3>3, <3>8
        <4>1. walk' = "failed"
          BY <1>2, <3>8, <4>0, Zenon DEF WalkV4
        <4>2. CASE x.depth < Width
          <5>1. ItemIn(tree, present, x)
            BY <3>2, <4>2 DEF Placed
          <5>2. x.node \notin 0..(present - 1)
            <6>1. 1 \in 0..1
              OBVIOUS
            <6> QED BY <1>0, <3>3, <3>4, <3>8, <6>1, TreeFacts
          <5>3. NodeIn(tree, present, x.node, 0) = OutOfRange
            BY <5>2 DEF NodeIn
          <5>4. OutOfRange \notin Nodes /\ 0 \in 0..1
            BY DEF OutOfRange, Nodes
          <5>5. x.prefix \in Half(x, 0) /\ x.prefix \in Addresses
            BY <5>1, HalvesOf
          <5> DEFINE o == x.prefix
          <5> HIDE DEF x, o
          <5>6. o \in Half(x, 0) /\ o \in Addresses
            BY <5>5 DEF o
          <5>7. Reached(tree, present, o, Width) = OutOfRange
            BY <1>0, <5>1, <5>3, <5>4, <5>6, RecordBelow
          <5> QED BY <3>6, <4>1, <5>6, <5>7
        <4>3. CASE x.depth = Width
          <5>1. EndsInside(tree, present)
            BY <3>2, <3>3, <4>3 DEF Placed
          <5> QED BY <3>6, <4>1, <5>1 DEF EndsInside
        <4> QED BY <3>3, <3>8, <4>2, <4>3
      <3>9. CASE x.depth <= Width /\ readNode(x.node, 1) # OutOfRange
        <4>0. ~(x.depth > Width)
          BY <3>3, <3>9
        <4>1. stack' = N /\ visited' = W /\ walk' = "walking"
          BY <1>2, <2>1, <3>9, <4>0, Zenon DEF WalkV4
        <4>2. x.node \in 0..(present - 1)
          BY <3>4, <3>9 DEF NodeIn
        <4>3. 0 \in 0..1 /\ 1 \in 0..1
          OBVIOUS
        <4>4. \A a : CodesOf(W, a) = CodesOf(visited, a) \cup CodesOf(Found(x, 1), a) \cup CodesOf(Found(x, 0), a)
          BY DEF CodesOf
        <4>5. CASE x.depth = Width
          <5>1. EndsInside(tree, present) /\ Below(x) = {}
            BY <3>2, <3>3, <4>5 DEF Placed, Below
          <5> HIDE DEF x, R
          <5>2. /\ OpenIn(tree, present, S) /\ Pending(S) = Pending(R)
                /\ \A a : CodesOf(Found(x, 1), a) = {}
            BY <1>0, <3>2, <4>2, <4>3, <4>5, <5>1, DeepVisited
          <5> HIDE DEF S
          <5>3. /\ OpenIn(tree, present, N) /\ Pending(N) = Pending(S)
                /\ \A a : CodesOf(Found(x, 0), a) = {}
            BY <1>0, <3>2, <4>2, <4>3, <4>5, <5>1, <5>2, DeepVisited
          <5> HIDE DEF N, W
          <5>4. Pending(N) = Pending(stack) /\ \A a : CodesOf(W, a) = CodesOf(visited, a)
            BY <3>2, <4>4, <5>1, <5>2, <5>3
          <5>5. SettledIn(tree, present, sound, N, W)
            BY <3>1, <5>4 DEF SettledIn
          <5> QED BY <3>5, <4>1, <5>3, <5>5
        <4>6. CASE x.depth < Width
          <5>1. ItemIn(tree, present, x)
            BY <3>2, <4>6 DEF Placed
          <5> HIDE DEF x, R
          <5>2. /\ Half(x, 0) \cup Half(x, 1) = Below(x) /\ Half(x, 0) \cap Half(x, 1) = {}
                /\ Below(x) \subseteq Addresses
            BY <5>1, HalvesOf
          <5>3. Pending(R) \cap Half(x, 1) = {}
            BY <3>2, <5>2
          <5>4. /\ OpenIn(tree, present, S)
                /\ \A a \in Addresses :
                      /\ a \notin Half(x, 1) => CodesOf(Found(x, 1), a) = {} /\ (a \in Pending(S) <=> a \in Pending(R))
                      /\ a \in Half(x, 1) =>
                            IF a \in Pending(S) THEN CodesOf(Found(x, 1), a) = {}
                            ELSE /\ CodesOf(Found(x, 1), a) = Told(tree, present, sound, a)
                                 /\ Reached(tree, present, a, Width) # OutOfRange
            BY <1>0, <3>2, <4>2, <4>3, <5>1, <5>3, ChildVisited
          <5> HIDE DEF S
          <5>5. Pending(S) \cap Half(x, 0) = {}
            BY <3>2, <5>2, <5>4
          <5>6. /\ OpenIn(tree, present, N)
                /\ \A a \in Addresses :
                      /\ a \notin Half(x, 0) => CodesOf(Found(x, 0), a) = {} /\ (a \in Pending(N) <=> a \in Pending(S))
                      /\ a \in Half(x, 0) =>
                            IF a \in Pending(N) THEN CodesOf(Found(x, 0), a) = {}
                            ELSE /\ CodesOf(Found(x, 0), a) = Told(tree, present, sound, a)
                                 /\ Reached(tree, present, a, Width) # OutOfRange
            BY <1>0, <4>2, <4>3, <5>1, <5>4, <5>5, ChildVisited
          <5> HIDE DEF N, W
          <5>7. ASSUME NEW a \in Addresses
                PROVE  IF a \in Pending(N) THEN CodesOf(W, a) = {}
                       ELSE CodesOf(W, a) = Told(tree, present, sound, a) /\ Reached(tree, present, a, Width) # OutOfRange
            <6>1. IF a \in Pending(stack) THEN CodesOf(visited, a) = {}
                  ELSE CodesOf(visited, a) = Told(tree, present, sound, a) /\ Reached(tree, present, a, Width) # OutOfRange
              BY <3>1 DEF SettledIn
            <6>2. CASE a \in Half(x, 1)
              <7>1. a \notin Half(x, 0) /\ a \in Pending(stack)
                BY <3>2, <5>2, <6>2
              <7>2. CodesOf(visited, a) = {} /\ CodesOf(Found(x, 0), a) = {} /\ (a \in Pending(N) <=> a \in Pending(S))
                BY <5>6, <6>1, <7>1
              <7> QED BY <4>4, <5>4, <6>2, <7>2
            <6>3. CASE a \in Half(x, 0)
              <7>1. a \notin Half(x, 1) /\ a \in Pending(stack)
                BY <3>2, <5>2, <6>3
              <7>2. CodesOf(visited, a) = {} /\ CodesOf(Found(x, 1), a) = {}
                BY <5>4, <6>1, <7>1
              <7> QED BY <4>4, <5>6, <6>3, <7>2
            <6>4. CASE a \notin Half(x, 0) /\ a \notin Half(x, 1)
              <7>1. a \in Pending(stack) <=> a \in Pending(R)
                BY <3>2, <5>2, <6>4
              <7>2. CodesOf(Found(x, 1), a) = {} /\ CodesOf(Found(x, 0), a) = {} /\ (a \in Pending(N) <=> a \in Pending(R))
                BY <5>4, <5>6, <6>4
              <7> QED BY <4>4, <6>1, <7>1, <7>2
            <6> QED BY <6>2, <6>3, <6>4
          <5>8. SettledIn(tree, present, sound, N, W)
            BY <5>7 DEF SettledIn
          <5> QED BY <3>5, <4>1, <5>6, <5>8
        <4> QED BY <3>3, <3>9, <4>5, <4>6
      <3> QED BY <3>3, <3>7, <3>8, <3>9
    <2> QED BY <2>2, <2>3
  <1>3. CASE WalkEnds
    BY <1>3 DEF WalkEnds, WalkInv
  <1>4. CASE UNCHANGED treeVars
    BY <1>4 DEF treeVars, WalkInv
  <1> QED BY <1>1, <1>2, <1>3, <1>4 DEF TreeNext

LEMMA WalkRight == WalkInv => WalkMatchesGet
  <1> SUFFICES ASSUME WalkInv, v4Root \in Nodes \cup {OutOfRange}
               PROVE  /\ walk = "done" => \A a \in Addresses :
                            /\ {n.code : n \in {m \in visited : a \in Network(m)}} = {Get(a)} \ {"", "error"}
                            /\ LookedUp(a) # OutOfRange
                      /\ walk = "failed" => \E a \in Addresses : LookedUp(a) \in Nodes \cup {OutOfRange}
    BY DEF WalkMatchesGet
  <1>0. StartsInside(tree, present)
    BY TreeLinks DEF StartsInside
  <1>1. ASSUME walk = "done", NEW a \in Addresses
        PROVE  /\ {n.code : n \in {m \in visited : a \in Network(m)}} = {Get(a)} \ {"", "error"}
               /\ LookedUp(a) # OutOfRange
    <2>1. stack = <<>> /\ SettledIn(tree, present, sound, stack, visited)
      BY <1>0, <1>1 DEF WalkInv
    <2>2. Pending(stack) = {}
      BY <2>1 DEF Pending
    <2>3. CodesOf(visited, a) = Told(tree, present, sound, a) /\ Reached(tree, present, a, Width) # OutOfRange
      BY <2>1, <2>2 DEF SettledIn
    <2>4. {Get(a)} \ {"", "error"} = Told(tree, present, sound, a) /\ LookedUp(a) = Reached(tree, present, a, Width)
      BY TreeLinks
    <2> QED BY <2>3, <2>4 DEF CodesOf
  <1>2. walk = "failed" => \E a \in Addresses : LookedUp(a) \in Nodes \cup {OutOfRange}
    BY <1>0, TreeLinks DEF WalkInv
  <1> QED BY <1>1, <1>2

\* For every tree, also one that leads back into itself, however the file is cut
\* short, whichever records can be decoded and however wide an address is: if
\* the IPv4 addresses begin at a node, a walk over all networks that ends without
\* error tells of every address what its own lookup answers, and one that fails
\* does so for a node some lookup needs, or for one behind every last bit
\* (MMDBReader and IPDBReader: Get against WalkV4).
THEOREM WalkAlwaysMatches == TreeSpec => []WalkMatchesGet
  <1>1. WalkInv /\ [TreeNext]_treeVars => WalkInv'
    BY WalkInvStep
  <1> QED BY <1>1, WalkInvInit, WalkRight, PTL DEF TreeSpec
=============================================================================
