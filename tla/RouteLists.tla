----------------------------- MODULE RouteLists -----------------------------
(***************************************************************************)
(* The lists of addresses a round of the pipeline computes, one from the   *)
(* other: the direct list from the registry and one location database, the *)
(* disputed and promoted lists by a sweep over what three databases agree  *)
(* on, the list of shared anycast servers, and the table of cache zones.   *)
(* A database may be missing, a guard may refuse a list and a write may    *)
(* fail; then the list of an earlier round stays.                          *)
(***************************************************************************)
EXTENDS RangeBasics, SequencesExt

CONSTANTS LastAddr,       \* addresses are 0..LastAddr; 0 and LastAddr are not global
          Databases, Qqwry,  \* the location databases, and the one with the zones
          Opinions,       \* what a database may say: a code for each global address
          Registries,     \* what the registry may list
          MainlandProbes, OffshoreProbes,  \* addresses whose country is known
          MaxDropRatio,   \* percent of the direct addresses one round may exclude
          MinAddresses,   \* CHNROUTE_MIN_ADDRESSES
          PromoteLimit, DisputeRatio,   \* bounds of what a round promotes or disputes
          ZoneName,       \* province and carrier of an address; "" when unknown
          InfraZones,     \* what Unbound's infra cache may hold: zones by address
          CNZones, SharedASN, KeepList,
          MinOldRows,     \* rows from which on a table may not shrink (100)
          MaxListRounds   \* bound: rounds

Global == 1..(LastAddr - 1)
Reserved == {0, LastAddr}

ASSUME ListConstants ==
    /\ LastAddr \in Nat /\ Qqwry \in Databases /\ IsFiniteSet(Databases)
    /\ Opinions \subseteq [Global -> STRING] /\ Registries \subseteq SUBSET Global
    /\ MaxDropRatio \in Nat /\ DisputeRatio \in Nat /\ MinOldRows \in Nat /\ MaxListRounds \in Nat

VARIABLES listRound,  \* rounds begun
          listStep,   \* the step that is next
          registry, verdict, usable,   \* the round's inputs; databases that open
          direct,     \* direct4.txt
          nftDirect,  \* the kernel's set
          excluded,   \* direct4-excluded.txt
          audit,      \* the sweep: list, address reached, depth, start, result
          report,     \* the round's disputed and promoted addresses; accepted or not
          disputed, promoted,   \* geo-disputed.txt, geo-promoted.txt
          shared,     \* shared-anycast.txt
          rows        \* ecs-ip-zone.txt

listVars == <<listRound, listStep, registry, verdict, usable, direct, nftDirect, excluded,
              audit, report, disputed, promoted, shared, rows>>

inputs == <<listRound, registry, verdict, usable>>
NoAudit == [list |-> "disputed", at |-> 0, depth |-> 0, start |-> 0, out |-> {}]
NoReport == [disputed |-> {}, promoted |-> {}, refused |-> {}]

ListInit ==
    /\ listRound = 0 /\ listStep = "geoip"
    /\ registry = {} /\ usable = {}
    /\ verdict = [s \in Databases |-> [a \in Global |-> ""]]
    /\ direct = {} /\ nftDirect = {} /\ excluded = {}
    /\ audit = NoAudit /\ report = NoReport
    /\ disputed = {} /\ promoted = {} /\ shared = {}
    /\ rows = <<>>

\* The databases and the registry's file as the round finds them.
GeoIPStep ==
    /\ listStep = "geoip"
    /\ listRound < MaxListRounds
    /\ listRound' = listRound + 1
    /\ registry' \in Registries
    /\ verdict' \in [Databases -> Opinions]
    /\ usable' \in SUBSET Databases
    /\ listStep' = "chnroute"
    /\ UNCHANGED <<direct, nftDirect, excluded, audit, report, disputed, promoted, shared, rows>>

\* Reading a list of addresses with GlobalOnly: what is reserved is left out.
LoadReader(list) == list \cap Global

\* loadCNIP: what the database adds, and what it puts elsewhere.
cnipCN == IF Qqwry \in usable THEN {a \in Global : verdict[Qqwry][a] = "CN"} ELSE {}
foreign == IF Qqwry \in usable
           THEN {a \in registry : verdict[Qqwry][a] \notin {"CN", ""}} ELSE {}

guardOffshoreLeak == cnipCN \cap OffshoreProbes = {}

\* planReverseExclusion: too much, or a known mainland address, is not excluded.
Kept(cn) ==
    LET kept == cn \ foreign
        rejected == \/ Cardinality(cn \ kept) * 100 > MaxDropRatio * Cardinality(cn)
                    \/ ~(MainlandProbes \subseteq kept)
    IN IF rejected THEN cn ELSE kept

\* The list of exclusions is written first, the kernel's set next, direct4 last.
chnrouteRun ==
    LET cn == registry \cup cnipCN
        kept == Kept(cn)
    IN /\ registry # {}
       /\ guardOffshoreLeak
       /\ excluded' = IF cn # kept THEN cn \ kept ELSE excluded
       /\ \/ /\ Cardinality(kept) >= MinAddresses
             /\ nftDirect' = kept
             /\ direct' \in {direct, kept \cup Reserved}   \* the rename may fail
          \/ UNCHANGED <<nftDirect, direct>>   \* too few, or nft refuses

stepChnroute ==
    /\ listStep = "chnroute"
    /\ \/ chnrouteRun
       \/ UNCHANGED <<direct, nftDirect, excluded>>   \* the download or a guard failed
    /\ listStep' = "geocross"
    /\ UNCHANGED <<inputs, audit, report, disputed, promoted, shared, rows>>

\* scan: what a database puts elsewhere inside the list, or in the country outside it.
Offshore(s) == {a \in LoadReader(direct) : verdict[s][a] \notin {"CN", ""}}
Mainland(s) == {a \in Global \ direct : verdict[s][a] = "CN"}
Scanned(list, s) == IF list = "disputed" THEN Offshore(s) ELSE Mainland(s)

DisputeNeed == IF Cardinality(usable) < 2 THEN Cardinality(usable) ELSE 2
Need(list) == IF list = "disputed" THEN DisputeNeed ELSE Cardinality(usable)

\* Fewer than two databases, no list to audit: nothing is changed.
geoCrossFailsOpen ==
    /\ listStep = "geocross"
    /\ Cardinality(usable) < 2 \/ LoadReader(direct) = {}
    /\ listStep' = "anycast"
    /\ UNCHANGED <<inputs, direct, nftDirect, excluded, audit, report, disputed, promoted, shared, rows>>

geoCrossBegins ==
    /\ listStep = "geocross"
    /\ Cardinality(usable) >= 2 /\ LoadReader(direct) # {}
    /\ listStep' = "sweep"
    /\ audit' = NoAudit
    /\ report' = NoReport
    /\ UNCHANGED <<inputs, direct, nftDirect, excluded, disputed, promoted, shared, rows>>

\* A range ends at its last address.
DeltaShort(list, a) ==
    Cardinality({s \in usable : a \in Scanned(list, s) /\ a - 1 \notin Scanned(list, s)})
  - Cardinality({s \in usable : a \in Scanned(list, s) /\ a + 1 \notin Scanned(list, s)})

\* The edges at an address: ranges that start there, less those that ended before.
Delta(list, a) ==
    Cardinality({s \in usable : a \in Scanned(list, s) /\ a - 1 \notin Scanned(list, s)})
  - Cardinality({s \in usable : a - 1 \in Scanned(list, s) /\ a \notin Scanned(list, s)})

\* mergeAgreement: the edges in order of address, one address at a time.
mergeAgreement ==
    LET at == audit.at
        depth == audit.depth + Delta(audit.list, at)
        need == Need(audit.list)
    IN /\ listStep = "sweep"
       /\ at <= LastAddr
       /\ audit' = [audit EXCEPT !.at = at + 1, !.depth = depth,
              !.start = IF audit.depth < need /\ depth >= need THEN at ELSE @,
              !.out = IF audit.depth >= need /\ depth < need THEN @ \cup (audit.start..(at - 1)) ELSE @]
       /\ UNCHANGED <<inputs, listStep, direct, nftDirect, excluded, report,
                      disputed, promoted, shared, rows>>

\* A round that would dispute or promote too much does neither.
Refused(list, out) ==
    IF list = "disputed" THEN Cardinality(out) * 100 > Cardinality(LoadReader(direct)) * DisputeRatio
    ELSE Cardinality(out) > PromoteLimit

mergeAgreementEnds ==
    /\ listStep = "sweep"
    /\ audit.at > LastAddr
    /\ report' = [report EXCEPT ![audit.list] = audit.out,
                                !.refused = IF Refused(audit.list, audit.out) THEN @ \cup {audit.list} ELSE @]
    /\ audit' = [NoAudit EXCEPT !.list = "promoted"]
    /\ listStep' = IF audit.list = "disputed" THEN "sweep" ELSE "write"
    /\ UNCHANGED <<inputs, direct, nftDirect, excluded, disputed, promoted, shared, rows>>

\* WriteSnapshots: the disputed list, then the promoted one, which is not
\* written when the first write failed.
WriteSnapshots ==
    /\ listStep = "write"
    /\ disputed' \in {disputed, IF "disputed" \in report.refused THEN disputed ELSE report.disputed}
    /\ promoted' \in {promoted, IF "promoted" \in report.refused THEN promoted ELSE report.promoted}
    /\ promoted' # promoted => \/ "disputed" \in report.refused \/ disputed' = report.disputed
    /\ listStep' = "anycast"
    /\ UNCHANGED <<inputs, direct, nftDirect, excluded, audit, report, shared, rows>>

\* A server of a mainland zone, outside the direct list, in the network of a
\* provider that serves from everywhere: any one database is enough.
sharedByAnySource(a) == \E s \in usable : a \in SharedASN[s]

SharedServers(zones) ==
    {a \in Global \ direct : /\ zones[a] \cap CNZones # {}
                             /\ a \notin KeepList
                             /\ sharedByAnySource(a)}

stepAnycast ==
    /\ listStep = "anycast"
    /\ \/ \E zones \in InfraZones :
             /\ usable # {} /\ direct # {}
             /\ \E a \in Global : zones[a] # {}
             /\ shared' = SharedServers(zones)
       \/ UNCHANGED shared   \* no data: the list of an earlier round stays
    /\ listStep' = "ecszone"
    /\ UNCHANGED <<inputs, direct, nftDirect, excluded, audit, report, disputed, promoted, rows>>

\* Build: the database's mainland addresses of the direct list whose zone is
\* known, without the disputed ones.
Zoned == {a \in LoadReader(direct) : verdict[Qqwry][a] = "CN" /\ ZoneName[a] # "" /\ a \notin disputed}

Row(a) == [lo |-> a, hi |-> a, zone |-> ZoneName[a]]

\* Rows of one zone are joined over what lies between them.
MergeRowOverGaps(merged, row) ==
    IF merged # <<>> /\ row.zone = Last(merged).zone
    THEN Append(Front(merged), [Last(merged) EXCEPT !.hi = row.hi])
    ELSE Append(merged, row)

\* MergeRows: neighbours of one zone become one row; a row is cut where it overlaps.
MergeRow(merged, row) ==
    IF merged = <<>> THEN <<row>>
    ELSE LET last == Last(merged)
             lo == IF row.lo <= last.hi THEN last.hi + 1 ELSE row.lo
         IN IF row.zone = last.zone /\ row.lo <= last.hi + 1
            THEN Append(Front(merged), [last EXCEPT !.hi = IF row.hi > @ THEN row.hi ELSE @])
            ELSE IF lo > row.hi THEN merged
            ELSE Append(merged, [row EXCEPT !.lo = lo])

MergeRows(set) ==
    LET sorted == Sorted(set)
        merged[k \in 0..Len(sorted)] == IF k = 0 THEN <<>> ELSE MergeRow(merged[k - 1], sorted[k])
    IN merged[Len(sorted)]

\* Publish refuses an empty table, one with an overlap, one that shrank to less
\* than six tenths.
CheckPublishable(merged) ==
    /\ merged # <<>>
    /\ \A k \in 1..(Len(merged) - 1) : merged[k].hi < merged[k + 1].lo
    /\ Len(rows) >= MinOldRows => Len(merged) * 10 >= Len(rows) * 6

stepECSZone ==
    /\ listStep = "ecszone"
    /\ \/ /\ Qqwry \in usable
          /\ LET merged == MergeRows({Row(a) : a \in Zoned})
             IN /\ CheckPublishable(merged)
                /\ rows' = merged
          /\ listStep' = "published"
       \/ UNCHANGED rows /\ listStep' = "geoip"   \* refused, or not written
    /\ UNCHANGED <<inputs, direct, nftDirect, excluded, audit, report, disputed, promoted, shared>>

RoundEnds ==
    /\ listStep = "published"
    /\ listStep' = "geoip"
    /\ UNCHANGED <<inputs, direct, nftDirect, excluded, audit, report, disputed, promoted, shared, rows>>

ListNext ==
    \/ GeoIPStep \/ stepChnroute \/ geoCrossFailsOpen \/ geoCrossBegins \/ mergeAgreement
    \/ mergeAgreementEnds \/ WriteSnapshots \/ stepAnycast \/ stepECSZone \/ RoundEnds

ListSpec == ListInit /\ [][ListNext]_listVars

\* The sweep over sorted edges finds exactly the addresses on which enough
\* databases agree, whatever ranges they come in, and no database alone can
\* dispute or promote an address (geoaudit: scan, mergeAgreement, Run).
AgreementIsExact ==
    listStep = "write" =>
        \A list \in {"disputed", "promoted"} :
            /\ report[list] = {a \in Global : Cardinality({s \in usable : a \in Scanned(list, s)}) >= Need(list)}
            /\ Need(list) >= 2

\* The table of zones a round publishes marks an address, through the search the
\* resolver uses, exactly if it is a direct address of a known zone that the
\* disputed list does not hold, and with its own zone (ecszone: Build, MergeRows,
\* Marked; the disputed list may be of an earlier round).
ZonesMatchLists ==
    listStep = "published" =>
        \A a \in Global :
            LET k == CHOOSE n \in 0..Len(rows) : /\ n = 0 \/ rows[n].lo <= a
                                                 /\ n = Len(rows) \/ rows[n + 1].lo > a
                marked == k > 0 /\ rows[k].hi >= a
            IN /\ marked <=> a \in Zoned
               /\ marked => rows[k].zone = ZoneName[a]
=============================================================================
