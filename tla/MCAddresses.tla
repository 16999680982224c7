----------------------------- MODULE MCAddresses -----------------------------
(***************************************************************************)
(* Model checking of what decides about addresses: the location databases  *)
(* and their readers, the arithmetic of ranges, the route lists computed   *)
(* with them, the CDN rules and the forged addresses.  The modules share   *)
(* no variable, so a behaviour moves only one of them, from that one's     *)
(* initial states.                                                         *)
(***************************************************************************)
EXTENDS GeoFiles, GeoTree, AddressRanges, RouteLists, CdnRules, PollutedIPs, TLC

VARIABLE mover

vars == <<geoVars, treeVars, rangeVars, listVars, cdnVars, pollutedVars, mover>>

\* In the IPv6 tree the IPv4 addresses lie below this bit.
V4Bits == <<0>>

\* What a database says of the four global addresses.
OpinionSet == {<<"CN", "", "CN", "HK">>, <<"HK", "CN", "CN", "HK">>,
               <<"", "HK", "HK", "CN">>}
RegistrySet == {{}, {1, 2, 3}}
ZoneNames == <<"a", "b", "a", "">>
InfraSet == {[a \in 1..4 |-> {}], [a \in 1..4 |-> IF a > 2 THEN {"cn"} ELSE {"x"}]}
SharedNetworks == [s \in Databases |-> IF s = Qqwry THEN {} ELSE {3}]

\* One provider's feed inside another's block, in and out of the country.
FeedSet == {[provider |-> "p", addrs |-> 0..3], [provider |-> "p", addrs |-> {6}],
            [provider |-> "r", addrs |-> {2}], [provider |-> "r", addrs |-> {5, 7}]}

\* Two ranges, the second of which ends with the address space.
AtTheEnds(list) == Len(list) = 2 /\ Last(list).hi = Top

\* Trees whose numbers behind the nodes are read as the first node, as the empty
\* marker of an MMDB file is; with every record sound, some, or none.
SmallTrees == {[n \in Numbers |-> IF n \in Nodes THEN t[n] ELSE [b \in 0..1 |-> 0]] :
                  t \in [Nodes -> [0..1 -> Numbers]]}

Init ==
    /\ mover \in {"geo", "tree", "ranges", "lists", "cdn", "polluted"}
    /\ IF mover = "tree" THEN tree \in SmallTrees /\ sound \in {{}, {2, 3}, DOMAIN Data}
       ELSE tree = [n \in Numbers |-> [b \in 0..1 |-> 0]] /\ sound = {}
    /\ IF sound = {} THEN present = 1 ELSE present = Cardinality(Numbers)
    /\ IF mover = "ranges" THEN TRUE ELSE given = [base |-> <<>>, remove |-> <<>>]
    /\ GeoInit /\ TreeInit /\ RangeInit /\ ListInit /\ CdnInit /\ PollutedInit
    /\ mover = "ranges" => AtTheEnds(given.base)

Next ==
    \/ /\ mover = "geo" /\ GeoNext
       /\ UNCHANGED <<treeVars, rangeVars, listVars, cdnVars, pollutedVars, mover>>
    \/ /\ mover = "tree" /\ TreeNext
       /\ UNCHANGED <<geoVars, rangeVars, listVars, cdnVars, pollutedVars, mover>>
    \/ /\ mover = "ranges" /\ RangeNext
       /\ UNCHANGED <<geoVars, treeVars, listVars, cdnVars, pollutedVars, mover>>
    \/ /\ mover = "lists" /\ ListNext
       /\ UNCHANGED <<geoVars, treeVars, rangeVars, cdnVars, pollutedVars, mover>>
    \/ /\ mover = "cdn" /\ CdnNext
       /\ UNCHANGED <<geoVars, treeVars, rangeVars, listVars, pollutedVars, mover>>
    \/ /\ mover = "polluted" /\ PollutedNext
       /\ UNCHANGED <<geoVars, treeVars, rangeVars, listVars, cdnVars, mover>>

Spec == Init /\ [][Next]_vars
=============================================================================
