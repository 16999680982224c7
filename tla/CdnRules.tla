------------------------------ MODULE CdnRules ------------------------------
(***************************************************************************)
(* The CDN rule set: which provider owns which addresses, in the country   *)
(* or abroad.  It is built from the providers' feeds, put on mirrors that  *)
(* may lag or be down, fetched by each node from the best mirror, and      *)
(* searched with a scan over spans sorted by start, which stops early with *)
(* the help of a running maximum.                                          *)
(***************************************************************************)
EXTENDS RangeBasics, SequencesExt

CONSTANTS AddrBits,      \* bits of an address
          Providers, NoProvider,
          Feeds,         \* provider and addresses of every feed
          MainlandAddrs, \* the direct list the build is given
          TestNet,       \* an address no provider may own
          MinPrefixes,   \* prefixes a build must have
          MinShrink,     \* prefixes from which on a set may not shrink (100)
          Mirrors,
          MaxBuilds      \* bound: builds

CdnAddrs == 0..(Pow2[AddrBits] - 1)

ASSUME CdnConstants ==
    /\ AddrBits \in Nat /\ IsFiniteSet(Providers)
    /\ MaxBuilds \in Nat /\ MinPrefixes \in Nat /\ MinShrink \in Nat
    /\ \A f \in Feeds : f.provider \in Providers /\ f.addrs \subseteq CdnAddrs
    /\ MainlandAddrs \subseteq CdnAddrs /\ NoProvider \notin Providers

VARIABLES built,   \* the newest rule set: time of the build and the feeds that answered
          mirror,  \* what each mirror serves
          rules,   \* cdn-direct.txt on the node
          sync,    \* Sync: mirrors not yet asked, the best answer so far
          owner    \* a search: spans, address, position, best span

cdnVars == <<built, mirror, rules, sync, owner>>

Block(lo, k) == lo..(lo + Pow2[k] - 1)
Blocks == {[lo |-> lo, k |-> k] : lo \in CdnAddrs, k \in 0..AddrBits}
Aligned == {b \in Blocks : b.lo % Pow2[b.k] = 0 /\ b.lo + Pow2[b.k] - 1 \in CdnAddrs}

\* Collapsed prefixes of a set of addresses: the largest blocks within it.
CollapsePrefixes(addrs) ==
    LET inside == {b \in Aligned : Block(b.lo, b.k) \subseteq addrs}
    IN {b \in inside : ~\E c \in inside : b # c /\ Block(b.lo, b.k) \subseteq Block(c.lo, c.k)}

span(b, p, m) == [lo |-> b.lo, hi |-> b.lo + Pow2[b.k] - 1, k |-> b.k, provider |-> p, mainland |-> m]

\* Build and collect: every provider's addresses, split by the direct list.
Spans(feeds) ==
    UNION {LET raw == UNION {f.addrs : f \in {g \in feeds : g.provider = p}}
           IN {span(b, p, TRUE) : b \in CollapsePrefixes(raw \cap MainlandAddrs)}
              \cup {span(b, p, FALSE) : b \in CollapsePrefixes(raw \ MainlandAddrs)} : p \in Providers}

PrefixCount(feeds) == Cardinality(Spans(feeds))
NoRules == [at |-> 0, feeds |-> {}]
NoSync == [at |-> "idle", ask |-> {}, best |-> NoRules]
NoSearch == [at |-> "idle", spans |-> <<>>, addr |-> 0, i |-> 0, best |-> 0]

CdnInit ==
    /\ built = NoRules /\ rules = NoRules
    /\ mirror = [m \in Mirrors |-> NoRules]
    /\ sync = NoSync
    /\ owner = NoSearch

\* A build with the feeds that answered; one with too few prefixes is not kept.
BuildRules ==
    /\ built.at < MaxBuilds
    /\ \E feeds \in SUBSET Feeds :
          /\ PrefixCount(feeds) >= MinPrefixes
          /\ built' = [at |-> built.at + 1, feeds |-> feeds]
    /\ UNCHANGED <<mirror, rules, sync, owner>>

MirrorCatchesUp(m) ==
    /\ mirror[m] # built
    /\ mirror' = [mirror EXCEPT ![m] = built]
    /\ UNCHANGED <<built, rules, sync, owner>>

stepCDNRules ==
    /\ sync.at = "idle"
    /\ sync' = [at |-> "ask", ask |-> Mirrors, best |-> NoRules]
    /\ UNCHANGED <<built, mirror, rules, owner>>

\* Parse: a file that is missing or malformed has no time of build.
Parse(r) == r.at > 0

\* validate: it parses, has providers, and none owns the test address.
validate(r) == Parse(r) /\ ~\E s \in Spans(r.feeds) : TestNet \in s.lo..s.hi

\* Sync: one mirror after the other; an error or a bad set is passed over.
SyncAsks(m) ==
    /\ sync.at = "ask" /\ m \in sync.ask
    /\ \/ sync' = [sync EXCEPT !.ask = @ \ {m}]
       \/ /\ validate(mirror[m])
          /\ sync' = [sync EXCEPT !.ask = @ \ {m},
                                  !.best = IF mirror[m].at > @.at THEN mirror[m] ELSE @]
    /\ UNCHANGED <<built, mirror, rules, owner>>

accepted(best) ==
    /\ best # rules
    /\ best.at >= rules.at
    /\ PrefixCount(rules.feeds) > MinShrink
           => PrefixCount(best.feeds) >= (PrefixCount(rules.feeds) * 80) \div 100

SyncEnds ==
    /\ sync.at = "ask" /\ sync.ask = {}
    /\ rules' = IF sync.best.at > 0 /\ accepted(sync.best) THEN sync.best ELSE rules
    /\ sync' = NoSync
    /\ UNCHANGED <<built, mirror, owner>>

\* sort.Search: the spans that start at the address or before.
StartedBy(spans, a) == Cardinality({i \in DOMAIN spans : spans[i].lo <= a})

\* A set is loaded and sorted (New), and searched for an address.
OwnerBegins(a) ==
    /\ owner.at = "idle"
    /\ rules.at > 0
    /\ LET spans == Sorted(Spans(rules.feeds))
       IN owner' = [at |-> "scan", spans |-> spans, addr |-> a, i |-> StartedBy(spans, a), best |-> 0]
    /\ UNCHANGED <<built, mirror, rules, sync>>

\* The end of the span itself.
maxHiOwn(i) == owner.spans[i].hi

\* The largest end among the spans up to i.
maxHi(i) == CHOOSE h \in {owner.spans[j].hi : j \in 1..i} : \A j \in 1..i : owner.spans[j].hi <= h

Holds(sp, a) == sp.lo <= a /\ a <= sp.hi

\* One round of the loop: the longest prefix so far is kept.
Owner ==
    /\ owner.at = "scan"
    /\ LET i == owner.i
           sp == owner.spans[i]
           stop == IF i = 0 THEN TRUE ELSE maxHi(i) < owner.addr
       IN owner' = IF stop THEN [owner EXCEPT !.at = "found"]
                   ELSE [owner EXCEPT !.i = i - 1,
                            !.best = IF /\ Holds(sp, owner.addr)
                                        /\ owner.best = 0 \/ sp.k < owner.spans[owner.best].k
                                     THEN i ELSE @]
    /\ UNCHANGED <<built, mirror, rules, sync>>

OwnerEnds ==
    /\ owner.at = "found"
    /\ owner' = NoSearch
    /\ UNCHANGED <<built, mirror, rules, sync>>

CdnNext ==
    \/ BuildRules \/ stepCDNRules \/ SyncEnds \/ Owner \/ OwnerEnds
    \/ \E m \in Mirrors : MirrorCatchesUp(m) \/ SyncAsks(m)
    \/ \E a \in CdnAddrs : OwnerBegins(a)

CdnSpec == CdnInit /\ [][CdnNext]_cdnVars

\* The verdict on a name of a provider and an address (Classify).
Classify(provider) ==
    LET found == owner.best > 0
        sp == owner.spans[owner.best]
        own == {s \in ToSet(owner.spans) : s.provider = provider}
    IN IF provider = NoProvider THEN "unknown"
       ELSE IF found /\ sp.provider = provider THEN (IF sp.mainland THEN "mainland" ELSE "offshore")
       ELSE IF own = {} THEN "unknown" ELSE "mismatch"

\* The search that stops early finds the longest prefix that holds the address,
\* and nothing only if no prefix does; so a verdict "mainland" is never given on
\* the strength of a wider prefix of another provider (cdnrules: Owner, Classify).
OwnerIsLongest ==
    owner.at = "found" =>
        LET holding == {s \in ToSet(owner.spans) : Holds(s, owner.addr)} IN
        /\ owner.best = 0 <=> holding = {}
        /\ owner.best > 0 => \A s \in holding : owner.spans[owner.best].k <= s.k
        /\ \A p \in Providers : Classify(p) = "mainland" =>
               \E s \in holding : s.provider = p /\ s.mainland /\ \A t \in holding : s.k <= t.k

=============================================================================
