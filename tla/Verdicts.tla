------------------------------ MODULE Verdicts ------------------------------
(***************************************************************************)
(* Which names have an authority on the mainland (authority-check).  A     *)
(* name that resolves is judged by its nearest zone that has authorities   *)
(* with public addresses: cn when one of them is on the mainland, unknown  *)
(* when all are offshore.  Names are judged at the same time; each starts  *)
(* with a copy of the verdicts on zones known so far and adds its own      *)
(* when it ends.  In the end, a name judged cn that shares an address with *)
(* its parent is replaced by the parent.  A zone's name servers and their  *)
(* addresses are one set; the limit on name servers is left out.  The      *)
(* public suffixes come from the first file that holds enough rules;       *)
(* without one, nothing is judged.                                         *)
(***************************************************************************)
EXTENDS Integers, Sequences, FiniteSets, FiniteSetsExt

CONSTANTS Judged,        \* the names given
          Parent,        \* every name's parent; NoParent: a top level domain
          NoParent,
          PublicSuffixes,      \* the public suffixes among them
          SuffixFiles,   \* the files the list of suffixes may be looked for in
          Unreadable,    \* a file that is not there
          MinRules,      \* the rules a list has at least
          MainlandHosts, OffshoreHosts, PrivateHosts, \* addresses of authorities
          Worlds,        \* the authorities each name may have
          Answers,       \* the addresses each name may resolve to
          Concurrency,
          MaxLost        \* bound: queries without an answer

Zones == DOMAIN Parent

ASSUME VerdictConstants ==
    /\ Judged \subseteq Zones /\ PublicSuffixes \subseteq Zones /\ IsFiniteSet(Judged)
    /\ \A z \in Zones : Parent[z] \in Zones \cup {NoParent}
    /\ Concurrency \in Nat \ {0} /\ MaxLost \in Nat /\ MinRules \in Nat

VARIABLES hosts,     \* the authorities of every name
          final,     \* the addresses every name resolves to
          psl,       \* the list of suffixes in use
          zoneCache, \* ClassifyMany's cache
          judge,     \* the goroutines
          collapsed, \* CollapseByResolution's result
          lost       \* history: queries without an answer

verdictVars == <<hosts, final, psl, zoneCache, judge, collapsed, lost>>

NotKnown == "not known"
Waiting == [pc |-> "waiting", local |-> [z \in Zones |-> NotKnown], at |-> NoParent,
            zone |-> NoParent, verdict |-> "unknown"]

\* Of a file with a section for the suffixes of registries, the lines in it; of
\* any other, all.  Marks are comments, a line is a rule, a wildcard or an
\* exception.
Counts(lines, i) ==
    LET marks == {j \in 1..i : lines[j].kind \in {"begin", "end"}}
    IN IF marks # {} THEN lines[Max(marks)].kind = "begin"
       ELSE \A j \in DOMAIN lines : lines[j].kind # "begin"

ParsePSL(lines) ==
    LET named(k) == {lines[i].name : i \in {j \in DOMAIN lines : lines[j].kind = k /\ Counts(lines, j)}}
    IN [rules |-> named("rule"), wildcards |-> named("wildcard"), exceptions |-> named("exception")]

NoPSL == [rules |-> {}, wildcards |-> {}, exceptions |-> {}]

\* The first file that can be read and holds enough, exceptions not counted.
LoadPSL(files) ==
    LET size(p) == Cardinality(p.rules) + Cardinality(p.wildcards)
        usable == {i \in DOMAIN files :
                     files[i] # Unreadable /\ size(ParsePSL(files[i])) >= MinRules}
    IN IF usable = {} THEN NoPSL ELSE ParsePSL(files[Min(usable)])

\* A wildcard makes suffixes of the names right below it, and of no other.
IsPublicSuffix(z) ==
    /\ z \notin psl.exceptions
    /\ z \in psl.rules \/ Parent[z] \in psl.wildcards

VerdictInit ==
    /\ hosts \in Worlds
    /\ final \in Answers
    /\ psl \in {LoadPSL(files) : files \in SuffixFiles}
    /\ zoneCache = [z \in Zones |-> NotKnown]
    /\ judge = [d \in Judged |-> Waiting]
    /\ collapsed = {}
    /\ lost = 0

\* isRoutable: a private address says nothing of where a zone is.
Routable(hs) == hs \ PrivateHosts

\* The addresses got when all are asked for: all, or fewer when queries are
\* lost (timeout, refusal, malformed answer).
Query(all, got) ==
    /\ got \subseteq all
    /\ lost' = IF got = all THEN lost ELSE lost + 1
    /\ lost' <= MaxLost

\* There is a list of suffixes and a slot of the semaphore is free: copy the
\* cache.
JudgeBegins(d) ==
    /\ judge[d].pc = "waiting" /\ psl # NoPSL
    /\ Cardinality({e \in Judged : judge[e].pc \in {"final", "up", "merge"}}) < Concurrency
    /\ judge' = [judge EXCEPT ![d].pc = "final", ![d].local = zoneCache]
    /\ UNCHANGED <<hosts, final, psl, zoneCache, collapsed, lost>>

\* A name that does not resolve is unknown.
FinalRecords(d) ==
    \E got \in SUBSET final[d] :
        /\ judge[d].pc = "final"
        /\ Query(final[d], got)
        /\ judge' = [judge EXCEPT ![d].pc = IF Routable(got) = {} THEN "merge" ELSE "up", ![d].at = d]
        /\ UNCHANGED <<hosts, final, psl, zoneCache, collapsed>>

MainlandOrPrivate(hs) == hs \ OffshoreHosts

\* IsMainland.
Mainland(hs) == hs \cap MainlandHosts

Concluded(d, z, local, v) ==
    judge' = [judge EXCEPT ![d].pc = "merge", ![d].zone = z, ![d].verdict = v, ![d].local = local]

GoesUp(d, local) ==
    judge' = [judge EXCEPT ![d].local = local, ![d].at = Parent[@],
                           ![d].pc = IF Parent[judge[d].at] = NoParent THEN "merge" ELSE @]

\* A zone other than the name itself is passed over when it is a public suffix.
skipped(d, z) == z # d /\ IsPublicSuffix(z)

\* The next zone.  One that is known as cn decides; one that is known as
\* unknown is passed over, whether it has no addresses or offshore ones.
knownZone(d) ==
    LET z == judge[d].at IN
    /\ judge[d].pc = "up"
    /\ skipped(d, z) \/ judge[d].local[z] # NotKnown
    /\ IF ~skipped(d, z) /\ judge[d].local[z] = "cn"
       THEN Concluded(d, z, judge[d].local, "cn")
       ELSE GoesUp(d, judge[d].local)
    /\ UNCHANGED <<hosts, final, psl, zoneCache, collapsed, lost>>

\* authorityIPs asks for it.
authorityIPs(d) ==
    LET z == judge[d].at IN
    /\ judge[d].pc = "up"
    /\ ~skipped(d, z) /\ judge[d].local[z] = NotKnown
    /\ \E got \in SUBSET hosts[z] :
        LET v == IF Mainland(got) = {} THEN "unknown" ELSE "cn"
            known == [judge[d].local EXCEPT ![z] = v] IN
        /\ Query(hosts[z], got)
        /\ IF Routable(got) = {} THEN GoesUp(d, known) ELSE Concluded(d, z, known, v)
    /\ UNCHANGED <<hosts, final, psl, zoneCache, collapsed>>

\* What the cache does not know yet is taken over.
mergeVerdicts(d) ==
    /\ judge[d].pc = "merge"
    /\ zoneCache' = [z \in Zones |-> IF zoneCache[z] = NotKnown THEN judge[d].local[z] ELSE zoneCache[z]]
    /\ judge' = [judge EXCEPT ![d].pc = "done"]
    /\ UNCHANGED <<hosts, final, psl, collapsed, lost>>

Cn == {d \in Judged : judge[d].verdict = "cn"}

\* The name that stands for d: its parent when that was given too and shares
\* an address.
StandsFor(d, names) ==
    IF Parent[d] \in names /\ Routable(final[d]) \cap Routable(final[Parent[d]]) # {}
    THEN Parent[d] ELSE d

\* After wg.Wait.  A name without an answer now is dropped; one whose parent
\* has none stands for itself.
CollapseByResolution ==
    \E silent \in SUBSET Cn : \E orphans \in SUBSET Cn :
        LET live == {d \in Cn \ silent : Routable(final[d]) # {}} IN
        /\ \A d \in Judged : judge[d].pc = "done"
        /\ lost' = lost + Cardinality(silent \cup orphans)
        /\ lost' <= MaxLost
        /\ collapsed' = {IF d \in orphans THEN d ELSE StandsFor(d, Cn) : d \in live}
        /\ judge' = [d \in Judged |-> [judge[d] EXCEPT !.pc = "collapsed"]]
        /\ UNCHANGED <<hosts, final, psl, zoneCache>>

VerdictNext ==
    \/ \E d \in Judged : JudgeBegins(d) \/ FinalRecords(d) \/ knownZone(d) \/ authorityIPs(d) \/ mergeVerdicts(d)
    \/ CollapseByResolution

VerdictSpec == VerdictInit /\ [][VerdictNext]_verdictVars

-----------------------------------------------------------------------------

\* Whatever is lost and in whatever order names are judged, a name is judged cn
\* only when it resolves and a zone above it, no public suffix but for the name
\* itself, has a public mainland address among its authorities; and the
\* collapsed list holds only such names, and covers all of them when no query is
\* lost (ClassifyOne, ClassifyMany, CollapseByResolution).
CnIsEarned ==
    /\ \A d \in Cn :
        /\ Routable(final[d]) # {}
        /\ judge[d].zone = d \/ judge[d].zone \notin PublicSuffixes
        /\ MainlandHosts \cap hosts[judge[d].zone] # {}
    /\ (\A d \in Judged : judge[d].pc = "collapsed") =>
        /\ collapsed \subseteq Cn
        /\ lost = 0 => \A d \in Cn : d \in collapsed \/ Parent[d] \in collapsed

\* internal/authority/authority_test.go: an offshore authority must not be
\* promoted.  A name whose own zone, or else its parent, has only offshore
\* authorities is not judged cn, when no query is lost (ClassifyOne).
OffshoreStaysUnknown ==
    \A d \in Cn : lost = 0 =>
        LET z == IF Routable(hosts[d]) # {} THEN d ELSE Parent[d]
        IN z \notin PublicSuffixes /\ Routable(hosts[z]) # {} => MainlandHosts \cap hosts[z] # {}

=============================================================================
