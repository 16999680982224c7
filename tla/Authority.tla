----------------------------- MODULE Authority -----------------------------
(***************************************************************************)
(* The step cn-authority: from what Unbound has seen of authoritative      *)
(* servers (its infra cache) it derives the set of addresses that are      *)
(* asked directly (cn-authority.txt and a kernel set) and the list of      *)
(* addresses that are sent the client's subnet (Unbound's ECS list).  The  *)
(* cache forgets, so what was derived earlier is retained for a while; the *)
(* ECS list is guarded, checked, rolled back, and not reloaded for growth  *)
(* alone more often than every ReloadMin.                                  *)
(*                                                                         *)
(* A prefix is the set of addresses it covers.  Times are ages that stop   *)
(* growing once nothing depends on them any more, so behaviours are        *)
(* unbounded.  The pipeline's lock admits one round at a time (module      *)
(* Pipeline), a round takes no time on this scale.                         *)
(*                                                                         *)
(* External: Unbound and its cache, nft, unbound-checkconf, the file       *)
(* system (a write is atomic and may fail).                                *)
(***************************************************************************)
EXTENDS Integers, FiniteSets, FiniteSetsExt

CONSTANTS
  Addrs,         \* global IPv4 addresses, in order
  PrefixSets,      \* the prefixes among them: /32s, mergeable ranges, /24s and wider
  Block24,       \* the /24 of an address (AUTHORITY_AGGREGATE, SteeredECSBits)
  Zones,         \* registrable zones (ZoneDefect leaves the others out)
  Steered,       \* zones of CDNs that steer by location
  Authorities,   \* the servers of a zone
  Upstreams,     \* what the earlier steps and the operator may hand over
  AccumTTL,      \* ECS_ACCUM_TTL_SEC
  ReloadMin,     \* ECS_RELOAD_MIN_SEC
  MaxECSEntries, \* opt.MaxECSEntries
  GuardMin,      \* 20: shorter lists are not guarded
  MinRatio,      \* GUARD_MIN_RATIO
  MaxFaults      \* bound: failures, kills, restarts of the routing unit

ASSUME AuthorityAssumption ==
  /\ Addrs \subseteq Nat /\ IsFiniteSet(Addrs)
  /\ PrefixSets \subseteq (SUBSET Addrs) \ {{}}
  /\ \A a \in Addrs : {a} \in PrefixSets
  /\ \A p, q \in PrefixSets : p \subseteq q \/ q \subseteq p \/ p \cap q = {}
  /\ Block24 \in [Addrs -> PrefixSets]
  /\ \A a \in Addrs : a \in Block24[a] /\ Block24[a] # {a}
  /\ Steered \subseteq Zones
  /\ Authorities \in [Zones -> SUBSET Addrs]
  /\ Upstreams \subseteq [direct : (SUBSET Addrs) \ {{}}, disputed : SUBSET Addrs, promoted : SUBSET Addrs,
                          shared : SUBSET Addrs, manual : SUBSET Zones]
  /\ {AccumTTL, ReloadMin, MaxECSEntries, GuardMin, MinRatio, MaxFaults} \subseteq Nat

VARIABLES
  up,        \* direct4.txt, geo-disputed.txt, geo-promoted.txt, shared-anycast.txt, manual-cn-zones.txt
  result,    \* cn-authority.txt
  kernel,    \* the nft set cn_authority
  conf,      \* the ECS list in Unbound's configuration; {} before the first
  confAge,   \* how long ago it was written
  targets,   \* ecs-authority-targets.txt
  accum,     \* ecs-accum-state.tsv: since when a prefix is retained
  pc,        \* where the round is
  round,     \* what it computed, until time goes on
  outcome,   \* history: how the last round ended
  entries,   \* the routing unit: what it read of cn-authority.txt, or none yet
  seen,      \* history: when a prefix was last derived from the cache, within AccumTTL
  missing,   \* history: since when an address is not derived, -1 if it is or none can say
  faults     \* used budget

disk    == <<result, conf, confAge, targets, accum>>
history == <<seen, missing, outcome>>
vars    == <<up, disk, kernel, pc, round, entries, history, faults>>

Ages == 0 .. AccumTTL + 1
NotRead == {{}}    \* no file holds this

Cover(S) == UNION S

\* ipset.New(...).Prefixes(): the fewest prefixes with the same addresses.
FewestPrefixes(S) == {p \in PrefixSets : /\ p \subseteq S
                                 /\ \A q \in PrefixSets : p \subseteq q /\ q \subseteq S => q = p}

NoRound == [route |-> {}, ecs |-> {}, own |-> {}, list |-> {}, previous |-> {}, state |-> <<>>]

TypeOK ==
  /\ up \in Upstreams
  /\ {result, kernel, conf, targets} \subseteq SUBSET PrefixSets
  /\ confAge \in 0 .. ReloadMin
  /\ DOMAIN accum \subseteq PrefixSets /\ \A p \in DOMAIN accum : accum[p] \in Ages
  /\ pc \in {"idle", "computed", "targets", "staged", "loaded", "ecs", "check"}
  /\ DOMAIN round = DOMAIN NoRound
  /\ {round.route, round.ecs, round.own, round.list, round.previous} \subseteq SUBSET PrefixSets
  /\ DOMAIN round.state \subseteq PrefixSets /\ \A p \in DOMAIN round.state : round.state[p] \in Ages
  /\ outcome \in {"none", "done", "held"}
  /\ entries = NotRead \/ entries \in SUBSET PrefixSets
  /\ DOMAIN seen \subseteq PrefixSets /\ \A p \in DOMAIN seen : seen[p] \in Ages
  /\ missing \in [Addrs -> -1 .. AccumTTL + 1]
  /\ faults \in 0 .. MaxFaults

Init ==
  /\ up \in Upstreams
  /\ result = {} /\ kernel = {} /\ conf = {} /\ confAge = 0 /\ targets = {} /\ accum = <<>>
  /\ pc = "idle" /\ round = NoRound /\ entries = NotRead
  /\ seen = <<>> /\ missing = [a \in Addrs |-> -1] /\ outcome = "none"
  /\ faults = 0

Fault == faults < MaxFaults /\ faults' = faults + 1

Older(age) == IF age \in 0 .. AccumTTL THEN age + 1 ELSE age
-----------------------------------------------------------------------------
(* ruleset.Build *)

Evidence(a) == a \notin up.disputed /\ (a \in up.promoted \/ a \in up.direct)
hasCN(visible, z) == \E a \in visible[z] : Evidence(a)

\* Zones that are asked in the country: named by hand, or with a server there
\* and not with all of them dead.
Matched(visible, dead) == {z \in Zones : z \in up.manual \/ (hasCN(visible, z) /\ z \notin dead)}
\* CDNs abroad: only the client's subnet is sent to them.
OnlySteered(visible) == {z \in Steered \ up.manual : ~hasCN(visible, z)}

Direct(z, a) == a \in up.disputed \/ Evidence(a) \/ (z \notin Steered /\ a \notin up.shared)

RoutePrefix(a) == IF a \in up.disputed \/ Evidence(a) THEN Block24[a] ELSE {a}
ECSPrefix(z, a) == IF z \in Steered /\ ~Evidence(a) THEN Block24[a] ELSE {a}

RoutePrefixes(visible, dead) ==
  FewestPrefixes(UNION {UNION {RoutePrefix(a) : a \in {b \in visible[z] : Direct(z, b)}}
                  : z \in Matched(visible, dead)})

AuthorityECS(visible, dead) ==
  (UNION {{ECSPrefix(z, a) : a \in visible[z] \ up.disputed} : z \in Matched(visible, dead)})
  \cup (UNION {{Block24[a] : a \in visible[z]} : z \in OnlySteered(visible)})

directECS == up.direct \ up.disputed

ECSPrefixes(own) == FewestPrefixes(directECS \cup Cover(own))

Build(visible, dead) ==
  LET own == AuthorityECS(visible, dead)
  IN  [route |-> RoutePrefixes(visible, dead), own |-> own, ecs |-> ECSPrefixes(own)]
-----------------------------------------------------------------------------
(* applyAccumulation *)

\* Mutant: the last round's targets are not looked at.
prevForgets(state) == {p \in conf : Cardinality(p) = 1} \cup DOMAIN state
\* The /32s of the last list, the last round's targets and what is retained.  A
\* merged block is expanded too, but its addresses count only if they are
\* retained already.
prev(state) == {p \in conf : Cardinality(p) = 1} \cup targets \cup DOMAIN state

Since(state, p) == IF p \in DOMAIN state THEN state[p] ELSE 0

\* The first address of a prefix decides whether it is disputed.
Disputed(p) == Min(p) \in up.disputed

isExpired(state, stateOK, p) == stateOK /\ Since(state, p) > AccumTTL

kept(state, stateOK, ecs) ==
  {p \in prev(state) : ~(p \subseteq Cover(ecs)) /\ ~Disputed(p) /\ ~isExpired(state, stateOK, p)}

\* Too long a list: nothing is retained.
fits(ecs, retained) == Cardinality(ecs) + Cardinality(retained) <= MaxECSEntries

applyAccumulation(state, stateOK, ecs) ==
  LET retained == kept(state, stateOK, ecs)
  IN  IF fits(ecs, retained) THEN [p \in retained |-> Since(state, p)] ELSE <<>>
-----------------------------------------------------------------------------
(* A round. *)

\* History.  A prefix that is derived is seen now; one that is disputed, is
\* covered anyway, did not fit, or was recorded only where it could not be read,
\* is no longer waited for.
look(own, ecs, state, stateOK) ==
  /\ LET waited == {p \in DOMAIN seen : /\ ~Disputed(p) /\ ~(p \subseteq Cover(ecs))
                                        /\ stateOK \/ p \in prev(state)}
         rest   == IF fits(ecs, kept(state, stateOK, ecs)) THEN waited ELSE {}
     IN  seen' = [p \in own \cup rest |-> IF p \in own THEN 0 ELSE seen[p]]
  /\ missing' = [a \in Addrs |-> IF a \in Cover(ecs) THEN -1
                                 ELSE IF missing[a] = -1 \/ ~stateOK THEN 0 ELSE missing[a]]

\* History: what is remembered of the sightings, if these files are all there is.
recorded(names, state) ==
  [p \in DOMAIN seen \cap (names \cup DOMAIN state) |->
     IF p \in DOMAIN state /\ state[p] > seen[p] THEN state[p] ELSE seen[p]]

\* The round ends without publishing what it computed: only what the files
\* record is remembered, and retention starts anew with the next round.
hold ==
  /\ pc' = "idle" /\ round' = NoRound /\ outcome' = "held"
  /\ seen' = recorded(targets, accum)
  /\ missing' = [a \in Addrs |-> -1]

\* dump_infra: some servers of some zones; a round without any does nothing.
Visible == {f \in [Zones -> SUBSET Addrs] : /\ \A z \in Zones : f[z] \subseteq Authorities[z]
                                           /\ \E z \in Zones : f[z] # {}}

Builds == UNION {{Build(visible, dead) : dead \in SUBSET {z \in Zones \ up.manual : hasCN(visible, z)}}
                 : visible \in Visible}

\* collectAuthorityPairs and cnauth.Run.  An unreadable state file means that
\* nothing expires in this round.
compute ==
  /\ pc = "idle"
  /\ \E built \in Builds, stateOK \in BOOLEAN :
       /\ IF stateOK THEN UNCHANGED faults ELSE Fault /\ accum # <<>>
       /\ LET state == IF stateOK THEN accum ELSE <<>>
              next  == applyAccumulation(state, stateOK, built.ecs)
          IN  /\ round' = [route |-> built.route, ecs |-> built.ecs, own |-> built.own,
                           list |-> FewestPrefixes(Cover(built.ecs) \cup Cover(DOMAIN next)),
                           previous |-> {}, state |-> next]
              /\ look(built.own, built.ecs, state, stateOK)
  /\ pc' = "computed" /\ outcome' = "none"
  /\ UNCHANGED <<up, disk, kernel, entries>>

\* Both files are written best effort, before anything is published.
writeECSTargets ==
  /\ pc = "computed"
  /\ \/ targets' = round.own /\ UNCHANGED <<seen, missing, faults>>
     \/ /\ Fault /\ UNCHANGED targets
        /\ seen' = recorded(targets, round.state)
        /\ missing' = [a \in Addrs |-> -1]
  /\ pc' = "targets"
  /\ UNCHANGED <<up, result, conf, confAge, accum, kernel, round, entries, outcome>>

writeAccumState ==
  /\ pc = "targets"
  /\ \/ accum' = round.state /\ UNCHANGED <<seen, missing, faults>>
     \/ /\ Fault /\ UNCHANGED accum
        /\ seen' = recorded(targets, accum)
        /\ missing' = [a \in Addrs |-> -1]
  /\ pc' = "staged"
  /\ UNCHANGED <<up, result, conf, confAge, targets, kernel, round, entries, outcome>>
-----------------------------------------------------------------------------
(* commitAuthoritySet *)

shrunk(old, fresh) ==
  Cardinality(old) >= GuardMin /\ Cardinality(fresh) < (Cardinality(old) * MinRatio) \div 100

\* The staged files cannot be written or read, the guard or nft refuses; the
\* ECS list is not looked at.
refuseSet ==
  /\ pc = "staged"
  /\ IF shrunk(result, round.route) THEN UNCHANGED faults ELSE Fault
  /\ hold
  /\ UNCHANGED <<up, disk, kernel, entries>>

\* Mutant: an unchanged list is not loaded again.
loadsOnlyChanges == IF round.route = result THEN UNCHANGED kernel ELSE kernel' = round.route
loads == kernel' = round.route

\* LoadNFTSet: the kernel first, then the file.
LoadNFTSet ==
  /\ pc = "staged" /\ ~shrunk(result, round.route)
  /\ loads
  /\ pc' = "loaded"
  /\ UNCHANGED <<up, disk, round, entries, history, faults>>

renameResult ==
  /\ pc = "loaded"
  /\ \/ result' = round.route /\ pc' = "ecs" /\ UNCHANGED <<round, history, faults>>
     \/ Fault /\ hold /\ UNCHANGED result
  /\ UNCHANGED <<up, conf, confAge, targets, accum, kernel, entries>>
-----------------------------------------------------------------------------
(* commitECSConf *)

ecsOnlyGrew(old, fresh) ==
  /\ old # {} /\ fresh # {}
  /\ Cover(old) \subseteq Cover(fresh)
  /\ ~(Cover(fresh) \subseteq Cover(old))

waits == ecsOnlyGrew(conf, round.list) /\ confAge < ReloadMin

\* Nothing to do, or growth that can wait.  Then the list in place may name an
\* address that the round gave up and only a wider prefix still covers: nothing
\* records since when, and a later round that finds it there counts anew.
skipECS ==
  /\ pc = "ecs"
  /\ round.list # {} /\ ~shrunk(conf, round.list)
  /\ round.list = conf \/ waits
  /\ pc' = "idle" /\ outcome' = "done"
  /\ missing' = [a \in Addrs |-> IF {a} \in conf \ DOMAIN round.state THEN -1 ELSE missing[a]]
  /\ UNCHANGED <<up, disk, kernel, round, entries, seen, faults>>

\* An empty or shrunken list, a configuration that does not pass checkconf, a
\* copy that cannot be written.
refuseECS ==
  /\ pc = "ecs"
  /\ IF round.list = {} \/ shrunk(conf, round.list) THEN UNCHANGED faults
     ELSE round.list # conf /\ ~waits /\ Fault
  /\ hold
  /\ UNCHANGED <<up, disk, kernel, entries>>

replaceConf ==
  /\ pc = "ecs"
  /\ round.list \notin {{}, conf} /\ ~shrunk(conf, round.list) /\ ~waits
  /\ conf' = round.list /\ confAge' = 0
  /\ round' = [round EXCEPT !.previous = conf]
  /\ pc' = "check"
  /\ UNCHANGED <<up, result, targets, accum, kernel, entries, history, faults>>

\* The new configuration passes and is reloaded (if that fails it waits for
\* Unbound's next start), or the old one is put back, or even that fails.
unboundCheckConf ==
  /\ pc = "check"
  /\ \/ /\ pc' = "idle" /\ outcome' = "done" /\ round' = [round EXCEPT !.previous = {}]
        /\ UNCHANGED <<conf, confAge, seen, missing, faults>>
     \/ Fault /\ hold /\ conf' = round.previous /\ confAge' = 0
     \/ Fault /\ hold /\ UNCHANGED <<conf, confAge>>
  /\ UNCHANGED <<up, result, targets, accum, kernel, entries>>
-----------------------------------------------------------------------------
(* Everything else. *)

kill ==
  /\ pc # "idle" /\ Fault
  /\ hold
  /\ UNCHANGED <<up, disk, kernel, entries>>

\* chnroute, geo-cross and anycast of a later round.
upstream ==
  /\ pc = "idle"
  /\ up' \in Upstreams /\ up' # up
  /\ round' = NoRound /\ outcome' = "none"
  /\ UNCHANGED <<disk, kernel, pc, entries, seen, missing, faults>>

\* The routing unit is started: it reads the file, then installs what it read
\* (Apply holds no lock).
cnAuthorityEntries ==
  /\ entries = NotRead /\ Fault
  /\ entries' = result
  /\ UNCHANGED <<up, disk, kernel, pc, round, history>>

installChain ==
  /\ entries # NotRead
  /\ kernel' = entries /\ entries' = NotRead
  /\ UNCHANGED <<up, disk, pc, round, history, faults>>

Elapse ==
  /\ pc = "idle"
  /\ accum' = [p \in DOMAIN accum |-> Older(accum[p])]
  /\ seen' = [p \in {q \in DOMAIN seen : seen[q] < AccumTTL} |-> Older(seen[p])]
  /\ missing' = [a \in Addrs |-> Older(missing[a])]
  /\ confAge' = IF confAge < ReloadMin THEN confAge + 1 ELSE confAge
  /\ round' = NoRound /\ outcome' = "none"
  /\ UNCHANGED <<up, result, conf, targets, kernel, pc, entries, faults>>

Step == \/ writeECSTargets \/ writeAccumState
        \/ refuseSet \/ LoadNFTSet \/ renameResult
        \/ skipECS \/ refuseECS \/ replaceConf \/ unboundCheckConf

Next == \/ compute \/ Step \/ kill
        \/ upstream \/ cnAuthorityEntries \/ installChain \/ Elapse

Spec == Init /\ [][Next]_vars

\* A round that is not killed goes on; the routing unit comes to its end.
FairSpec == Spec /\ WF_vars(Step) /\ WF_vars(installChain)
-----------------------------------------------------------------------------
(* Properties. *)

(***************************************************************************)
(* A server that was derived from the cache within AccumTTL, and is not    *)
(* disputed, is on the list a round is about to publish, whatever the      *)
(* cache forgot in between, however the written list was merged, and       *)
(* wherever earlier rounds stopped or were put off (ops/pipeline.md:23).   *)
(***************************************************************************)
AuthoritiesAreKept ==
  pc \in {"staged", "loaded", "ecs"} =>
    \A p \in DOMAIN seen : seen[p] <= AccumTTL => p \subseteq Cover(round.list)

(***************************************************************************)
(* After a round, an address that no round derived for more than AccumTTL  *)
(* is off the list, counted from the first such round that came to an end  *)
(* (guide/routing.md:70).  The next round starts the count again after one *)
(* that could not publish what it computed, and, where a round puts growth *)
(* off, for an address it had given up and only a wider prefix covers.     *)
(***************************************************************************)
RetentionIsBounded ==
  outcome = "done" =>
    \A a \in Cover(conf) : a \in Cover(round.ecs) \/ missing[a] <= AccumTTL

(***************************************************************************)
(* After a round, the only disputed addresses on the list are in the /24   *)
(* of a CDN's server (the three subtractions that                          *)
(* TestECSWhitelistHasZeroIntersectionWithDisputedRanges is about).        *)
(***************************************************************************)
DisputedOnlySteered ==
  outcome = "done" =>
    \A a \in Cover(conf) \cap up.disputed :
      \E p \in round.own \cup DOMAIN round.state : a \in p /\ Cardinality(p) > 1

(***************************************************************************)
(* The state is well typed, and the published list holds what it must, for *)
(* as long as it must, and of the disputed addresses only those it may.    *)
(***************************************************************************)
ListIsRight == TypeOK /\ AuthoritiesAreKept /\ RetentionIsBounded /\ DisputedOnlySteered

(***************************************************************************)
(* As long as rounds pass the guard, the kernel's set and the file agree   *)
(* again and again, although the routing unit installs what it read of the *)
(* file at any time, and a round can die between the two.                  *)
(***************************************************************************)
KernelCatchesUp == []<><<LoadNFTSet>>_vars => []<>(kernel = result)
=============================================================================
