----------------------------- MODULE PollutedIPs -----------------------------
(***************************************************************************)
(* Collecting the addresses of forged answers.  A collection asks foreign  *)
(* resolvers for names that cannot exist; an address answered often enough *)
(* counts as observed.  Observations are kept with their day as evidence   *)
(* and expire; the list, the evidence and the collapsed networks are       *)
(* written one after the other.  The timer and the panel may collect at    *)
(* the same time, and either may be killed.                                *)
(***************************************************************************)
EXTENDS Integers, FiniteSets

CONSTANTS Collectors,       \* the timer and the panel's operation
          Forged,           \* addresses of forged answers
          MinObservations,  \* answers in one collection that count
          MaxAgeDays,       \* days without observation after which an address goes
          MaxDay,           \* bound: days
          MaxCollections    \* bound: collections begun

ASSUME PollutedConstants ==
    /\ MinObservations \in Nat /\ MinObservations >= 2
    /\ MaxAgeDays \in Nat \ {0} /\ MaxDay \in Nat

VARIABLES today,
          evidence,   \* polluted-ip-evidence.json: the day last seen; Never
          polluted,   \* polluted-ip.txt
          networks,   \* polluted-ip-cidr.txt, as addresses
          collection, \* the collections under way
          observedOn, \* history: the last day a finished collection observed each
          seenOn,     \* history: the last day any collection observed each
          renewed,    \* history: lost evidence was made up from the list
          disturbed,  \* history: collections overlapped
          finishedOn, \* history: the day of the last finished collection; Never
          collections \* history: collections begun

pollutedVars == <<today, evidence, polluted, networks, collection, observedOn, seenOn,
                  renewed, disturbed, finishedOn, collections>>

Never == -1 - MaxAgeDays - MaxDay
NoEvidence == [a \in Forged |-> Never]
Collecting(pc, observed) == [pc |-> pc, observed |-> observed, list |-> {}, kept |-> NoEvidence, day |-> 0]
NoCollection == Collecting("idle", {})

PollutedInit ==
    /\ today = 0
    /\ evidence = NoEvidence
    /\ polluted = {} /\ networks = {}
    /\ collection = [c \in Collectors |-> NoCollection]
    /\ observedOn = NoEvidence
    /\ seenOn = observedOn /\ renewed = FALSE /\ disturbed = FALSE
    /\ finishedOn = Never
    /\ collections = 0

\* External: the days go by.
NextDay ==
    /\ today < MaxDay
    /\ today' = today + 1
    /\ UNCHANGED <<evidence, polluted, networks, collection, observedOn, seenOn, renewed,
                   disturbed, finishedOn, collections>>

\* External: the evidence is unreadable or removed.
EvidenceLost ==
    /\ evidence # NoEvidence
    /\ evidence' = NoEvidence
    /\ UNCHANGED <<today, polluted, networks, collection, observedOn, seenOn, renewed,
                   disturbed, finishedOn, collections>>

\* Enough independent answers.
Observed(captured) == {a \in Forged : captured[a] >= MinObservations}

\* The probes; a name that the trusted resolver does not deny is not asked for.
Collect(c, captured) ==
    /\ collection[c].pc = "idle"
    /\ collections < MaxCollections
    /\ collections' = collections + 1
    /\ collection' = [collection EXCEPT ![c] = Collecting("run", Observed(captured))]
    /\ disturbed' = (disturbed \/ \E d \in Collectors : collection[d].pc # "idle")
    /\ UNCHANGED <<today, evidence, polluted, networks, observedOn, seenOn, renewed, finishedOn>>

\* Evidence that is empty while the list is not is made up from the list.
madeUp == polluted # {} /\ evidence = NoEvidence

expiredLate(day) == day + MaxAgeDays + 1 < today

\* Last seen before the cutoff.
expired(day) == day + MaxAgeDays < today

\* Run: old evidence, new observations, and away with what is too old.
Run(c) ==
    LET old == [a \in Forged |-> IF madeUp /\ a \in polluted THEN today ELSE evidence[a]]
        new == [a \in Forged |-> IF a \in collection[c].observed THEN today ELSE old[a]]
        kept == [a \in Forged |-> IF expired(new[a]) THEN Never ELSE new[a]] IN
    /\ collection[c].pc = "run"
    /\ collection' = [collection EXCEPT ![c].pc = "list", ![c].kept = kept, ![c].day = today,
                                        ![c].list = {a \in Forged : kept[a] # Never}]
    /\ renewed' = (renewed \/ madeUp)
    /\ seenOn' = [a \in Forged |-> IF a \in collection[c].observed THEN today ELSE seenOn[a]]
    /\ UNCHANGED <<today, evidence, polluted, networks, observedOn, disturbed,
                   finishedOn, collections>>

writeList(c) ==
    /\ collection[c].pc = "list"
    /\ polluted' = collection[c].list
    /\ collection' = [collection EXCEPT ![c].pc = "evidence"]
    /\ UNCHANGED <<today, evidence, networks, observedOn, seenOn, renewed, disturbed, finishedOn,
                   collections>>

moveEvidence(c) ==
    /\ collection[c].pc = "evidence"
    /\ evidence' = collection[c].kept
    /\ collection' = [collection EXCEPT ![c].pc = "networks"]
    /\ UNCHANGED <<today, polluted, networks, observedOn, seenOn, renewed, disturbed,
                   finishedOn, collections>>

moveNetworks(c) ==
    /\ collection[c].pc = "networks"
    /\ networks' = collection[c].list
    /\ observedOn' = [a \in Forged |-> IF a \in collection[c].observed THEN collection[c].day ELSE observedOn[a]]
    /\ finishedOn' = collection[c].day
    /\ collection' = [collection EXCEPT ![c] = NoCollection]
    /\ UNCHANGED <<today, evidence, polluted, seenOn, renewed, disturbed, collections>>

\* Killed, or a file cannot be written: the files may be of two collections.
collectionFails(c) ==
    /\ collection[c].pc # "idle"
    /\ finishedOn' = Never
    /\ collection' = [collection EXCEPT ![c] = NoCollection]
    /\ UNCHANGED <<today, evidence, polluted, networks, observedOn, seenOn, renewed, disturbed,
                   collections>>

PollutedNext ==
    \/ NextDay \/ EvidenceLost
    \/ \E c \in Collectors :
        \/ \E captured \in [Forged -> 0..MinObservations] : Collect(c, captured)
        \/ Run(c) \/ writeList(c) \/ moveEvidence(c) \/ moveNetworks(c) \/ collectionFails(c)

PollutedSpec == PollutedInit /\ [][PollutedNext]_pollutedVars

-----------------------------------------------------------------------------

\* After a finished collection, whatever failed before it, list and networks
\* agree; unless lost evidence was made up from the list, every address a
\* finished collection observed within MaxAgeDays is on them, and none is that
\* no collection, finished or not, observed since (Run).  Collections that
\* overlap are excepted: nothing keeps them apart.
EvidenceDecides ==
    (\A c \in Collectors : collection[c].pc = "idle") /\ finishedOn # Never /\ ~disturbed =>
        /\ networks = polluted
        /\ renewed \/ \A a \in Forged :
               /\ observedOn[a] + MaxAgeDays >= finishedOn => a \in polluted
               /\ a \in polluted => seenOn[a] + MaxAgeDays >= finishedOn

=============================================================================
