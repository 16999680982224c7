------------------------------ MODULE MCKeeping ------------------------------
(***************************************************************************)
(* Model checking of what a node keeps for its operator: backups and their *)
(* import, migration bundles, the lists of names, local records, query     *)
(* statistics, and the verdicts on names.  The modules share no variable,  *)
(* so a behaviour moves only one of them, from that one's initial states.  *)
(***************************************************************************)
EXTENDS Backups, MigrationBundle, UserLists, LocalRecords, StatsRollup, Verdicts, TLC

VARIABLE mover

vars == <<backupVars, migrationVars, userListVars, localVars, statsVars, verdictVars, mover>>

\* The names that are judged, s, t and their parent z; x is a public suffix.
Tree == [s |-> "z", t |-> "z", z |-> "p", p |-> "x", x |-> "top"]

\* Lists that make x a suffix: by a wildcard in the section that counts, before
\* one that does not; or by a rule, with an exception.  One with too few rules
\* is passed over.
Line(k, n) == [kind |-> k, name |-> n]
Sections == <<Line("begin", ""), Line("rule", "top"), Line("wildcard", "top"), Line("end", ""), Line("rule", "p")>>
Plain == <<Line("rule", "x"), Line("wildcard", "x"), Line("exception", "p")>>
Short == <<Line("begin", ""), Line("rule", "p"), Line("exception", "z"), Line("end", ""), Line("rule", "z")>>
Files == {<<Short, Sections>>, <<Unreadable, Plain, Short>>, <<Short, Unreadable>>}

\* The authorities of z and of p in every combination of in the country,
\* abroad, private or none.
AuthorityWorlds ==
    {[n \in DOMAIN Tree |-> CASE n = "z" -> z [] n = "p" -> p [] n = "x" -> {"cn"} [] OTHER -> {}] :
        z \in {{}, {"off"}, {"cn", "off"}, {"lan", "off"}, {"lan"}},
        p \in {{}, {"off"}, {"cn", "off"}, {"lan", "off"}}}

\* t may not resolve, may share its address with z, or may not.
FinalWorlds ==
    {[n \in DOMAIN Tree |-> CASE n = "t" -> t [] n = "z" -> {"off"} [] OTHER -> {"off", "cn"}] :
        t \in {{}, {"cn"}, {"off"}}}

Init ==
    /\ mover \in {"backups", "migration", "userlists", "local", "stats", "verdicts"}
    /\ IF mover = "migration" THEN TRUE ELSE file = [t \in Targets |-> Nothing]
    /\ IF mover = "userlists" THEN TRUE ELSE lists = [l \in AllLists |-> {}]
    /\ IF mover = "local" THEN TRUE ELSE records = {}
    /\ IF mover = "verdicts" THEN TRUE
       ELSE hosts = (CHOOSE w \in Worlds : TRUE) /\ final = (CHOOSE w \in Answers : TRUE) /\ psl = NoPSL
    /\ BackupInit /\ MigrationInit /\ UserListInit /\ LocalInit /\ StatsInit /\ VerdictInit
    /\ lists["blocked"] = {} /\ lists["hk"] = {}
    \* A name that has records to begin with has come on the block list since.
    /\ records \in {{}, [name : {CHOOSE h \in Hosts : TRUE}, value : Addresses]}
    /\ shadowed = {r.name : r \in records}

Next ==
    \/ /\ mover = "backups" /\ BackupNext
       /\ UNCHANGED <<migrationVars, userListVars, localVars, statsVars, verdictVars, mover>>
    \/ /\ mover = "migration" /\ MigrationNext
       /\ UNCHANGED <<backupVars, userListVars, localVars, statsVars, verdictVars, mover>>
    \/ /\ mover = "userlists" /\ UserListNext
       /\ UNCHANGED <<backupVars, migrationVars, localVars, statsVars, verdictVars, mover>>
    \/ /\ mover = "local" /\ LocalNext
       /\ UNCHANGED <<backupVars, migrationVars, userListVars, statsVars, verdictVars, mover>>
    \/ /\ mover = "stats" /\ StatsNext
       /\ UNCHANGED <<backupVars, migrationVars, userListVars, localVars, verdictVars, mover>>
    \/ /\ mover = "verdicts" /\ VerdictNext
       /\ UNCHANGED <<backupVars, migrationVars, userListVars, localVars, statsVars, mover>>

Spec == Init /\ [][Next]_vars
=============================================================================
