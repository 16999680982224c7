------------------------------ MODULE UserLists ------------------------------
(***************************************************************************)
(* The operator's lists of names: blocked, resolved inside China (cn) and  *)
(* resolved in Hong Kong (hk).  The panel and the shell run the same       *)
(* commands, each a process of its own.  An edit of cn or hk holds a lock; *)
(* adding a name to one takes it off the other.  An edit of the block list *)
(* holds no lock.  mosproxy serves the block list and hk as it last loaded *)
(* them; cn takes effect when the domestic authorities are rebuilt.  A     *)
(* list is the set of its keys: comments, order, case and repeated lines   *)
(* are left out.                                                           *)
(***************************************************************************)
EXTENDS Integers, FiniteSets

CONSTANTS Editors,       \* processes that run the commands
          NoEditor,      \* the lock is free
          Names,         \* names that pass checkRouteNames
          MaxEdits,      \* bound: commands begun
          MaxListFaults  \* bound: failures and kills

ASSUME ListConstants == NoEditor \notin Editors

VARIABLES lists,    \* the files
          served,   \* hk and the block list as mosproxy last loaded them
          lock,     \* .route-lists.lock
          editor,   \* the commands under way
          told,     \* the route list a finished command last said a name is on
          halfway,  \* history: names an edit failed on or was killed in
          owed,     \* history: a command ended without the reload it owed
          edits,    \* history: commands begun
          listFaults \* history: faults so far

userListVars == <<lists, served, lock, editor, told, halfway, owed, edits, listFaults>>

RouteLists == {"cn", "hk"}
AllLists == RouteLists \cup {"blocked"}
Loaded == {"hk", "blocked"}

Other(list) == IF list = "cn" THEN "hk" ELSE "cn"

\* list is the one the command names, at the one it is editing, changed
\* those that it has edited and not yet applied.
Editing(pc, verb, list, n) == [pc |-> pc, verb |-> verb, list |-> list, at |-> list,
                               name |-> n, read |-> {}, changed |-> {}]
AnyName == CHOOSE n \in Names : TRUE
IdleEditor == Editing("idle", "add", "cn", AnyName)

On(n) == {l \in RouteLists : n \in lists[l]}

UserListInit ==
    /\ lists \in [AllLists -> SUBSET Names]
    /\ lists["cn"] \cap lists["hk"] = {}
    /\ served = [l \in Loaded |-> lists[l]]
    /\ lock = NoEditor
    /\ editor = [e \in Editors |-> IdleEditor]
    /\ told = [n \in Names |-> IF On(n) = {} THEN "none" ELSE CHOOSE l \in On(n) : TRUE]
    /\ halfway = {} /\ owed = FALSE
    /\ edits = 0 /\ listFaults = 0

\* What a finished edit tells of the name.
Says(e, n) ==
    IF editor[e].list = "blocked" \/ n # editor[e].name THEN told[n]
    ELSE IF editor[e].verb = "add" THEN editor[e].list
    ELSE IF told[n] = editor[e].list THEN "none" ELSE told[n]

Release(e) == lock' = IF lock = e THEN NoEditor ELSE lock

\* The command ends before it has changed anything, or after everything.
Ends(e) ==
    /\ editor' = [editor EXCEPT ![e] = IdleEditor]
    /\ Release(e)

Finished(e) == told' = [n \in Names |-> Says(e, n)]

ListFault == listFaults < MaxListFaults /\ listFaults' = listFaults + 1

\* cmdRoute and cmdBlocklist.
Edit(e, verb, list, n) ==
    /\ editor[e].pc = "idle"
    /\ edits < MaxEdits
    /\ edits' = edits + 1
    /\ editor' = [editor EXCEPT ![e] =
           Editing(IF list = "blocked" THEN "check" ELSE "lock", verb, list, n)]
    /\ UNCHANGED <<lists, served, lock, told, halfway, owed, listFaults>>

lockRoutesUnlocked(e) ==
    /\ editor[e].pc = "lock"
    /\ editor' = [editor EXCEPT ![e].pc = "check"]
    /\ UNCHANGED <<lists, served, lock, told, halfway, owed, edits, listFaults>>

lockRoutes(e) ==
    /\ editor[e].pc = "lock"
    /\ lock = NoEditor
    /\ lock' = e
    /\ editor' = [editor EXCEPT ![e].pc = "check"]
    /\ UNCHANGED <<lists, served, told, halfway, owed, edits, listFaults>>

\* Fifteen seconds of waiting.
lockTimeout(e) ==
    /\ editor[e].pc = "lock" /\ lock # NoEditor
    /\ Ends(e)
    /\ UNCHANGED <<lists, served, told, halfway, owed, edits, listFaults>>

\* The edit at hand adds the name, or takes it off.
Adds(e) == editor[e].verb = "add" /\ editor[e].at = editor[e].list

\* addEntries and removeEntries find nothing to do.  When that is the list the
\* command names, it ends; AddRoutes does not look at the other list then.
unchanged(e) ==
    /\ editor[e].pc = "check"
    /\ (editor[e].name \in lists[editor[e].at]) = Adds(e)
    /\ IF editor[e].at = editor[e].list
       THEN Ends(e)
       ELSE /\ editor' = [editor EXCEPT ![e].pc = "apply"]
            /\ Release(e)
    /\ Finished(e)
    /\ UNCHANGED <<lists, served, halfway, owed, edits, listFaults>>

\* editEntries reads the file again.
editReads(e) ==
    /\ editor[e].pc = "check"
    /\ (editor[e].name \in lists[editor[e].at]) # Adds(e)
    /\ editor' = [editor EXCEPT ![e].pc = "write", ![e].read = lists[editor[e].at]]
    /\ UNCHANGED <<lists, served, lock, told, halfway, owed, edits, listFaults>>

ChangedFirst(e) == {editor[e].list}

\* What applyRoutes is to apply: the other list only when a name has left it.
Changed(e) == editor[e].changed \cup {editor[e].at}

\* editEntries writes it.  A name added to a route list then leaves the other.
editWrites(e) ==
    LET onward == editor[e].list \in RouteLists /\ Adds(e) IN
    /\ editor[e].pc = "write"
    /\ lists' = [lists EXCEPT ![editor[e].at] =
                     IF Adds(e) THEN editor[e].read \cup {editor[e].name}
                     ELSE editor[e].read \ {editor[e].name}]
    /\ editor' = [editor EXCEPT ![e].pc = IF onward THEN "check" ELSE "apply",
                                ![e].at = IF onward THEN Other(@) ELSE @,
                                ![e].changed = Changed(e)]
    /\ IF onward THEN UNCHANGED <<lock, told>> ELSE Release(e) /\ Finished(e)
    /\ UNCHANGED <<served, halfway, owed, edits, listFaults>>

\* The command breaks off: a name it has added may be on both lists, and it has
\* told nothing.
BreaksOff(e) ==
    /\ ListFault
    /\ Ends(e)
    /\ owed' = (owed \/ editor[e].changed \cap Loaded # {})
    /\ IF editor[e].pc # "apply" /\ editor[e].changed # {}
       THEN /\ halfway' = halfway \cup {editor[e].name}
            /\ told' = [told EXCEPT ![editor[e].name] = "none"]
       ELSE UNCHANGED <<halfway, told>>
    /\ UNCHANGED <<lists, served, edits>>

\* Reading or writing a file fails: the command reports it.  What it has
\* written before stays, and is not applied.
editFails(e) == editor[e].pc \in {"check", "write"} /\ BreaksOff(e)

\* --no-apply and --no-reload: the command ends here.
noApply(e) ==
    /\ editor[e].pc = "apply"
    /\ editor[e].list \in editor[e].changed
    /\ Ends(e)
    /\ owed' = (owed \/ editor[e].changed \cap Loaded # {})
    /\ UNCHANGED <<lists, served, told, halfway, edits, listFaults>>

\* The next list to apply: the one the command names goes first.
applied(e) == IF editor[e].list \in editor[e].changed THEN editor[e].list ELSE Other(editor[e].list)

\* The reload reads both files; a failed one ends the command.
Reload(e) ==
    /\ editor[e].pc = "apply" /\ editor[e].changed # {}
    /\ applied(e) \in Loaded
    /\ served' = [l \in Loaded |-> lists[l]]
    /\ owed' = FALSE
    /\ editor' = [editor EXCEPT ![e].changed = @ \ {applied(e)}]
    /\ UNCHANGED <<lists, lock, told, halfway, edits, listFaults>>

\* rebuildAuthorityRoutes runs the step under the pipeline's lock.
rebuildAuthorityRoutes(e) ==
    /\ editor[e].pc = "apply" /\ editor[e].changed # {}
    /\ applied(e) = "cn"
    /\ editor' = [editor EXCEPT ![e].changed = @ \ {"cn"}]
    /\ UNCHANGED <<lists, served, lock, told, halfway, owed, edits, listFaults>>

\* Either fails: applyRoutes returns, and leaves out what would have come next.
applyFails(e) == editor[e].pc = "apply" /\ editor[e].changed # {} /\ BreaksOff(e)

\* flushEverywhere, and the end.
applyEnds(e) ==
    /\ editor[e].pc = "apply" /\ editor[e].changed = {}
    /\ Ends(e)
    /\ UNCHANGED <<lists, served, told, halfway, owed, edits, listFaults>>

\* The helper's time limit, or the operator: the lock goes with the process.
Killed(e) == editor[e].pc \in {"check", "write", "apply"} /\ BreaksOff(e)

UserListNext == \E e \in Editors :
    \/ \E verb \in {"add", "remove"}, list \in AllLists, n \in Names : Edit(e, verb, list, n)
    \/ lockRoutes(e) \/ lockTimeout(e)
    \/ unchanged(e) \/ editReads(e) \/ editWrites(e) \/ editFails(e)
    \/ noApply(e) \/ Reload(e) \/ rebuildAuthorityRoutes(e) \/ applyFails(e) \/ applyEnds(e)
    \/ Killed(e)

UserListSpec == UserListInit /\ [][UserListNext]_userListVars

-----------------------------------------------------------------------------

\* Whatever route commands overlap, when the lock is free each name is on the
\* list that the last finished command said, and on no other: no edit is lost.
\* Except names on which an edit failed between the two files (AddRoutes).
FinishedEditsHold ==
    lock = NoEditor =>
        \A n \in Names \ halfway : On(n) = {told[n]} \ {"none"}

\* When no command is under way mosproxy serves the block list and hk as the
\* files have them, unless a command ended without its reload (applyRoutes:
\* a name that leaves hk because it was added to cn needs the reload too).
ServedAsWritten ==
    (\A e \in Editors : editor[e].pc = "idle") /\ ~owed =>
        served = [l \in Loaded |-> lists[l]]

\* site/guide/routing.md: a name can be on one list only, adding it to one
\* takes it off the other (AddRoutes).
OneListPerName ==
    lock = NoEditor =>
        \A n \in Names : told[n] \in RouteLists /\ n \in lists[told[n]] =>
            n \notin lists[Other(told[n])]

=============================================================================
