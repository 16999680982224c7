--------------------------- MODULE MigrationBundle ---------------------------
(***************************************************************************)
(* Carrying lists and learned state to another node.  An export reads the  *)
(* files one after the other, while commands may edit them, and adds a     *)
(* manifest with the digest of each.  A restore takes from a bundle the    *)
(* files that the manifest lists, that this node knows and whose digest is *)
(* right, one after the other: it copies the present file into a directory *)
(* named by the second, then replaces it.  It does not take the lock of    *)
(* the lists.  The panel keeps an upload in an inbox, has the privileged   *)
(* helper restore it, and removes it unless it was only tried.             *)
(***************************************************************************)
EXTENDS Integers, FiniteSets

CONSTANTS Restorers,   \* processes that restore
          Targets,     \* archive paths this node knows
          Foreign,     \* a path it does not know
          Contents,    \* contents of a file
          Nothing,     \* the file is absent
          Day,         \* seconds an upload stays in the inbox
          MaxSeconds,  \* bound: the clock
          MaxTouches   \* bound: edits, restores, exports and damages

ASSUME MigrationConstants ==
    /\ Foreign \notin Targets
    /\ Nothing \notin Contents
    /\ Day \in Nat \ {0} /\ MaxSeconds \in Nat

VARIABLES file,     \* the files of this node
          export,   \* the export under way: what it has read
          bundle,   \* the bundle: what it holds, and what the manifest lists
          source,   \* history: the files as the export read them
          second,   \* the clock
          inbox,    \* uploads, by the second they came
          restorer, \* the restores under way
          copies,   \* the backup directories, by second
          users,    \* history: how many restores have used each directory
          replaced, \* history: what each restore has replaced, by what
          edited,   \* history: files edited between a restore's copy and its write
          touches   \* history: counted

migrationVars == <<file, export, bundle, source, second, inbox, restorer, copies, users,
                   replaced, edited, touches>>

Paths == Targets \cup {Foreign}
Absent == [p \in Paths |-> Nothing]
NoBundle == [held |-> Absent, listed |-> Absent, ours |-> FALSE]
NoExport == [on |-> FALSE, todo |-> {}, got |-> Absent]
NoRestore == [pc |-> "idle", dry |-> FALSE, copy |-> FALSE, upload |-> -1, at |-> Foreign,
              todo |-> {}, dir |-> 0]

MigrationInit ==
    /\ file \in [Targets -> Contents \cup {Nothing}]
    /\ export = NoExport
    /\ bundle = NoBundle
    /\ source = Absent
    /\ second = 0
    /\ inbox = {}
    /\ restorer = [r \in Restorers |-> NoRestore]
    /\ copies = [s \in 0..MaxSeconds |-> Absent]
    /\ users = [s \in 0..MaxSeconds |-> 0]
    /\ replaced = {} /\ edited = {}
    /\ touches = 0

Touch == touches < MaxTouches /\ touches' = touches + 1

\* Restores that have copied the file and have yet to replace it.
Overtaken(p) == {[by |-> r, path |-> p] : r \in {r \in Restorers : restorer[r].pc = "write" /\ restorer[r].at = p}}

\* External: a command of this node writes one of the files.
EditFile(p, c) ==
    /\ Touch
    /\ file[p] # c
    /\ file' = [file EXCEPT ![p] = c]
    /\ edited' = edited \cup Overtaken(p)
    /\ UNCHANGED <<export, bundle, source, second, inbox, restorer, copies, users, replaced>>

\* External: the clock.
TickSecond ==
    /\ second < MaxSeconds
    /\ second' = second + 1
    /\ UNCHANGED <<file, export, bundle, source, inbox, restorer, copies, users, replaced, edited, touches>>

\* cmdMigrationExport and migrationExport.  One bundle is followed.
WriteMigrationBundle ==
    /\ ~export.on /\ bundle = NoBundle
    /\ Touch
    /\ export' = [on |-> TRUE, todo |-> Targets, got |-> Absent]
    /\ UNCHANGED <<file, bundle, source, second, inbox, restorer, copies, users, replaced, edited>>

\* One file: read, digested and packed; one that cannot be read is left out.
writeTarFile(p) ==
    /\ export.on /\ p \in export.todo
    /\ export' = [export EXCEPT !.todo = @ \ {p}, !.got[p] = file[p]]
    /\ UNCHANGED <<file, bundle, source, second, inbox, restorer, copies, users, replaced, edited, touches>>

\* The manifest closes the bundle.
writeManifest ==
    /\ export.on /\ export.todo = {}
    /\ export' = NoExport
    /\ bundle' = [held |-> export.got, listed |-> export.got, ours |-> TRUE]
    /\ source' = export.got
    /\ UNCHANGED <<file, second, inbox, restorer, copies, users, replaced, edited, touches>>

\* External: on its way a bundle is damaged, cut short or added to, or it comes
\* from another program.
Damage(p, c) ==
    /\ bundle.ours
    /\ Touch
    /\ \A r \in Restorers : restorer[r].pc = "idle"
    /\ bundle' \in {[bundle EXCEPT !.held[p] = c], [bundle EXCEPT !.ours = FALSE]}
    /\ bundle' # bundle
    /\ UNCHANGED <<file, export, source, second, inbox, restorer, copies, users, replaced, edited>>

\* RestoreMigrationBundle reads the archive and takes a bundle of ours only.
Begin(r, dry, copy, upload) ==
    /\ restorer[r].pc = "idle"
    /\ Touch
    /\ IF bundle.ours
       THEN restorer' = [restorer EXCEPT ![r] =
                [pc |-> "next", dry |-> dry, copy |-> copy /\ ~dry, upload |-> upload, at |-> Foreign,
                 todo |-> {p \in Targets : bundle.listed[p] # Nothing}, dir |-> second]]
       ELSE UNCHANGED restorer
    /\ users' = [users EXCEPT ![second] = @ + (IF bundle.ours /\ copy /\ ~dry THEN 1 ELSE 0)]
    /\ replaced' = {x \in replaced : x.by # r}
    /\ edited' = {o \in edited : o.by # r}
    /\ UNCHANGED <<file, export, bundle, source, second, copies>>

\* The shell.
cmdMigrationRestore(r, dry, copy) == Begin(r, dry, copy, -1) /\ UNCHANGED inbox

\* The panel: the name of the upload is its second, and taken only once.
migrationImport(r, dry) ==
    /\ second \notin inbox
    /\ Begin(r, dry, TRUE, second)
    /\ inbox' = IF bundle.ours \/ dry THEN inbox \cup {second} ELSE inbox

wholeAnyDigest(p) == bundle.held[p] # Nothing

\* The bundle holds the file, with the digest the manifest gives.
whole(p) == bundle.held[p] # Nothing /\ bundle.held[p] = bundle.listed[p]

\* The next file of the manifest: one that is missing, damaged or the same as
\* ours is passed over, and a trial writes none.
nextFile(r) ==
    /\ restorer[r].pc = "next"
    /\ \E p \in restorer[r].todo :
        restorer' = [restorer EXCEPT
            ![r].todo = @ \ {p}, ![r].at = p,
            ![r].pc = IF ~whole(p) \/ file[p] = bundle.held[p] \/ restorer[r].dry THEN "next"
                      ELSE IF restorer[r].copy THEN "copy" ELSE "write"]
    /\ UNCHANGED <<file, export, bundle, source, second, inbox, copies, users, replaced, edited, touches>>

\* The present file, if there is one, is copied.
backupExisting(r) ==
    /\ restorer[r].pc = "copy"
    /\ copies' = IF file[restorer[r].at] = Nothing THEN copies
                 ELSE [copies EXCEPT ![restorer[r].dir][restorer[r].at] = file[restorer[r].at]]
    /\ restorer' = [restorer EXCEPT ![r].pc = "write"]
    /\ UNCHANGED <<file, export, bundle, source, second, inbox, users, replaced, edited, touches>>

writeRestored(r) ==
    LET p == restorer[r].at IN
    /\ restorer[r].pc = "write"
    /\ file' = [file EXCEPT ![p] = bundle.held[p]]
    /\ replaced' = replaced \cup {[by |-> r, path |-> p, old |-> file[p], new |-> bundle.held[p],
                                   copied |-> restorer[r].copy, dir |-> restorer[r].dir]}
    /\ edited' = edited \cup {o \in Overtaken(p) : o.by # r}
    /\ restorer' = [restorer EXCEPT ![r].pc = "next"]
    /\ UNCHANGED <<export, bundle, source, second, inbox, copies, users, touches>>

\* The inbox loses the upload unless it was a trial, and what is a day old.
leftInInbox(r) ==
    {s \in inbox : s + Day > second} \ (IF restorer[r].dry THEN {} ELSE {restorer[r].upload})

RestoreOver(r) ==
    /\ restorer' = [restorer EXCEPT ![r] = NoRestore]
    /\ inbox' = IF restorer[r].upload = -1 THEN inbox ELSE leftInInbox(r)
    /\ UNCHANGED <<file, export, bundle, source, second, copies, users, replaced, edited>>

restoreEnds(r) ==
    /\ restorer[r].pc = "next" /\ restorer[r].todo = {}
    /\ RestoreOver(r)
    /\ UNCHANGED touches

\* A copy or a write fails, or the helper's time is up: what is written stays.
restoreFails(r) ==
    /\ restorer[r].pc \in {"copy", "write"}
    /\ Touch
    /\ RestoreOver(r)

MigrationNext ==
    \/ \E p \in Targets, c \in Contents : EditFile(p, c)
    \/ TickSecond
    \/ WriteMigrationBundle \/ writeManifest
    \/ \E p \in Targets : writeTarFile(p)
    \/ \E p \in Paths, c \in Contents \cup {Nothing} : Damage(p, c)
    \/ \E r \in Restorers :
        \/ \E dry, copy \in BOOLEAN : cmdMigrationRestore(r, dry, copy)
        \/ \E dry \in BOOLEAN : migrationImport(r, dry)
        \/ nextFile(r) \/ backupExisting(r) \/ writeRestored(r)
        \/ restoreEnds(r) \/ restoreFails(r)

MigrationSpec == MigrationInit /\ [][MigrationNext]_migrationVars

-----------------------------------------------------------------------------

\* Whatever happened to the bundle on its way, a restore writes only what the
\* export read from the same file, and what it replaces is in its backup
\* directory, also after it broke off half way.  Except a file edited between
\* copy and write, and two restores in one second, which share the directory
\* (RestoreMigrationBundle, backupExisting, writeRestored).
RestoreIsSafe ==
    \A x \in replaced :
        /\ x.new = source[x.path]
        /\ x.copied /\ [by |-> x.by, path |-> x.path] \notin edited /\ users[x.dir] = 1 /\ x.old # Nothing =>
               copies[x.dir][x.path] = x.old

=============================================================================
