--------------------------- MODULE Keeping_proofs ---------------------------
(***************************************************************************)
(* Proofs about what the operator keeps: the lists of names, the local     *)
(* records, the import of a backup and the archives, the verdicts on       *)
(* names, the restoring of migration bundles.                              *)
(***************************************************************************)
EXTENDS UserLists, LocalRecords, Backups, Verdicts, MigrationBundle,
        StatsRollup, FiniteSetTheorems, WellFoundedInduction, TLAPS

(***************************************************************************)
(* The lists.  The lock belongs to the one route command between its first *)
(* read and its last write; the name it has put on one list and not yet    *)
(* taken off the other is torn, and of every other name the two files say  *)
(* what was last told.                                                     *)
(***************************************************************************)
EditorRecord ==
    [pc : {"idle", "lock", "check", "write", "apply"}, verb : {"add", "remove"},
     list : AllLists, at : AllLists, name : Names \cup {AnyName}, read : SUBSET (Names \cup {AnyName}),
     changed : SUBSET AllLists]

Holds(r) == r.pc \in {"check", "write"} /\ r.list \in RouteLists
Tears(r) == Holds(r) /\ r.at # r.list

EditorOK(r) ==
    /\ r.pc \in {"idle", "lock"} => r.changed = {}
    /\ r.pc \in {"check", "write"} /\ r.at = r.list => r.changed = {}
    /\ r.pc = "lock" => r.list \in RouteLists /\ r.at = r.list
    /\ r.list = "blocked" \/ r.verb = "remove" => r.at = r.list
    /\ r.list \in RouteLists => r.at \in RouteLists
    /\ Tears(r) => r.name \in lists[r.list] /\ r.changed # {}
    /\ Holds(r) /\ r.pc = "write" => r.read = lists[r.at]

AsTold(n) == On(n) = {told[n]} \ {"none"}

ToldInv == \A n \in Names \ halfway :
              (\A e \in Editors : Tears(editor[e]) => n # editor[e].name) => AsTold(n)

LoadedInv == ~owed => \A l \in Loaded : served[l] = lists[l] \/ \E e \in Editors : l \in editor[e].changed

EditorsInv ==
    /\ editor \in [Editors -> EditorRecord]
    /\ lists \in [AllLists -> SUBSET (Names \cup {AnyName})]
    /\ served = [l \in Loaded |-> served[l]]
    /\ told = [n \in Names |-> told[n]]
    /\ owed \in BOOLEAN
    /\ lock \in Editors \cup {NoEditor}
    /\ \A e \in Editors : Holds(editor[e]) <=> lock = e
    /\ \A e \in Editors : EditorOK(editor[e])

UserListInv == EditorsInv /\ ToldInv /\ LoadedInv

LEMMA EditingIs ==
    ASSUME NEW p \in {"idle", "lock", "check"}, NEW verb \in {"add", "remove"}, NEW list \in AllLists,
           NEW n \in Names \cup {AnyName}
    PROVE  /\ Editing(p, verb, list, n) \in EditorRecord
           /\ Editing(p, verb, list, n).pc = p /\ Editing(p, verb, list, n).list = list
           /\ Editing(p, verb, list, n).at = list /\ Editing(p, verb, list, n).changed = {}
  BY DEF Editing, EditorRecord

LEMMA IdleIs ==
    /\ IdleEditor \in EditorRecord /\ IdleEditor.pc = "idle" /\ IdleEditor.changed = {}
    /\ IdleEditor.list = "cn" /\ IdleEditor.at = "cn" /\ ~Holds(IdleEditor) /\ ~Tears(IdleEditor)
    /\ EditorOK(IdleEditor)
  <1>1. "cn" \in AllLists /\ "cn" \in RouteLists /\ AnyName \in Names \cup {AnyName}
    BY DEF AllLists, RouteLists
  <1>2. /\ IdleEditor \in EditorRecord /\ IdleEditor.pc = "idle" /\ IdleEditor.changed = {}
        /\ IdleEditor.list = "cn" /\ IdleEditor.at = "cn"
    BY <1>1, EditingIs DEF IdleEditor
  <1>3. QED
    BY <1>1, <1>2 DEF Holds, Tears, EditorOK

LEMMA UserListInvInit == UserListInit => UserListInv
  <1> SUFFICES ASSUME UserListInit PROVE UserListInv
    OBVIOUS
  <1>1. \A e \in Editors : editor[e] = IdleEditor
    BY DEF UserListInit
  <1>2. EditorsInv
    <2>1. /\ editor \in [Editors -> EditorRecord] /\ lists \in [AllLists -> SUBSET (Names \cup {AnyName})]
          /\ served = [l \in Loaded |-> served[l]] /\ owed \in BOOLEAN /\ lock = NoEditor
      BY IdleIs DEF UserListInit
    <2>2. told = [n \in Names |-> told[n]]
      BY DEF UserListInit
    <2>3. QED
      BY <1>1, <2>1, <2>2, IdleIs, ListConstants DEF EditorsInv
  <1>3. ToldInv
    <2> SUFFICES ASSUME NEW n \in Names PROVE AsTold(n)
      BY DEF ToldInv
    <2>1. told[n] = IF On(n) = {} THEN "none" ELSE CHOOSE l \in On(n) : TRUE
      BY DEF UserListInit
    <2>2. On(n) \in SUBSET {"cn", "hk"} /\ On(n) # {"cn", "hk"}
      BY DEF UserListInit, On, RouteLists
    <2>3. On(n) # {} => (CHOOSE l \in On(n) : TRUE) \in On(n)
      OBVIOUS
    <2>4. On(n) = {} \/ On(n) = {"cn"} \/ On(n) = {"hk"}
      BY <2>2
    <2>5. QED
      BY <2>1, <2>3, <2>4 DEF AsTold
  <1>4. LoadedInv
    BY DEF UserListInit, LoadedInv
  <1>5. QED
    BY <1>2, <1>3, <1>4 DEF UserListInv

\* One command moves and the lists stay: what is left to show is what it says.
LEMMA EditorMoves ==
    ASSUME UserListInv, NEW e \in Editors, NEW r \in EditorRecord, editor' = [editor EXCEPT ![e] = r],
           lists' = lists, EditorOK(r), owed' \in BOOLEAN,
           served' = [l \in Loaded |-> served'[l]], told' = [n \in Names |-> told'[n]],
           lock' = IF Holds(r) THEN e ELSE IF lock = e THEN NoEditor ELSE lock,
           Holds(r) => lock \in {e, NoEditor},
           ToldInv', LoadedInv'
    PROVE  UserListInv'
  <1>1. /\ editor' \in [Editors -> EditorRecord] /\ editor'[e] = r
        /\ \A d \in Editors : d # e => editor'[d] = editor[d]
    BY DEF UserListInv, EditorsInv
  <1>2. \A d \in Editors : Holds(editor'[d]) <=> lock' = d
    BY <1>1, ListConstants DEF UserListInv, EditorsInv
  <1>3. \A d \in Editors : EditorOK(editor[d])'
    BY <1>1 DEF UserListInv, EditorsInv, EditorOK
  <1>4. lock' \in Editors \cup {NoEditor} /\ lists' \in [AllLists -> SUBSET (Names \cup {AnyName})]
    BY DEF UserListInv, EditorsInv
  <1>5. QED
    BY <1>1, <1>2, <1>3, <1>4 DEF UserListInv, EditorsInv

\* It says nothing new, and no name it has torn is forgotten.
LEMMA NothingTold ==
    ASSUME UserListInv, NEW e \in Editors, NEW r \in EditorRecord, editor' = [editor EXCEPT ![e] = r],
           \A l \in RouteLists : lists'[l] = lists[l], told' = told, halfway \subseteq halfway',
           Tears(editor[e]) => (Tears(r) /\ r.name = editor[e].name) \/ editor[e].name \in halfway'
    PROVE  ToldInv'
  <1>1. editor'[e] = r /\ \A d \in Editors : d # e => editor'[d] = editor[d]
    BY DEF UserListInv, EditorsInv
  <1>2. ASSUME NEW n \in Names \ halfway', \A d \in Editors : Tears(editor'[d]) => n # editor'[d].name
        PROVE  AsTold(n)'
    <2>1. \A d \in Editors : Tears(editor[d]) => n # editor[d].name
      BY <1>1, <1>2
    <2>2. AsTold(n)
      BY <1>2, <2>1 DEF UserListInv, ToldInv
    <2>3. QED
      BY <2>2 DEF AsTold, On
  <1>3. QED
    BY <1>2 DEF ToldInv

\* It changes no file and lets go of no change that a reload is owed for.
LEMMA NothingLoaded ==
    ASSUME UserListInv, NEW e \in Editors, NEW r \in EditorRecord, editor' = [editor EXCEPT ![e] = r],
           UNCHANGED <<lists, served>>,
           ~owed' => ~owed /\ \A l \in Loaded : l \in editor[e].changed => l \in r.changed
    PROVE  LoadedInv'
  <1>1. editor'[e] = r /\ \A d \in Editors : d # e => editor'[d] = editor[d]
    BY DEF UserListInv, EditorsInv
  <1>2. ASSUME ~owed', NEW l \in Loaded
        PROVE  served[l] = lists[l] \/ \E d \in Editors : l \in editor'[d].changed
    <2>1. served[l] = lists[l] \/ \E d \in Editors : l \in editor[d].changed
      BY <1>2 DEF UserListInv, LoadedInv
    <2>2. QED
      BY <1>1, <1>2, <2>1
  <1>3. QED
    BY <1>2 DEF LoadedInv

\* A step of a command that neither writes nor tells.
LEMMA QuietMove ==
    ASSUME UserListInv, NEW e \in Editors, NEW r \in EditorRecord, editor' = [editor EXCEPT ![e] = r],
           UNCHANGED <<lists, served, told>>, EditorOK(r), owed' \in BOOLEAN,
           lock' = IF Holds(r) THEN e ELSE IF lock = e THEN NoEditor ELSE lock,
           Holds(r) => lock \in {e, NoEditor}, halfway \subseteq halfway',
           Tears(editor[e]) => (Tears(r) /\ r.name = editor[e].name) \/ editor[e].name \in halfway',
           ~owed' => ~owed /\ \A l \in Loaded : l \in editor[e].changed => l \in r.changed
    PROVE  UserListInv'
  <1>1. served' = [l \in Loaded |-> served'[l]] /\ told' = [n \in Names |-> told'[n]]
    BY DEF UserListInv, EditorsInv
  <1>2. QED
    BY <1>1, NothingTold, NothingLoaded, EditorMoves

\* The command ends, having kept what it owes or noted that it did not.
LEMMA EndsQuietly ==
    ASSUME UserListInv, NEW e \in Editors, Ends(e), UNCHANGED <<lists, served, told>>,
           owed' \in BOOLEAN, halfway \subseteq halfway',
           Tears(editor[e]) => editor[e].name \in halfway',
           ~owed' => ~owed /\ editor[e].changed \cap Loaded = {}
    PROVE  UserListInv'
  <1>1. editor' = [editor EXCEPT ![e] = IdleEditor] /\ lock' = IF lock = e THEN NoEditor ELSE lock
    BY DEF Ends, Release
  <1>2. QED
    BY <1>1, IdleIs, QuietMove

LEMMA BeginsAndWaits ==
    ASSUME UserListInv, NEW e \in Editors,
           \/ \E verb \in {"add", "remove"}, list \in AllLists, n \in Names : Edit(e, verb, list, n)
           \/ lockRoutes(e) \/ lockTimeout(e)
    PROVE  UserListInv'
  <1>0. editor[e] \in EditorRecord /\ EditorOK(editor[e]) /\ (Holds(editor[e]) <=> lock = e) /\ owed \in BOOLEAN
    BY DEF UserListInv, EditorsInv
  <1>1. ASSUME NEW verb \in {"add", "remove"}, NEW list \in AllLists, NEW n \in Names, Edit(e, verb, list, n)
        PROVE  UserListInv'
    <2>1. PICK r : r = Editing(IF list = "blocked" THEN "check" ELSE "lock", verb, list, n)
      OBVIOUS
    <2>2. /\ editor' = [editor EXCEPT ![e] = r] /\ editor[e].pc = "idle"
          /\ UNCHANGED <<lists, served, lock, told, halfway, owed>>
      BY <1>1, <2>1 DEF Edit
    <2>3. /\ r \in EditorRecord /\ r.pc = IF list = "blocked" THEN "check" ELSE "lock"
          /\ r.list = list /\ r.at = list /\ r.changed = {}
      BY <2>1, EditingIs
    <2>4. EditorOK(r) /\ ~Holds(r)
      BY <2>3 DEF EditorOK, Holds, Tears, AllLists, RouteLists
    <2>5. ~Holds(editor[e]) /\ ~Tears(editor[e]) /\ editor[e].changed = {}
      BY <1>0, <2>2 DEF Holds, Tears, EditorOK
    <2>6. lock' = IF Holds(r) THEN e ELSE IF lock = e THEN NoEditor ELSE lock
      BY <1>0, <2>2, <2>4, <2>5
    <2>7. QED
      BY <1>0, <2>2, <2>3, <2>4, <2>5, <2>6, QuietMove
  <1>2. CASE lockRoutes(e)
    <2>1. PICK r : r = [editor[e] EXCEPT !.pc = "check"]
      OBVIOUS
    <2>2. /\ editor' = [editor EXCEPT ![e] = r] /\ editor[e].pc = "lock" /\ lock = NoEditor /\ lock' = e
          /\ UNCHANGED <<lists, served, told, halfway, owed>>
      BY <1>2, <2>1 DEF lockRoutes
    <2>3. /\ r \in EditorRecord /\ r.pc = "check" /\ r.list = editor[e].list /\ r.at = editor[e].at
          /\ r.changed = editor[e].changed
      BY <1>0, <2>1 DEF EditorRecord
    <2>4. EditorOK(r) /\ Holds(r) /\ editor[e].changed = {} /\ ~Tears(editor[e])
      BY <1>0, <2>2, <2>3 DEF EditorOK, Holds, Tears
    <2>5. QED
      BY <1>0, <2>2, <2>3, <2>4, QuietMove
  <1>3. CASE lockTimeout(e)
    <2>1. editor[e].pc = "lock" /\ Ends(e) /\ UNCHANGED <<lists, served, told, halfway, owed>>
      BY <1>3 DEF lockTimeout
    <2>2. editor[e].changed = {} /\ ~Tears(editor[e])
      BY <1>0, <2>1 DEF EditorOK, Holds, Tears
    <2>3. QED
      BY <1>0, <2>1, <2>2, EndsQuietly
  <1>4. QED
    BY <1>1, <1>2, <1>3

LEMMA ReadsKeep ==
    ASSUME UserListInv, NEW e \in Editors, editReads(e)
    PROVE  UserListInv'
  <1>0. /\ editor[e] \in EditorRecord /\ EditorOK(editor[e]) /\ (Holds(editor[e]) <=> lock = e) /\ owed \in BOOLEAN
        /\ lists \in [AllLists -> SUBSET (Names \cup {AnyName})]
    BY DEF UserListInv, EditorsInv
  <1>1. PICK r : r = [editor[e] EXCEPT !.pc = "write", !.read = lists[editor[e].at]]
    OBVIOUS
  <1>2. /\ editor' = [editor EXCEPT ![e] = r] /\ editor[e].pc = "check"
        /\ UNCHANGED <<lists, served, lock, told, halfway, owed>>
    BY <1>1 DEF editReads
  <1>3. /\ r \in EditorRecord /\ r.pc = "write" /\ r.list = editor[e].list /\ r.at = editor[e].at
        /\ r.changed = editor[e].changed /\ r.name = editor[e].name /\ r.verb = editor[e].verb
        /\ r.read = lists[r.at]
    BY <1>0, <1>1 DEF EditorRecord
  <1>4. EditorOK(r) /\ (Holds(r) <=> Holds(editor[e])) /\ (Tears(r) <=> Tears(editor[e]))
    BY <1>0, <1>2, <1>3 DEF EditorOK, Holds, Tears
  <1>5. lock' = IF Holds(r) THEN e ELSE IF lock = e THEN NoEditor ELSE lock
    BY <1>0, <1>2, <1>4
  <1>6. QED
    BY <1>0, <1>2, <1>3, <1>4, <1>5, QuietMove

\* What breaks off leaves its name halfway when it had changed a list of two.
LEMMA BreaksOffKeeps ==
    ASSUME UserListInv, NEW e \in Editors, editFails(e) \/ applyFails(e) \/ Killed(e)
    PROVE  UserListInv'
  <1>0. editor[e] \in EditorRecord /\ EditorOK(editor[e]) /\ owed \in BOOLEAN /\ told = [n \in Names |-> told[n]]
    BY DEF UserListInv, EditorsInv
  <1>1. /\ Ends(e) /\ owed' = (owed \/ editor[e].changed \cap Loaded # {}) /\ UNCHANGED <<lists, served>>
        /\ IF editor[e].pc # "apply" /\ editor[e].changed # {}
           THEN /\ halfway' = halfway \cup {editor[e].name}
                /\ told' = [told EXCEPT ![editor[e].name] = "none"]
           ELSE UNCHANGED <<halfway, told>>
    BY DEF editFails, applyFails, Killed, BreaksOff
  <1>2. /\ owed' \in BOOLEAN
        /\ ~owed' => ~owed /\ editor[e].changed \cap Loaded = {}
    BY <1>0, <1>1
  <1>3. CASE editor[e].pc # "apply" /\ editor[e].changed # {}
    <2>1. editor' = [editor EXCEPT ![e] = IdleEditor] /\ lock' = IF lock = e THEN NoEditor ELSE lock
      BY <1>1 DEF Ends, Release
    <2>2. editor'[e] = IdleEditor /\ \A d \in Editors : d # e => editor'[d] = editor[d]
      BY <2>1 DEF UserListInv, EditorsInv
    <2>3. ToldInv'
      <3>1. ASSUME NEW n \in Names \ halfway', \A d \in Editors : Tears(editor'[d]) => n # editor'[d].name
            PROVE  AsTold(n)'
        <4>1. n \notin halfway /\ n # editor[e].name
          BY <1>1, <1>3, <3>1
        <4>2. \A d \in Editors : Tears(editor[d]) => n # editor[d].name
          BY <2>2, <3>1, <4>1
        <4>3. AsTold(n) /\ told'[n] = told[n]
          BY <1>0, <1>1, <1>3, <3>1, <4>1, <4>2 DEF UserListInv, ToldInv
        <4>4. QED
          BY <1>1, <4>3 DEF AsTold, On
      <3>2. QED
        BY <3>1 DEF ToldInv
    <2>4. LoadedInv'
      BY <1>1, <1>2, <2>1, IdleIs, NothingLoaded
    <2>5. served' = [l \in Loaded |-> served'[l]]
      BY <1>1 DEF UserListInv, EditorsInv
    <2>6. told' = [n \in Names |-> told'[n]]
      BY <1>0, <1>1, <1>3
    <2>7. QED
      BY <1>1, <1>2, <2>1, <2>3, <2>4, <2>5, <2>6, IdleIs, EditorMoves
  <1>4. CASE ~(editor[e].pc # "apply" /\ editor[e].changed # {})
    <2>1. ~Tears(editor[e])
      BY <1>0, <1>4 DEF EditorOK, Tears, Holds
    <2>2. QED
      BY <1>1, <1>2, <1>4, <2>1, EndsQuietly
  <1>5. QED
    BY <1>3, <1>4

LEMMA AppliesKeep ==
    ASSUME UserListInv, NEW e \in Editors,
           noApply(e) \/ Reload(e) \/ rebuildAuthorityRoutes(e) \/ applyEnds(e)
    PROVE  UserListInv'
  <1>0. /\ editor[e] \in EditorRecord /\ EditorOK(editor[e]) /\ (Holds(editor[e]) <=> lock = e) /\ owed \in BOOLEAN
        /\ editor[e].pc = "apply" /\ told = [n \in Names |-> told[n]]
    BY DEF UserListInv, EditorsInv, noApply, Reload, rebuildAuthorityRoutes, applyEnds
  <1>1. ~Tears(editor[e]) /\ ~Holds(editor[e])
    BY <1>0 DEF Tears, Holds
  <1>2. CASE noApply(e)
    BY <1>0, <1>1, <1>2, EndsQuietly DEF noApply
  <1>3. CASE applyEnds(e)
    BY <1>0, <1>1, <1>3, EndsQuietly DEF applyEnds
  <1>4. ASSUME NEW x, editor' = [editor EXCEPT ![e].changed = @ \ {x}], UNCHANGED <<lists, lock, told, halfway>>,
               owed' \in BOOLEAN, served' = [l \in Loaded |-> served'[l]], LoadedInv'
        PROVE  UserListInv'
    <2>1. PICK r : r = [editor[e] EXCEPT !.changed = @ \ {x}]
      OBVIOUS
    <2>2. editor' = [editor EXCEPT ![e] = r]
      BY <1>4, <2>1
    <2>3. r \in EditorRecord /\ r.pc = "apply" /\ r.list = editor[e].list /\ r.at = editor[e].at /\ r.verb = editor[e].verb
      BY <1>0, <2>1 DEF EditorRecord
    <2>4. EditorOK(r) /\ ~Holds(r)
      BY <1>0, <2>3 DEF EditorOK, Holds, Tears
    <2>5. ToldInv'
      BY <1>1, <1>4, <2>2, <2>3, NothingTold
    <2>6. QED
      BY <1>0, <1>1, <1>4, <2>2, <2>3, <2>4, <2>5, EditorMoves
  <1>5. CASE Reload(e)
    <2>1. LoadedInv'
      BY <1>5 DEF Reload, LoadedInv
    <2>2. QED
      BY <1>4, <1>5, <2>1 DEF Reload
  <1>6. CASE rebuildAuthorityRoutes(e)
    <2>1. PICK r : r = [editor[e] EXCEPT !.changed = @ \ {"cn"}]
      OBVIOUS
    <2>2. editor' = [editor EXCEPT ![e] = r] /\ UNCHANGED <<lists, served, owed>>
      BY <1>6, <2>1 DEF rebuildAuthorityRoutes
    <2>3. r \in EditorRecord /\ r.changed = editor[e].changed \ {"cn"}
      BY <1>0, <2>1 DEF EditorRecord
    <2>4. "cn" \notin Loaded
      BY DEF Loaded
    <2>5. LoadedInv'
      BY <2>2, <2>3, <2>4, NothingLoaded
    <2>6. served' = [l \in Loaded |-> served'[l]] /\ owed' \in BOOLEAN
      BY <1>0, <2>2 DEF UserListInv, EditorsInv
    <2>7. QED
      BY <1>4, <1>6, <2>5, <2>6 DEF rebuildAuthorityRoutes
  <1>7. QED
    BY <1>2, <1>3, <1>5, <1>6

\* In a quiet command of route lists nobody else tears a name.
LEMMA OneHolder ==
    ASSUME UserListInv, NEW e \in Editors, Holds(editor[e]), NEW d \in Editors, d # e
    PROVE  ~Holds(editor[d]) /\ ~Tears(editor[d])
  BY DEF UserListInv, EditorsInv, Tears

LEMMA UnchangedKeeps ==
    ASSUME UserListInv, NEW e \in Editors, unchanged(e)
    PROVE  UserListInv'
  <1>0. /\ editor[e] \in EditorRecord /\ EditorOK(editor[e]) /\ (Holds(editor[e]) <=> lock = e) /\ owed \in BOOLEAN
        /\ told = [n \in Names |-> told[n]]
    BY DEF UserListInv, EditorsInv
  <1>1. /\ editor[e].pc = "check" /\ told' = [n \in Names |-> Says(e, n)]
        /\ UNCHANGED <<lists, served, halfway, owed>>
    BY DEF unchanged, Finished
  <1>2. (editor[e].name \in lists[editor[e].at]) <=> Adds(e)
    BY DEF unchanged, Adds
  <1>3. PICK r : r = IF editor[e].at = editor[e].list THEN IdleEditor ELSE [editor[e] EXCEPT !.pc = "apply"]
    OBVIOUS
  <1>4. editor' = [editor EXCEPT ![e] = r] /\ lock' = IF lock = e THEN NoEditor ELSE lock
    BY <1>3 DEF unchanged, Ends, Release
  <1>5. /\ r \in EditorRecord /\ EditorOK(r) /\ ~Holds(r) /\ ~Tears(r)
        /\ r.changed = editor[e].changed
    <2>1. CASE editor[e].at = editor[e].list
      BY <1>0, <1>1, <1>3, <2>1, IdleIs DEF EditorOK
    <2>2. CASE editor[e].at # editor[e].list
      <3>1. /\ r \in EditorRecord /\ r.pc = "apply" /\ r.list = editor[e].list /\ r.at = editor[e].at
            /\ r.verb = editor[e].verb /\ r.changed = editor[e].changed
        BY <1>0, <1>3, <2>2 DEF EditorRecord
      <3>2. QED
        BY <1>0, <3>1 DEF EditorOK, Holds, Tears
    <2>3. QED
      BY <2>1, <2>2
  <1>6. editor'[e] = r /\ \A d \in Editors : d # e => editor'[d] = editor[d]
    BY <1>4 DEF UserListInv, EditorsInv
  <1>7. ToldInv'
    <2>1. CASE editor[e].list = "blocked"
      <3>1. told' = told
        BY <1>0, <1>1, <2>1 DEF Says
      <3>2. ~Tears(editor[e])
        BY <1>0, <2>1 DEF EditorOK, Tears
      <3>3. QED
        BY <1>1, <1>4, <1>5, <3>1, <3>2, NothingTold
    <2>2. CASE editor[e].list # "blocked"
      <3>1. Holds(editor[e]) /\ editor[e].list \in RouteLists /\ editor[e].at \in RouteLists
        BY <1>0, <1>1, <2>2 DEF Holds, EditorRecord, AllLists, RouteLists, EditorOK
      <3>2. ASSUME NEW n \in Names \ halfway
            PROVE  On(n) = {Says(e, n)} \ {"none"}
        <4>1. ~(Tears(editor[e]) /\ n = editor[e].name) => On(n) = {told[n]} \ {"none"}
          BY <3>1, <3>2, OneHolder DEF UserListInv, ToldInv, AsTold
        <4>2. CASE n # editor[e].name
          BY <4>1, <4>2 DEF Says
        <4>3. CASE n = editor[e].name /\ editor[e].at = editor[e].list
          <5>1. On(n) = {told[n]} \ {"none"}
            BY <4>1, <4>3 DEF Tears
          <5>2. CASE editor[e].verb = "add"
            <6>1. editor[e].list \in On(n)
              BY <1>2, <3>1, <4>3, <5>2 DEF Adds, On
            <6>2. Says(e, n) = editor[e].list
              BY <2>2, <4>3, <5>2 DEF Says
            <6>3. QED
              BY <5>1, <6>1, <6>2
          <5>3. CASE editor[e].verb # "add"
            <6>1. editor[e].list \notin On(n)
              BY <1>2, <4>3, <5>3 DEF Adds, On
            <6>2. told[n] # editor[e].list
              BY <3>1, <5>1, <6>1 DEF RouteLists
            <6>3. Says(e, n) = told[n]
              BY <2>2, <4>3, <5>3, <6>2 DEF Says
            <6>4. QED
              BY <5>1, <6>3
          <5>4. QED
            BY <5>2, <5>3
        <4>4. CASE n = editor[e].name /\ editor[e].at # editor[e].list
          <5>1. editor[e].verb = "add" /\ n \in lists[editor[e].list] /\ n \notin lists[editor[e].at]
            BY <1>0, <1>2, <3>1, <4>4 DEF EditorOK, Tears, EditorRecord, Adds
          <5>2. On(n) = {editor[e].list}
            BY <3>1, <4>4, <5>1 DEF On, RouteLists
          <5>3. Says(e, n) = editor[e].list
            BY <2>2, <4>4, <5>1 DEF Says
          <5>4. QED
            BY <3>1, <5>2, <5>3 DEF RouteLists
        <4>5. QED
          BY <4>2, <4>3, <4>4
      <3>3. ASSUME NEW n \in Names \ halfway'
            PROVE  AsTold(n)'
        <4>1. On(n) = {Says(e, n)} \ {"none"} /\ told'[n] = Says(e, n)
          BY <1>1, <3>2, <3>3
        <4>2. QED
          BY <1>1, <4>1 DEF AsTold, On
      <3>4. QED
        BY <3>3 DEF ToldInv
    <2>3. QED
      BY <2>1, <2>2
  <1>8. LoadedInv'
    BY <1>1, <1>4, <1>5, NothingLoaded
  <1>9. served' = [l \in Loaded |-> served'[l]] /\ told' = [n \in Names |-> told'[n]] /\ owed' \in BOOLEAN
    BY <1>0, <1>1 DEF UserListInv, EditorsInv
  <1>10. QED
    BY <1>1, <1>4, <1>5, <1>7, <1>8, <1>9, EditorMoves

\* A command writes the list it is at; of a route list it holds the lock.
LEMMA WriteMoves ==
    ASSUME UserListInv, NEW e \in Editors, NEW r \in EditorRecord, editor' = [editor EXCEPT ![e] = r],
           NEW at \in AllLists, NEW S \in SUBSET (Names \cup {AnyName}), lists' = [lists EXCEPT ![at] = S],
           at \in RouteLists => Holds(editor[e]), EditorOK(r)',
           at \in r.changed, editor[e].changed \subseteq r.changed, UNCHANGED <<served, owed>>,
           told' = [n \in Names |-> told'[n]],
           lock' = IF Holds(r) THEN e ELSE IF lock = e THEN NoEditor ELSE lock,
           Holds(r) => lock = e,
           ToldInv'
    PROVE  UserListInv'
  <1>1. /\ editor' \in [Editors -> EditorRecord] /\ editor'[e] = r
        /\ \A d \in Editors : d # e => editor'[d] = editor[d]
    BY DEF UserListInv, EditorsInv
  <1>2. \A d \in Editors : Holds(editor'[d]) <=> lock' = d
    BY <1>1, ListConstants DEF UserListInv, EditorsInv
  <1>3. lists' \in [AllLists -> SUBSET (Names \cup {AnyName})] /\ \A l \in AllLists : l # at => lists'[l] = lists[l]
    BY DEF UserListInv, EditorsInv
  <1>4. ASSUME NEW d \in Editors, d # e
        PROVE  EditorOK(editor[d])'
    <2>1. EditorOK(editor[d]) /\ editor'[d] = editor[d] /\ editor[d].list \in AllLists /\ editor[d].at \in AllLists
      BY <1>1, <1>4 DEF UserListInv, EditorsInv, EditorRecord
    <2>2. CASE at \in RouteLists
      <3>1. ~Holds(editor[d]) /\ ~Tears(editor[d])
        BY <1>4, <2>2, OneHolder
      <3>2. QED
        BY <2>1, <3>1 DEF EditorOK
    <2>3. CASE at \notin RouteLists
      <3>1. editor[d].list \in RouteLists => lists'[editor[d].list] = lists[editor[d].list]
                                             /\ lists'[editor[d].at] = lists[editor[d].at]
        BY <1>3, <2>1, <2>3 DEF EditorOK
      <3>2. QED
        BY <2>1, <3>1 DEF EditorOK, Tears, Holds
    <2>4. QED
      BY <2>2, <2>3
  <1>5. LoadedInv'
    <2>1. ASSUME ~owed', NEW l \in Loaded
          PROVE  served'[l] = lists'[l] \/ \E d \in Editors : l \in editor'[d].changed
      <3>1. CASE l = at
        BY <1>1, <3>1
      <3>2. CASE l # at
        <4>1. l \in AllLists
          BY DEF Loaded, AllLists, RouteLists
        <4>2. served[l] = lists[l] \/ \E d \in Editors : l \in editor[d].changed
          BY <2>1 DEF UserListInv, LoadedInv
        <4>3. QED
          BY <1>1, <1>3, <3>2, <4>1, <4>2
      <3>3. QED
        BY <3>1, <3>2
    <2>2. QED
      BY <2>1 DEF LoadedInv
  <1>6. lock' \in Editors \cup {NoEditor} /\ owed' \in BOOLEAN /\ served' = [l \in Loaded |-> served'[l]]
    BY DEF UserListInv, EditorsInv
  <1>7. \A d \in Editors : EditorOK(editor[d])'
    BY <1>1, <1>4
  <1>8. QED
    BY <1>1, <1>2, <1>3, <1>5, <1>6, <1>7 DEF UserListInv, EditorsInv

LEMMA WritesKeep ==
    ASSUME UserListInv, NEW e \in Editors, editWrites(e)
    PROVE  UserListInv'
  <1>0. /\ editor[e] \in EditorRecord /\ EditorOK(editor[e]) /\ (Holds(editor[e]) <=> lock = e)
        /\ told = [n \in Names |-> told[n]] /\ lists \in [AllLists -> SUBSET (Names \cup {AnyName})]
    BY DEF UserListInv, EditorsInv
  <1>1. PICK at, name, onward, adds : /\ at = editor[e].at /\ name = editor[e].name
                                /\ adds = Adds(e)
                                /\ onward = (editor[e].list \in RouteLists /\ Adds(e))
    OBVIOUS
  <1>2. PICK S : S = IF adds THEN editor[e].read \cup {name} ELSE editor[e].read \ {name}
    OBVIOUS
  <1>3. PICK r : r = [editor[e] EXCEPT !.pc = IF onward THEN "check" ELSE "apply",
                                       !.at = IF onward THEN Other(at) ELSE at,
                                       !.changed = Changed(e)]
    OBVIOUS
  <1>4. /\ editor[e].pc = "write" /\ lists' = [lists EXCEPT ![at] = S] /\ editor' = [editor EXCEPT ![e] = r]
        /\ UNCHANGED <<served, halfway, owed>>
        /\ IF onward THEN UNCHANGED <<lock, told>> ELSE Release(e) /\ Finished(e)
    BY <1>1, <1>2, <1>3 DEF editWrites
  <1>5. at \in AllLists /\ name \in Names \cup {AnyName} /\ S \in SUBSET (Names \cup {AnyName})
    BY <1>0, <1>1, <1>2 DEF EditorRecord
  <1>6. /\ Holds(editor[e]) <=> editor[e].list \in RouteLists
        /\ editor[e].list \in RouteLists <=> at \in RouteLists
        /\ at \in RouteLists => editor[e].read = lists[at]
    BY <1>0, <1>1, <1>4 DEF Holds, EditorOK, EditorRecord, AllLists, RouteLists
  <1>7. /\ r \in EditorRecord /\ r.pc = (IF onward THEN "check" ELSE "apply") /\ r.list = editor[e].list
        /\ r.at = (IF onward THEN Other(at) ELSE at) /\ r.name = name /\ r.verb = editor[e].verb
        /\ r.changed = editor[e].changed \cup {at}
    <2>1. Other(at) \in AllLists /\ Changed(e) = editor[e].changed \cup {at}
      BY <1>1 DEF Other, AllLists, RouteLists, Changed
    <2>2. QED
      BY <1>0, <1>1, <1>3, <1>5, <2>1 DEF EditorRecord
  <1>8. lists'[at] = S /\ \A l \in AllLists : l # at => lists'[l] = lists[l]
    BY <1>0, <1>4, <1>5
  <1>9. editor'[e] = r /\ \A d \in Editors : d # e => editor'[d] = editor[d]
    BY <1>4 DEF UserListInv, EditorsInv
  <1>10. lock' = (IF Holds(r) THEN e ELSE IF lock = e THEN NoEditor ELSE lock) /\ (Holds(r) => lock = e)
    BY <1>0, <1>1, <1>4, <1>6, <1>7 DEF Holds, Release
  <1>11. told' = [n \in Names |-> told'[n]]
    BY <1>0, <1>4 DEF Finished
  <1>12. CASE editor[e].list = "blocked"
    <2>1. ~onward /\ at = "blocked" /\ at \notin RouteLists /\ r.pc = "apply" /\ ~Tears(editor[e])
      BY <1>0, <1>1, <1>6, <1>7, <1>12 DEF EditorOK, RouteLists, Tears
    <2>2. told' = told
      BY <1>0, <1>4, <1>12, <2>1 DEF Finished, Says
    <2>3. \A l \in RouteLists : lists'[l] = lists[l]
      BY <1>8, <2>1 DEF AllLists
    <2>4. ToldInv'
      BY <1>4, <1>7, <2>1, <2>2, <2>3, NothingTold
    <2>5. EditorOK(r)'
      BY <1>7, <1>12, <2>1 DEF EditorOK, Holds, Tears, RouteLists
    <2>6. QED
      BY <1>4, <1>5, <1>7, <1>10, <1>11, <2>1, <2>4, <2>5, WriteMoves
  <1>13. CASE editor[e].list # "blocked"
    <2>1. editor[e].list \in RouteLists /\ at \in RouteLists /\ Holds(editor[e]) /\ editor[e].read = lists[at]
      BY <1>0, <1>6, <1>13 DEF EditorRecord, AllLists
    <2>2. \A n : n # name => (n \in S <=> n \in lists[at])
      BY <1>2, <2>1
    <2>3. ASSUME NEW n, n # name PROVE On(n)' = On(n)
      BY <1>8, <2>2, <2>3 DEF On, AllLists
    <2>4. ASSUME NEW n \in Names \ halfway, ~(Tears(editor[e]) /\ n = name)
          PROVE  On(n) = {told[n]} \ {"none"}
      BY <1>1, <2>1, <2>4, OneHolder DEF UserListInv, ToldInv, AsTold
    <2>5. CASE onward
      <3>1. adds /\ at = editor[e].list /\ editor[e].verb = "add" /\ told' = told /\ r.pc = "check" /\ r.at = Other(at)
        BY <1>1, <1>4, <1>7, <2>5 DEF Adds
      <3>2. Other(at) \in RouteLists /\ Other(at) # at
        BY <2>1 DEF Other, RouteLists
      <3>3. Tears(r) /\ ~Tears(editor[e]) /\ name \in lists'[at]
        BY <1>1, <1>2, <1>7, <1>8, <2>1, <3>1, <3>2 DEF Tears, Holds
      <3>4. EditorOK(r)'
        <4>1. r.pc = "check" /\ r.at # r.list /\ r.verb = "add" /\ r.list \in RouteLists /\ r.at \in RouteLists
              /\ r.name \in lists'[r.list] /\ r.changed # {}
          BY <1>7, <2>1, <3>1, <3>2, <3>3
        <4>2. QED
          BY <4>1 DEF EditorOK, RouteLists
      <3>5. ASSUME NEW n \in Names \ halfway', \A d \in Editors : Tears(editor'[d]) => n # editor'[d].name
            PROVE  AsTold(n)'
        <4>1. n # name /\ n \notin halfway
          BY <1>4, <1>7, <1>9, <3>3, <3>5
        <4>2. On(n)' = {told[n]} \ {"none"}
          BY <2>3, <2>4, <3>5, <4>1
        <4>3. QED
          BY <3>1, <4>2 DEF AsTold
      <3>6. ToldInv'
        BY <3>5 DEF ToldInv
      <3>7. QED
        BY <1>4, <1>5, <1>7, <1>10, <1>11, <2>1, <3>4, <3>6, WriteMoves
    <2>6. CASE ~onward
      <3>1. ~adds /\ r.pc = "apply" /\ r.at = at /\ told' = [n \in Names |-> Says(e, n)]
        BY <1>1, <1>4, <1>7, <2>1, <2>6 DEF Finished
      <3>2. EditorOK(r)'
        BY <1>0, <1>1, <1>7, <2>1, <3>1 DEF EditorOK, Holds, Tears
      <3>3. name \notin lists'[at]
        BY <1>2, <1>8, <3>1
      <3>4. ASSUME NEW n \in Names \ halfway
            PROVE  On(n)' = {Says(e, n)} \ {"none"}
        <4>1. CASE n # name
          BY <1>1, <2>3, <2>4, <3>4, <4>1 DEF Says
        <4>2. CASE n = name /\ at = editor[e].list
          <5>1. editor[e].verb # "add" /\ On(n) = {told[n]} \ {"none"}
            BY <1>0, <1>1, <2>4, <3>1, <4>2 DEF Adds, Tears
          <5>2. On(n)' = On(n) \ {at}
            BY <1>8, <3>3, <4>2 DEF On, AllLists
          <5>3. Says(e, n) = IF told[n] = at THEN "none" ELSE told[n]
            BY <1>1, <1>13, <4>2, <5>1 DEF Says
          <5>4. at # "none"
            BY <2>1 DEF RouteLists
          <5>5. QED
            BY <5>1, <5>2, <5>3, <5>4
        <4>3. CASE n = name /\ at # editor[e].list
          <5>1. editor[e].verb = "add" /\ n \in lists[editor[e].list]
            BY <1>0, <1>1, <2>1, <4>3 DEF EditorOK, Tears, EditorRecord
          <5>2. n \in lists'[editor[e].list] /\ n \notin lists'[at]
            BY <1>8, <2>1, <3>3, <4>3, <5>1 DEF AllLists
          <5>3. On(n)' = {editor[e].list}
            BY <2>1, <4>3, <5>2 DEF On, RouteLists
          <5>4. Says(e, n) = editor[e].list
            BY <1>1, <1>13, <4>3, <5>1 DEF Says
          <5>5. QED
            BY <2>1, <5>3, <5>4 DEF RouteLists
        <4>4. QED
          BY <4>1, <4>2, <4>3
      <3>5. ASSUME NEW n \in Names \ halfway'
            PROVE  AsTold(n)'
        BY <1>4, <3>1, <3>4, <3>5 DEF AsTold
      <3>6. ToldInv'
        BY <3>5 DEF ToldInv
      <3>7. QED
        BY <1>4, <1>5, <1>7, <1>10, <1>11, <2>1, <3>2, <3>6, WriteMoves
    <2>7. QED
      BY <1>1, <2>5, <2>6
  <1>14. QED
    BY <1>12, <1>13

LEMMA UserListInvStep == UserListInv /\ [UserListNext]_userListVars => UserListInv'
  <1> SUFFICES ASSUME UserListInv, [UserListNext]_userListVars PROVE UserListInv'
    OBVIOUS
  <1>1. CASE UNCHANGED userListVars
    BY <1>1 DEF userListVars, UserListInv, EditorsInv, EditorOK, ToldInv, AsTold, On, LoadedInv
  <1>2. QED
    BY <1>1, BeginsAndWaits, UnchangedKeeps, ReadsKeep, WritesKeep, BreaksOffKeeps, AppliesKeep
       DEF UserListNext

\* No finished edit of a route list is lost, whatever commands overlap, fail
\* or are killed: with the lock free each name is on the list last told, and
\* on no other, except names an edit failed on between the two files
\* (AddRoutes, lockRoutes, editEntries).
THEOREM EditsHold == UserListSpec => []FinishedEditsHold
  <1>1. UserListInv => FinishedEditsHold
    <2> SUFFICES ASSUME UserListInv, lock = NoEditor, NEW n \in Names \ halfway
                 PROVE  On(n) = {told[n]} \ {"none"}
      BY DEF FinishedEditsHold
    <2>1. \A e \in Editors : ~Tears(editor[e])
      BY ListConstants DEF UserListInv, EditorsInv, Tears
    <2>2. QED
      BY <2>1 DEF UserListInv, ToldInv, AsTold
  <1>2. QED
    BY <1>1, UserListInvInit, UserListInvStep, PTL DEF UserListSpec

\* With no command under way mosproxy serves the files as they are, unless a
\* command ended without the reload it owed (applyRoutes).
THEOREM FilesAreServed == UserListSpec => []ServedAsWritten
  <1>1. UserListInv => ServedAsWritten
    <2> SUFFICES ASSUME UserListInv, \A e \in Editors : editor[e].pc = "idle", ~owed
                 PROVE  served = [l \in Loaded |-> lists[l]]
      BY DEF ServedAsWritten
    <2>1. \A e \in Editors : editor[e].changed = {}
      BY DEF UserListInv, EditorsInv, EditorOK
    <2>2. \A l \in Loaded : served[l] = lists[l]
      BY <2>1 DEF UserListInv, LoadedInv
    <2>3. QED
      BY <2>2 DEF UserListInv, EditorsInv
  <1>2. QED
    BY <1>1, UserListInvInit, UserListInvStep, PTL DEF UserListSpec
-----------------------------------------------------------------------------
(***************************************************************************)
(* The local records.  A command that works alone leaves the list, the     *)
(* configuration and Unbound apart by what it has not done yet: the        *)
(* invariant says by how much at each of its steps.  While commands work   *)
(* beside one another only names that count as not told are touched.       *)
(***************************************************************************)
HostNames == Hosts \cup {AnyHost}
AnyRecords == [name : HostNames, value : Addresses]

CommandRecord ==
    [pc : {"idle", "list", "render", "conf", "checkconf", "undo", "apply", "unload", "load"},
     verb : {"add", "remove", "sync"}, name : HostNames, values : SUBSET Addresses,
     read : SUBSET AnyRecords, previous : SUBSET AnyRecords, todo : SUBSET HostNames,
     alone : BOOLEAN, tried : BOOLEAN]

Mine(r) == [name : {r.name}, value : r.values]

\* Unbound answers with rs, but for names it was not told of and some others.
Serves(rs, others) == \A h \in Hosts \ (behind \cup others) : RecordsFor(live, h) = RecordsFor(rs, h)

SameBut(rs, name) == \A h \in Hosts \ {name} : RecordsFor(rs, h) = RecordsFor(records, h)

ConfIs(rs) == stale \/ conf = rs

\* Where a command is that works alone.
Progress(r) ==
    /\ r.pc = "list" => ConfIs(records) /\ Serves(records, {})
    /\ r.pc \in {"render", "conf"} =>
         /\ r.verb = "sync" => ConfIs(records) /\ Serves(records, {})
         /\ r.verb = "add" => ConfIs(records \ Mine(r)) /\ Serves(records \ Mine(r), {})
         /\ r.verb = "remove" => (stale \/ SameBut(conf, r.name)) /\ Serves(records, {r.name})
    /\ r.pc = "conf" => r.read = records /\ r.previous = conf
    /\ r.pc = "checkconf" =>
         /\ conf = records
         /\ r.verb = "sync" => (stale \/ r.previous = records) /\ Serves(records, {})
         /\ r.verb = "add" => /\ stale \/ r.previous = records \ Mine(r)
                              /\ Serves(records, {r.name})
                              /\ r.tried \/ Serves(records \ Mine(r), {})
         /\ r.verb = "remove" => Serves(records, {r.name})
    /\ r.pc = "undo" => r.verb = "add" /\ ConfIs(records \ Mine(r)) /\ Serves(records \ Mine(r), {})
    /\ r.pc = "apply" => ~stale /\ conf = records /\ Serves(records, r.todo)
    /\ r.pc \in {"unload", "load"} => /\ ~stale /\ conf = records /\ r.read = records
                                      /\ Serves(records, r.todo \cup {r.name})
    /\ r.pc = "load" /\ r.name \notin behind => RecordsFor(live, r.name) \subseteq RecordsFor(records, r.name)

OneValue(r) ==
    /\ r.verb = "add" => \E a \in Addresses : r.values = {a}
    /\ r.pc = "undo" => r.verb = "add"

LocalTypes ==
    /\ records \subseteq AnyRecords /\ conf \subseteq AnyRecords /\ live \subseteq AnyRecords
    /\ stale \in BOOLEAN
    /\ command \in [Commands -> CommandRecord]
    /\ \A c \in Commands : OneValue(command[c])

LocalInv ==
    /\ LocalTypes
    /\ \A c, d \in Busy : command[c].alone => c = d
    /\ \A c \in Busy : ~command[c].alone => stale /\ (Untold(command[c]) \cap Hosts) \subseteq behind
    /\ \A c \in Busy : command[c].alone => Progress(command[c])
    /\ (\A c \in Busy : ~command[c].alone) => Serves(records, {})
    /\ Busy = {} => ConfIs(records)

LEMMA RunningIs ==
    ASSUME NEW p \in {"idle", "list", "render"}, NEW verb \in {"add", "remove", "sync"}, NEW name \in HostNames,
           NEW values \in SUBSET Addresses, NEW todo \in SUBSET HostNames, NEW alone \in BOOLEAN
    PROVE  /\ Running(p, verb, name, values, todo, alone) \in CommandRecord
           /\ Running(p, verb, name, values, todo, alone).pc = p
           /\ Running(p, verb, name, values, todo, alone).verb = verb
           /\ Running(p, verb, name, values, todo, alone).name = name
           /\ Running(p, verb, name, values, todo, alone).values = values
           /\ Running(p, verb, name, values, todo, alone).todo = todo
           /\ Running(p, verb, name, values, todo, alone).alone = alone
  BY DEF Running, CommandRecord

LEMMA NoCommandIs ==
    NoCommand \in CommandRecord /\ NoCommand.pc = "idle" /\ OneValue(NoCommand)
  <1>1. AnyHost \in HostNames /\ {} \in SUBSET Addresses /\ {} \in SUBSET HostNames /\ TRUE \in BOOLEAN
    BY DEF HostNames
  <1>2. PICK alone \in BOOLEAN : NoCommand = Running("idle", "sync", AnyHost, {}, {}, alone)
    BY <1>1 DEF NoCommand
  <1>3. NoCommand \in CommandRecord /\ NoCommand.pc = "idle" /\ NoCommand.verb = "sync"
    BY <1>1, <1>2, RunningIs
  <1>4. QED
    BY <1>3 DEF OneValue

LEMMA LocalInvInit == LocalInit => LocalInv
  <1> SUFFICES ASSUME LocalInit PROVE LocalInv
    OBVIOUS
  <1>1. \A c \in Commands : command[c] = NoCommand
    BY DEF LocalInit
  <1>2. records \subseteq AnyRecords /\ conf = records /\ live = records
    BY DEF LocalInit, Records, AnyRecords, HostNames
  <1>3. command \in [Commands -> CommandRecord] /\ stale = FALSE
    BY NoCommandIs DEF LocalInit
  <1>4. \A c \in Commands : OneValue(command[c]) /\ command[c].pc = "idle"
    BY <1>1, NoCommandIs
  <1>5. Serves(records, {}) /\ ConfIs(records) /\ Busy = {}
    BY <1>2, <1>4 DEF Serves, ConfIs, Busy
  <1>6. QED
    BY <1>2, <1>3, <1>4, <1>5 DEF LocalInv, LocalTypes

\* The records of other names are not a command's.
LEMMA OtherNames ==
    ASSUME NEW r, NEW h, NEW rs, h # r.name
    PROVE  /\ RecordsFor(rs \cup Mine(r), h) = RecordsFor(rs, h)
           /\ RecordsFor(rs \ Mine(r), h) = RecordsFor(rs, h)
  BY DEF RecordsFor, Mine

LEMMA WithoutMine ==
    ASSUME NEW r, Serves(records \ Mine(r), {})
    PROVE  Serves(records, {r.name})
  <1>1. \A h : h # r.name => RecordsFor(records \ Mine(r), h) = RecordsFor(records, h)
    BY OtherNames
  <1>2. QED
    BY <1>1 DEF Serves

LEMMA MineAreRecords ==
    ASSUME NEW r \in CommandRecord
    PROVE  Mine(r) \subseteq AnyRecords
  BY DEF CommandRecord, Mine, AnyRecords

\* What Unbound is not yet told of is all it lacks.
LEMMA LacksTheUntold ==
    ASSUME NEW r \in CommandRecord, r.pc # "idle", Progress(r)
    PROVE  Serves(records, Untold(r))
  <1>1. /\ r.pc \in {"list", "render", "conf", "checkconf", "undo", "apply", "unload", "load"}
        /\ r.verb \in {"add", "remove", "sync"}
    BY DEF CommandRecord
  <1>2. /\ r.verb = "sync" /\ r.pc \notin {"unload", "load"} => Untold(r) = r.todo
        /\ r.verb # "sync" \/ r.pc \in {"unload", "load"} => Untold(r) = r.todo \cup {r.name}
    BY <1>1 DEF Untold
  <1>3. Serves(records \ Mine(r), {}) => Serves(records, {r.name})
    BY WithoutMine
  <1>4. ASSUME NEW s, NEW t, s \subseteq t, Serves(records, s)
        PROVE  Serves(records, t)
    BY <1>4 DEF Serves
  <1>5. CASE Serves(records, {})
    BY <1>4, <1>5
  <1>6. CASE Serves(records, {r.name}) /\ r.verb # "sync"
    BY <1>2, <1>4, <1>6
  <1>7. CASE r.pc = "apply" /\ Serves(records, r.todo)
    BY <1>2, <1>4, <1>7
  <1>8. CASE r.pc \in {"unload", "load"} /\ Serves(records, r.todo \cup {r.name})
    BY <1>2, <1>8
  <1>9. QED
    BY <1>1, <1>3, <1>5, <1>6, <1>7, <1>8 DEF Progress

\* A command at work goes on, or stops.
LEMMA Moves ==
    ASSUME LocalInv, NEW c \in Busy, NEW r \in CommandRecord, command' = [command EXCEPT ![c] = r],
           OneValue(r), records' \subseteq AnyRecords, conf' \subseteq AnyRecords, live' \subseteq AnyRecords,
           stale' \in BOOLEAN
    PROVE  /\ LocalTypes' /\ c \in Commands /\ command[c].pc # "idle"
           /\ Busy' = IF r.pc = "idle" THEN Busy \ {c} ELSE Busy
           /\ \A d \in Busy' : command'[d] = IF d = c THEN r ELSE command[d]
           /\ \A d \in Busy' : d # c => d \in Busy
  <1>1. c \in Commands /\ command[c].pc # "idle"
    BY DEF Busy
  <1>2. command' \in [Commands -> CommandRecord] /\ \A d \in Commands : command'[d] = IF d = c THEN r ELSE command[d]
    BY <1>1 DEF LocalInv, LocalTypes
  <1>3. Busy' = {d \in Commands : command'[d].pc # "idle"}
    BY DEF Busy
  <1>4. LocalTypes'
    BY <1>2 DEF LocalInv, LocalTypes, OneValue
  <1>5. Busy' = IF r.pc = "idle" THEN Busy \ {c} ELSE Busy
    BY <1>1, <1>2, <1>3 DEF Busy
  <1>6. \A d \in Busy' : command'[d] = IF d = c THEN r ELSE command[d]
    BY <1>2, <1>3
  <1>7. QED
    BY <1>1, <1>4, <1>5, <1>6

\* One that works alone.
LEMMA AloneMoves ==
    ASSUME LocalInv, NEW c \in Busy, NEW r \in CommandRecord, command' = [command EXCEPT ![c] = r],
           OneValue(r), records' \subseteq AnyRecords, conf' \subseteq AnyRecords, live' \subseteq AnyRecords,
           stale' \in BOOLEAN, command[c].alone,
           IF r.pc = "idle" THEN (ConfIs(records) /\ Serves(records, {}))' ELSE r.alone /\ Progress(r)'
    PROVE  LocalInv'
  <1>1. /\ LocalTypes'
        /\ Busy' = IF r.pc = "idle" THEN Busy \ {c} ELSE Busy
        /\ \A d \in Busy' : command'[d] = IF d = c THEN r ELSE command[d]
    BY Moves
  <1>2. Busy = {c}
    BY DEF LocalInv
  <1>3. CASE r.pc = "idle"
    <2>1. Busy' = {}
      BY <1>1, <1>2, <1>3
    <2>2. QED
      BY <1>1, <1>3, <2>1 DEF LocalInv
  <1>4. CASE r.pc # "idle"
    <2>1. Busy' = {c} /\ command'[c] = r
      BY <1>1, <1>2, <1>4
    <2>2. Progress(command[c])'
      BY <1>4, <2>1 DEF Progress
    <2>3. QED
      BY <1>1, <1>4, <2>1, <2>2 DEF LocalInv
  <1>5. QED
    BY <1>3, <1>4

\* One that has, or had, another beside it.
LEMMA OtherwiseMoves ==
    ASSUME LocalInv, NEW c \in Busy, NEW r \in CommandRecord, command' = [command EXCEPT ![c] = r],
           OneValue(r), records' \subseteq AnyRecords, conf' \subseteq AnyRecords, live' \subseteq AnyRecords,
           ~command[c].alone, stale => stale', stale' \in BOOLEAN, (Hosts \cap behind) \subseteq behind',
           r.pc # "idle" => ~r.alone /\ (Untold(r) \cap Hosts) \subseteq behind',
           \A h \in Hosts \ behind' : /\ RecordsFor(live', h) = RecordsFor(live, h)
                                      /\ RecordsFor(records', h) = RecordsFor(records, h)
    PROVE  LocalInv'
  <1>1. /\ LocalTypes'
        /\ Busy' = IF r.pc = "idle" THEN Busy \ {c} ELSE Busy
        /\ \A d \in Busy' : command'[d] = IF d = c THEN r ELSE command[d]
        /\ \A d \in Busy' : d # c => d \in Busy
    BY Moves
  <1>2. \A d \in Busy : ~command[d].alone
    BY DEF LocalInv
  <1>3. stale /\ Serves(records, {})
    BY <1>2 DEF LocalInv
  <1>4. stale' /\ Serves(records, {})'
    BY <1>3 DEF Serves
  <1>5. ASSUME NEW d \in Busy'
        PROVE  ~command'[d].alone /\ (Untold(command'[d]) \cap Hosts) \subseteq behind'
    <2>1. CASE d = c
      BY <1>1, <1>5, <2>1
    <2>2. CASE d # c
      <3>1. d \in Busy /\ command'[d] = command[d]
        BY <1>1, <1>5, <2>2
      <3>2. ~command[d].alone /\ (Untold(command[d]) \cap Hosts) \subseteq behind
        BY <1>2, <3>1 DEF LocalInv
      <3>3. QED
        BY <3>1, <3>2
    <2>3. QED
      BY <2>1, <2>2
  <1>6. ConfIs(records)'
    BY <1>4 DEF ConfIs
  <1>7. \A d \in Commands : Untold(command[d])' = Untold(command'[d])
    BY DEF Untold
  <1>8. Busy' \subseteq Commands
    BY DEF Busy
  <1>9. QED
    BY <1>1, <1>4, <1>5, <1>6, <1>7, <1>8 DEF LocalInv

\* What a command at work may rely on.
LEMMA AtItsStep ==
    ASSUME LocalInv, NEW c \in Busy
    PROVE  /\ command[c] \in CommandRecord /\ OneValue(command[c]) /\ stale \in BOOLEAN
           /\ records \subseteq AnyRecords /\ conf \subseteq AnyRecords /\ live \subseteq AnyRecords
           /\ command[c].alone => Progress(command[c])
           /\ ~command[c].alone => stale /\ (Untold(command[c]) \cap Hosts) \subseteq behind
           /\ command[c].alone \in BOOLEAN /\ command[c].tried \in BOOLEAN
           /\ command[c].verb \in {"add", "remove", "sync"} /\ command[c].todo \in SUBSET HostNames
           /\ command[c].previous \subseteq AnyRecords /\ command[c].read \subseteq AnyRecords
           /\ command[c].name \in HostNames
  <1>1. c \in Commands
    BY DEF Busy
  <1>2. command[c] \in CommandRecord
    BY <1>1 DEF LocalInv, LocalTypes
  <1>3. QED
    BY <1>1, <1>2 DEF LocalInv, LocalTypes, CommandRecord

\* A command that stops.
LEMMA StopsKeep ==
    ASSUME LocalInv, NEW c \in Busy, Stops(c),
           records' \subseteq AnyRecords, conf' \subseteq AnyRecords, live' = live,
           stale => stale', stale' \in BOOLEAN, (Hosts \cap behind) \subseteq behind',
           command[c].alone => (ConfIs(records) /\ Serves(records, {}))',
           ~command[c].alone => \A h \in Hosts \ behind' : RecordsFor(records', h) = RecordsFor(records, h)
    PROVE  LocalInv'
  <1>1. command' = [command EXCEPT ![c] = NoCommand]
    BY DEF Stops
  <1>2. live' \subseteq AnyRecords /\ command[c].alone \in BOOLEAN
    BY AtItsStep
  <1>3. CASE command[c].alone
    BY <1>1, <1>2, <1>3, NoCommandIs, AloneMoves
  <1>4. CASE ~command[c].alone
    BY <1>1, <1>2, <1>4, NoCommandIs, OtherwiseMoves
  <1>5. QED
    BY <1>2, <1>3, <1>4

LEMMA StartsKeep ==
    ASSUME LocalInv, NEW c \in Commands,
           \/ \E h \in Hosts, a \in Addresses : Command(c, "add", h, {a})
           \/ \E h \in Hosts, as \in {Addresses} \cup {{a} : a \in Addresses} : Command(c, "remove", h, as)
           \/ Command(c, "sync", AnyHost, {})
    PROVE  LocalInv'
  <1>1. PICK verb \in {"add", "remove", "sync"}, name \in HostNames, values \in SUBSET Addresses :
          Command(c, verb, name, values) /\ (verb = "add" => \E a \in Addresses : values = {a})
    <2>1. CASE \E h \in Hosts, a \in Addresses : Command(c, "add", h, {a})
      <3>1. PICK h \in Hosts, a \in Addresses : Command(c, "add", h, {a})
        BY <2>1
      <3>2. h \in HostNames /\ {a} \in SUBSET Addresses
        BY DEF HostNames
      <3>3. QED
        BY <3>1, <3>2
    <2>2. CASE \E h \in Hosts, as \in {Addresses} \cup {{a} : a \in Addresses} : Command(c, "remove", h, as)
      <3>1. PICK h \in Hosts, as \in {Addresses} \cup {{a} : a \in Addresses} : Command(c, "remove", h, as)
        BY <2>2
      <3>2. h \in HostNames /\ as \in SUBSET Addresses
        BY DEF HostNames
      <3>3. QED
        BY <3>1, <3>2
    <2>3. CASE Command(c, "sync", AnyHost, {})
      <3>1. AnyHost \in HostNames /\ {} \in SUBSET Addresses
        BY DEF HostNames
      <3>2. QED
        BY <2>3, <3>1
    <2>4. QED
      BY <2>1, <2>2, <2>3
  <1>2. PICK todo : todo = IF verb = "sync" THEN {k.name : k \in records} ELSE {}
    OBVIOUS
  <1>3. PICK alone \in BOOLEAN : alone = (Busy = {})
    OBVIOUS
  <1>4. PICK r : r = Running(IF verb = "sync" THEN "render" ELSE "list", verb, name, values, todo, alone)
    OBVIOUS
  <1>5. /\ c \notin Busy
        /\ command' = [d \in Commands |-> IF d = c THEN r
                         ELSE IF d \in Busy THEN [command[d] EXCEPT !.alone = FALSE] ELSE command[d]]
        /\ IF Busy = {} THEN UNCHANGED <<behind, stale>>
           ELSE /\ behind' = behind \cup Untold(r) \cup UNION {Untold(command[d]) : d \in Busy}
                /\ stale' = TRUE
        /\ UNCHANGED <<records, conf, live>>
    BY <1>1, <1>2, <1>3, <1>4 DEF Command, Busy
  <1>6. /\ records \subseteq AnyRecords /\ conf \subseteq AnyRecords /\ live \subseteq AnyRecords
        /\ stale \in BOOLEAN /\ command \in [Commands -> CommandRecord]
        /\ \A d \in Commands : OneValue(command[d])
    BY DEF LocalInv, LocalTypes
  <1>7. todo \in SUBSET HostNames
    BY <1>2, <1>6 DEF AnyRecords
  <1>8. /\ r \in CommandRecord /\ r.pc = IF verb = "sync" THEN "render" ELSE "list"
        /\ r.verb = verb /\ r.values = values /\ r.alone = alone
    BY <1>4, <1>7, RunningIs
  <1>9. ASSUME NEW d \in Busy
        PROVE  /\ d \in Commands /\ command'[d] \in CommandRecord /\ command'[d].alone = FALSE
               /\ command'[d].pc = command[d].pc /\ OneValue(command'[d])
               /\ Untold(command'[d]) = Untold(command[d])
    <2>1. PICK k \in CommandRecord : k = command[d]
      BY <1>6, <1>9 DEF Busy
    <2>2. command'[d] = [k EXCEPT !.alone = FALSE] /\ d \in Commands
      BY <1>5, <1>9, <2>1 DEF Busy
    <2>3. PICK q \in CommandRecord : q = [k EXCEPT !.alone = FALSE]
      BY DEF CommandRecord
    <2>4. q.pc = k.pc /\ q.verb = k.verb /\ q.values = k.values /\ q.todo = k.todo /\ q.name = k.name /\ q.alone = FALSE
      BY <2>3 DEF CommandRecord
    <2>5. Untold(q) = Untold(k)
      BY <2>4 DEF Untold
    <2>6. OneValue(q)
      BY <1>6, <2>1, <2>2, <2>4 DEF OneValue
    <2>7. QED
      BY <2>1, <2>2, <2>3, <2>4, <2>5, <2>6
  <1>10. /\ command'[c] = r
         /\ \A d \in Commands : d # c /\ d \notin Busy => command'[d] = command[d]
    BY <1>5
  <1>11. OneValue(r)
    BY <1>1, <1>8 DEF OneValue
  <1>12. \A d \in Commands : command'[d] \in CommandRecord /\ OneValue(command'[d])
    BY <1>6, <1>8, <1>9, <1>10, <1>11
  <1>13. LocalTypes'
    <2>1. command' \in [Commands -> CommandRecord]
      BY <1>5, <1>12
    <2>2. stale' \in BOOLEAN
      BY <1>5, <1>6
    <2>3. QED
      BY <1>5, <1>6, <1>12, <2>1, <2>2 DEF LocalTypes, OneValue
  <1>14. Busy' = Busy \cup {c}
    <2>1. Busy' = {d \in Commands : command'[d].pc # "idle"}
      BY DEF Busy
    <2>2. r.pc # "idle"
      BY <1>8
    <2>3. QED
      BY <1>9, <1>10, <2>1, <2>2 DEF Busy
  <1>15. CASE Busy = {}
    <2>1. Busy' = {c} /\ r.alone /\ stale' = stale /\ behind' = behind
      BY <1>3, <1>5, <1>8, <1>14, <1>15
    <2>2. ConfIs(records) /\ Serves(records, {})
      BY <1>15 DEF LocalInv
    <2>3. (ConfIs(records) /\ Serves(records, {}))'
      BY <1>5, <2>1, <2>2 DEF ConfIs, Serves
    <2>4. Progress(r)'
      BY <1>8, <2>3 DEF Progress
    <2>5. Progress(command[c])'
      BY <1>10, <2>4 DEF Progress
    <2>6. QED
      BY <1>10, <1>13, <2>1, <2>5 DEF LocalInv
  <1>16. CASE Busy # {}
    <2>1. \A d \in Busy : Untold(command[d]) \subseteq behind'
      BY <1>5, <1>16
    <2>2. Untold(r) \subseteq behind' /\ (Hosts \cap behind) \subseteq behind' /\ stale' = TRUE
      BY <1>5, <1>16
    <2>3. Serves(records, {})'
      <3>1. CASE \A d \in Busy : ~command[d].alone
        BY <1>5, <2>2, <3>1 DEF LocalInv, Serves
      <3>2. CASE \E d \in Busy : command[d].alone
        <4>1. PICK d \in Busy : command[d].alone
          BY <3>2
        <4>2. Progress(command[d]) /\ command[d] \in CommandRecord /\ command[d].pc # "idle"
          BY <1>6, <4>1 DEF LocalInv, Busy
        <4>3. Serves(records, Untold(command[d]))
          BY <4>2, LacksTheUntold
        <4>4. QED
          BY <1>5, <2>1, <2>2, <4>1, <4>3 DEF Serves
      <3>3. QED
        BY <3>1, <3>2
    <2>4. \A d \in Busy' : ~command'[d].alone /\ Untold(command'[d]) \subseteq behind'
      BY <1>3, <1>8, <1>9, <1>10, <1>14, <1>16, <2>1, <2>2
    <2>5. \A d \in Commands : Untold(command[d])' = Untold(command'[d])
      BY DEF Untold
    <2>6. Busy' \subseteq Commands /\ Busy' # {}
      BY <1>14 DEF Busy
    <2>7. QED
      BY <1>13, <2>2, <2>3, <2>4, <2>5, <2>6 DEF LocalInv
  <1>17. QED
    BY <1>15, <1>16

\* A command that goes on.
LEMMA StepKeeps ==
    ASSUME LocalInv, NEW c \in Busy,
           NEW r \in CommandRecord, command' = [command EXCEPT ![c] = r], r.pc # "idle",
           r.pc = "undo" => r.verb = "add", r.verb = command[c].verb, r.values = command[c].values, r.alone = command[c].alone,
           records' \subseteq AnyRecords, conf' \subseteq AnyRecords, live' \subseteq AnyRecords,
           (Hosts \cap behind) \subseteq behind', stale' \in BOOLEAN,
           command[c].alone => Progress(r)',
           ~command[c].alone =>
              /\ stale => stale'
              /\ Untold(r) \subseteq Untold(command[c])
              /\ \A h \in Hosts \ behind' : /\ RecordsFor(live', h) = RecordsFor(live, h)
                                            /\ RecordsFor(records', h) = RecordsFor(records, h)
    PROVE  LocalInv'
  <1>1. OneValue(r) /\ command[c].alone \in BOOLEAN
    BY AtItsStep DEF OneValue
  <1>2. CASE command[c].alone
    BY <1>1, <1>2, AloneMoves
  <1>3. CASE ~command[c].alone
    <2>1. (Untold(r) \cap Hosts) \subseteq behind'
      BY <1>3, AtItsStep
    <2>2. QED
      BY <1>1, <1>3, <2>1, OtherwiseMoves
  <1>4. QED
    BY <1>1, <1>2, <1>3

\* What a command is that has changed its place only.
LEMMA UntoldIs ==
    ASSUME NEW r \in CommandRecord, r.pc # "idle"
    PROVE  Untold(r) = IF r.verb = "sync" /\ r.pc \notin {"unload", "load"} THEN r.todo ELSE r.todo \cup {r.name}
  BY DEF Untold, CommandRecord

LEMMA ListStepsKeep ==
    ASSUME LocalInv, NEW c \in Commands,
           Shadowing(c) \/ AddLocalRecord(c) \/ RemoveLocalRecords(c) \/ listFails(c)
    PROVE  LocalInv'
  <1>1. PICK k : k = command[c]
    OBVIOUS
  <1>2. k.pc = "list" /\ UNCHANGED <<conf, live, behind, stale>>
    BY <1>1 DEF Shadowing, AddLocalRecord, RemoveLocalRecords, listFails
  <1>3. c \in Busy
    BY <1>1, <1>2 DEF Busy
  <1>4. /\ k \in CommandRecord /\ OneValue(k) /\ stale \in BOOLEAN /\ k.alone \in BOOLEAN
        /\ records \subseteq AnyRecords /\ conf \subseteq AnyRecords /\ live \subseteq AnyRecords
        /\ k.alone => ConfIs(records) /\ Serves(records, {})
        /\ ~k.alone => (Untold(k) \cap Hosts) \subseteq behind
    BY <1>1, <1>2, <1>3, AtItsStep DEF Progress
  <1>5. ASSUME Stops(c), records' = records
        PROVE  LocalInv'
    <2>1. k.alone => (ConfIs(records) /\ Serves(records, {}))'
      BY <1>2, <1>4, <1>5 DEF Serves, ConfIs
    <2>2. QED
      BY <1>1, <1>2, <1>3, <1>4, <1>5, <2>1, StopsKeep
  <1>6. CASE Shadowing(c) \/ listFails(c)
    BY <1>5, <1>6 DEF Shadowing, listFails
  <1>7. Meant(c) = Mine(k)
    BY <1>1 DEF Meant, Mine
  <1>8. PICK r : r = [k EXCEPT !.pc = "render"]
    OBVIOUS
  <1>9. /\ r \in CommandRecord /\ r.pc = "render" /\ r.verb = k.verb /\ r.name = k.name /\ r.values = k.values
        /\ r.alone = k.alone /\ r.todo = k.todo /\ Mine(r) = Mine(k)
    BY <1>4, <1>8 DEF CommandRecord, Mine
  <1>10. Untold(r) = Untold(k)
    BY <1>2, <1>4, <1>9, UntoldIs
  <1>11. ASSUME command' = [command EXCEPT ![c] = r], records' \subseteq AnyRecords, k.verb # "sync",
                \A h : h # k.name => RecordsFor(records', h) = RecordsFor(records, h),
                k.alone => Progress(r)'
         PROVE  LocalInv'
    <2>1. k.name \in Untold(k)
      BY <1>2, <1>4, <1>11, UntoldIs
    <2>2. ~k.alone => \A h \in Hosts \ behind' : RecordsFor(records', h) = RecordsFor(records, h)
      BY <1>2, <1>4, <1>11, <2>1
    <2>3. QED
      BY <1>1, <1>2, <1>3, <1>4, <1>9, <1>10, <1>11, <2>2, StepKeeps
  <1>12. CASE AddLocalRecord(c)
    <2>1. k.verb = "add" /\ records' = records \cup Mine(k)
      BY <1>1, <1>7, <1>12 DEF AddLocalRecord
    <2>2. CASE Mine(k) \subseteq records
      BY <1>5, <1>7, <1>12, <2>1, <2>2 DEF AddLocalRecord, Stops
    <2>3. CASE ~(Mine(k) \subseteq records)
      <3>1. command' = [command EXCEPT ![c] = r]
        BY <1>1, <1>7, <1>8, <1>12, <2>3 DEF AddLocalRecord
      <3>2. Mine(k) \cap records = {}
        BY <1>4, <2>1, <2>3 DEF OneValue, Mine
      <3>3. records' \ Mine(r) = records
        BY <1>9, <2>1, <3>2
      <3>4. k.alone => Progress(r)'
        <4>1. k.alone => (ConfIs(records \ Mine(r)) /\ Serves(records \ Mine(r), {}))'
          BY <1>2, <1>4, <3>3 DEF Serves, ConfIs
        <4>2. QED
          BY <1>9, <2>1, <4>1 DEF Progress
      <3>5. records' \subseteq AnyRecords
        BY <1>4, <2>1, MineAreRecords
      <3>6. \A h : h # k.name => RecordsFor(records', h) = RecordsFor(records, h)
        BY <2>1, OtherNames
      <3>7. QED
        BY <1>11, <2>1, <3>1, <3>4, <3>5, <3>6
    <2>4. QED
      BY <2>2, <2>3
  <1>13. CASE RemoveLocalRecords(c)
    <2>1. k.verb = "remove" /\ records' = records \ Mine(k)
      BY <1>1, <1>7, <1>13 DEF RemoveLocalRecords
    <2>2. CASE Mine(k) \cap records = {}
      BY <1>5, <1>7, <1>13, <2>1, <2>2 DEF RemoveLocalRecords, Stops
    <2>3. CASE Mine(k) \cap records # {}
      <3>1. command' = [command EXCEPT ![c] = r]
        BY <1>1, <1>7, <1>8, <1>13, <2>3 DEF RemoveLocalRecords
      <3>2. \A h : h # k.name => RecordsFor(records', h) = RecordsFor(records, h)
        BY <2>1, OtherNames
      <3>3. k.alone => (stale' \/ SameBut(conf, r.name)') /\ Serves(records, {r.name})'
        <4> SUFFICES ASSUME k.alone PROVE (stale' \/ SameBut(conf, r.name)') /\ Serves(records, {r.name})'
          OBVIOUS
        <4>1. /\ stale' = stale /\ conf' = conf /\ live' = live /\ behind' = behind
              /\ stale \/ conf = records
              /\ Serves(records, {})
          BY <1>2, <1>4 DEF ConfIs
        <4>2. stale' \/ SameBut(conf, r.name)'
          BY <1>9, <3>2, <4>1 DEF SameBut
        <4>3. Serves(records, {r.name})'
          BY <1>9, <3>2, <4>1 DEF Serves
        <4>4. QED
          BY <4>2, <4>3
      <3>4. k.alone => Progress(r)'
        BY <1>9, <2>1, <3>3 DEF Progress
      <3>5. records' \subseteq AnyRecords
        BY <1>4, <2>1
      <3>6. QED
        BY <1>11, <2>1, <3>1, <3>2, <3>4, <3>5
    <2>4. QED
      BY <2>2, <2>3
  <1>14. QED
    BY <1>6, <1>12, <1>13

\* A command of which the old configuration stays, or is put back, gives up.
LEMMA GivesUpKeeps ==
    ASSUME LocalInv, NEW c \in Busy, NEW k, k = command[c], k.pc \in {"render", "conf", "checkconf"}, GivesUp(c),
           records' = records, live' = live, conf' \subseteq AnyRecords, stale' \in BOOLEAN, stale => stale',
           (Hosts \cap (behind \cup LeftBehind(c))) \subseteq behind',
           k.alone =>
              /\ k.verb = "sync" => ConfIs(records)' /\ Serves(records, {})'
              /\ k.verb = "add" => ConfIs(records \ Mine(k))'
                                  /\ Serves(records \ Mine(k), {})'
              /\ k.verb = "remove" => stale' /\ Serves(records, {k.name})
    PROVE  LocalInv'
  <1>1. k = command[c]
    OBVIOUS
  <1>2. /\ k \in CommandRecord /\ OneValue(k) /\ k.alone \in BOOLEAN /\ k.verb \in {"add", "remove", "sync"}
        /\ records \subseteq AnyRecords /\ live \subseteq AnyRecords
    BY <1>1, AtItsStep
  <1>3. CASE k.verb = "add"
    <2>1. PICK r : r = [k EXCEPT !.pc = "undo"]
      OBVIOUS
    <2>2. command' = [command EXCEPT ![c] = r]
      BY <1>1, <1>3, <2>1 DEF GivesUp
    <2>3. /\ r \in CommandRecord /\ r.pc = "undo" /\ r.verb = k.verb /\ r.values = k.values /\ r.name = k.name
          /\ r.alone = k.alone /\ r.todo = k.todo /\ Mine(r) = Mine(k)
      BY <1>2, <2>1 DEF CommandRecord, Mine
    <2>4. k.alone => Progress(r)'
      BY <1>1, <1>3, <2>3 DEF Progress
    <2>5. Untold(r) = Untold(k)
      BY <1>1, <1>2, <1>3, <2>3, UntoldIs
    <2>6. /\ records' \subseteq AnyRecords /\ live' \subseteq AnyRecords /\ (Hosts \cap behind) \subseteq behind'
          /\ \A h \in Hosts \ behind' : /\ RecordsFor(live', h) = RecordsFor(live, h)
                                        /\ RecordsFor(records', h) = RecordsFor(records, h)
      BY <1>2
    <2>7. QED
      BY <1>1, <1>3, <2>2, <2>3, <2>4, <2>5, <2>6, StepKeeps
  <1>4. CASE k.verb # "add"
    <2>1. Stops(c)
      BY <1>1, <1>4 DEF GivesUp
    <2>2. k.alone => (ConfIs(records) /\ Serves(records, {}))'
      <3>1. CASE k.verb = "sync"
        BY <1>1, <3>1
      <3>2. CASE k.verb = "remove"
        BY <1>1, <3>2 DEF LeftBehind, Serves, ConfIs
      <3>3. QED
        BY <1>2, <1>4, <3>1, <3>2
    <2>3. QED
      BY <1>1, <1>2, <2>1, <2>2, StopsKeep
  <1>5. QED
    BY <1>3, <1>4

LEMMA ConfStepsKeep ==
    ASSUME LocalInv, NEW c \in Commands,
           \/ RenderUnboundLocal(c) \/ writeConf(c) \/ writeConfFails(c) \/ checkconfPasses(c)
           \/ checkconfRefuses(c) \/ undo(c) \/ undoFails(c)
    PROVE  LocalInv'
  <1>1. PICK k : k = command[c]
    OBVIOUS
  <1>2. k.pc \in {"render", "conf", "checkconf", "undo"} /\ live' = live
    BY <1>1 DEF RenderUnboundLocal, writeConf, writeConfFails, checkconfPasses, checkconfRefuses, undo, undoFails
  <1>3. c \in Busy
    BY <1>1, <1>2 DEF Busy
  <1>4. /\ k \in CommandRecord /\ OneValue(k) /\ stale \in BOOLEAN /\ k.alone \in BOOLEAN
        /\ records \subseteq AnyRecords /\ conf \subseteq AnyRecords /\ live \subseteq AnyRecords
        /\ k.verb \in {"add", "remove", "sync"} /\ k.previous \subseteq AnyRecords /\ k.read \subseteq AnyRecords
        /\ k.alone => Progress(k)
        /\ ~k.alone => stale /\ (Untold(k) \cap Hosts) \subseteq behind
    BY <1>1, <1>3, AtItsStep
  <1>5. ASSUME NEW r \in CommandRecord, command' = [command EXCEPT ![c] = r],
               r.pc \notin {"idle", "undo"},
               r.verb = k.verb, r.values = k.values, r.alone = k.alone, Untold(r) \subseteq Untold(k),
               records' = records, conf' \subseteq AnyRecords, behind' = behind, stale' \in BOOLEAN,
               ~k.alone /\ stale => stale', k.alone => Progress(r)'
        PROVE  LocalInv'
    BY <1>1, <1>2, <1>3, <1>4, <1>5, StepKeeps
  <1>6. CASE RenderUnboundLocal(c)
    <2>1. PICK r : r = [k EXCEPT !.pc = "conf", !.read = records, !.previous = conf]
      OBVIOUS
    <2>2. k.pc = "render" /\ command' = [command EXCEPT ![c] = r] /\ UNCHANGED <<records, conf, behind, stale>>
      BY <1>1, <1>6, <2>1 DEF RenderUnboundLocal
    <2>3. /\ r \in CommandRecord /\ r.pc = "conf" /\ r.verb = k.verb /\ r.name = k.name /\ r.values = k.values
          /\ r.read = records /\ r.previous = conf /\ Mine(r) = Mine(k) /\ r.alone = k.alone /\ r.todo = k.todo
      BY <1>4, <2>1 DEF CommandRecord, Mine
    <2>4. ASSUME k.alone
          PROVE  Progress(r)'
      <3>1. /\ r.verb = "sync" => ConfIs(records)' /\ Serves(records, {})'
            /\ r.verb = "add" => ConfIs(records \ Mine(r))' /\ Serves(records \ Mine(r), {})'
        BY <1>2, <1>4, <2>2, <2>3, <2>4 DEF Progress, Serves, ConfIs
      <3>2. r.verb = "remove" => (stale' \/ SameBut(conf, r.name)') /\ Serves(records, {r.name})'
        BY <1>2, <1>4, <2>2, <2>3, <2>4 DEF Progress, Serves, SameBut
      <3>3. r.read = records' /\ r.previous = conf'
        BY <2>2, <2>3
      <3>4. QED
        BY <2>3, <3>1, <3>2, <3>3 DEF Progress
    <2>5. Untold(r) = Untold(k)
      BY <1>4, <2>2, <2>3, UntoldIs
    <2>6. conf' \subseteq AnyRecords /\ stale' \in BOOLEAN /\ (~k.alone /\ stale => stale')
      BY <1>4, <2>2
    <2>7. QED
      BY <1>5, <2>2, <2>3, <2>4, <2>5, <2>6
  <1>7. CASE writeConf(c)
    <2>1. PICK r : r = [k EXCEPT !.pc = "checkconf"]
      OBVIOUS
    <2>2. /\ k.pc = "conf" /\ command' = [command EXCEPT ![c] = r] /\ conf' = k.read
          /\ UNCHANGED <<records, behind, stale>>
      BY <1>1, <1>7, <2>1 DEF writeConf
    <2>3. /\ r \in CommandRecord /\ r.pc = "checkconf" /\ r.verb = k.verb /\ r.name = k.name /\ r.values = k.values
          /\ r.previous = k.previous /\ Mine(r) = Mine(k) /\ r.alone = k.alone /\ r.todo = k.todo
      BY <1>4, <2>1 DEF CommandRecord, Mine
    <2>4. k.alone => Progress(r)'
      <3> SUFFICES ASSUME k.alone PROVE Progress(r)'
        OBVIOUS
      <3>1. conf' = records' /\ r.previous = conf
        BY <1>4, <2>2, <2>3 DEF Progress
      <3>2. CASE r.verb = "sync"
        BY <1>2, <1>4, <2>2, <2>3, <3>1, <3>2 DEF Progress, Serves, ConfIs
      <3>3. CASE r.verb = "remove"
        BY <1>2, <1>4, <2>2, <2>3, <3>1, <3>3 DEF Progress, Serves
      <3>4. CASE r.verb = "add"
        <4>1. ConfIs(records \ Mine(k)) /\ Serves(records \ Mine(k), {})
          BY <1>4, <2>2, <2>3, <3>4 DEF Progress
        <4>2. Serves(records, {k.name})
          BY <4>1, WithoutMine
        <4>3. QED
          BY <1>2, <2>2, <2>3, <3>1, <3>4, <4>1, <4>2 DEF Progress, Serves, ConfIs
      <3>5. QED
        BY <1>4, <2>3, <3>2, <3>3, <3>4
    <2>5. Untold(r) = Untold(k)
      BY <1>4, <2>2, <2>3, UntoldIs
    <2>6. QED
      BY <1>4, <1>5, <2>2, <2>3, <2>4, <2>5
  <1>8. CASE writeConfFails(c)
    <2>1. /\ k.pc \in {"render", "conf"} /\ UNCHANGED <<records, conf>> /\ GivesUp(c)
          /\ behind' = behind \cup LeftBehind(c) /\ stale' = (stale \/ k.verb = "remove")
      BY <1>1, <1>8 DEF writeConfFails
    <2>2. stale' \in BOOLEAN /\ (stale => stale') /\ (Hosts \cap behind) \subseteq behind' /\ (k.verb = "remove" => stale')
      BY <1>4, <2>1
    <2>3. k.alone =>
            /\ k.verb = "sync" => ConfIs(records)' /\ Serves(records, {})'
            /\ k.verb = "add" => ConfIs(records \ Mine(k))' /\ Serves(records \ Mine(k), {})'
            /\ k.verb = "remove" => stale' /\ Serves(records, {k.name})
      BY <1>2, <1>4, <2>1, <2>2 DEF Progress, Serves, ConfIs
    <2>4. (Hosts \cap (behind \cup LeftBehind(c))) \subseteq behind' /\ conf' \subseteq AnyRecords
      BY <1>4, <2>1
    <2>5. k.alone => (k.verb = "remove" => stale' /\ Serves(records, {k.name}))
      BY <2>3
    <2>6. command[c].pc \in {"render", "conf", "checkconf"} /\ records' = records
      BY <1>1, <2>1
    <2>7. QED
      BY <1>1, <1>2, <1>3, <2>1, <2>2, <2>3, <2>4, <2>6, GivesUpKeeps
  <1>9. CASE checkconfPasses(c)
    <2>1. PICK todo : todo = IF k.verb = "sync" THEN k.todo ELSE {k.name}
      OBVIOUS
    <2>2. PICK r : r = [k EXCEPT !.pc = "apply", !.todo = todo]
      OBVIOUS
    <2>3. /\ k.pc = "checkconf" /\ command' = [command EXCEPT ![c] = r] /\ UNCHANGED <<records, conf, behind>>
          /\ stale' = (stale /\ ~k.alone)
      BY <1>1, <1>9, <2>1, <2>2 DEF checkconfPasses
    <2>4. /\ r \in CommandRecord /\ r.pc = "apply" /\ r.verb = k.verb /\ r.values = k.values /\ r.todo = todo
          /\ r.alone = k.alone /\ r.name = k.name
      BY <1>4, <2>1, <2>2 DEF CommandRecord
    <2>5. ASSUME k.alone
          PROVE  ~stale' /\ conf = records /\ Serves(records, todo)
      <3>1. conf = records /\ ~stale'
        BY <1>4, <2>3, <2>5 DEF Progress
      <3>2. CASE k.verb = "sync"
        BY <1>4, <2>3, <2>5, <3>1, <3>2 DEF Progress, Serves
      <3>3. CASE k.verb # "sync"
        BY <1>4, <2>1, <2>3, <2>5, <3>1, <3>3 DEF Progress
      <3>4. QED
        BY <3>2, <3>3
    <2>6. k.alone => Progress(r)'
      BY <1>2, <2>3, <2>4, <2>5 DEF Progress, Serves
    <2>7. Untold(r) \subseteq Untold(k)
      BY <1>4, <2>1, <2>3, <2>4, UntoldIs
    <2>8. stale' \in BOOLEAN /\ (~k.alone /\ stale => stale')
      BY <1>4, <2>3
    <2>9. QED
      BY <1>4, <1>5, <2>3, <2>4, <2>6, <2>7, <2>8
  <1>10. CASE checkconfRefuses(c)
    <2>1. /\ k.pc = "checkconf" /\ GivesUp(c) /\ records' = records
          /\ \/ conf' = k.previous /\ stale' = (stale \/ k.verb = "remove")
             \/ conf' \in {conf, {}} /\ stale' = TRUE
          /\ behind' = IF k.tried THEN Hosts ELSE behind \cup LeftBehind(c)
      BY <1>1, <1>10 DEF checkconfRefuses, putBack
    <2>2. stale' \in BOOLEAN /\ (stale => stale') /\ conf' \subseteq AnyRecords /\ (k.verb = "remove" => stale')
      BY <1>4, <2>1
    <2>3. (Hosts \cap (behind \cup LeftBehind(c))) \subseteq behind'
      BY <2>1
    <2>4. k.alone =>
            /\ k.verb = "sync" => ConfIs(records)' /\ Serves(records, {})'
            /\ k.verb = "add" => ConfIs(records \ Mine(k))' /\ Serves(records \ Mine(k), {})'
            /\ k.verb = "remove" => stale' /\ Serves(records, {k.name})
      <3> SUFFICES ASSUME k.alone
                   PROVE  /\ k.verb = "sync" => ConfIs(records)' /\ Serves(records, {})'
                          /\ k.verb = "add" => ConfIs(records \ Mine(k))' /\ Serves(records \ Mine(k), {})'
                          /\ k.verb = "remove" => stale' /\ Serves(records, {k.name})
        OBVIOUS
      <3>1. CASE k.verb = "sync"
        <4>1. (stale \/ k.previous = records) /\ Serves(records, {})
          BY <1>4, <2>1, <3>1 DEF Progress
        <4>2. ConfIs(records)'
          BY <2>1, <2>2, <4>1 DEF ConfIs
        <4>3. Serves(records, {})'
          BY <1>2, <2>1, <2>3, <4>1 DEF Serves
        <4>4. QED
          BY <3>1, <4>2, <4>3
      <3>2. CASE k.verb = "add"
        <4>1. (stale \/ k.previous = records \ Mine(k)) /\ (k.tried \/ Serves(records \ Mine(k), {}))
          BY <1>4, <2>1, <3>2 DEF Progress
        <4>2. ConfIs(records \ Mine(k))'
          BY <2>1, <2>2, <4>1 DEF ConfIs
        <4>3. Serves(records \ Mine(k), {})'
          BY <1>2, <2>1, <2>3, <4>1 DEF Serves
        <4>4. QED
          BY <3>2, <4>2, <4>3
      <3>3. CASE k.verb = "remove"
        BY <1>4, <2>1, <2>2, <3>3 DEF Progress
      <3>4. QED
        BY <1>4, <3>1, <3>2, <3>3
    <2>5. QED
      BY <1>1, <1>2, <1>3, <2>1, <2>2, <2>3, <2>4, GivesUpKeeps
  <1>11. CASE undo(c)
    <2>1. k.pc = "undo" /\ records' = records \ Mine(k) /\ Stops(c) /\ UNCHANGED <<conf, behind, stale>>
      BY <1>1, <1>11 DEF undo, Meant, Mine
    <2>2. k.alone => (ConfIs(records) /\ Serves(records, {}))'
      BY <1>2, <1>4, <2>1 DEF Progress, Serves, ConfIs
    <2>3. ~k.alone => \A h \in Hosts \ behind' : RecordsFor(records', h) = RecordsFor(records, h)
      <3> SUFFICES ASSUME ~k.alone, NEW h \in Hosts \ behind' PROVE RecordsFor(records', h) = RecordsFor(records, h)
        OBVIOUS
      <3>1. k.verb = "add"
        BY <1>4, <2>1 DEF OneValue
      <3>2. k.name \in Untold(k)
        BY <1>4, <2>1, <3>1, UntoldIs
      <3>3. h # k.name
        BY <1>4, <2>1, <3>2
      <3>4. QED
        BY <2>1, <3>3, OtherNames
    <2>4. QED
      BY <1>1, <1>2, <1>3, <1>4, <2>1, <2>2, <2>3, StopsKeep
  <1>12. CASE undoFails(c)
    <2>1. /\ k.pc = "undo" /\ Stops(c) /\ UNCHANGED <<conf, records>> /\ behind' = behind \cup {k.name} /\ stale' = TRUE
      BY <1>1, <1>12 DEF undoFails
    <2>2. ASSUME k.alone
          PROVE  (ConfIs(records) /\ Serves(records, {}))'
      <3>1. Serves(records \ Mine(k), {})
        BY <1>4, <2>1, <2>2 DEF Progress
      <3>2. Serves(records, {k.name})
        BY <3>1, WithoutMine
      <3>3. QED
        BY <1>2, <2>1, <3>2 DEF Serves, ConfIs
    <2>3. QED
      BY <1>1, <1>2, <1>3, <1>4, <2>1, <2>2, StopsKeep
  <1>13. QED
    BY <1>6, <1>7, <1>8, <1>9, <1>10, <1>11, <1>12

\* A name is handed to Unbound: its records are taken out and put in anew.
LEMMA ApplyStepsKeep ==
    ASSUME LocalInv, NEW c \in Commands,
           applyName(c) \/ local_data_remove(c) \/ handOver(c) \/ commandEnds(c)
    PROVE  LocalInv'
  <1>1. PICK k : k = command[c]
    OBVIOUS
  <1>2. k.pc \in {"apply", "unload", "load"} /\ UNCHANGED <<records, conf, stale>>
    <2>1. CASE applyName(c)
      BY <1>1, <2>1 DEF applyName
    <2>2. CASE local_data_remove(c)
      BY <1>1, <2>2 DEF local_data_remove
    <2>3. CASE handOver(c)
      BY <1>1, <2>3 DEF handOver
    <2>4. CASE commandEnds(c)
      BY <1>1, <2>4 DEF commandEnds
    <2>5. QED
      BY <2>1, <2>2, <2>3, <2>4
  <1>3. c \in Busy
    BY <1>1, <1>2 DEF Busy
  <1>4. /\ k \in CommandRecord /\ OneValue(k) /\ stale \in BOOLEAN /\ k.alone \in BOOLEAN
        /\ records \subseteq AnyRecords /\ conf \subseteq AnyRecords /\ live \subseteq AnyRecords
        /\ k.read \subseteq AnyRecords /\ k.todo \in SUBSET HostNames
        /\ k.alone => Progress(k)
        /\ ~k.alone => (Untold(k) \cap Hosts) \subseteq behind
    BY <1>1, <1>3, AtItsStep
  <1>5. ASSUME NEW r \in CommandRecord, command' = [command EXCEPT ![c] = r], r.pc \in {"apply", "unload", "load"},
               r.verb = k.verb, r.values = k.values, r.alone = k.alone, live' \subseteq AnyRecords,
               (Hosts \cap behind) \subseteq behind', k.alone => Progress(r)', Untold(r) \subseteq Untold(k),
               \A h \in Hosts \ Untold(k) : RecordsFor(live', h) = RecordsFor(live, h)
        PROVE  LocalInv'
    <2>1. ~k.alone => \A h \in Hosts \ behind' : RecordsFor(live', h) = RecordsFor(live, h)
      BY <1>4, <1>5
    <2>2. QED
      BY <1>1, <1>2, <1>3, <1>4, <1>5, <2>1, StepKeeps
  <1>6. CASE applyName(c)
    <2>1. k.pc = "apply" /\ live' = live
      BY <1>1, <1>6 DEF applyName
    <2>2. PICK n \in k.todo :
            \/ /\ command' = [command EXCEPT ![c] = [k EXCEPT !.pc = "unload", !.name = n, !.read = records,
                                                     !.todo = k.todo \ {n}]]
               /\ behind' = behind
            \/ /\ command' = [command EXCEPT ![c] = [k EXCEPT !.todo = k.todo \ {n}]]
               /\ behind' = behind \cup {n}
      BY <1>1, <1>6 DEF applyName
    <2>3. CASE /\ command' = [command EXCEPT ![c] = [k EXCEPT !.pc = "unload", !.name = n, !.read = records,
                                                      !.todo = k.todo \ {n}]]
               /\ behind' = behind
      <3>1. PICK r : r = [k EXCEPT !.pc = "unload", !.name = n, !.read = records, !.todo = k.todo \ {n}]
        OBVIOUS
      <3>2. /\ r \in CommandRecord /\ r.pc = "unload" /\ r.verb = k.verb /\ r.values = k.values /\ r.name = n
            /\ r.read = records /\ r.todo = k.todo \ {n} /\ r.alone = k.alone
        BY <1>4, <2>2, <3>1 DEF CommandRecord
      <3>3. k.alone => Progress(r)'
        BY <1>2, <1>4, <2>1, <2>3, <3>2 DEF Progress, Serves
      <3>4. Untold(r) \subseteq Untold(k)
        BY <1>4, <2>1, <2>2, <3>2, UntoldIs
      <3>5. QED
        BY <1>4, <1>5, <2>1, <2>3, <3>1, <3>2, <3>3, <3>4
    <2>4. CASE command' = [command EXCEPT ![c] = [k EXCEPT !.todo = k.todo \ {n}]] /\ behind' = behind \cup {n}
      <3>1. PICK r : r = [k EXCEPT !.todo = k.todo \ {n}]
        OBVIOUS
      <3>2. /\ r \in CommandRecord /\ r.pc = "apply" /\ r.verb = k.verb /\ r.values = k.values
            /\ r.todo = k.todo \ {n} /\ r.alone = k.alone /\ r.name = k.name
        BY <1>4, <2>1, <3>1 DEF CommandRecord
      <3>3. k.alone => Progress(r)'
        BY <1>2, <1>4, <2>1, <2>4, <3>2 DEF Progress, Serves
      <3>4. Untold(r) \subseteq Untold(k)
        BY <1>4, <2>1, <3>2, UntoldIs
      <3>5. QED
        BY <1>4, <1>5, <2>1, <2>4, <3>1, <3>2, <3>3, <3>4
    <2>5. QED
      BY <2>2, <2>3, <2>4
  <1>7. CASE local_data_remove(c)
    <2>1. PICK r : r = [k EXCEPT !.pc = "load"]
      OBVIOUS
    <2>2. /\ k.pc = "unload" /\ command' = [command EXCEPT ![c] = r]
          /\ \/ live' = live \ RecordsFor(live, k.name) /\ behind' = behind
             \/ live' = live /\ behind' = behind \cup {k.name}
      BY <1>1, <1>7, <2>1 DEF local_data_remove
    <2>3. /\ r \in CommandRecord /\ r.pc = "load" /\ r.verb = k.verb /\ r.values = k.values /\ r.name = k.name
          /\ r.read = k.read /\ r.todo = k.todo /\ r.alone = k.alone
      BY <1>4, <2>1 DEF CommandRecord
    <2>4. /\ \A h : h # k.name => RecordsFor(live', h) = RecordsFor(live, h)
          /\ k.name \notin behind' => RecordsFor(live', k.name) = {}
          /\ (Hosts \cap behind) \subseteq behind'
      BY <2>2 DEF RecordsFor
    <2>5. k.alone => Progress(r)'
      BY <1>2, <1>4, <2>2, <2>3, <2>4 DEF Progress, Serves
    <2>6. Untold(r) = Untold(k) /\ k.name \in Untold(k)
      BY <1>4, <2>2, <2>3, UntoldIs
    <2>7. QED
      BY <1>4, <1>5, <2>2, <2>3, <2>4, <2>5, <2>6
  <1>8. CASE handOver(c)
    <2>1. PICK r : r = [k EXCEPT !.pc = "apply"]
      OBVIOUS
    <2>2. PICK some \in SUBSET RecordsFor(k.read, k.name) :
            /\ k.pc = "load" /\ command' = [command EXCEPT ![c] = r] /\ live' = live \cup some
            /\ \/ some = RecordsFor(k.read, k.name) /\ behind' = behind
               \/ behind' = behind \cup {k.name}
      <3>1. k.pc = "load" /\ command' = [command EXCEPT ![c] = r] /\ local_data(c) = RecordsFor(k.read, k.name)
        BY <1>1, <1>8, <2>1 DEF handOver, local_data
      <3>2. \/ live' = live \cup local_data(c) /\ behind' = behind
            \/ (\E some \in SUBSET local_data(c) : live' = live \cup some) /\ behind' = behind \cup {k.name}
        BY <1>1, <1>8 DEF handOver
      <3>3. QED
        BY <3>1, <3>2
    <2>3. /\ r \in CommandRecord /\ r.pc = "apply" /\ r.verb = k.verb /\ r.values = k.values
          /\ r.todo = k.todo /\ r.alone = k.alone /\ r.name = k.name
      BY <1>4, <2>1 DEF CommandRecord
    <2>4. \A h : h # k.name => RecordsFor(live', h) = RecordsFor(live, h)
      BY <2>2 DEF RecordsFor
    <2>5. ASSUME k.alone
          PROVE  Progress(r)'
      <3>1. /\ conf = records /\ k.read = records /\ Serves(records, k.todo \cup {k.name}) /\ ~stale
            /\ k.name \notin behind => RecordsFor(live, k.name) \subseteq RecordsFor(records, k.name)
        BY <1>4, <2>2, <2>5 DEF Progress
      <3>2. k.name \notin behind' => RecordsFor(live', k.name) = RecordsFor(records, k.name)
        BY <2>2, <3>1 DEF RecordsFor
      <3>3. (Hosts \cap behind) \subseteq behind'
        BY <2>2
      <3>4. Serves(records, r.todo)'
        BY <1>2, <2>3, <2>4, <3>1, <3>2, <3>3 DEF Serves
      <3>5. QED
        BY <1>2, <2>3, <3>1, <3>4 DEF Progress
    <2>6. live' \subseteq AnyRecords
      BY <1>4, <2>2 DEF RecordsFor
    <2>7. Untold(r) \subseteq Untold(k) /\ k.name \in Untold(k)
      BY <1>4, <2>2, <2>3, UntoldIs
    <2>8. QED
      BY <1>5, <2>2, <2>3, <2>4, <2>5, <2>6, <2>7
  <1>9. CASE commandEnds(c)
    <2>1. k.pc = "apply" /\ k.todo = {} /\ Stops(c) /\ UNCHANGED <<live, behind>>
      BY <1>1, <1>9 DEF commandEnds
    <2>2. k.alone => (ConfIs(records) /\ Serves(records, {}))'
      BY <1>2, <1>4, <2>1 DEF Progress, Serves, ConfIs
    <2>3. QED
      BY <1>1, <1>2, <1>3, <1>4, <2>1, <2>2, StopsKeep
  <1>10. QED
    BY <1>6, <1>7, <1>8, <1>9

LEMMA KilledKeeps ==
    ASSUME LocalInv, NEW c \in Commands, commandKilled(c)
    PROVE  LocalInv'
  <1>1. /\ command[c].pc # "idle" /\ Stops(c) /\ stale' = TRUE /\ UNCHANGED <<records, conf, live>>
        /\ behind' = behind \cup Untold(command[c])
    BY DEF commandKilled
  <1>2. c \in Busy
    BY <1>1 DEF Busy
  <1>3. ASSUME command[c].alone
        PROVE  (ConfIs(records) /\ Serves(records, {}))'
    <2>1. Serves(records, Untold(command[c]))
      BY <1>1, <1>2, <1>3, AtItsStep, LacksTheUntold
    <2>2. QED
      BY <1>1, <2>1 DEF Serves, ConfIs
  <1>4. records \subseteq AnyRecords /\ conf \subseteq AnyRecords
    BY DEF LocalInv, LocalTypes
  <1>5. QED
    BY <1>1, <1>2, <1>3, <1>4, StopsKeep

\* Unbound starts again: with what the list says, or counted as not told.
LEMMA RestartKeeps ==
    ASSUME LocalInv, UnboundRestart
    PROVE  LocalInv'
  <1>1. /\ \/ live' = conf /\ behind' = IF stale THEN Hosts ELSE {}
           \/ Unchecked # {} /\ live' = {} /\ behind' = Hosts
        /\ command' = [c \in Commands |-> IF c \in Unchecked THEN [command[c] EXCEPT !.tried = TRUE]
                                          ELSE command[c]]
        /\ UNCHANGED <<records, conf, stale>>
    BY DEF UnboundRestart
  <1>2. /\ records \subseteq AnyRecords /\ conf \subseteq AnyRecords /\ live' \subseteq AnyRecords
        /\ command \in [Commands -> CommandRecord] /\ stale \in BOOLEAN
        /\ \A c \in Commands : OneValue(command[c])
    BY <1>1 DEF LocalInv, LocalTypes
  <1>3. ASSUME NEW c \in Commands, NEW k \in CommandRecord, k = command[c]
        PROVE  \E q \in CommandRecord :
                 /\ command'[c] = q /\ (k.pc = "checkconf" => q.tried) /\ (k.pc # "checkconf" => q = k)
                 /\ q.pc = k.pc /\ q.verb = k.verb /\ q.name = k.name /\ q.values = k.values
                 /\ q.read = k.read /\ q.previous = k.previous /\ q.todo = k.todo /\ q.alone = k.alone
    <2>1. CASE k.pc = "checkconf"
      <3>1. command'[c] = [k EXCEPT !.tried = TRUE]
        BY <1>1, <1>3, <2>1 DEF Unchecked
      <3>2. PICK q \in CommandRecord : q = [k EXCEPT !.tried = TRUE]
        BY DEF CommandRecord
      <3>3. /\ q.tried /\ q.pc = k.pc /\ q.verb = k.verb /\ q.name = k.name /\ q.values = k.values
            /\ q.read = k.read /\ q.previous = k.previous /\ q.todo = k.todo /\ q.alone = k.alone
        BY <3>2 DEF CommandRecord
      <3>4. QED
        BY <2>1, <3>1, <3>2, <3>3
    <2>2. CASE k.pc # "checkconf"
      <3>1. command'[c] = k
        BY <1>1, <1>3, <2>2 DEF Unchecked
      <3>2. QED
        BY <2>2, <3>1
    <2>3. QED
      BY <2>1, <2>2
  <1>4. \A c \in Commands : /\ command'[c] \in CommandRecord /\ OneValue(command'[c])
                            /\ command'[c].pc = command[c].pc /\ command'[c].alone = command[c].alone
                            /\ Untold(command'[c]) = Untold(command[c])
    <2> TAKE c \in Commands
    <2>1. PICK k \in CommandRecord : k = command[c]
      BY <1>2
    <2>2. PICK q \in CommandRecord :
             /\ command'[c] = q /\ q.pc = k.pc /\ q.verb = k.verb /\ q.name = k.name /\ q.values = k.values
             /\ q.todo = k.todo /\ q.alone = k.alone
      BY <1>3, <2>1
    <2>3. OneValue(k)
      BY <1>2, <2>1
    <2>4. OneValue(q) /\ Untold(q) = Untold(k)
      BY <2>2, <2>3 DEF OneValue, Untold
    <2>5. QED
      BY <2>1, <2>2, <2>4
  <1>5. LocalTypes'
    <2>1. command' \in [Commands -> CommandRecord]
      BY <1>1, <1>4
    <2>2. QED
      BY <1>1, <1>2, <1>4, <2>1 DEF LocalTypes, OneValue
  <1>6. Busy' = Busy
    <2>1. Busy' = {c \in Commands : command'[c].pc # "idle"}
      BY DEF Busy
    <2>2. QED
      BY <1>4, <2>1 DEF Busy
  <1>7. Busy \subseteq Commands
    BY DEF Busy
  <1>8. ASSUME NEW c \in Busy, command[c].alone
        PROVE  Progress(command[c])'
    <2>1. PICK k \in CommandRecord : k = command[c]
      BY <1>2, <1>7
    <2>2. PICK q \in CommandRecord :
             /\ command'[c] = q /\ (k.pc = "checkconf" => q.tried) /\ (k.pc # "checkconf" => q = k)
             /\ q.pc = k.pc /\ q.verb = k.verb /\ q.name = k.name /\ q.values = k.values
             /\ q.read = k.read /\ q.previous = k.previous /\ q.todo = k.todo /\ q.alone = k.alone
      BY <1>3, <1>7, <2>1
    <2>3. Progress(k) /\ Busy = {c}
      BY <1>8, <2>1 DEF LocalInv
    <2>4. Mine(q) = Mine(k)
      BY <2>2 DEF Mine
    <2>5. k.pc \in {"list", "render", "conf", "checkconf", "undo", "apply", "unload", "load"}
      BY <2>1 DEF Busy, CommandRecord
    <2>6. CASE behind' = Hosts /\ (stale \/ Unchecked # {})
      <3>1. \A rs, others : Serves(rs, others)'
        BY <2>6 DEF Serves
      <3>2. k.pc \in {"apply", "unload", "load"} => FALSE
        <4>1. SUFFICES ASSUME k.pc \in {"apply", "unload", "load"} PROVE FALSE
          OBVIOUS
        <4>2. ~stale
          BY <2>3, <4>1 DEF Progress
        <4>3. Unchecked = {}
          BY <2>1, <2>3, <4>1 DEF Unchecked, Busy
        <4>4. QED
          BY <2>6, <4>2, <4>3
      <3>3. Progress(q)'
        BY <1>1, <2>2, <2>3, <2>4, <3>1, <3>2 DEF Progress, ConfIs, SameBut
      <3>4. QED
        BY <2>2, <3>3 DEF Progress
    <2>7. CASE behind' = {} /\ live' = conf /\ ~stale
      <3>1. Progress(q)'
        BY <1>1, <2>2, <2>3, <2>4, <2>5, <2>7 DEF Progress, ConfIs, SameBut, Serves
      <3>2. QED
        BY <2>2, <3>1 DEF Progress
    <2>8. QED
      BY <1>1, <2>6, <2>7
  <1>9. ASSUME \A c \in Busy : ~command[c].alone
        PROVE  Serves(records, {})'
    <2>1. CASE behind' = Hosts
      BY <2>1 DEF Serves
    <2>2. CASE live' = conf /\ ~stale
      <3>1. Busy = {}
        BY <1>9, <2>2 DEF LocalInv
      <3>2. conf = records
        BY <2>2, <3>1 DEF LocalInv, ConfIs
      <3>3. QED
        BY <1>1, <2>2, <3>2 DEF Serves
    <2>3. QED
      BY <1>1, <2>1, <2>2
  <1>10. ASSUME NEW c \in Busy, ~command[c].alone
         PROVE  stale /\ (Untold(command[c]) \cap Hosts) \subseteq behind'
    BY <1>1, <1>10 DEF LocalInv
  <1>11. \A c \in Commands : Untold(command[c])' = Untold(command'[c])
    BY DEF Untold
  <1>12. \A c \in Busy : command[c].alone => Progress(command[c])'
    BY <1>8
  <1>13. Busy = {} => ConfIs(records)'
    BY <1>1 DEF LocalInv, ConfIs
  <1>14. QED
    BY <1>1, <1>4, <1>5, <1>6, <1>7, <1>9, <1>10, <1>11, <1>12, <1>13 DEF LocalInv

LEMMA LocalInvStep == LocalInv /\ [LocalNext]_localVars => LocalInv'
  <1> SUFFICES ASSUME LocalInv, [LocalNext]_localVars PROVE LocalInv'
    OBVIOUS
  <1>1. CASE UNCHANGED localVars
    <2>1. UNCHANGED <<records, conf, live, command, behind, stale>>
      BY <1>1 DEF localVars
    <2>2. QED
      BY <2>1 DEF LocalInv, LocalTypes, OneValue, Progress, Serves, SameBut, RecordsFor, ConfIs, Busy, Untold
  <1>2. QED
    BY <1>1, StartsKeep, ListStepsKeep, ConfStepsKeep, ApplyStepsKeep, KilledKeeps, RestartKeeps DEF LocalNext

\* For every number of commands, names, faults and restarts of Unbound, at any
\* moment: when nothing is under way, Unbound answers with the listed records
\* but for names counted as not told, and its configuration is the list again
\* from the first command on that worked alone and was accepted (cmdLocalRecord,
\* writeConf, applyName).
THEOREM ListConfAndUnboundAgree == LocalSpec => []RecordsAgree
  <1>1. LocalInv => RecordsAgree
    BY DEF LocalInv, RecordsAgree, Serves, ConfIs
  <1>2. QED
    BY <1>1, LocalInvInit, LocalInvStep, PTL DEF LocalSpec
-----------------------------------------------------------------------------
(***************************************************************************)
(* The import.  Of the parts that are known, each is one's content; before *)
(* an import writes, after one, and on the way back where it has passed,   *)
(* it is the host's own.                                                   *)
(***************************************************************************)
ImportRecord == [pc : {"idle", "backup", "stop", "apply", "failed", "restart"}, pre : Nat, at : 0..5,
                 back : BOOLEAN, doubts : SUBSET PartNames]

MakerRecord == [pc : {"idle", "pack", "packing", "test", "prune"}, file : Nat, kind : {"daily", "weekly"}]

\* Part number i is the host's own again, or still.
Own(i, r) ==
    \/ r.pc \in {"idle", "backup"}
    \/ r.pc = "stop" /\ ~r.back
    \/ r.pc = "restart" /\ r.back
    \/ r.pc = "apply" /\ r.back /\ r.at > i

\* What part number i is, given an import r, the parts h of the host, and
\* those of them, u, of which nothing is known.
PartIs(i, r, h, u) ==
    Parts[i] \notin u => h[Parts[i]] = "old" \/ (h[Parts[i]] = "new" /\ ~Own(i, r))

ImportOK(r) ==
    /\ r.pc \in {"idle", "backup"} => ~r.back
    /\ r.pc = "apply" => r.at \in 1..5

WholeInv(r, h, u) == \A i \in 1..5 : PartIs(i, r, h, u)

MakersInv == maker \in [Makers -> MakerRecord] /\ made \in Nat

ImportInv ==
    /\ MakersInv
    /\ import \in ImportRecord /\ ImportOK(import)
    /\ host \in [PartNames -> {"old", "new", "torn"}]
    /\ maker[Importer].pc # "idle" => import.pc = "backup"
    /\ unsure \in SUBSET PartNames
    /\ \/ stranded
       \/ /\ WholeInv(import, host, unsure)
          /\ import.pc \in {"idle", "backup"} => serving \/ unstarted

LEMMA PartsFacts ==
    /\ Len(Parts) = 5 /\ PartNames = {"state", "bundle", "config", "secrets", "services"}
    /\ \A i \in 1..5 : Parts[i] \in PartNames
    /\ \A p \in PartNames : \E i \in 1..5 : p = Parts[i]
    /\ \A i, j \in 1..5 : Parts[i] = Parts[j] => i = j
    /\ \A i \in 1..5 : Parts[i] = "bundle" <=> i = 2
    /\ \A i \in 1..5 : Parts[i] = "config" <=> i = 3
  <1>1. /\ Parts[1] = "state" /\ Parts[2] = "bundle" /\ Parts[3] = "config" /\ Parts[4] = "secrets"
        /\ Parts[5] = "services" /\ Len(Parts) = 5 /\ DOMAIN Parts = 1..5
    BY DEF Parts
  <1>2. 1..5 = {1, 2, 3, 4, 5}
    OBVIOUS
  <1>3. PartNames = {Parts[i] : i \in {1, 2, 3, 4, 5}}
    BY <1>1, <1>2 DEF PartNames, ToSet
  <1>4. PartNames = {"state", "bundle", "config", "secrets", "services"}
    BY <1>1, <1>3
  <1>5. \A p \in PartNames : \E i \in 1..5 : p = Parts[i]
    BY <1>2, <1>3
  <1>6. QED
    BY <1>1, <1>2, <1>4, <1>5

LEMMA NoImportIs ==
    /\ NoImport \in ImportRecord /\ ImportOK(NoImport) /\ NoImport.pc = "idle" /\ ~NoImport.back
    /\ \A pc \in {"idle", "backup", "stop"} : unsure \in SUBSET PartNames =>
          /\ Importing(pc) \in ImportRecord /\ ImportOK(Importing(pc))
          /\ Importing(pc).pc = pc /\ ~Importing(pc).back
  BY DEF NoImport, Importing, ImportRecord, ImportOK

\* Before an import has begun to write, what is whole stays so whatever
\* record stands for it.
LEMMA NotBegun ==
    ASSUME NEW r \in ImportRecord, NEW k \in ImportRecord, NEW h, NEW u,
           k.pc \in {"idle", "backup"}, WholeInv(k, h, u)
    PROVE  WholeInv(r, h, u)
  BY DEF WholeInv, PartIs, Own

LEMMA ImportInvInit == BackupInit => ImportInv
  <1> SUFFICES ASSUME BackupInit PROVE ImportInv
    OBVIOUS
  <1>1. MakersInv /\ maker[Importer].pc = "idle"
    BY BackupConstants DEF BackupInit, MakersInv, MakerRecord, NoBackup
  <1>2. import \in ImportRecord /\ ImportOK(import) /\ import.pc = "idle"
    BY NoImportIs DEF BackupInit
  <1>3. host \in [PartNames -> {"old", "new", "torn"}] /\ WholeInv(import, host, unsure)
    BY PartsFacts DEF BackupInit, WholeInv, PartIs
  <1>4. unsure \in SUBSET PartNames /\ serving
    BY DEF BackupInit
  <1>5. QED
    BY <1>1, <1>2, <1>3, <1>4 DEF ImportInv

\* A backup's own steps: only the importer's backup touches the import, and
\* only while the import waits for it.
LEMMA MakerSteps ==
    ASSUME ImportInv, NEW m \in Makers,
           \/ Backup(m) \/ packBegins(m) \/ packEnds(m) \/ packFails(m)
           \/ verifyArchive(m) \/ cleanupOld(m) \/ BackupKilled(m)
    PROVE  ImportInv'
  <1>0. Importer \in Makers
    BY BackupConstants
  <1>1. UNCHANGED hostVars
    BY DEF Backup, packBegins, packEnds, packFails, verifyArchive, cleanupOld, BackupKilled
  <1>2. MakersInv'
    <2>1. CASE Backup(m)
      BY <2>1 DEF ImportInv, MakersInv, MakerRecord, Backup, archivePrefix
    <2>2. CASE packBegins(m) \/ packEnds(m) \/ verifyArchive(m)
      BY <2>2 DEF ImportInv, MakersInv, MakerRecord, packBegins, packEnds, verifyArchive
    <2>3. CASE packFails(m) \/ cleanupOld(m) \/ BackupKilled(m)
      BY <2>3 DEF ImportInv, MakersInv, MakerRecord, packFails, cleanupOld, BackupKilled, BackupEnds, NoBackup
    <2>4. QED
      BY <2>1, <2>2, <2>3
  <1>3. CASE import' = import /\ (maker'[Importer].pc # "idle" => maker[Importer].pc # "idle")
    BY <1>1, <1>2, <1>3 DEF ImportInv, hostVars
  <1>4. CASE m = Importer /\ maker[m].pc # "idle" /\ maker' = [maker EXCEPT ![m] = NoBackup]
             /\ (import' = NoImport \/ import' = [import EXCEPT !.pc = "stop", !.pre = maker[m].file])
    <2>1. maker'[Importer].pc = "idle" /\ import.pc = "backup"
      BY <1>4, <1>0 DEF ImportInv, MakersInv, NoBackup
    <2>2. PICK k \in ImportRecord : k = import
      BY DEF ImportInv
    <2>3. PICK f \in Nat : f = maker[m].file
      BY <1>0 DEF ImportInv, MakersInv, MakerRecord
    <2>4. import' = NoImport \/ import' = [k EXCEPT !.pc = "stop", !.pre = f]
      BY <1>4, <2>2, <2>3
    <2>5. ImportOK(k) /\ k.pc = "backup"
      BY <2>1, <2>2 DEF ImportInv
    <2>6. ~k.back
      BY <2>5 DEF ImportOK, ImportRecord
    <2>7. import' \in ImportRecord /\ import'.pc \in {"idle", "stop"} /\ ~import'.back
      <3>1. CASE import' = NoImport
        BY <3>1, NoImportIs
      <3>2. CASE import' = [k EXCEPT !.pc = "stop", !.pre = f]
        BY <3>2, <2>6 DEF ImportRecord
      <3>3. QED
        BY <2>4, <3>1, <3>2
    <2>8. ImportOK(import')
      BY <2>7 DEF ImportOK
    <2>9. stranded \/ (WholeInv(k, host, unsure) /\ (serving \/ unstarted))
      BY <2>2, <2>5 DEF ImportInv
    <2>10. stranded' \/ (WholeInv(import', host', unsure') /\ (serving' \/ unstarted'))
      BY <1>1, <2>5, <2>7, <2>9, NotBegun DEF hostVars
    <2>11. host' \in [PartNames -> {"old", "new", "torn"}] /\ unsure' \in SUBSET PartNames
      BY <1>1 DEF ImportInv, hostVars
    <2>12. QED
      BY <1>2, <2>1, <2>7, <2>8, <2>10, <2>11 DEF ImportInv, ImportOK
  <1>5. CASE Backup(m)
    BY <1>0, <1>3, <1>5 DEF Backup, ImportInv, MakersInv
  <1>6. CASE packBegins(m) \/ packEnds(m) \/ verifyArchive(m)
    <2>1. import' = import /\ maker[m].pc # "idle" /\ \A x \in Makers : x # m => maker'[x] = maker[x]
      BY <1>6 DEF packBegins, packEnds, verifyArchive, ImportInv, MakersInv
    <2>2. QED
      BY <1>0, <1>3, <2>1
  <1>7. CASE packFails(m) \/ cleanupOld(m) \/ BackupKilled(m)
    <2>1. maker[m].pc # "idle" /\ maker' = [maker EXCEPT ![m] = NoBackup]
      BY <1>7 DEF packFails, cleanupOld, BackupKilled, BackupEnds
    <2>2. CASE m = Importer
      <3>1. import' = NoImport \/ import' = [import EXCEPT !.pc = "stop", !.pre = maker[m].file]
        BY <1>7, <2>2 DEF packFails, cleanupOld, BackupKilled, BackupEnds
      <3>2. QED
        BY <1>4, <2>1, <2>2, <3>1
    <2>3. CASE m # Importer
      <3>1. import' = import
        BY <1>7, <2>3 DEF packFails, cleanupOld, BackupKilled, BackupEnds
      <3>2. maker'[Importer] = maker[Importer]
        BY <1>0, <2>1, <2>3 DEF ImportInv, MakersInv
      <3>3. QED
        BY <1>3, <3>1, <3>2
    <2>4. QED
      BY <2>2, <2>3
  <1>8. QED
    BY <1>5, <1>6, <1>7

LEMMA ImportBegins ==
    ASSUME ImportInv, Import
    PROVE  ImportInv'
  <1>0. Importer \in Makers
    BY BackupConstants
  <1>1. UNCHANGED hostVars
    BY DEF Import
  <1>2. PICK k \in ImportRecord : k = import
    BY DEF ImportInv
  <1>3. k.pc = "idle" /\ (stranded \/ (WholeInv(k, host, unsure) /\ (serving \/ unstarted)))
    BY <1>2 DEF Import, ImportInv
  <1>4. PICK pc \in {"backup", "stop"} :
           /\ import' = Importing(pc)
           /\ pc = "stop" => maker' = maker /\ maker[Importer].pc = "idle"
    BY DEF Import
  <1>5. MakersInv'
    BY <1>0 DEF Import, ImportInv, MakersInv, MakerRecord
  <1>6. import' \in ImportRecord /\ ImportOK(import') /\ import'.pc = pc /\ ~import'.back
    BY <1>4, NoImportIs DEF ImportInv
  <1>7. maker'[Importer].pc # "idle" => import'.pc = "backup"
    BY <1>4, <1>6
  <1>8. stranded' \/ (WholeInv(import', host', unsure') /\ (serving' \/ unstarted'))
    BY <1>1, <1>3, <1>6, NotBegun DEF hostVars
  <1>9. host' \in [PartNames -> {"old", "new", "torn"}] /\ unsure' \in SUBSET PartNames
    BY <1>1 DEF ImportInv, hostVars
  <1>10. QED
    BY <1>5, <1>6, <1>7, <1>8, <1>9 DEF ImportInv, ImportOK

\* The steps between the importer's backup and the end of the import leave
\* the backups alone.
LEMMA ImportStep ==
    ASSUME ImportInv, stopServices \/ applyPart \/ Return \/ restartAndProbe \/ ImportKilled,
           import' \in ImportRecord, ImportOK(import'), host' \in [PartNames -> {"old", "new", "torn"}],
           unsure' \in SUBSET PartNames,
           \/ stranded'
           \/ /\ WholeInv(import', host', unsure')
              /\ import'.pc \in {"idle", "backup"} => serving' \/ unstarted'
    PROVE  ImportInv'
  <1>1. maker' = maker /\ made' = made
    BY DEF stopServices, applyPart, Return, restartAndProbe, ImportKilled
  <1>2. import.pc # "backup"
    BY DEF stopServices, applyPart, Return, restartAndProbe, ImportKilled
  <1>3. MakersInv' /\ maker'[Importer].pc = "idle"
    BY <1>1, <1>2 DEF ImportInv, MakersInv
  <1>4. QED
    BY <1>3 DEF ImportInv, ImportOK

LEMMA StopStep ==
    ASSUME ImportInv, stopServices
    PROVE  ImportInv'
  <1>1. PICK k \in ImportRecord : k = import
    BY DEF ImportInv
  <1>2. /\ k.pc = "stop" /\ (stranded \/ WholeInv(k, host, unsure))
        /\ host' = host /\ stranded' = stranded /\ unsure' = unsure
        /\ import' = [k EXCEPT !.pc = "apply", !.at = 1]
    BY <1>1 DEF stopServices, ImportInv
  <1>3. PICK r \in ImportRecord : r = import'
    <2>1. 1 \in 0..5 /\ import' = [k EXCEPT !.pc = "apply", !.at = 1]
      BY <1>2
    <2>2. import' \in ImportRecord
      BY <2>1 DEF ImportRecord
    <2>3. QED
      BY <2>2
  <1>4. r.pc = "apply" /\ r.at = 1 /\ r.back = k.back
    BY <1>2, <1>3 DEF ImportRecord
  <1>5. ImportOK(r)
    BY <1>4 DEF ImportOK
  <1>6. \A i \in 1..5 : Own(i, r) => Own(i, k)
    BY <1>4 DEF Own
  <1>7. stranded' \/ WholeInv(r, host', unsure')
    BY <1>2, <1>6 DEF WholeInv, PartIs
  <1>8. host' \in [PartNames -> {"old", "new", "torn"}] /\ unsure' \in SUBSET PartNames
    BY <1>2 DEF ImportInv
  <1>9. QED
    BY <1>3, <1>4, <1>5, <1>7, <1>8, ImportStep

\* An import r that follows k past part number i, or has failed at it.
LEMMA Follows ==
    ASSUME NEW k \in ImportRecord, NEW r \in ImportRecord, NEW i \in 1..5, NEW j \in 1..5,
           k.pc = "apply", k.at = i, r.back = k.back, j # i, Own(j, r),
           (r.pc = "restart" /\ i = 5) \/ (r.pc = "apply" /\ r.at = i + 1) \/ r.pc = "failed"
    PROVE  Own(j, k)
  BY DEF Own

LEMMA ApplyStep ==
    ASSUME ImportInv, applyPart
    PROVE  ImportInv'
  <1>1. PICK k \in ImportRecord : k = import
    BY DEF ImportInv
  <1>2. PICK i \in 1..5 : i = k.at
    BY <1>1 DEF applyPart, ImportInv, ImportOK
  <1>3. /\ k.pc = "apply" /\ (stranded \/ WholeInv(k, host, unsure))
        /\ stranded' = stranded
    BY <1>1 DEF applyPart, ImportInv
  <1>4. host \in [PartNames -> {"old", "new", "torn"}] /\ unsure \in SUBSET PartNames
    BY DEF ImportInv
  <1>5. PICK p \in PartNames : p = Parts[i]
    BY PartsFacts
  <1>6. CASE /\ import' = IF i = Len(Parts) THEN [k EXCEPT !.pc = "restart"] ELSE [k EXCEPT !.at = @ + 1]
             /\ \A q \in PartNames : q # p => host'[q] = host[q] /\ (q \in unsure' <=> q \in unsure)
             /\ host' \in [PartNames -> {"old", "new", "torn"}] /\ unsure' \in SUBSET PartNames
             /\ stranded \/ p \in unsure' \/ host'[p] = "old" \/ (host'[p] = "new" /\ ~k.back)
    <2>1. PICK r \in ImportRecord : r = import'
      BY <1>2, <1>6, PartsFacts DEF ImportRecord
    <2>2. /\ r.back = k.back
          /\ (r.pc = "restart" /\ i = 5) \/ (r.pc = "apply" /\ r.at = i + 1 /\ i # 5)
      BY <1>2, <1>3, <1>6, <2>1, PartsFacts DEF ImportRecord
    <2>3. ImportOK(r)
      BY <2>2 DEF ImportOK
    <2>4. ASSUME NEW j \in 1..5, j # i, ~stranded
          PROVE  PartIs(j, r, host', unsure')
      <3>1. PartIs(j, k, host, unsure)
        BY <1>3, <2>4 DEF WholeInv
      <3>2. Parts[j] \in PartNames /\ Parts[j] # p
        BY <1>5, <2>4, PartsFacts
      <3>3. Own(j, r) => Own(j, k)
        BY <1>2, <1>3, <2>2, <2>4, Follows
      <3>4. QED
        BY <1>6, <3>1, <3>2, <3>3 DEF PartIs
    <2>5. ASSUME ~stranded
          PROVE  PartIs(i, r, host', unsure')
      BY <1>5, <1>6, <2>2, <2>5 DEF PartIs, Own
    <2>6. stranded' \/ WholeInv(r, host', unsure')
      BY <1>3, <2>4, <2>5 DEF WholeInv
    <2>7. QED
      BY <1>6, <2>1, <2>2, <2>3, <2>6, ImportStep
  <1>7. CASE /\ MayLack(p)
             /\ unsure' = IF import.back /\ host[p] = "new" THEN unsure \cup {p} ELSE unsure
             /\ import' = IF i = Len(Parts) THEN [k EXCEPT !.pc = "restart"] ELSE [k EXCEPT !.at = @ + 1]
             /\ host' = host
    <2>1. stranded \/ p \in unsure \/ host[p] \in {"old", "new"}
      BY <1>3, <1>5 DEF WholeInv, PartIs
    <2>2. stranded \/ p \in unsure' \/ host'[p] = "old" \/ (host'[p] = "new" /\ ~k.back)
      BY <1>1, <1>7, <2>1
    <2>3. QED
      BY <1>4, <1>6, <1>7, <2>2
  <1>8. CASE /\ host' = [host EXCEPT ![p] = Overlay(p)]
             /\ unsure' = IF CutShort(p) \/ (import.back /\ p \in import.doubts) THEN unsure \cup {p}
                          ELSE unsure \ {p}
             /\ import' = IF i = Len(Parts) THEN [k EXCEPT !.pc = "restart"] ELSE [k EXCEPT !.at = @ + 1]
    <2>1. Overlay(p) = IF CutShort(p) THEN "torn" ELSE IF k.back THEN "old" ELSE "new"
      BY <1>1 DEF Overlay
    <2>2. p \in unsure' \/ host'[p] = "old" \/ (host'[p] = "new" /\ ~k.back)
      BY <1>4, <1>8, <2>1
    <2>3. QED
      BY <1>4, <1>6, <1>8, <2>1, <2>2
  <1>9. CASE /\ host' = [host EXCEPT ![p] = "torn"] /\ unsure' = unsure \cup {p}
             /\ import' = IF p = "bundle" THEN IF i = Len(Parts) THEN [k EXCEPT !.pc = "restart"]
                                               ELSE [k EXCEPT !.at = @ + 1]
                          ELSE [k EXCEPT !.pc = "failed"]
    <2>1. CASE p = "bundle"
      BY <1>4, <1>6, <1>9, <2>1
    <2>2. CASE p # "bundle"
      <3>1. PICK r \in ImportRecord : r = import'
        BY <1>9, <2>2 DEF ImportRecord
      <3>2. r.back = k.back /\ r.pc = "failed"
        BY <1>9, <2>2, <3>1 DEF ImportRecord
      <3>3. ImportOK(r)
        BY <3>2 DEF ImportOK
      <3>4. ASSUME NEW j \in 1..5, j # i, ~stranded
            PROVE  PartIs(j, r, host', unsure')
        <4>1. PartIs(j, k, host, unsure)
          BY <1>3, <3>4 DEF WholeInv
        <4>2. Parts[j] \in PartNames /\ Parts[j] # p
          BY <1>5, <3>4, PartsFacts
        <4>3. Own(j, r) => Own(j, k)
          BY <1>2, <1>3, <3>2, <3>4, Follows
        <4>4. QED
          BY <1>4, <1>9, <4>1, <4>2, <4>3 DEF PartIs
      <3>5. PartIs(i, r, host', unsure')
        BY <1>5, <1>9 DEF PartIs
      <3>6. stranded' \/ WholeInv(r, host', unsure')
        BY <1>3, <3>4, <3>5 DEF WholeInv
      <3>7. QED
        BY <1>4, <1>9, <3>1, <3>2, <3>3, <3>6, ImportStep
    <2>3. QED
      BY <2>1, <2>2
  <1>10. QED
    BY <1>1, <1>2, <1>5, <1>7, <1>8, <1>9 DEF applyPart

LEMMA ReturnStep ==
    ASSUME ImportInv, Return
    PROVE  ImportInv'
  <1>1. PICK k \in ImportRecord : k = import
    BY DEF ImportInv
  <1>2. /\ host' \in [PartNames -> {"old", "new", "torn"}] /\ unsure' \in SUBSET PartNames
        /\ host' = host /\ unsure' = unsure
    BY DEF Return, ImportInv
  <1>3. CASE import' = NoImport /\ stranded'
    BY <1>2, <1>3, NoImportIs, ImportStep
  <1>4. CASE import' = [k EXCEPT !.pc = "stop", !.back = TRUE] /\ stranded' = stranded
    <2>1. PICK r \in ImportRecord : r = import'
      BY <1>4 DEF ImportRecord
    <2>2. r.pc = "stop" /\ r.back
      BY <1>4, <2>1 DEF ImportRecord
    <2>3. ImportOK(r) /\ \A i \in 1..5 : ~Own(i, r)
      BY <2>2 DEF ImportOK, Own
    <2>4. stranded \/ WholeInv(k, host, unsure)
      BY <1>1 DEF ImportInv
    <2>5. stranded' \/ WholeInv(r, host', unsure')
      BY <1>2, <1>4, <2>3, <2>4 DEF WholeInv, PartIs
    <2>6. QED
      BY <1>2, <2>1, <2>2, <2>3, <2>5, ImportStep
  <1>5. QED
    BY <1>1, <1>3, <1>4 DEF Return

LEMMA RestartStep ==
    ASSUME ImportInv, restartAndProbe
    PROVE  ImportInv'
  <1>1. PICK k \in ImportRecord : k = import
    BY DEF ImportInv
  <1>2. /\ k.pc = "restart" /\ (stranded \/ WholeInv(k, host, unsure))
        /\ stranded' = stranded /\ unsure' = unsure /\ import' = NoImport /\ (serving' \/ unstarted')
        /\ host' = [p \in PartNames |-> IF ~k.back /\ host[p] = "new" THEN "old" ELSE host[p]]
    BY <1>1 DEF restartAndProbe, ImportInv
  <1>3. host' \in [PartNames -> {"old", "new", "torn"}] /\ unsure' \in SUBSET PartNames
    BY <1>2 DEF ImportInv
  <1>4. ASSUME NEW j \in 1..5, PartIs(j, k, host, unsure)
        PROVE  PartIs(j, NoImport, host', unsure')
    <2>1. Parts[j] \in PartNames
      BY PartsFacts
    <2>2. k.back => Own(j, k)
      BY <1>2 DEF Own
    <2>3. QED
      BY <1>2, <1>4, <2>1, <2>2 DEF PartIs
  <1>5. stranded' \/ WholeInv(import', host', unsure')
    BY <1>2, <1>4 DEF WholeInv
  <1>6. QED
    BY <1>2, <1>3, <1>5, NoImportIs, ImportStep

LEMMA ImportInvStep == ImportInv /\ [BackupNext]_backupVars => ImportInv'
  <1> SUFFICES ASSUME ImportInv, [BackupNext]_backupVars PROVE ImportInv'
    OBVIOUS
  <1>1. CASE WeekPasses \/ UNCHANGED backupVars
    BY <1>1 DEF WeekPasses, backupVars, hostVars, ImportInv, MakersInv
  <1>2. CASE ImportKilled
    <2>1. /\ host' \in [PartNames -> {"old", "new", "torn"}] /\ unsure' \in SUBSET PartNames
          /\ stranded' /\ import' = NoImport
      BY <1>2 DEF ImportKilled, ImportInv
    <2>2. QED
      BY <1>2, <2>1, NoImportIs, ImportStep
  <1>3. QED
    BY <1>1, <1>2, ImportBegins, StopStep, ApplyStep, ReturnStep, RestartStep, MakerSteps DEF BackupNext

\* For every number of backup makers, kept archives and faults: an import
\* that has ended and was neither killed nor left without a way back has
\* started the services again or warned, and each part of the host is the
\* package's or the host's own, but for those a failed write tore or the way
\* back could not reach, whatever part of it failed, whatever the packages
\* held and whatever backups ran beside it (Import, applyImport,
\* restartAndProbe).
THEOREM ImportsEndWhole == BackupSpec => []ImportEndsWhole
  <1>1. ImportInv => ImportEndsWhole
    <2> SUFFICES ASSUME ImportInv, import.pc \in {"idle", "backup"}, ~stranded, NEW p \in PartNames \ unsure
                 PROVE  (serving \/ unstarted) /\ host[p] = "old"
      <3>1. ImportInv /\ import.pc \in {"idle", "backup"} /\ ~stranded => serving \/ unstarted
        BY DEF ImportInv
      <3>2. QED
        BY <3>1 DEF ImportEndsWhole
    <2>1. PICK i \in 1..5 : p = Parts[i]
      BY PartsFacts
    <2>2. PartIs(i, import, host, unsure)
      BY <2>1 DEF ImportInv, WholeInv
    <2>3. QED
      BY <2>1, <2>2 DEF ImportInv, PartIs, Own
  <1>2. QED
    BY <1>1, ImportInvInit, ImportInvStep, PTL DEF BackupSpec

(***************************************************************************)
(* The archives.  GoodArchiveStays needs to know which file belongs to     *)
(* which backup, that no two files share a name or a time, and that a      *)
(* backup which removes old archives has tested its own: then the newest   *)
(* good archive of a kind has only unfinished files of others before it.   *)
(***************************************************************************)
FileRecord == [id : Nat, kind : {"daily", "weekly"}, good : BOOLEAN, at : Nat]

FilesInv ==
    /\ dir \subseteq FileRecord /\ IsFiniteSet(dir) /\ written \in Nat
    /\ \A f, g \in dir : f.id = g.id \/ f.at = g.at => f = g
    /\ \A f \in dir : f.id <= made /\ f.at <= written

\* A backup under way, and its file once it is there.
OwnFile(r) ==
    r.pc # "idle" =>
        /\ r.file \in 1..made
        /\ \A f \in dir : f.id = r.file => r.pc # "pack" /\ f.kind = r.kind /\ (f.good <=> r.pc = "prune")

FilesDiffer ==
    \A m, n \in Makers : m # n /\ maker[m].pc # "idle" /\ maker[n].pc # "idle" => maker[m].file # maker[n].file

ArchiveInv ==
    /\ MakersInv /\ FilesInv /\ FilesDiffer
    /\ \A m \in Makers : OwnFile(maker[m])
    /\ GoodArchiveStays

LEMMA ArchiveInvInit == BackupInit => ArchiveInv
  <1> SUFFICES ASSUME BackupInit PROVE ArchiveInv
    OBVIOUS
  <1>1. MakersInv
    BY ImportInvInit DEF ImportInv
  <1>2. \A m \in Makers : maker[m].pc = "idle"
    BY DEF BackupInit, NoBackup
  <1>3. FilesInv /\ GoodArchiveStays
    BY FS_EmptySet DEF BackupInit, FilesInv, GoodArchiveStays
  <1>4. QED
    BY <1>1, <1>2, <1>3 DEF ArchiveInv, OwnFile, FilesDiffer

\* Steps that leave the directory, the backups and the histories alone.
LEMMA ArchivesUntouched ==
    ASSUME ArchiveInv, UNCHANGED <<dir, maker, everGood, crowded, made, written>>
    PROVE  ArchiveInv'
  <1>1. MakersInv' /\ FilesInv' /\ FilesDiffer'
    BY DEF ArchiveInv, MakersInv, FilesInv, FilesDiffer
  <1>2. GoodArchiveStays'
    BY DEF ArchiveInv, GoodArchiveStays
  <1>3. \A m \in Makers : OwnFile(maker[m])'
    BY DEF ArchiveInv, OwnFile
  <1>4. QED
    BY <1>1, <1>2, <1>3 DEF ArchiveInv

\* A backup begins: its name is new.
LEMMA ArchiveBegins ==
    ASSUME ArchiveInv, MakersInv', NEW m \in Makers, NEW r \in MakerRecord,
           maker' = [maker EXCEPT ![m] = r], r.pc = "pack", r.file = made + 1,
           made' = made + 1, UNCHANGED <<dir, everGood, crowded, written>>
    PROVE  ArchiveInv'
  <1>1. /\ made \in Nat /\ maker'[m] = r /\ \A x \in Makers : x # m => maker'[x] = maker[x]
    BY DEF ArchiveInv, MakersInv
  <1>2. \A f \in dir : f.id <= made /\ f.id \in Nat /\ f.at \in Nat
    BY DEF ArchiveInv, FilesInv, FileRecord
  <1>3. \A x \in Makers : maker[x].pc # "idle" => maker[x].file \in 1..made
    BY DEF ArchiveInv, OwnFile
  <1>4. FilesInv'
    BY <1>1, <1>2 DEF ArchiveInv, FilesInv
  <1>5. FilesDiffer'
    BY <1>1, <1>3 DEF ArchiveInv, FilesDiffer
  <1>6. GoodArchiveStays'
    BY DEF ArchiveInv, GoodArchiveStays
  <1>7. ASSUME NEW x \in Makers PROVE OwnFile(maker[x])'
    <2>1. CASE x = m
      BY <1>1, <1>2, <2>1 DEF OwnFile
    <2>2. CASE x # m
      BY <1>1, <2>2 DEF ArchiveInv, OwnFile
    <2>3. QED
      BY <2>1, <2>2
  <1>8. QED
    BY <1>4, <1>5, <1>6, <1>7 DEF ArchiveInv

\* A backup ends or is killed: files may be gone, but not the good ones.
LEMMA ArchiveEnds ==
    ASSUME ArchiveInv, MakersInv', NEW m \in Makers, maker' = [maker EXCEPT ![m] = NoBackup],
           dir' \subseteq dir, GoodArchiveStays', made' = made, written' = written
    PROVE  ArchiveInv'
  <1>1. /\ maker'[m].pc = "idle" /\ \A x \in Makers : x # m => maker'[x] = maker[x]
    BY DEF ArchiveInv, MakersInv, NoBackup
  <1>2. FilesInv'
    <2>1. IsFiniteSet(dir')
      BY FS_Subset DEF ArchiveInv, FilesInv
    <2>2. QED
      BY <2>1 DEF ArchiveInv, FilesInv
  <1>3. FilesDiffer'
    BY <1>1 DEF ArchiveInv, FilesDiffer
  <1>4. ASSUME NEW x \in Makers PROVE OwnFile(maker[x])'
    BY <1>1 DEF ArchiveInv, OwnFile
  <1>5. QED
    BY <1>2, <1>3, <1>4 DEF ArchiveInv

LEMMA ArchiveIsOpened == ASSUME ArchiveInv, MakersInv', NEW m \in Makers, packBegins(m) PROVE ArchiveInv'
  <1> DEFINE k == maker[m]
             e == [id |-> k.file, kind |-> k.kind, good |-> FALSE, at |-> written + 1]
  <1>1. /\ k \in MakerRecord /\ k.pc = "pack" /\ made \in Nat /\ written \in Nat
        /\ dir' = dir \cup {e} /\ written' = written + 1 /\ made' = made
        /\ UNCHANGED <<everGood, crowded>>
    BY DEF packBegins, ArchiveInv, MakersInv, FilesInv
  <1>2. k.file \in 1..made /\ \A f \in dir : f.id # k.file
    BY <1>1 DEF ArchiveInv, OwnFile
  <1>3. /\ maker'[m].pc = "packing" /\ maker'[m].file = k.file /\ maker'[m].kind = k.kind
        /\ \A x \in Makers : x # m => maker'[x] = maker[x]
    BY DEF packBegins, ArchiveInv, MakersInv, MakerRecord
  <1>4. e \in FileRecord /\ e.id = k.file /\ e.kind = k.kind /\ e.good = FALSE /\ e.at = written + 1
    BY <1>1 DEF FileRecord, MakerRecord
  <1> HIDE DEF e
  <1>5. FilesInv'
    <2>1. IsFiniteSet(dir') /\ dir' \subseteq FileRecord
      BY <1>1, <1>4, FS_AddElement DEF ArchiveInv, FilesInv
    <2>2. \A f \in dir : f.id <= made /\ f.at <= written /\ f.id \in Nat /\ f.at \in Nat
      BY DEF ArchiveInv, FilesInv, FileRecord
    <2>3. \A f, g \in dir' : f.id = g.id \/ f.at = g.at => f = g
      BY <1>1, <1>2, <1>4, <2>2 DEF ArchiveInv, FilesInv
    <2>4. \A f \in dir' : f.id <= made' /\ f.at <= written'
      BY <1>1, <1>2, <1>4, <2>2
    <2>5. QED
      BY <1>1, <2>1, <2>3, <2>4 DEF FilesInv
  <1>6. FilesDiffer'
    BY <1>1, <1>3 DEF ArchiveInv, FilesDiffer
  <1>7. GoodArchiveStays'
    BY <1>1 DEF ArchiveInv, GoodArchiveStays
  <1>8. ASSUME NEW x \in Makers PROVE OwnFile(maker[x])'
    <2>1. CASE x = m
      BY <1>1, <1>2, <1>3, <1>4, <2>1 DEF OwnFile
    <2>2. CASE x # m
      <3>1. maker[x].pc # "idle" => maker[x].file # e.id
        BY <1>1, <1>4, <2>2 DEF ArchiveInv, FilesDiffer
      <3>2. OwnFile(maker[x])
        BY DEF ArchiveInv
      <3>3. QED
        BY <1>1, <1>3, <2>2, <3>1, <3>2 DEF OwnFile
    <2>3. QED
      BY <2>1, <2>2
  <1>9. QED
    BY <1>5, <1>6, <1>7, <1>8 DEF ArchiveInv

\* Packing ends or the test succeeds: the backup's file, if it is still there,
\* is replaced by one with a new time or by a good one.
LEMMA ArchiveReplaced ==
    ASSUME ArchiveInv, MakersInv', NEW m \in Makers, NEW old \in dir, NEW new \in FileRecord,
           maker[m].pc # "idle", old.id = maker[m].file, new.id = old.id, new.kind = old.kind,
           dir' = (dir \ {old}) \cup {new},
           maker'[m].pc # "idle", maker'[m].pc # "pack", maker'[m].file = maker[m].file,
           maker'[m].kind = maker[m].kind, \A x \in Makers : x # m => maker'[x] = maker[x],
           new.good <=> maker'[m].pc = "prune",
           made' = made, written' \in Nat, written <= written', new.at <= written',
           new.at = old.at \/ new.at > written, old.good => new.good,
           crowded' = crowded, everGood' \subseteq everGood \cup {new.kind}, new.good \/ everGood' = everGood
    PROVE  ArchiveInv'
  <1>1. /\ \A f \in dir : f.id <= made /\ f.at <= written /\ f \in FileRecord
        /\ \A f, g \in dir : f.id = g.id \/ f.at = g.at => f = g
        /\ IsFiniteSet(dir) /\ made \in Nat /\ written \in Nat
    BY DEF ArchiveInv, FilesInv, MakersInv
  <1>2. FilesInv'
    <2>1. IsFiniteSet(dir \ {old})
      BY <1>1, FS_Subset
    <2>2. IsFiniteSet(dir') /\ dir' \subseteq FileRecord
      BY <1>1, <2>1, FS_AddElement
    <2>3. \A f \in dir \ {old} : f.id # new.id /\ f.at # new.at
      BY <1>1 DEF FileRecord
    <2>4. \A f, g \in dir' : f.id = g.id \/ f.at = g.at => f = g
      BY <1>1, <2>3
    <2>5. \A f \in dir' : f.id <= made' /\ f.at <= written'
      BY <1>1 DEF FileRecord
    <2>6. QED
      BY <2>2, <2>4, <2>5 DEF FilesInv
  <1>3. FilesDiffer'
    BY DEF ArchiveInv, FilesDiffer
  <1>4. GoodArchiveStays'
    <2> SUFFICES ASSUME NEW k \in everGood' \ crowded' PROVE \E f \in dir' : f.kind = k /\ f.good
      BY DEF GoodArchiveStays
    <2>1. CASE k \in everGood
      <3>1. PICK f \in dir : f.kind = k /\ f.good
        BY <2>1 DEF ArchiveInv, GoodArchiveStays
      <3>2. CASE f = old
        BY <3>1, <3>2
      <3>3. CASE f # old
        BY <3>1, <3>3
      <3>4. QED
        BY <3>2, <3>3
    <2>2. CASE k \notin everGood
      BY <2>2
    <2>3. QED
      BY <2>1, <2>2
  <1>5. ASSUME NEW x \in Makers PROVE OwnFile(maker[x])'
    <2>0. OwnFile(maker[x]) /\ OwnFile(maker[m])
      BY DEF ArchiveInv
    <2>1. CASE x = m
      <3>1. \A f \in dir' : f.id = maker[m].file => f = new
        BY <1>1
      <3>2. maker[m].kind = new.kind /\ maker[m].file \in 1..made
        BY <2>0 DEF OwnFile
      <3>3. QED
        BY <2>1, <3>1, <3>2 DEF OwnFile
    <2>2. CASE x # m
      <3>1. maker[x].pc # "idle" => maker[x].file # new.id
        BY <2>2 DEF ArchiveInv, FilesDiffer
      <3>2. QED
        BY <2>0, <2>2, <3>1 DEF OwnFile
    <2>3. QED
      BY <2>1, <2>2
  <1>6. QED
    BY <1>2, <1>3, <1>4, <1>5 DEF ArchiveInv

LEMMA ArchiveIsPacked == ASSUME ArchiveInv, MakersInv', NEW m \in Makers, packEnds(m) PROVE ArchiveInv'
  <1>1. /\ maker[m] \in MakerRecord /\ maker[m].pc = "packing" /\ made \in Nat /\ written \in Nat
        /\ written' = written + 1 /\ made' = made /\ UNCHANGED <<everGood, crowded>>
        /\ dir' = {IF f.id = maker[m].file THEN [f EXCEPT !.at = written + 1] ELSE f : f \in dir}
    BY DEF packEnds, ArchiveInv, MakersInv, FilesInv
  <1>2. /\ maker'[m].pc = "test" /\ maker'[m].file = maker[m].file /\ maker'[m].kind = maker[m].kind
        /\ \A x \in Makers : x # m => maker'[x] = maker[x]
    BY DEF packEnds, ArchiveInv, MakersInv, MakerRecord
  <1>3. /\ dir \subseteq FileRecord /\ \A f, g \in dir : f.id = g.id => f = g
        /\ \A f \in dir : f.id <= made /\ f.at <= written
    BY DEF ArchiveInv, FilesInv
  <1>4. CASE Present(maker[m].file)
    <2>1. PICK old \in dir : old.id = maker[m].file
      BY <1>4 DEF Present
    <2>2. PICK new \in FileRecord : new = [old EXCEPT !.at = written + 1]
      <3>1. written + 1 \in Nat /\ old \in FileRecord
        BY <1>1, <1>3
      <3>2. QED
        BY <3>1 DEF FileRecord
    <2>3. new.id = old.id /\ new.kind = old.kind /\ new.good = old.good /\ new.at = written + 1
      BY <1>3, <2>2 DEF FileRecord
    <2>4. ~old.good
      BY <1>1, <2>1 DEF ArchiveInv, OwnFile
    <2>5. dir' = (dir \ {old}) \cup {new}
      BY <1>1, <1>3, <2>1, <2>2
    <2>6. QED
      <3>1. /\ written' \in Nat /\ written <= written' /\ new.at <= written' /\ new.at > written
            /\ new.good <=> maker'[m].pc = "prune" /\ everGood' \subseteq everGood \cup {new.kind}
        BY <1>1, <1>2, <2>3, <2>4
      <3>2. /\ maker[m].pc # "idle" /\ maker'[m].pc # "idle" /\ maker'[m].pc # "pack"
            /\ old.good => new.good
        BY <1>1, <1>2, <2>3
      <3>3. QED
        BY <1>1, <1>2, <2>1, <2>3, <2>5, <3>1, <3>2, ArchiveReplaced
  <1>5. CASE ~Present(maker[m].file)
    <2>1. dir' = dir
      BY <1>1, <1>5 DEF Present
    <2>2. \A f \in dir : f.at \in Nat
      BY <1>3 DEF FileRecord
    <2>3. FilesInv'
      <3>1. \A f \in dir : f.id <= made' /\ f.at <= written'
        BY <1>1, <1>3, <2>2
      <3>2. written' \in Nat
        BY <1>1
      <3>3. QED
        BY <2>1, <3>1, <3>2 DEF ArchiveInv, FilesInv
    <2>4. FilesDiffer'
      BY <1>1, <1>2 DEF ArchiveInv, FilesDiffer
    <2>5. GoodArchiveStays'
      BY <1>1, <2>1 DEF ArchiveInv, GoodArchiveStays
    <2>6. \A x \in Makers : OwnFile(maker[x])'
      BY <1>1, <1>2, <1>5, <2>1 DEF ArchiveInv, OwnFile, Present
    <2>7. QED
      BY <2>3, <2>4, <2>5, <2>6 DEF ArchiveInv
  <1>6. QED
    BY <1>4, <1>5

LEMMA ArchiveIsTested == ASSUME ArchiveInv, MakersInv', NEW m \in Makers, verifyArchive(m) PROVE ArchiveInv'
  <1>1. /\ maker[m] \in MakerRecord /\ maker[m].pc = "test" /\ made \in Nat /\ written \in Nat
        /\ UNCHANGED <<made, written, crowded>> /\ everGood' = everGood \cup {maker[m].kind}
        /\ dir' = {IF f.id = maker[m].file THEN [f EXCEPT !.good = TRUE] ELSE f : f \in dir}
    BY DEF verifyArchive, ArchiveInv, MakersInv, FilesInv
  <1>2. /\ maker'[m].pc = "prune" /\ maker'[m].file = maker[m].file /\ maker'[m].kind = maker[m].kind
        /\ \A x \in Makers : x # m => maker'[x] = maker[x]
    BY DEF verifyArchive, ArchiveInv, MakersInv, MakerRecord
  <1>3. /\ dir \subseteq FileRecord /\ \A f, g \in dir : f.id = g.id => f = g
        /\ \A f \in dir : f.id <= made /\ f.at <= written
    BY DEF ArchiveInv, FilesInv
  <1>4. PICK old \in dir : old.id = maker[m].file
    BY DEF verifyArchive, Present
  <1>5. PICK new \in FileRecord : new = [old EXCEPT !.good = TRUE]
    BY <1>1, <1>3 DEF FileRecord
  <1>6. new.id = old.id /\ new.kind = old.kind /\ new.good = TRUE /\ new.at = old.at
    BY <1>3, <1>5 DEF FileRecord
  <1>7. old.kind = maker[m].kind
    BY <1>1, <1>4 DEF ArchiveInv, OwnFile
  <1>8. dir' = (dir \ {old}) \cup {new}
    BY <1>1, <1>3, <1>4, <1>5
  <1>9. QED
    BY <1>1, <1>2, <1>3, <1>4, <1>6, <1>7, <1>8, ArchiveReplaced

LEMMA ArchiveFails == ASSUME ArchiveInv, MakersInv', NEW m \in Makers, packFails(m) PROVE ArchiveInv'
  <1>1. /\ maker[m].pc \in {"packing", "test"} /\ maker' = [maker EXCEPT ![m] = NoBackup]
        /\ dir' = {f \in dir : f.id # maker[m].file} /\ UNCHANGED <<made, written, everGood, crowded>>
    BY DEF packFails, BackupEnds, Without
  <1>2. \A f \in dir : f.id = maker[m].file => ~f.good
    BY <1>1 DEF ArchiveInv, OwnFile
  <1>3. GoodArchiveStays'
    BY <1>1, <1>2 DEF ArchiveInv, GoodArchiveStays
  <1>4. QED
    BY <1>1, <1>3, ArchiveEnds

\* Of a non-empty set of files whose times are bounded, one is the newest.
LEMMA NewestFile ==
    ASSUME NEW S, NEW n \in Nat, S # {}, \A f \in S : f.at \in Nat /\ f.at <= n
    PROVE  \E f \in S : \A g \in S : g.at <= f.at
  <1> DEFINE T == {n - f.at : f \in S}
  <1>1. T \subseteq Nat /\ T # {}
    OBVIOUS
  <1>2. PICK x \in T : \A y \in T : ~ (<<y, x>> \in OpToRel(<, Nat))
    <2> HIDE DEF T
    <2>1. QED
      BY <1>1, NatLessThanWellFounded, WFMin
  <1>3. \A y \in T : ~(y < x)
    BY <1>1, <1>2 DEF OpToRel
  <1>4. PICK f \in S : x = n - f.at
    OBVIOUS
  <1>5. ASSUME NEW g \in S PROVE g.at <= f.at
    <2>1. n - g.at \in T /\ ~(n - g.at < n - f.at)
      BY <1>3, <1>4
    <2>2. f.at \in Nat /\ g.at \in Nat
      OBVIOUS
    <2> HIDE DEF T
    <2>3. QED
      BY <2>1, <2>2
  <1>6. QED
    BY <1>5

\* Old archives are removed.  Before the newest good one of a kind there are
\* only unfinished files, and none of them is the remover's own.
LEMMA ArchivesArePruned == ASSUME ArchiveInv, MakersInv', NEW m \in Makers, cleanupOld(m) PROVE ArchiveInv'
  <1>1. /\ maker[m].pc = "prune" /\ maker' = [maker EXCEPT ![m] = NoBackup]
        /\ dir' = dir \ Removed /\ UNCHANGED <<made, written, everGood>>
        /\ crowded' = crowded \cup {k \in {"daily", "weekly"} : Cardinality(Unfinished(m, k)) >= Keep(k)}
    BY DEF cleanupOld, Prune, BackupEnds
  <1>2. dir \subseteq FileRecord /\ IsFiniteSet(dir) /\ written \in Nat /\ \A f \in dir : f.at <= written
    BY DEF ArchiveInv, FilesInv
  <1>3. GoodArchiveStays'
    <2> SUFFICES ASSUME NEW k \in everGood \ crowded' PROVE \E f \in dir' : f.kind = k /\ f.good
      BY <1>1 DEF GoodArchiveStays
    <2> DEFINE G == {f \in dir : f.kind = k /\ f.good}
    <2>1. G # {}
      BY <1>1 DEF ArchiveInv, GoodArchiveStays
    <2>2. PICK f \in G : \A g \in G : g.at <= f.at
      <3>1. \A g \in G : g.at \in Nat /\ g.at <= written
        BY <1>2 DEF FileRecord
      <3> HIDE DEF G
      <3>2. QED
        BY <1>2, <2>1, <3>1, NewestFile
    <2>3. k \in {"daily", "weekly"} /\ Keep(k) \in Nat
      BY <1>2, <2>2, BackupConstants DEF FileRecord, Keep
    <2>4. Newer(f) \subseteq Unfinished(m, k)
      <3>1. \A g \in dir : g.id = maker[m].file => g.good
        BY <1>1 DEF ArchiveInv, OwnFile
      <3>2. ASSUME NEW g \in dir, g.kind = k, g.at > f.at PROVE ~g.good
        BY <1>2, <2>2, <3>2 DEF FileRecord
      <3>3. QED
        BY <2>2, <3>1, <3>2 DEF Newer, archivesWithPrefix, Unfinished
    <2>5. IsFiniteSet(Unfinished(m, k)) /\ ~(Cardinality(Unfinished(m, k)) >= Keep(k))
      BY <1>1, <1>2, <2>3, FS_Subset DEF Unfinished
    <2>6. /\ Cardinality(Newer(f)) <= Cardinality(Unfinished(m, k)) /\ IsFiniteSet(Newer(f))
      BY <2>4, <2>5, FS_Subset
    <2>7. Cardinality(Newer(f)) \in Nat /\ Cardinality(Unfinished(m, k)) \in Nat
      BY <2>5, <2>6, FS_CardinalityType
    <2>8. f \notin Removed
      BY <2>2, <2>3, <2>5, <2>6, <2>7 DEF Removed
    <2>9. QED
      BY <1>1, <2>2, <2>8
  <1>4. QED
    BY <1>1, <1>3, ArchiveEnds

LEMMA ArchiveIsLeft == ASSUME ArchiveInv, MakersInv', NEW m \in Makers, BackupKilled(m) PROVE ArchiveInv'
  <1>1. maker' = [maker EXCEPT ![m] = NoBackup] /\ UNCHANGED <<dir, made, written, everGood, crowded>>
    BY DEF BackupKilled
  <1>2. GoodArchiveStays'
    BY <1>1 DEF ArchiveInv, GoodArchiveStays
  <1>3. QED
    BY <1>1, <1>2, ArchiveEnds

LEMMA ArchiveInvStep == ASSUME ImportInv, ArchiveInv, [BackupNext]_backupVars PROVE ArchiveInv'
  <1>1. MakersInv'
    BY ImportInvStep DEF ImportInv
  <1>2. CASE \/ WeekPasses \/ stopServices \/ applyPart \/ Return \/ restartAndProbe \/ ImportKilled
             \/ UNCHANGED backupVars
    <2>1. UNCHANGED <<dir, maker, everGood, crowded, made, written>>
      BY <1>2 DEF WeekPasses, stopServices, applyPart, Return, restartAndProbe, ImportKilled, backupVars
    <2>2. QED
      BY <2>1, ArchivesUntouched
  <1>3. ASSUME NEW m \in Makers, Backup(m) PROVE ArchiveInv'
    <2> DEFINE r == [pc |-> "pack", file |-> made + 1, kind |-> archivePrefix(m)]
    <2>1. /\ r \in MakerRecord /\ r.pc = "pack" /\ r.file = made + 1 /\ maker' = [maker EXCEPT ![m] = r]
          /\ made' = made + 1 /\ UNCHANGED <<dir, everGood, crowded, written>>
      BY <1>3 DEF Backup, MakerRecord, archivePrefix, ArchiveInv, MakersInv
    <2> HIDE DEF r
    <2>2. QED
      BY <1>1, <2>1, ArchiveBegins
  <1>4. CASE Import
    <2> DEFINE r == [pc |-> "pack", file |-> made + 1, kind |-> "daily"]
    <2>1. /\ r \in MakerRecord /\ r.pc = "pack" /\ r.file = made + 1 /\ Importer \in Makers
          /\ made' = made + 1 /\ made \in Nat /\ UNCHANGED <<dir, everGood, crowded, written>>
      BY <1>4, BackupConstants DEF Import, MakerRecord, ArchiveInv, MakersInv
    <2>2. maker' = [maker EXCEPT ![Importer] = r] \/ maker' = maker
      BY <1>4 DEF Import
    <2> HIDE DEF r
    <2>3. CASE maker' = [maker EXCEPT ![Importer] = r]
      BY <1>1, <2>1, <2>3, ArchiveBegins
    <2>4. CASE maker' = maker
      <3>1. \A f \in dir : f.id <= made /\ f.id \in Nat
        BY DEF ArchiveInv, FilesInv, FileRecord
      <3>2. FilesInv'
        BY <2>1, <3>1 DEF ArchiveInv, FilesInv
      <3>3. FilesDiffer' /\ GoodArchiveStays'
        BY <2>1, <2>4 DEF ArchiveInv, FilesDiffer, GoodArchiveStays
      <3>4. \A x \in Makers : OwnFile(maker[x])'
        BY <2>1, <2>4 DEF ArchiveInv, OwnFile
      <3>5. QED
        BY <1>1, <3>2, <3>3, <3>4 DEF ArchiveInv
    <2>5. QED
      BY <2>2, <2>3, <2>4
  <1>5. QED
    BY <1>1, <1>2, <1>3, <1>4, ArchiveIsOpened, ArchiveIsPacked, ArchiveFails, ArchiveIsTested,
       ArchivesArePruned, ArchiveIsLeft DEF BackupNext

\* For every number of overlapping backups, of archives to keep, of failures
\* and of kills: once an archive of a kind has passed its test there is always
\* a good one, unless as many unfinished files as are kept lay in the directory
\* when a backup removed old ones (Backup, verifyArchive, cleanupOld, Prune).
THEOREM ArchivesStayGood == BackupSpec => []GoodArchiveStays
  <1>1. ImportInv /\ ArchiveInv /\ [BackupNext]_backupVars => ImportInv' /\ ArchiveInv'
    BY ImportInvStep, ArchiveInvStep
  <1>2. ArchiveInv => GoodArchiveStays
    BY DEF ArchiveInv
  <1>3. QED
    BY <1>1, <1>2, ImportInvInit, ArchiveInvInit, PTL DEF BackupSpec
-----------------------------------------------------------------------------
(***************************************************************************)
(* The verdicts.  What any goroutine believes of a zone, its own copy or   *)
(* the shared cache, is earned by that zone's authorities; a name that     *)
(* walks up resolves; and no walk begins without a list of suffixes.       *)
(***************************************************************************)

\* PublicSuffixes are the suffixes by every list of suffixes that can be in
\* use.
SuffixesAsListed ==
    \A files \in SuffixFiles :
        LET l == LoadPSL(files) IN
        l # NoPSL => \A z \in Zones : z \in PublicSuffixes =>
                        z \notin l.exceptions /\ (z \in l.rules \/ Parent[z] \in l.wildcards)

\* There is a mainland address among the authorities of the zone.
Earned(z) == MainlandHosts \cap hosts[z] # {}

Believes(known) == \A z \in Zones : known[z] = "cn" => Earned(z)

JudgeOK(d) ==
    LET j == judge[d] IN
    /\ DOMAIN j = {"pc", "local", "at", "zone", "verdict"}
    /\ j.pc \in {"waiting", "final", "up", "merge", "done", "collapsed"}
    /\ DOMAIN j.local = Zones /\ Believes(j.local)
    /\ j.pc = "up" => j.at \in Zones /\ Routable(final[d]) # {} /\ psl # NoPSL
    /\ j.pc = "final" => psl # NoPSL
    /\ j.verdict = "cn" =>
          /\ Routable(final[d]) # {}
          /\ j.zone = d \/ j.zone \notin PublicSuffixes
          /\ Earned(j.zone)

CollapsedOK ==
    (\A d \in Judged : judge[d].pc = "collapsed") =>
        /\ collapsed \subseteq Cn
        /\ lost = 0 => \A d \in Cn : d \in collapsed \/ Parent[d] \in collapsed

VerdictInv ==
    /\ psl \in {LoadPSL(files) : files \in SuffixFiles}
    /\ lost \in Nat
    /\ DOMAIN zoneCache = Zones /\ Believes(zoneCache)
    /\ DOMAIN judge = Judged /\ \A d \in Judged : JudgeOK(d)
    /\ CollapsedOK

LEMMA VerdictInvInit == VerdictInit => VerdictInv
  <1> SUFFICES ASSUME VerdictInit PROVE VerdictInv
    OBVIOUS
  <1>1. \A z \in Zones : [y \in Zones |-> NotKnown][z] # "cn"
    BY DEF NotKnown
  <1>2. \A d \in Judged : judge[d] = Waiting
    BY DEF VerdictInit
  <1>3. ASSUME NEW d \in Judged PROVE JudgeOK(d)
    BY <1>1, <1>2 DEF JudgeOK, Waiting, Believes
  <1>4. Cn = {}
    BY <1>2 DEF Cn, Waiting
  <1>5. QED
    BY <1>1, <1>3, <1>4 DEF VerdictInit, VerdictInv, CollapsedOK, Believes

\* A step of one goroutine leaves the others and what is asked about alone.
LEMMA JudgeStep ==
    ASSUME VerdictInv, NEW d \in Judged, hosts' = hosts, final' = final, psl' = psl,
           collapsed' = collapsed, lost' \in Nat,
           DOMAIN zoneCache' = Zones, Believes(zoneCache'),
           DOMAIN judge' = Judged, \A e \in Judged \ {d} : judge'[e] = judge[e],
           JudgeOK(d)', judge'[d].pc # "collapsed"
    PROVE  VerdictInv'
  <1>1. ASSUME NEW e \in Judged PROVE JudgeOK(e)'
    <2>1. CASE e = d
      BY <2>1
    <2>2. CASE e # d
      <3>1. judge'[e] = judge[e] /\ JudgeOK(e)
        BY <2>2 DEF VerdictInv
      <3>2. QED
        BY <3>1 DEF JudgeOK, Believes, Earned
    <2>3. QED
      BY <2>1, <2>2
  <1>2. Believes(zoneCache)'
    BY DEF Believes, Earned
  <1>3. QED
    BY <1>1, <1>2 DEF VerdictInv, CollapsedOK

\* A query costs at most one of the lost ones.
LEMMA QueryLoses ==
    ASSUME VerdictInv, NEW all, NEW got, Query(all, got)
    PROVE  lost' \in Nat
  BY DEF VerdictInv, Query

\* A zone that is looked at is no public suffix, but for the name itself.
LEMMA NotSkipped ==
    ASSUME SuffixesAsListed, VerdictInv, NEW d \in Judged, NEW z \in Zones, psl # NoPSL, ~skipped(d, z)
    PROVE  z = d \/ z \notin PublicSuffixes
  <1>1. PICK files \in SuffixFiles : psl = LoadPSL(files)
    BY DEF VerdictInv
  <1>2. z = d \/ ~IsPublicSuffix(z)
    BY DEF skipped
  <1>3. z \in PublicSuffixes => z \notin psl.exceptions /\ (z \in psl.rules \/ Parent[z] \in psl.wildcards)
    BY <1>1 DEF SuffixesAsListed
  <1>4. QED
    BY <1>2, <1>3 DEF IsPublicSuffix

\* The two ways on from a zone.
LEMMA GoesUpOK ==
    ASSUME VerdictInv, NEW d \in Judged, judge[d].pc = "up", NEW known,
           DOMAIN known = Zones, Believes(known), GoesUp(d, known),
           hosts' = hosts, final' = final, psl' = psl
    PROVE  /\ DOMAIN judge' = Judged /\ \A e \in Judged \ {d} : judge'[e] = judge[e]
           /\ JudgeOK(d)' /\ judge'[d].pc # "collapsed"
  <1>1. DOMAIN judge = Judged /\ JudgeOK(d)
    BY DEF VerdictInv
  <1>2. PICK j : j = judge[d]
    OBVIOUS
  <1>3. PICK q : q = judge'[d]
    OBVIOUS
  <1>4. q = [[[j EXCEPT !.local = known] EXCEPT !.at = Parent[j.at]]
              EXCEPT !.pc = IF Parent[j.at] = NoParent THEN "merge" ELSE j.pc]
    BY <1>1, <1>2, <1>3 DEF GoesUp, JudgeOK
  <1>5. j.at \in Zones /\ Parent[j.at] \in Zones \cup {NoParent}
    BY <1>1, <1>2, VerdictConstants DEF JudgeOK
  <1>6. /\ q.local = known /\ q.at = Parent[j.at] /\ q.zone = j.zone /\ q.verdict = j.verdict
        /\ q.pc = (IF Parent[j.at] = NoParent THEN "merge" ELSE "up")
        /\ DOMAIN q = {"pc", "local", "at", "zone", "verdict"}
    BY <1>1, <1>2, <1>4 DEF JudgeOK
  <1>7. JudgeOK(d)'
    BY <1>1, <1>2, <1>3, <1>5, <1>6 DEF JudgeOK, Believes, Earned
  <1>8. QED
    BY <1>1, <1>3, <1>6, <1>7 DEF GoesUp

LEMMA ConcludedOK ==
    ASSUME SuffixesAsListed, VerdictInv, NEW d \in Judged, judge[d].pc = "up", NEW known, NEW v,
           DOMAIN known = Zones, Believes(known), Concluded(d, judge[d].at, known, v),
           ~skipped(d, judge[d].at), v = "cn" => Earned(judge[d].at),
           hosts' = hosts, final' = final, psl' = psl
    PROVE  /\ DOMAIN judge' = Judged /\ \A e \in Judged \ {d} : judge'[e] = judge[e]
           /\ JudgeOK(d)' /\ judge'[d].pc # "collapsed"
  <1>1. DOMAIN judge = Judged /\ JudgeOK(d)
    BY DEF VerdictInv
  <1>2. PICK j : j = judge[d]
    OBVIOUS
  <1>3. PICK q : q = judge'[d]
    OBVIOUS
  <1>4. q = [[[[j EXCEPT !.pc = "merge"] EXCEPT !.zone = j.at] EXCEPT !.verdict = v] EXCEPT !.local = known]
    BY <1>1, <1>2, <1>3 DEF Concluded, JudgeOK
  <1>5. j.at \in Zones /\ Routable(final[d]) # {} /\ psl # NoPSL
    BY <1>1, <1>2 DEF JudgeOK
  <1>6. j.at = d \/ j.at \notin PublicSuffixes
    BY <1>2, <1>5, NotSkipped
  <1>7. /\ q.local = known /\ q.at = j.at /\ q.zone = j.at /\ q.verdict = v /\ q.pc = "merge"
        /\ DOMAIN q = {"pc", "local", "at", "zone", "verdict"}
    BY <1>1, <1>2, <1>4 DEF JudgeOK
  <1>8. JudgeOK(d)'
    BY <1>2, <1>3, <1>5, <1>6, <1>7 DEF JudgeOK, Believes, Earned
  <1>9. QED
    BY <1>1, <1>3, <1>7, <1>8 DEF Concluded

LEMMA BeginOrFinal ==
    ASSUME VerdictInv, NEW d \in Judged, JudgeBegins(d) \/ FinalRecords(d)
    PROVE  VerdictInv'
  <1>1. /\ hosts' = hosts /\ final' = final /\ psl' = psl /\ collapsed' = collapsed
        /\ DOMAIN zoneCache' = Zones /\ Believes(zoneCache')
    BY DEF JudgeBegins, FinalRecords, VerdictInv
  <1>2. DOMAIN judge = Judged /\ JudgeOK(d) /\ lost \in Nat
    BY DEF VerdictInv
  <1>3. PICK j : j = judge[d]
    OBVIOUS
  <1>4. PICK q : q = judge'[d]
    OBVIOUS
  <1>5. CASE JudgeBegins(d)
    <2>1. q = [[j EXCEPT !.pc = "final"] EXCEPT !.local = zoneCache]
      BY <1>2, <1>3, <1>4, <1>5 DEF JudgeBegins, JudgeOK
    <2>2. /\ q.local = zoneCache /\ q.at = j.at /\ q.zone = j.zone /\ q.verdict = j.verdict /\ q.pc = "final"
          /\ DOMAIN q = {"pc", "local", "at", "zone", "verdict"}
      BY <1>2, <1>3, <2>1 DEF JudgeOK
    <2>3. DOMAIN zoneCache = Zones /\ Believes(zoneCache) /\ psl # NoPSL
      BY <1>5 DEF VerdictInv, JudgeBegins
    <2>4. JudgeOK(d)'
      BY <1>1, <1>2, <1>3, <1>4, <2>2, <2>3 DEF JudgeOK, Believes, Earned
    <2>5. DOMAIN judge' = Judged /\ (\A e \in Judged \ {d} : judge'[e] = judge[e]) /\ lost' \in Nat
      BY <1>2, <1>5 DEF JudgeBegins
    <2>6. QED
      BY <1>1, <1>4, <2>2, <2>4, <2>5, JudgeStep
  <1>6. CASE FinalRecords(d)
    <2>1. PICK got \in SUBSET final[d] :
             /\ judge[d].pc = "final" /\ Query(final[d], got)
             /\ judge' = [judge EXCEPT ![d].pc = IF Routable(got) = {} THEN "merge" ELSE "up", ![d].at = d]
      BY <1>6 DEF FinalRecords
    <2>2. q = [[j EXCEPT !.pc = IF Routable(got) = {} THEN "merge" ELSE "up"] EXCEPT !.at = d]
      BY <1>2, <1>3, <1>4, <2>1 DEF JudgeOK
    <2>3. /\ q.local = j.local /\ q.at = d /\ q.zone = j.zone /\ q.verdict = j.verdict
          /\ q.pc = (IF Routable(got) = {} THEN "merge" ELSE "up")
          /\ DOMAIN q = {"pc", "local", "at", "zone", "verdict"}
      BY <1>2, <1>3, <2>2 DEF JudgeOK
    <2>4. Routable(got) # {} => Routable(final[d]) # {}
      BY DEF Routable
    <2>5. d \in Zones /\ psl # NoPSL
      BY <1>2, <2>1, VerdictConstants DEF JudgeOK
    <2>6. JudgeOK(d)'
      BY <1>1, <1>2, <1>3, <1>4, <2>3, <2>4, <2>5 DEF JudgeOK, Believes, Earned
    <2>7. DOMAIN judge' = Judged /\ (\A e \in Judged \ {d} : judge'[e] = judge[e]) /\ lost' \in Nat
      BY <1>2, <2>1, QueryLoses
    <2>8. QED
      BY <1>1, <1>4, <2>3, <2>6, <2>7, JudgeStep
  <1>7. QED
    BY <1>5, <1>6

LEMMA Walk ==
    ASSUME SuffixesAsListed, VerdictInv, NEW d \in Judged, knownZone(d) \/ authorityIPs(d)
    PROVE  VerdictInv'
  <1>1. /\ hosts' = hosts /\ final' = final /\ psl' = psl /\ collapsed' = collapsed
        /\ DOMAIN zoneCache' = Zones /\ Believes(zoneCache')
    BY DEF knownZone, authorityIPs, VerdictInv
  <1>2. JudgeOK(d) /\ lost \in Nat
    BY DEF VerdictInv
  <1>3. judge[d].pc = "up" /\ judge[d].at \in Zones /\ DOMAIN judge[d].local = Zones /\ Believes(judge[d].local)
    BY <1>2 DEF knownZone, authorityIPs, JudgeOK
  <1>4. CASE knownZone(d)
    <2>1. lost' \in Nat
      BY <1>2, <1>4 DEF knownZone
    <2>2. CASE GoesUp(d, judge[d].local)
      BY <1>1, <1>3, <2>1, <2>2, GoesUpOK, JudgeStep
    <2>3. CASE /\ ~skipped(d, judge[d].at) /\ judge[d].local[judge[d].at] = "cn"
               /\ Concluded(d, judge[d].at, judge[d].local, "cn")
      <3>1. Earned(judge[d].at)
        BY <1>3, <2>3 DEF Believes
      <3>2. QED
        BY <1>1, <1>3, <2>1, <2>3, <3>1, ConcludedOK, JudgeStep
    <2>4. QED
      BY <1>4, <2>2, <2>3 DEF knownZone
  <1>5. CASE authorityIPs(d)
    <2>0. PICK got \in SUBSET hosts[judge[d].at] :
             LET v == IF Mainland(got) = {} THEN "unknown" ELSE "cn"
                 known == [judge[d].local EXCEPT ![judge[d].at] = v] IN
             /\ Query(hosts[judge[d].at], got)
             /\ IF Routable(got) = {} THEN GoesUp(d, known) ELSE Concluded(d, judge[d].at, known, v)
      BY <1>5 DEF authorityIPs
    <2>1. PICK v, known :
             /\ v = IF Mainland(got) = {} THEN "unknown" ELSE "cn"
             /\ known = [judge[d].local EXCEPT ![judge[d].at] = v]
             /\ Query(hosts[judge[d].at], got)
             /\ IF Routable(got) = {} THEN GoesUp(d, known) ELSE Concluded(d, judge[d].at, known, v)
      BY <2>0
    <2>2. lost' \in Nat
      BY <2>1, QueryLoses
    <2>3. v = "cn" => Earned(judge[d].at)
      BY <2>1 DEF Mainland, Earned
    <2>4. DOMAIN known = Zones /\ Believes(known)
      BY <1>3, <2>1, <2>3 DEF Believes
    <2>5. ~skipped(d, judge[d].at)
      BY <1>5 DEF authorityIPs
    <2>6. CASE GoesUp(d, known)
      BY <1>1, <1>3, <2>2, <2>4, <2>6, GoesUpOK, JudgeStep
    <2>7. CASE Concluded(d, judge[d].at, known, v)
      BY <1>1, <1>3, <2>2, <2>3, <2>4, <2>5, <2>7, ConcludedOK, JudgeStep
    <2>8. QED
      BY <2>1, <2>6, <2>7
  <1>6. QED
    BY <1>4, <1>5

LEMMA Merge ==
    ASSUME VerdictInv, NEW d \in Judged, mergeVerdicts(d)
    PROVE  VerdictInv'
  <1>1. /\ hosts' = hosts /\ final' = final /\ psl' = psl /\ collapsed' = collapsed /\ lost' \in Nat
        /\ DOMAIN judge = Judged /\ JudgeOK(d) /\ DOMAIN zoneCache = Zones /\ Believes(zoneCache)
    BY DEF mergeVerdicts, VerdictInv
  <1>2. PICK j : j = judge[d]
    OBVIOUS
  <1>3. PICK q : q = judge'[d]
    OBVIOUS
  <1>4. q = [j EXCEPT !.pc = "done"]
    BY <1>1, <1>2, <1>3 DEF mergeVerdicts
  <1>5. DOMAIN zoneCache' = Zones /\ Believes(zoneCache')
    BY <1>1 DEF mergeVerdicts, JudgeOK, Believes
  <1>6. /\ q.local = j.local /\ q.at = j.at /\ q.zone = j.zone /\ q.verdict = j.verdict /\ q.pc = "done"
        /\ DOMAIN q = {"pc", "local", "at", "zone", "verdict"}
    BY <1>1, <1>2, <1>4 DEF JudgeOK
  <1>7. JudgeOK(d)'
    BY <1>1, <1>2, <1>3, <1>6 DEF JudgeOK, Believes, Earned
  <1>8. DOMAIN judge' = Judged /\ \A e \in Judged \ {d} : judge'[e] = judge[e]
    BY <1>1 DEF mergeVerdicts
  <1>9. QED
    BY <1>1, <1>3, <1>5, <1>6, <1>7, <1>8, JudgeStep

LEMMA Collapse ==
    ASSUME VerdictInv, CollapseByResolution
    PROVE  VerdictInv'
  <1>1. PICK silent \in SUBSET Cn, orphans \in SUBSET Cn :
           /\ lost' = lost + Cardinality(silent \cup orphans)
           /\ collapsed' = {IF d \in orphans THEN d ELSE StandsFor(d, Cn) :
                                d \in {e \in Cn \ silent : Routable(final[e]) # {}}}
    BY DEF CollapseByResolution
  <1>2. /\ hosts' = hosts /\ final' = final /\ psl' = psl /\ zoneCache' = zoneCache
        /\ judge' = [d \in Judged |-> [judge[d] EXCEPT !.pc = "collapsed"]]
    BY DEF CollapseByResolution
  <1>3. Cardinality(silent \cup orphans) \in Nat /\ (Cardinality(silent \cup orphans) = 0 => silent \cup orphans = {})
    <2>1. silent \cup orphans \subseteq Judged
      BY DEF Cn
    <2>2. IsFiniteSet(silent \cup orphans)
      BY <2>1, VerdictConstants, FS_Subset
    <2>3. QED
      BY <2>2, FS_CardinalityType, FS_EmptySet
  <1>4. lost \in Nat /\ lost' \in Nat /\ (lost' = 0 => silent \cup orphans = {})
    BY <1>1, <1>3 DEF VerdictInv
  <1>5. ASSUME NEW d \in Judged
        PROVE  JudgeOK(d)' /\ judge'[d].verdict = judge[d].verdict
    <2>1. JudgeOK(d)
      BY DEF VerdictInv
    <2>2. PICK j : j = judge[d]
      OBVIOUS
    <2>3. PICK q : q = judge'[d]
      OBVIOUS
    <2>4. q = [j EXCEPT !.pc = "collapsed"]
      BY <1>2, <2>2, <2>3
    <2>5. /\ q.local = j.local /\ q.at = j.at /\ q.zone = j.zone /\ q.verdict = j.verdict /\ q.pc = "collapsed"
          /\ DOMAIN q = {"pc", "local", "at", "zone", "verdict"}
      BY <2>1, <2>2, <2>4 DEF JudgeOK
    <2>6. QED
      BY <1>2, <2>1, <2>2, <2>3, <2>5 DEF JudgeOK, Believes, Earned
  <1>6. Cn' = Cn
    BY <1>5 DEF Cn
  <1>7. \A d \in Cn : Routable(final[d]) # {}
    BY DEF VerdictInv, JudgeOK, Cn
  <1>8. collapsed' \subseteq Cn
    BY <1>1 DEF StandsFor
  <1>9. ASSUME lost' = 0, NEW d \in Cn PROVE d \in collapsed' \/ Parent[d] \in collapsed'
    <2>1. d \in {e \in Cn \ silent : Routable(final[e]) # {}} /\ d \notin orphans
      BY <1>4, <1>7, <1>9
    <2>2. StandsFor(d, Cn) \in collapsed'
      BY <1>1, <2>1
    <2>3. StandsFor(d, Cn) = d \/ StandsFor(d, Cn) = Parent[d]
      BY DEF StandsFor
    <2>4. QED
      BY <2>2, <2>3
  <1>10. CollapsedOK'
    BY <1>6, <1>8, <1>9 DEF CollapsedOK
  <1>11. DOMAIN judge' = Judged /\ DOMAIN zoneCache' = Zones /\ Believes(zoneCache)' /\ psl' \in {LoadPSL(files) : files \in SuffixFiles}
    BY <1>2 DEF VerdictInv, Believes, Earned
  <1>12. QED
    BY <1>4, <1>5, <1>10, <1>11 DEF VerdictInv

LEMMA VerdictInvStep ==
    ASSUME SuffixesAsListed
    PROVE  VerdictInv /\ [VerdictNext]_verdictVars => VerdictInv'
  <1> SUFFICES ASSUME VerdictInv, [VerdictNext]_verdictVars PROVE VerdictInv'
    OBVIOUS
  <1>1. CASE UNCHANGED verdictVars
    BY <1>1 DEF verdictVars, VerdictInv, CollapsedOK, JudgeOK, Believes, Earned, Cn
  <1>2. QED
    BY <1>1, BeginOrFinal, Walk, Merge, Collapse DEF VerdictNext

\* For every tree of names, every set of authorities and answers and every
\* number of goroutines and lost queries: a name judged cn resolves and has a
\* zone, no public suffix but for the name itself, with a mainland address
\* among its authorities, also when the verdict on the zone came from the
\* cache that other goroutines filled; and the collapsed list holds only such
\* names and, when nothing is lost, covers all of them (ClassifyOne,
\* ClassifyMany, CollapseByResolution).
THEOREM VerdictsAreEarned ==
    ASSUME SuffixesAsListed
    PROVE  VerdictSpec => []CnIsEarned
  <1>1. VerdictInv => CnIsEarned
    BY DEF VerdictInv, CollapsedOK, JudgeOK, CnIsEarned, Cn, Earned
  <1>2. QED
    BY <1>1, VerdictInvInit, VerdictInvStep, PTL DEF VerdictSpec
-----------------------------------------------------------------------------
(***************************************************************************)
(* The migration bundle.  No bundle changes under a restore, so what is    *)
(* about to be written is what the manifest lists.  Two restores that use  *)
(* one backup directory have both been counted for it; a restore alone in  *)
(* its directory finds there what it is about to replace, unless the file  *)
(* was edited since.                                                       *)
(***************************************************************************)
Seconds == 0..MaxSeconds

RestorerRecord ==
    [pc : {"idle", "next", "copy", "write"}, dry : BOOLEAN, copy : BOOLEAN, upload : Int,
     at : Paths, todo : SUBSET Targets, dir : Seconds]

BundleInv ==
    /\ DOMAIN export = {"on", "todo", "got"}
    /\ DOMAIN bundle = {"held", "listed", "ours"}
    /\ bundle.listed = source
    /\ export.on => bundle = NoBundle
    /\ bundle.ours \/ \A r \in Restorers : restorer[r].pc = "idle"

MigrationTypes ==
    /\ DOMAIN file = Targets
    /\ second \in Seconds
    /\ restorer \in [Restorers -> RestorerRecord]
    /\ DOMAIN copies = Seconds /\ \A s \in Seconds : DOMAIN copies[s] = Paths
    /\ users \in [Seconds -> Nat]

\* The restore keeps what it replaces in the directory d.
Uses(r, d) == restorer[r].pc # "idle" /\ restorer[r].copy /\ restorer[r].dir = d

RestorerOK(r) ==
    LET k == restorer[r] IN
    /\ k.pc \in {"copy", "write"} => k.at \in Targets /\ whole(k.at) /\ k.at \notin k.todo
    /\ k.pc = "copy" => k.copy
    /\ \A d \in Seconds : Uses(r, d) => users[d] > 0
    /\ k.pc = "write" /\ k.copy /\ [by |-> r, path |-> k.at] \notin edited
          /\ users[k.dir] = 1 /\ file[k.at] # Nothing => copies[k.dir][k.at] = file[k.at]

Safe(x) ==
    /\ x.new = source[x.path]
    /\ x.copied /\ [by |-> x.by, path |-> x.path] \notin edited /\ users[x.dir] = 1 /\ x.old # Nothing =>
           copies[x.dir][x.path] = x.old

ReplacedOK(x) ==
    LET k == restorer[x.by] IN
    /\ x.by \in Restorers /\ x.path \in Targets /\ x.dir \in Seconds
    /\ x.new # Nothing
    /\ Safe(x)
    /\ x.copied => users[x.dir] > 0
    /\ k.pc # "idle" => x.path \notin k.todo
    /\ k.pc \in {"copy", "write"} => x.path # k.at

Apart ==
    /\ \A r, q \in Restorers, d \in Seconds : r # q /\ Uses(r, d) /\ Uses(q, d) => users[d] > 1
    /\ \A x \in replaced, r \in Restorers : x.by # r /\ x.copied /\ Uses(r, x.dir) => users[x.dir] > 1

MigrationInv ==
    /\ MigrationTypes
    /\ BundleInv
    /\ \A r \in Restorers : RestorerOK(r)
    /\ \A x \in replaced : ReplacedOK(x)
    /\ Apart

LEMMA MigrationInvInit == MigrationInit => MigrationInv
  <1> SUFFICES ASSUME MigrationInit PROVE MigrationInv
    OBVIOUS
  <1>1. 0 \in Seconds
    BY MigrationConstants DEF Seconds
  <1>2. NoRestore \in RestorerRecord /\ NoRestore.pc = "idle"
    BY <1>1 DEF NoRestore, RestorerRecord, Paths
  <1>3. MigrationTypes
    BY <1>1, <1>2 DEF MigrationInit, MigrationTypes, Seconds, Absent
  <1>4. \A r \in Restorers : restorer[r].pc = "idle"
    BY <1>2 DEF MigrationInit
  <1>5. BundleInv
    BY <1>4 DEF MigrationInit, BundleInv, NoExport, NoBundle
  <1>6. replaced = {}
    BY DEF MigrationInit
  <1>7. QED
    BY <1>3, <1>4, <1>5, <1>6 DEF MigrationInv, RestorerOK, Apart, Uses

\* A step that leaves the restores, the directories and the files alone, and
\* any bundle that a restore reads.
LEMMA QuietStep ==
    ASSUME MigrationInv, BundleInv', second' \in Seconds, file' = file, restorer' = restorer,
           copies' = copies, users' = users, replaced' = replaced, edited' = edited,
           source' = source \/ replaced = {},
           bundle' = bundle \/ \A r \in Restorers : restorer[r].pc = "idle"
    PROVE  MigrationInv'
  <1>1. MigrationTypes'
    BY DEF MigrationInv, MigrationTypes
  <1>2. ASSUME NEW r \in Restorers PROVE RestorerOK(r)'
    BY DEF MigrationInv, RestorerOK, Uses, whole
  <1>3. ASSUME NEW x \in replaced PROVE ReplacedOK(x)'
    BY DEF MigrationInv, ReplacedOK, Safe
  <1>4. Apart'
    BY DEF MigrationInv, Apart, Uses
  <1>5. QED
    BY <1>1, <1>2, <1>3, <1>4 DEF MigrationInv

LEMMA ExportSteps ==
    ASSUME MigrationInv,
           \/ TickSecond \/ WriteMigrationBundle \/ writeManifest
           \/ \E p \in Targets : writeTarFile(p)
           \/ \E p \in Paths, c \in Contents \cup {Nothing} : Damage(p, c)
    PROVE  MigrationInv'
  <1>1. BundleInv /\ second \in Seconds
    BY DEF MigrationInv, MigrationTypes
  <1>2. CASE TickSecond
    <2>1. second' \in Seconds
      BY <1>1, <1>2, MigrationConstants DEF TickSecond, Seconds
    <2>2. BundleInv'
      BY <1>1, <1>2 DEF TickSecond, BundleInv
    <2>3. QED
      BY <1>2, <2>1, <2>2, QuietStep DEF TickSecond
  <1>3. CASE WriteMigrationBundle
    <2>1. BundleInv'
      BY <1>1, <1>3 DEF WriteMigrationBundle, BundleInv
    <2>2. QED
      BY <1>1, <1>3, <2>1, QuietStep DEF WriteMigrationBundle
  <1>4. CASE \E p \in Targets : writeTarFile(p)
    <2>1. PICK p \in Targets : writeTarFile(p)
      BY <1>4
    <2>2. export'.on = export.on /\ DOMAIN export' = DOMAIN export
      BY <1>1, <2>1 DEF writeTarFile, BundleInv
    <2>3. BundleInv'
      BY <1>1, <2>1, <2>2 DEF writeTarFile, BundleInv
    <2>4. QED
      BY <1>1, <2>1, <2>3, QuietStep DEF writeTarFile
  <1>5. CASE writeManifest
    <2>1. bundle = NoBundle
      BY <1>1, <1>5 DEF writeManifest, BundleInv
    <2>2. source = Absent /\ \A r \in Restorers : restorer[r].pc = "idle"
      BY <1>1, <2>1 DEF BundleInv, NoBundle
    <2>3. \A p \in Targets : source[p] = Nothing
      BY <2>2 DEF Absent, Paths
    <2>4. replaced = {}
      BY <2>3 DEF MigrationInv, ReplacedOK, Safe
    <2>5. BundleInv'
      BY <1>1, <1>5 DEF writeManifest, BundleInv, NoExport
    <2>6. QED
      BY <1>1, <1>5, <2>2, <2>4, <2>5, QuietStep DEF writeManifest
  <1>6. CASE \E p \in Paths, c \in Contents \cup {Nothing} : Damage(p, c)
    <2>1. PICK p \in Paths, c \in Contents \cup {Nothing} : Damage(p, c)
      BY <1>6
    <2>2. \A r \in Restorers : restorer[r].pc = "idle"
      BY <2>1 DEF Damage
    <2>3. bundle'.listed = bundle.listed /\ DOMAIN bundle' = DOMAIN bundle
      BY <1>1, <2>1 DEF Damage, BundleInv
    <2>4. ~export.on
      BY <1>1, <2>1 DEF Damage, BundleInv, NoBundle
    <2>5. BundleInv'
      BY <1>1, <2>1, <2>2, <2>3, <2>4 DEF Damage, BundleInv
    <2>6. QED
      BY <1>1, <2>1, <2>2, <2>5, QuietStep DEF Damage
  <1>7. QED
    BY <1>2, <1>3, <1>4, <1>5, <1>6

\* A file changes under restores: those that have copied it are overtaken.
LEMMA EditStep ==
    ASSUME MigrationInv, NEW p \in Targets, NEW c \in Contents, EditFile(p, c)
    PROVE  MigrationInv'
  <1>1. /\ restorer' = restorer /\ copies' = copies /\ users' = users /\ replaced' = replaced
        /\ source' = source /\ bundle' = bundle /\ export' = export /\ second' = second
        /\ edited \subseteq edited' /\ Overtaken(p) \subseteq edited'
        /\ DOMAIN file' = Targets /\ \A t \in Targets : t # p => file'[t] = file[t]
    BY DEF EditFile, MigrationInv, MigrationTypes
  <1>2. MigrationTypes' /\ BundleInv' /\ Apart'
    BY <1>1 DEF MigrationInv, MigrationTypes, BundleInv, Apart, Uses
  <1>3. ASSUME NEW r \in Restorers PROVE RestorerOK(r)'
    <2>1. RestorerOK(r)
      BY DEF MigrationInv
    <2>2. restorer[r].pc = "write" /\ restorer[r].at = p => [by |-> r, path |-> p] \in edited'
      BY <1>1 DEF Overtaken
    <2>3. QED
      BY <1>1, <2>1, <2>2 DEF RestorerOK, Uses, whole
  <1>4. ASSUME NEW x \in replaced PROVE ReplacedOK(x)'
    <2>1. ReplacedOK(x)
      BY DEF MigrationInv
    <2>2. QED
      BY <1>1, <2>1 DEF ReplacedOK, Safe
  <1>5. QED
    BY <1>1, <1>2, <1>3, <1>4 DEF MigrationInv

LEMMA BeginStep ==
    ASSUME MigrationInv, NEW r \in Restorers, NEW dry \in BOOLEAN, NEW copy \in BOOLEAN, NEW upload \in Int,
           Begin(r, dry, copy, upload)
    PROVE  MigrationInv'
  <1>1. MigrationTypes /\ BundleInv /\ Apart /\ restorer[r].pc = "idle"
    BY DEF MigrationInv, Begin
  <1>2. /\ file' = file /\ export' = export /\ bundle' = bundle /\ source' = source /\ second' = second
        /\ copies' = copies /\ replaced' = {x \in replaced : x.by # r} /\ edited' = {o \in edited : o.by # r}
    BY DEF Begin
  <1>3. PICK counted \in BOOLEAN : counted = (bundle.ours /\ copy /\ ~dry)
    OBVIOUS
  <1>4. /\ users' \in [Seconds -> Nat]
        /\ users'[second] = users[second] + (IF counted THEN 1 ELSE 0)
        /\ \A s \in Seconds : s # second => users'[s] = users[s]
    <2>1. PICK n \in Nat : n = IF counted THEN 1 ELSE 0
      OBVIOUS
    <2>2. users' = [users EXCEPT ![second] = @ + (IF bundle.ours /\ copy /\ ~dry THEN 1 ELSE 0)]
      BY DEF Begin
    <2>3. (IF bundle.ours /\ copy /\ ~dry THEN 1 ELSE 0) = n
      BY <1>3, <2>1
    <2>4. users' = [users EXCEPT ![second] = @ + n]
      BY <2>2, <2>3
    <2>5. users \in [Seconds -> Nat] /\ second \in Seconds
      BY <1>1 DEF MigrationTypes
    <2>6. QED
      BY <2>1, <2>4, <2>5
  <1>5. \A q \in Restorers : q # r => restorer'[q] = restorer[q]
    BY <1>1 DEF Begin, MigrationTypes
  <1>6. /\ restorer'[r] \in RestorerRecord /\ restorer'[r].pc \in {"idle", "next"}
        /\ bundle.ours \/ restorer'[r].pc = "idle"
        /\ restorer'[r].pc # "idle" => restorer'[r].dir = second /\ restorer'[r].copy = counted
    <2>1. CASE bundle.ours
      <3>1. restorer'[r] = [pc |-> "next", dry |-> dry, copy |-> copy /\ ~dry, upload |-> upload, at |-> Foreign,
                            todo |-> {p \in Targets : bundle.listed[p] # Nothing}, dir |-> second]
        BY <1>1, <2>1 DEF Begin, MigrationTypes
      <3>2. (copy /\ ~dry) \in BOOLEAN /\ (copy /\ ~dry) = counted
        BY <1>3, <2>1
      <3>3. QED
        BY <1>1, <2>1, <3>1, <3>2 DEF RestorerRecord, MigrationTypes, Paths
    <2>2. CASE ~bundle.ours
      BY <1>1, <2>2 DEF Begin, MigrationTypes
    <2>3. QED
      BY <2>1, <2>2
  <1>7. restorer' \in [Restorers -> RestorerRecord]
    BY <1>1, <1>5, <1>6 DEF Begin, MigrationTypes
  <1>8. MigrationTypes'
    BY <1>1, <1>2, <1>4, <1>7 DEF MigrationTypes
  <1>9. BundleInv'
    BY <1>1, <1>2, <1>5, <1>6 DEF BundleInv
  <1>10. \A d \in Seconds : Uses(r, d)' => d = second /\ counted
    BY <1>6 DEF Uses
  <1>11. \A q \in Restorers, d \in Seconds : q # r => (Uses(q, d)' <=> Uses(q, d))
    BY <1>5 DEF Uses
  <1>12. \A d \in Seconds : users'[d] >= users[d] /\ (users[d] > 0 /\ users'[d] = 1 => users[d] = 1)
    BY <1>1, <1>4 DEF MigrationTypes
  <1>13. \A q \in Restorers, p \in Paths : q # r => ([by |-> q, path |-> p] \in edited' <=> [by |-> q, path |-> p] \in edited)
    BY <1>2
  <1>14. ASSUME NEW q \in Restorers PROVE RestorerOK(q)'
    <2>1. CASE q = r
      BY <1>1, <1>4, <1>6, <1>10, <2>1 DEF RestorerOK, MigrationTypes
    <2>2. CASE q # r
      <3>1. RestorerOK(q) /\ restorer'[q] = restorer[q] /\ restorer[q] \in RestorerRecord
        BY <1>1, <1>5, <2>2 DEF MigrationInv, MigrationTypes
      <3>2. \A d \in Seconds : Uses(q, d) => users[d] > 0 /\ users'[d] > 0
        BY <1>1, <1>8, <1>12, <3>1 DEF RestorerOK, MigrationTypes
      <3>3. restorer[q].pc = "write" /\ restorer[q].copy => Uses(q, restorer[q].dir)
        BY DEF Uses
      <3>4. restorer[q].at \in Paths /\ restorer[q].dir \in Seconds
        BY <3>1 DEF RestorerRecord
      <3>5. QED
        BY <1>2, <1>11, <1>12, <1>13, <2>2, <3>1, <3>2, <3>3, <3>4 DEF RestorerOK, whole
    <2>3. QED
      BY <2>1, <2>2
  <1>15. ASSUME NEW x \in replaced' PROVE ReplacedOK(x)' /\ x \in replaced /\ x.by # r
    <2>1. x \in replaced /\ x.by # r /\ ReplacedOK(x)
      BY <1>2 DEF MigrationInv
    <2>2. restorer'[x.by] = restorer[x.by] /\ x.by \in Restorers /\ x.path \in Paths /\ x.dir \in Seconds
      BY <1>5, <2>1 DEF ReplacedOK, Paths
    <2>3. x.copied => users[x.dir] > 0 /\ users'[x.dir] > 0
      BY <1>1, <1>8, <1>12, <2>1, <2>2 DEF ReplacedOK, MigrationTypes
    <2>4. Safe(x)'
      BY <1>2, <1>12, <1>13, <2>1, <2>2, <2>3 DEF ReplacedOK, Safe
    <2>5. QED
      BY <2>1, <2>2, <2>3, <2>4 DEF ReplacedOK
  <1>16. \A q \in Restorers, d \in Seconds : Uses(q, d) => users[d] > 0
    BY DEF MigrationInv, RestorerOK
  <1>17. \A d \in Seconds : users[d] \in Nat /\ users'[d] \in Nat
    BY <1>1, <1>4 DEF MigrationTypes
  <1>18. Apart'
    <2>1. ASSUME NEW a \in Restorers, NEW b \in Restorers, NEW d \in Seconds, a # b, Uses(a, d)', Uses(b, d)'
          PROVE  users'[d] > 1
      <3>1. CASE a # r /\ b # r
        BY <1>1, <1>11, <1>12, <1>17, <2>1, <3>1 DEF Apart
      <3>2. CASE a = r \/ b = r
        <4>1. d = second /\ counted /\ users[d] > 0
          BY <1>10, <1>11, <1>16, <2>1, <3>2
        <4>2. QED
          BY <1>4, <1>17, <4>1
      <3>3. QED
        BY <3>1, <3>2
    <2>2. ASSUME NEW x \in replaced', NEW q \in Restorers, x.by # q, x.copied, Uses(q, x.dir)'
          PROVE  users'[x.dir] > 1
      <3>1. x \in replaced /\ x.by # r /\ ReplacedOK(x)
        BY <1>15 DEF MigrationInv
      <3>2. x.dir \in Seconds /\ users[x.dir] > 0
        BY <2>2, <3>1 DEF ReplacedOK
      <3>3. CASE q = r
        <4>1. x.dir = second /\ counted
          BY <1>10, <2>2, <3>2, <3>3
        <4>2. QED
          BY <1>4, <1>17, <3>2, <4>1
      <3>4. CASE q # r
        <4>1. users[x.dir] > 1
          BY <1>1, <1>11, <2>2, <3>1, <3>2, <3>4 DEF Apart
        <4>2. QED
          BY <1>12, <1>17, <3>2, <4>1
      <3>5. QED
        BY <3>3, <3>4
    <2>3. QED
      BY <2>1, <2>2 DEF Apart
  <1>19. QED
    BY <1>8, <1>9, <1>14, <1>15, <1>18 DEF MigrationInv

\* A step of a restore under way: the bundle, the uses of directories and the
\* other restores stay as they are.
LEMMA RestoreStep ==
    ASSUME MigrationInv, NEW r \in Restorers, export' = export, bundle' = bundle, source' = source,
           second' = second, users' = users, restorer' \in [Restorers -> RestorerRecord],
           \A q \in Restorers : q # r => restorer'[q] = restorer[q],
           restorer[r].pc # "idle",
           restorer'[r].pc # "idle" => restorer'[r].dir = restorer[r].dir /\ restorer'[r].copy = restorer[r].copy
    PROVE  /\ BundleInv'
           /\ \A q \in Restorers, d \in Seconds : Uses(q, d)' => Uses(q, d)
           /\ \A a, b \in Restorers, d \in Seconds : a # b /\ Uses(a, d)' /\ Uses(b, d)' => users'[d] > 1
  <1>1. BundleInv /\ Apart
    BY DEF MigrationInv
  <1>2. BundleInv'
    BY <1>1 DEF BundleInv
  <1>3. \A q \in Restorers, d \in Seconds : Uses(q, d)' => Uses(q, d)
    BY DEF Uses
  <1>4. QED
    BY <1>1, <1>2, <1>3 DEF Apart

LEMMA NextFileStep ==
    ASSUME MigrationInv, NEW r \in Restorers, nextFile(r)
    PROVE  MigrationInv'
  <1>1. MigrationTypes /\ BundleInv /\ Apart /\ restorer[r].pc = "next"
    BY DEF MigrationInv, nextFile
  <1>2. /\ file' = file /\ export' = export /\ bundle' = bundle /\ source' = source /\ second' = second
        /\ copies' = copies /\ users' = users /\ replaced' = replaced /\ edited' = edited
    BY DEF nextFile
  <1>3. PICK k \in RestorerRecord : k = restorer[r]
    BY <1>1 DEF MigrationTypes
  <1>4. PICK p \in k.todo, pc \in {"next", "copy", "write"} :
           /\ restorer' = [restorer EXCEPT ![r].todo = @ \ {p}, ![r].at = p, ![r].pc = pc]
           /\ pc \in {"copy", "write"} => whole(p) /\ (pc = "copy" <=> k.copy)
    <2>1. PICK p \in k.todo : restorer' = [restorer EXCEPT
              ![r].todo = @ \ {p}, ![r].at = p,
              ![r].pc = IF ~whole(p) \/ file[p] = bundle.held[p] \/ restorer[r].dry THEN "next"
                        ELSE IF restorer[r].copy THEN "copy" ELSE "write"]
      BY <1>3 DEF nextFile
    <2>2. PICK pc : pc = IF ~whole(p) \/ file[p] = bundle.held[p] \/ restorer[r].dry THEN "next"
                         ELSE IF restorer[r].copy THEN "copy" ELSE "write"
      OBVIOUS
    <2>3. pc \in {"next", "copy", "write"} /\ (pc \in {"copy", "write"} => whole(p) /\ (pc = "copy" <=> k.copy))
      BY <1>3, <2>2
    <2>4. restorer' = [restorer EXCEPT ![r].todo = @ \ {p}, ![r].at = p, ![r].pc = pc]
      BY <2>1, <2>2
    <2>5. QED
      BY <2>3, <2>4
  <1>5. p \in Targets /\ p \in Paths
    BY <1>4 DEF RestorerRecord, Paths
  <1>6. PICK n : n = restorer'[r]
    OBVIOUS
  <1>7. n = [[[k EXCEPT !.todo = k.todo \ {p}] EXCEPT !.at = p] EXCEPT !.pc = pc]
    BY <1>1, <1>3, <1>4, <1>6 DEF MigrationTypes, RestorerRecord
  <1>8. n \in RestorerRecord /\ n.todo = k.todo \ {p} /\ n.at = p /\ n.pc = pc /\ n.dir = k.dir /\ n.copy = k.copy
    BY <1>5, <1>7 DEF RestorerRecord
  <1>9. /\ restorer' \in [Restorers -> RestorerRecord]
        /\ \A q \in Restorers : q # r => restorer'[q] = restorer[q]
    BY <1>1, <1>4, <1>6, <1>8 DEF MigrationTypes
  <1>10. /\ BundleInv'
         /\ \A q \in Restorers, d \in Seconds : Uses(q, d)' => Uses(q, d)
         /\ \A a, b \in Restorers, d \in Seconds : a # b /\ Uses(a, d)' /\ Uses(b, d)' => users'[d] > 1
    BY <1>1, <1>2, <1>3, <1>6, <1>8, <1>9, RestoreStep
  <1>11. MigrationTypes'
    BY <1>1, <1>2, <1>9 DEF MigrationTypes
  <1>12. ASSUME NEW q \in Restorers PROVE RestorerOK(q)'
    <2>1. RestorerOK(q)
      BY DEF MigrationInv
    <2>2. \A d \in Seconds : Uses(q, d)' => users'[d] > 0
      BY <1>2, <1>10, <2>1 DEF RestorerOK
    <2>3. CASE q = r
      <3>1. /\ n.pc \in {"copy", "write"} => n.at \in Targets /\ whole(n.at)' /\ n.at \notin n.todo
            /\ n.pc = "copy" => n.copy
            /\ n.pc = "write" => ~n.copy
        BY <1>2, <1>4, <1>5, <1>8 DEF whole
      <3>2. QED
        BY <1>6, <2>2, <2>3, <3>1 DEF RestorerOK
    <2>4. CASE q # r
      BY <1>2, <1>9, <2>1, <2>2, <2>4 DEF RestorerOK, whole
    <2>5. QED
      BY <2>3, <2>4
  <1>13. ASSUME NEW x \in replaced' PROVE ReplacedOK(x)'
    <2>1. x \in replaced /\ ReplacedOK(x)
      BY <1>2 DEF MigrationInv
    <2>2. Safe(x)'
      BY <1>2, <2>1 DEF ReplacedOK, Safe
    <2>3. CASE x.by = r
      <3>1. x.path \notin k.todo
        BY <1>1, <1>3, <2>1, <2>3 DEF ReplacedOK
      <3>2. x.path \notin n.todo /\ x.path # n.at
        BY <1>4, <1>8, <3>1
      <3>3. QED
        BY <1>2, <1>6, <2>1, <2>2, <2>3, <3>2 DEF ReplacedOK
    <2>4. CASE x.by # r
      BY <1>2, <1>9, <2>1, <2>2, <2>4 DEF ReplacedOK
    <2>5. QED
      BY <2>3, <2>4
  <1>14. Apart'
    BY <1>1, <1>2, <1>10, <1>13 DEF Apart, ReplacedOK
  <1>15. QED
    BY <1>10, <1>11, <1>12, <1>13, <1>14 DEF MigrationInv

LEMMA CopyStep ==
    ASSUME MigrationInv, NEW r \in Restorers, backupExisting(r)
    PROVE  MigrationInv'
  <1>1. MigrationTypes /\ BundleInv /\ Apart /\ restorer[r].pc = "copy" /\ RestorerOK(r)
    BY DEF MigrationInv, backupExisting
  <1>2. /\ file' = file /\ export' = export /\ bundle' = bundle /\ source' = source /\ second' = second
        /\ users' = users /\ replaced' = replaced /\ edited' = edited
        /\ restorer' = [restorer EXCEPT ![r].pc = "write"]
    BY DEF backupExisting
  <1>3. PICK k \in RestorerRecord : k = restorer[r]
    BY <1>1 DEF MigrationTypes
  <1>4. PICK n \in RestorerRecord : n = restorer'[r] /\ n = [k EXCEPT !.pc = "write"]
    BY <1>1, <1>2, <1>3 DEF MigrationTypes, RestorerRecord
  <1>5. n.pc = "write" /\ n.todo = k.todo /\ n.at = k.at /\ n.dir = k.dir /\ n.copy = k.copy
    BY <1>4 DEF RestorerRecord
  <1>6. /\ restorer' \in [Restorers -> RestorerRecord]
        /\ \A q \in Restorers : q # r => restorer'[q] = restorer[q]
    BY <1>1, <1>2, <1>4 DEF MigrationTypes
  <1>7. k.at \in Targets /\ k.at \in Paths /\ k.dir \in Seconds /\ k.copy /\ k.at \notin k.todo /\ whole(k.at)
    BY <1>1, <1>3 DEF RestorerOK, RestorerRecord, Paths
  <1>8. /\ DOMAIN copies' = Seconds /\ \A s \in Seconds : DOMAIN copies'[s] = Paths
        /\ file[k.at] # Nothing => copies'[k.dir][k.at] = file[k.at]
        /\ \A s \in Seconds, p \in Paths : s # k.dir \/ p # k.at => copies'[s][p] = copies[s][p]
    <2>1. CASE file[k.at] = Nothing
      BY <1>1, <1>3, <2>1 DEF backupExisting, MigrationTypes
    <2>2. CASE file[k.at] # Nothing
      <3>1. copies' = [copies EXCEPT ![k.dir][k.at] = file[k.at]]
        BY <1>3, <2>2 DEF backupExisting
      <3>2. QED
        BY <1>1, <1>7, <3>1 DEF MigrationTypes
    <2>3. QED
      BY <2>1, <2>2
  <1>9. /\ BundleInv'
        /\ \A q \in Restorers, d \in Seconds : Uses(q, d)' => Uses(q, d)
        /\ \A a, b \in Restorers, d \in Seconds : a # b /\ Uses(a, d)' /\ Uses(b, d)' => users'[d] > 1
    BY <1>1, <1>2, <1>3, <1>4, <1>5, <1>6, RestoreStep
  <1>10. MigrationTypes'
    BY <1>1, <1>2, <1>6, <1>8 DEF MigrationTypes
  <1>11. Uses(r, k.dir)
    BY <1>1, <1>3, <1>7 DEF Uses
  <1>12. ASSUME NEW q \in Restorers PROVE RestorerOK(q)'
    <2>1. RestorerOK(q) /\ restorer[q] \in RestorerRecord
      BY <1>1 DEF MigrationInv, MigrationTypes
    <2>2. \A d \in Seconds : Uses(q, d)' => users'[d] > 0
      BY <1>2, <1>9, <2>1 DEF RestorerOK
    <2>3. CASE q = r
      <3>1. n.at \in Targets /\ whole(n.at)' /\ n.at \notin n.todo
        BY <1>2, <1>5, <1>7 DEF whole
      <3>2. file'[n.at] # Nothing => copies'[n.dir][n.at] = file'[n.at]
        BY <1>2, <1>5, <1>8
      <3>3. QED
        BY <1>4, <1>5, <2>2, <2>3, <3>1, <3>2 DEF RestorerOK
    <2>4. CASE q # r
      <3>1. PICK m \in RestorerRecord : m = restorer[q] /\ m = restorer'[q]
        BY <1>6, <2>1, <2>4
      <3>2. m.pc = "write" /\ m.copy /\ users[m.dir] = 1 => m.dir # k.dir
        <4>1. m.pc = "write" /\ m.copy => Uses(q, m.dir)
          BY <3>1 DEF Uses
        <4>2. QED
          BY <1>1, <1>7, <1>11, <2>4, <4>1 DEF Apart
      <3>3. m.dir \in Seconds /\ m.at \in Paths
        BY DEF RestorerRecord
      <3>4. m.pc = "write" /\ m.copy /\ users[m.dir] = 1 => copies'[m.dir][m.at] = copies[m.dir][m.at]
        BY <1>8, <3>2, <3>3
      <3>5. QED
        BY <1>2, <2>1, <2>2, <3>1, <3>4 DEF RestorerOK, whole
    <2>5. QED
      BY <2>3, <2>4
  <1>13. ASSUME NEW x \in replaced' PROVE ReplacedOK(x)'
    <2>1. x \in replaced /\ ReplacedOK(x) /\ x.path \in Paths /\ x.dir \in Seconds
      BY <1>2 DEF MigrationInv, ReplacedOK, Paths
    <2>2. CASE x.by = r
      <3>1. x.path \notin k.todo /\ x.path # k.at
        BY <1>1, <1>3, <2>1, <2>2 DEF ReplacedOK
      <3>2. copies'[x.dir][x.path] = copies[x.dir][x.path]
        BY <1>8, <2>1, <3>1
      <3>3. Safe(x)'
        BY <1>2, <2>1, <3>2 DEF ReplacedOK, Safe
      <3>4. QED
        BY <1>2, <1>4, <1>5, <2>1, <2>2, <3>1, <3>3 DEF ReplacedOK
    <2>3. CASE x.by # r
      <3>1. x.copied /\ users[x.dir] = 1 => x.dir # k.dir
        BY <1>1, <1>11, <2>1, <2>3 DEF Apart
      <3>2. x.copied /\ users[x.dir] = 1 => copies'[x.dir][x.path] = copies[x.dir][x.path]
        BY <1>8, <2>1, <3>1
      <3>3. Safe(x)'
        BY <1>2, <2>1, <3>2 DEF ReplacedOK, Safe
      <3>4. QED
        BY <1>2, <1>6, <2>1, <2>3, <3>3 DEF ReplacedOK
    <2>4. QED
      BY <2>2, <2>3
  <1>14. Apart'
    BY <1>1, <1>2, <1>9, <1>13 DEF Apart, ReplacedOK
  <1>15. QED
    BY <1>9, <1>10, <1>12, <1>13, <1>14 DEF MigrationInv

LEMMA WriteStep ==
    ASSUME MigrationInv, NEW r \in Restorers, writeRestored(r)
    PROVE  MigrationInv'
  <1>1. MigrationTypes /\ BundleInv /\ Apart /\ restorer[r].pc = "write" /\ RestorerOK(r)
    BY DEF MigrationInv, writeRestored
  <1>2. /\ export' = export /\ bundle' = bundle /\ source' = source /\ second' = second
        /\ copies' = copies /\ users' = users /\ restorer' = [restorer EXCEPT ![r].pc = "next"]
    BY DEF writeRestored
  <1>3. PICK k \in RestorerRecord : k = restorer[r]
    BY <1>1 DEF MigrationTypes
  <1>4. PICK n \in RestorerRecord : n = restorer'[r] /\ n = [k EXCEPT !.pc = "next"]
    BY <1>1, <1>2, <1>3 DEF MigrationTypes, RestorerRecord
  <1>5. n.pc = "next" /\ n.todo = k.todo /\ n.at = k.at /\ n.dir = k.dir /\ n.copy = k.copy
    BY <1>4 DEF RestorerRecord
  <1>6. /\ restorer' \in [Restorers -> RestorerRecord]
        /\ \A q \in Restorers : q # r => restorer'[q] = restorer[q]
    BY <1>1, <1>2, <1>4 DEF MigrationTypes
  <1>7. k.at \in Targets /\ k.dir \in Seconds /\ k.at \notin k.todo /\ whole(k.at)
    BY <1>1, <1>3 DEF RestorerOK, RestorerRecord
  <1>8. PICK y : y = [by |-> r, path |-> k.at, old |-> file[k.at], new |-> bundle.held[k.at],
                      copied |-> k.copy, dir |-> k.dir]
    OBVIOUS
  <1>9. /\ file' = [file EXCEPT ![k.at] = bundle.held[k.at]]
        /\ replaced' = replaced \cup {y}
        /\ edited' = edited \cup {o \in Overtaken(k.at) : o.by # r}
    BY <1>3, <1>8 DEF writeRestored
  <1>10. /\ BundleInv'
         /\ \A q \in Restorers, d \in Seconds : Uses(q, d)' => Uses(q, d)
         /\ \A a, b \in Restorers, d \in Seconds : a # b /\ Uses(a, d)' /\ Uses(b, d)' => users'[d] > 1
    BY <1>1, <1>2, <1>3, <1>4, <1>5, <1>6, RestoreStep
  <1>11. MigrationTypes'
    BY <1>1, <1>2, <1>6, <1>9 DEF MigrationTypes
  <1>12. ASSUME NEW q \in Restorers PROVE RestorerOK(q)'
    <2>1. RestorerOK(q) /\ restorer[q] \in RestorerRecord
      BY <1>1 DEF MigrationInv, MigrationTypes
    <2>2. \A d \in Seconds : Uses(q, d)' => users'[d] > 0
      BY <1>2, <1>10, <2>1 DEF RestorerOK
    <2>3. CASE q = r
      BY <1>4, <1>5, <2>2, <2>3 DEF RestorerOK
    <2>4. CASE q # r
      <3>1. PICK m \in RestorerRecord : m = restorer[q] /\ m = restorer'[q]
        BY <1>6, <2>1, <2>4
      <3>2. m.pc = "write" /\ m.at = k.at => [by |-> q, path |-> m.at] \in edited'
        BY <1>9, <2>4, <3>1 DEF Overtaken
      <3>3. m.pc = "write" /\ m.at # k.at => file'[m.at] = file[m.at]
        BY <1>1, <1>9, <2>1, <3>1 DEF MigrationTypes, RestorerOK
      <3>4. edited \subseteq edited'
        BY <1>9
      <3>5. QED
        BY <1>2, <2>1, <2>2, <3>1, <3>2, <3>3, <3>4 DEF RestorerOK, whole
    <2>5. QED
      BY <2>3, <2>4
  <1>13. /\ y.by = r /\ y.path = k.at /\ y.old = file[k.at] /\ y.new = bundle.held[k.at]
         /\ y.copied = k.copy /\ y.dir = k.dir
    BY <1>8
  <1>14. y.new = source[y.path] /\ y.new # Nothing
    BY <1>1, <1>7, <1>13 DEF BundleInv, whole
  <1>15. y.copied => Uses(r, y.dir)
    BY <1>1, <1>3, <1>13 DEF Uses
  <1>16. ReplacedOK(y)'
    <2>1. y.copied /\ [by |-> y.by, path |-> y.path] \notin edited /\ users[y.dir] = 1 /\ y.old # Nothing =>
              copies[y.dir][y.path] = y.old
      BY <1>1, <1>3, <1>13 DEF RestorerOK
    <2>2. Safe(y)'
      BY <1>2, <1>9, <1>14, <2>1 DEF Safe
    <2>3. y.copied => users'[y.dir] > 0
      BY <1>1, <1>2, <1>7, <1>13, <1>15 DEF RestorerOK
    <2>4. QED
      BY <1>4, <1>5, <1>7, <1>13, <1>14, <2>2, <2>3 DEF ReplacedOK
  <1>17. ASSUME NEW x \in replaced PROVE ReplacedOK(x)'
    <2>1. ReplacedOK(x)
      BY DEF MigrationInv
    <2>2. Safe(x)'
      BY <1>2, <1>9, <2>1 DEF ReplacedOK, Safe
    <2>3. CASE x.by = r
      <3>1. x.path \notin k.todo
        BY <1>1, <1>3, <2>1, <2>3 DEF ReplacedOK
      <3>2. QED
        BY <1>2, <1>4, <1>5, <2>1, <2>2, <2>3, <3>1 DEF ReplacedOK
    <2>4. CASE x.by # r
      BY <1>2, <1>6, <2>1, <2>2, <2>4 DEF ReplacedOK
    <2>5. QED
      BY <2>3, <2>4
  <1>18. ASSUME NEW x \in replaced', NEW q \in Restorers, x.by # q, x.copied, Uses(q, x.dir)'
         PROVE  users'[x.dir] > 1
    <2>1. CASE x = y
      <3>1. y.dir \in Seconds /\ Uses(q, y.dir) /\ Uses(r, y.dir) /\ q # r
        BY <1>7, <1>10, <1>13, <1>15, <1>18, <2>1
      <3>2. QED
        BY <1>1, <1>2, <2>1, <3>1 DEF Apart
    <2>2. CASE x \in replaced
      <3>1. x.dir \in Seconds
        BY <2>2 DEF MigrationInv, ReplacedOK
      <3>2. QED
        BY <1>1, <1>2, <1>10, <1>18, <2>2, <3>1 DEF Apart
    <2>3. QED
      BY <1>9, <2>1, <2>2
  <1>19. Apart'
    BY <1>10, <1>18 DEF Apart
  <1>20. QED
    BY <1>9, <1>10, <1>11, <1>12, <1>16, <1>17, <1>19 DEF MigrationInv

LEMMA OverStep ==
    ASSUME MigrationInv, NEW r \in Restorers, restorer[r].pc # "idle", RestoreOver(r)
    PROVE  MigrationInv'
  <1>1. MigrationTypes /\ BundleInv /\ Apart
    BY DEF MigrationInv
  <1>2. /\ file' = file /\ export' = export /\ bundle' = bundle /\ source' = source /\ second' = second
        /\ copies' = copies /\ users' = users /\ replaced' = replaced /\ edited' = edited
        /\ restorer' = [restorer EXCEPT ![r] = NoRestore]
    BY DEF RestoreOver
  <1>3. NoRestore \in RestorerRecord /\ NoRestore.pc = "idle"
    BY MigrationConstants DEF NoRestore, RestorerRecord, Paths, Seconds
  <1>4. /\ restorer' \in [Restorers -> RestorerRecord] /\ restorer'[r].pc = "idle"
        /\ \A q \in Restorers : q # r => restorer'[q] = restorer[q]
    BY <1>1, <1>2, <1>3 DEF MigrationTypes
  <1>5. /\ BundleInv'
        /\ \A q \in Restorers, d \in Seconds : Uses(q, d)' => Uses(q, d)
        /\ \A a, b \in Restorers, d \in Seconds : a # b /\ Uses(a, d)' /\ Uses(b, d)' => users'[d] > 1
    BY <1>1, <1>2, <1>4, RestoreStep
  <1>6. MigrationTypes'
    BY <1>1, <1>2, <1>4 DEF MigrationTypes
  <1>7. ASSUME NEW q \in Restorers PROVE RestorerOK(q)'
    <2>1. RestorerOK(q)
      BY DEF MigrationInv
    <2>2. \A d \in Seconds : Uses(q, d)' => users'[d] > 0
      BY <1>2, <1>5, <2>1 DEF RestorerOK
    <2>3. QED
      BY <1>2, <1>4, <2>1, <2>2 DEF RestorerOK, whole
  <1>8. ASSUME NEW x \in replaced' PROVE ReplacedOK(x)'
    <2>1. x \in replaced /\ ReplacedOK(x)
      BY <1>2 DEF MigrationInv
    <2>2. Safe(x)'
      BY <1>2, <2>1 DEF ReplacedOK, Safe
    <2>3. QED
      BY <1>2, <1>4, <2>1, <2>2 DEF ReplacedOK
  <1>9. Apart'
    BY <1>1, <1>2, <1>5, <1>8 DEF Apart, ReplacedOK
  <1>10. QED
    BY <1>5, <1>6, <1>7, <1>8, <1>9 DEF MigrationInv

LEMMA MigrationInvStep == MigrationInv /\ [MigrationNext]_migrationVars => MigrationInv'
  <1> SUFFICES ASSUME MigrationInv, [MigrationNext]_migrationVars PROVE MigrationInv'
    OBVIOUS
  <1>1. CASE UNCHANGED migrationVars
    <2>1. BundleInv' /\ second' \in Seconds
      BY <1>1 DEF migrationVars, MigrationInv, MigrationTypes, BundleInv
    <2>2. QED
      BY <1>1, <2>1, QuietStep DEF migrationVars
  <1>2. CASE \E r \in Restorers :
                \/ \E dry, copy \in BOOLEAN : cmdMigrationRestore(r, dry, copy)
                \/ \E dry \in BOOLEAN : migrationImport(r, dry)
    <2>1. second \in Int
      BY MigrationConstants DEF MigrationInv, MigrationTypes, Seconds
    <2>2. PICK r \in Restorers : \/ \E dry, copy \in BOOLEAN : Begin(r, dry, copy, -1)
                                 \/ \E dry \in BOOLEAN : Begin(r, dry, TRUE, second)
      BY <1>2 DEF cmdMigrationRestore, migrationImport
    <2>3. CASE \E dry, copy \in BOOLEAN : Begin(r, dry, copy, -1)
      <3>1. -1 \in Int
        OBVIOUS
      <3>2. QED
        BY <2>3, <3>1, BeginStep
    <2>4. CASE \E dry \in BOOLEAN : Begin(r, dry, TRUE, second)
      BY <2>1, <2>4, BeginStep
    <2>5. QED
      BY <2>2, <2>3, <2>4
  <1>3. CASE \E r \in Restorers : restoreEnds(r) \/ restoreFails(r)
    <2>1. PICK r \in Restorers : restorer[r].pc # "idle" /\ RestoreOver(r)
      BY <1>3 DEF restoreEnds, restoreFails
    <2>2. QED
      BY <2>1, OverStep
  <1>4. QED
    BY <1>1, <1>2, <1>3, ExportSteps, EditStep, NextFileStep, CopyStep, WriteStep DEF MigrationNext

\* For every number of restores, files and damages: a restore writes only what
\* the export read from the same file, and what it replaced is in its backup
\* directory, unless the file was edited between copy and write or two
\* restores began in one second (RestoreMigrationBundle, backupExisting,
\* writeRestored).
THEOREM RestoresAreSafe == MigrationSpec => []RestoreIsSafe
  <1>1. MigrationInv => RestoreIsSafe
    BY DEF MigrationInv, ReplacedOK, Safe, RestoreIsSafe
  <1>2. QED
    BY <1>1, MigrationInvInit, MigrationInvStep, PTL DEF MigrationSpec
-----------------------------------------------------------------------------
(***************************************************************************)
(* The statistics.  While nothing is being deleted, what is remembered of  *)
(* an hour that can still be asked for is a part of what the database      *)
(* holds of it, so equal numbers mean equal rows.  A report that nothing   *)
(* disturbed keeps that for its own hours, although time goes on, and has  *)
(* added up all rows but those of the hours still to come.                 *)
(***************************************************************************)
EventRecord == [id : Nat, ts : Nat]
CountMaps == UNION {[D -> Nat] : D \in SUBSET Nat}
ReportRecord == [pc : {"idle", "counted", "hours", "made"}, since : Nat, counts : CountMaps,
                 out : SUBSET EventRecord, steady : BOOLEAN]
HourRecord == [known : BOOLEAN, rows : SUBSET EventRecord]

StatsTypeOK ==
    /\ time \in Nat /\ inserted \in Nat /\ deleting \in BOOLEAN
    /\ events \subseteq EventRecord /\ IsFiniteSet(events)
    /\ hours \in [AllHours -> HourRecord]
    /\ report \in [Reports -> ReportRecord]

\* What is remembered of hour h is still in the database.
Backed(h) == hours[h].known => hours[h].rows \subseteq HourOf(h)

RememberedInv == ~deleting => \A h \in AllHours : 2 * h + Retention >= time => Backed(h)

SteadyOK(k) ==
    k.steady /\ k.pc # "idle" =>
        /\ \A h \in DOMAIN k.counts : k.counts[h] = Cardinality(HourOf(h))
        /\ \A h \in AllHours \cap DOMAIN k.counts : 2 * h >= k.since => Backed(h)
        /\ k.out = {e \in events : e.ts >= k.since /\ Hour(e.ts) \notin DOMAIN k.counts}
        /\ k.pc = "made" => DOMAIN k.counts = {}

StatsInv == StatsTypeOK /\ RememberedInv /\ \A r \in Reports : SteadyOK(report[r])

LEMMA HourFacts ==
    /\ \A t \in Nat : Hour(t) \in Nat /\ 2 * Hour(t) <= t /\ t <= 2 * Hour(t) + 1
    /\ \A h \in AllHours : h \in Nat
  <1>1. \A t \in Nat : Hour(t) \in Nat /\ 2 * Hour(t) <= t /\ t <= 2 * Hour(t) + 1
    BY DEF Hour
  <1>2. QED
    BY <1>1, StatsConstants DEF AllHours

LEMMA NoCountsLeft == [h \in {} |-> 0] \in CountMaps /\ DOMAIN [h \in {} |-> 0] = {}
  <1>1. [h \in {} |-> 0] \in [{} -> Nat] /\ {} \in SUBSET Nat
    OBVIOUS
  <1>2. QED
    BY <1>1 DEF CountMaps

LEMMA NoReportIs == NoReport \in ReportRecord /\ NoReport.pc = "idle"
  BY NoCountsLeft DEF NoReport, ReportRecord

LEMMA UnknownIs == Unknown \in HourRecord /\ Unknown.known = FALSE
  BY DEF Unknown, HourRecord

LEMMA StatsInvInit == StatsInit => StatsInv
  <1> SUFFICES ASSUME StatsInit PROVE StatsInv
    OBVIOUS
  <1>1. StatsTypeOK
    BY NoReportIs, UnknownIs, FS_EmptySet DEF StatsInit, StatsTypeOK
  <1>2. RememberedInv
    BY UnknownIs DEF StatsInit, RememberedInv, Backed
  <1>3. \A r \in Reports : SteadyOK(report[r])
    BY NoReportIs DEF StatsInit, SteadyOK
  <1>4. QED
    BY <1>1, <1>2, <1>3 DEF StatsInv

\* The database changes: no report is steady any more.
LEMMA AfterDisturbance ==
    ASSUME StatsInv, Disturbed
    PROVE  /\ report' \in [Reports -> ReportRecord] /\ \A r \in Reports : ~report'[r].steady
  <1>1. \A k \in ReportRecord : [k EXCEPT !.steady = FALSE] \in ReportRecord /\ ~[k EXCEPT !.steady = FALSE].steady
    BY DEF ReportRecord
  <1>2. QED
    BY <1>1 DEF StatsInv, StatsTypeOK, Disturbed

LEMMA StatsDisturbed ==
    ASSUME StatsInv, Disturbed, events' \subseteq EventRecord, IsFiniteSet(events'),
           inserted' \in Nat, deleting' \in BOOLEAN, time' = time, hours' = hours,
           deleting' \/ (deleting' = deleting /\ \A h \in AllHours :
                            2 * h + Retention >= time => HourOf(h) \subseteq HourOf(h)')
    PROVE  StatsInv'
  <1>1. /\ report' \in [Reports -> ReportRecord] /\ \A r \in Reports : ~report'[r].steady
    BY AfterDisturbance
  <1>2. StatsTypeOK'
    BY <1>1 DEF StatsInv, StatsTypeOK
  <1>3. RememberedInv'
    <2> SUFFICES ASSUME ~deleting', NEW h \in AllHours, 2 * h + Retention >= time'
                 PROVE  Backed(h)'
      BY DEF RememberedInv
    <2>1. Backed(h)
      BY DEF StatsInv, RememberedInv
    <2>2. HourOf(h) \subseteq HourOf(h)'
      OBVIOUS
    <2>3. QED
      BY <2>1, <2>2 DEF Backed
  <1>4. \A r \in Reports : SteadyOK(report[r])'
    BY <1>1 DEF SteadyOK
  <1>5. QED
    BY <1>2, <1>3, <1>4 DEF StatsInv

LEMMA StatsInserts == ASSUME StatsInv, Insert PROVE StatsInv'
  <1>1. /\ events' = events \cup {[id |-> inserted + 1, ts |-> time]} /\ Disturbed
        /\ inserted' = inserted + 1 /\ UNCHANGED <<time, hours, deleting>>
    BY DEF Insert
  <1>2. inserted' \in Nat /\ [id |-> inserted + 1, ts |-> time] \in EventRecord
    BY <1>1 DEF StatsInv, StatsTypeOK, EventRecord
  <1>3. events' \subseteq EventRecord /\ IsFiniteSet(events')
    BY <1>1, <1>2, FS_AddElement DEF StatsInv, StatsTypeOK
  <1>4. \A h \in AllHours : HourOf(h) \subseteq HourOf(h)'
    BY <1>1 DEF HourOf
  <1>5. deleting' \in BOOLEAN /\ deleting' = deleting
    BY <1>1 DEF StatsInv, StatsTypeOK
  <1>6. QED
    BY <1>1, <1>2, <1>3, <1>4, <1>5, StatsDisturbed

LEMMA StatsPrunes == ASSUME StatsInv, PruneOld PROVE StatsInv'
  <1>1. /\ events' = {r \in events : r.ts + Retention >= time} /\ Disturbed
        /\ UNCHANGED <<time, inserted, hours, deleting>>
    BY DEF PruneOld
  <1>2. events' \subseteq EventRecord /\ IsFiniteSet(events')
    BY <1>1, FS_Subset DEF StatsInv, StatsTypeOK
  <1>3. ASSUME NEW h \in AllHours, 2 * h + Retention >= time PROVE HourOf(h) \subseteq HourOf(h)'
    <2> SUFFICES ASSUME NEW e \in events, Hour(e.ts) = h PROVE e.ts + Retention >= time
      BY <1>1 DEF HourOf
    <2>1. e.ts \in Nat /\ time \in Nat /\ Retention \in Nat
      BY StatsConstants DEF StatsInv, StatsTypeOK, EventRecord
    <2>2. 2 * h <= e.ts /\ h \in Nat
      BY <2>1, HourFacts
    <2>3. QED
      BY <1>3, <2>1, <2>2
  <1>4. deleting' \in BOOLEAN /\ deleting' = deleting /\ inserted' \in Nat
    BY <1>1 DEF StatsInv, StatsTypeOK
  <1>5. QED
    BY <1>1, <1>2, <1>3, <1>4, StatsDisturbed

LEMMA StatsDeletes == ASSUME StatsInv, NEW gone \in SUBSET events, deleteRows(gone) PROVE StatsInv'
  <1>1. /\ events' = events \ gone /\ Disturbed /\ deleting' = TRUE
        /\ UNCHANGED <<time, inserted, hours>>
    BY DEF deleteRows
  <1>2. events' \subseteq EventRecord /\ IsFiniteSet(events')
    BY <1>1, FS_Subset DEF StatsInv, StatsTypeOK
  <1>3. inserted' \in Nat
    BY <1>1 DEF StatsInv, StatsTypeOK
  <1>4. QED
    BY <1>1, <1>2, <1>3, StatsDisturbed

LEMMA StatsTicks == ASSUME StatsInv, Tick PROVE StatsInv'
  <1>1. time' = time + 1 /\ UNCHANGED <<events, inserted, hours, report, deleting>>
    BY DEF Tick
  <1>2. time \in Nat /\ Retention \in Nat
    BY StatsConstants DEF StatsInv, StatsTypeOK
  <1>3. StatsTypeOK'
    BY <1>1, <1>2 DEF StatsInv, StatsTypeOK
  <1>4. \A h : Backed(h)' <=> Backed(h)
    BY <1>1 DEF Backed, HourOf
  <1>5. RememberedInv'
    <2> SUFFICES ASSUME ~deleting', NEW h \in AllHours, 2 * h + Retention >= time' PROVE Backed(h)'
      BY DEF RememberedInv
    <2>1. 2 * h + Retention >= time
      BY <1>1, <1>2, HourFacts
    <2>2. QED
      BY <1>1, <1>4, <2>1 DEF StatsInv, RememberedInv
  <1>6. \A r \in Reports : SteadyOK(report[r])'
    BY <1>1, <1>4 DEF StatsInv, SteadyOK, HourOf
  <1>7. QED
    BY <1>3, <1>5, <1>6 DEF StatsInv

\* What is remembered changes, and only to what is backed: forgotten, or read
\* just now.
LEMMA StatsRemembers ==
    ASSUME StatsInv, UNCHANGED <<time, events, inserted>>, deleting' \in BOOLEAN,
           hours' \in [AllHours -> HourRecord], report' \in [Reports -> ReportRecord],
           \A h \in AllHours : Backed(h) => Backed(h)',
           deleting' = deleting \/ \A h \in AllHours : Backed(h)',
           \A r \in Reports : report'[r] = report[r] \/ SteadyOK(report[r])'
    PROVE  StatsInv'
  <1>1. StatsTypeOK'
    BY DEF StatsInv, StatsTypeOK
  <1>2. RememberedInv'
    BY DEF StatsInv, RememberedInv
  <1>3. ASSUME NEW r \in Reports PROVE SteadyOK(report[r])'
    <2>1. CASE SteadyOK(report[r])'
      BY <2>1
    <2>2. CASE report'[r] = report[r]
      <3>1. SteadyOK(report[r]) /\ report'[r] = report[r]
        BY <2>2 DEF StatsInv
      <3>2. \A h \in AllHours \cap DOMAIN report[r].counts : Backed(h) => Backed(h)'
        OBVIOUS
      <3>3. QED
        BY <3>1, <3>2 DEF SteadyOK, HourOf
    <2>3. QED
      BY <2>1, <2>2
  <1>4. QED
    BY <1>1, <1>2, <1>3 DEF StatsInv

LEMMA StatsForgets == ASSUME StatsInv, reset PROVE StatsInv'
  <1>1. /\ deleting' = FALSE /\ hours' = [h \in AllHours |-> Unknown]
        /\ UNCHANGED <<time, events, inserted, report>>
    BY DEF reset
  <1>2. hours' \in [AllHours -> HourRecord] /\ \A h \in AllHours : Backed(h)'
    BY <1>1, UnknownIs DEF Backed
  <1>3. report' \in [Reports -> ReportRecord]
    BY <1>1 DEF StatsInv, StatsTypeOK
  <1>4. QED
    BY <1>1, <1>2, <1>3, StatsRemembers

LEMMA StatsCounts ==
    ASSUME StatsInv, NEW r \in Reports, NEW span \in Spans, countHours(r, span)
    PROVE  StatsInv'
  <1> DEFINE since == IF span > time THEN 0 ELSE time - span
             seen == {Hour(e.ts) : e \in {e \in events : Hour(e.ts) >= Hour(since)}}
             counts == [h \in seen |-> Cardinality(HourOf(h))]
             k == [pc |-> "counted", since |-> since, out |-> {}, steady |-> ~deleting, counts |-> counts]
  <1>1. /\ report' = [report EXCEPT ![r] = k] /\ UNCHANGED <<time, events, inserted, hours, deleting>>
    BY DEF countHours
  <1>2. /\ time \in Nat /\ events \subseteq EventRecord /\ IsFiniteSet(events) /\ deleting \in BOOLEAN
        /\ report \in [Reports -> ReportRecord] /\ hours \in [AllHours -> HourRecord]
    BY DEF StatsInv, StatsTypeOK
  <1>3. /\ since \in Nat /\ span \in Nat /\ Retention \in Nat /\ since + Retention >= time
    BY <1>2, StatsConstants
  <1>4. \A e \in events : e.ts \in Nat /\ Hour(e.ts) \in Nat
    BY <1>2, HourFacts DEF EventRecord
  <1>5. seen \subseteq Nat
    BY <1>4
  <1>6. \A h : Cardinality(HourOf(h)) \in Nat
    BY <1>2, FS_Subset, FS_CardinalityType DEF HourOf
  <1>7. counts \in CountMaps /\ DOMAIN counts = seen /\ \A h \in seen : counts[h] = Cardinality(HourOf(h))
    <2>1. counts \in [seen -> Nat] /\ seen \in SUBSET Nat
      BY <1>5, <1>6
    <2>2. QED
      BY <2>1 DEF CountMaps
  <1>8. \A e \in events : e.ts >= since => Hour(e.ts) \in seen
    <2>1. ASSUME NEW e \in events, e.ts >= since PROVE Hour(e.ts) >= Hour(since)
      <3>1. /\ 2 * Hour(since) <= since /\ e.ts <= 2 * Hour(e.ts) + 1
            /\ Hour(since) \in Nat /\ Hour(e.ts) \in Nat /\ e.ts \in Nat
        BY <1>3, <1>4, HourFacts
      <3> HIDE DEF since
      <3>2. QED
        BY <1>3, <2>1, <3>1
    <2>2. QED
      BY <2>1
  <1> HIDE DEF counts, since, seen
  <1>9. /\ k \in ReportRecord /\ k.pc = "counted" /\ k.since = since /\ k.out = {} /\ k.steady = ~deleting
        /\ k.counts = counts
    BY <1>2, <1>3, <1>7 DEF ReportRecord
  <1> HIDE DEF k
  <1>10. report' \in [Reports -> ReportRecord] /\ report'[r] = k /\ \A q \in Reports : q # r => report'[q] = report[q]
    BY <1>1, <1>2, <1>9
  <1>11. \A h \in AllHours : Backed(h)' <=> Backed(h)
    BY <1>1 DEF Backed, HourOf
  <1>12. ~deleting => \A h \in AllHours : 2 * h >= since => Backed(h)
    <2> SUFFICES ASSUME ~deleting, NEW h \in AllHours, 2 * h >= since PROVE Backed(h)
      OBVIOUS
    <2>1. 2 * h + Retention >= time
      BY <1>2, <1>3, HourFacts
    <2>2. QED
      BY <2>1 DEF StatsInv, RememberedInv
  <1>13. SteadyOK(report[r])'
    <2>1. \A h : HourOf(h)' = HourOf(h)
      BY <1>1 DEF HourOf
    <2>2. {} = {e \in events : e.ts >= since /\ Hour(e.ts) \notin seen}
      BY <1>8
    <2>3. QED
      BY <1>1, <1>7, <1>9, <1>10, <1>11, <1>12, <2>1, <2>2 DEF SteadyOK
  <1>14. QED
    BY <1>1, <1>2, <1>10, <1>11, <1>13, StatsRemembers

\* Steps of a report that only move it on.
LEMMA StatsMoves ==
    ASSUME StatsInv, NEW r \in Reports, takeMutex(r) \/ reportEnds(r)
    PROVE  StatsInv'
  <1>1. /\ UNCHANGED <<time, events, inserted, hours, deleting>>
        /\ report \in [Reports -> ReportRecord] /\ hours \in [AllHours -> HourRecord] /\ deleting \in BOOLEAN
    BY DEF takeMutex, reportEnds, StatsInv, StatsTypeOK
  <1>2. \A h : (Backed(h)' <=> Backed(h)) /\ HourOf(h)' = HourOf(h)
    BY <1>1 DEF Backed, HourOf
  <1>3. CASE takeMutex(r)
    <2>1. PICK k \in ReportRecord : k = report[r] /\ k.pc = "counted" /\ SteadyOK(k)
      BY <1>1, <1>3 DEF takeMutex, StatsInv
    <2>2. PICK n \in ReportRecord : n = [k EXCEPT !.pc = "hours"]
      BY DEF ReportRecord
    <2>3. n.pc = "hours" /\ n.since = k.since /\ n.counts = k.counts /\ n.out = k.out /\ n.steady = k.steady
      BY <2>2 DEF ReportRecord
    <2>4. report' = [report EXCEPT ![r] = n]
      BY <1>3, <2>1, <2>2 DEF takeMutex
    <2>5. report' \in [Reports -> ReportRecord] /\ report'[r] = n /\ \A q \in Reports : q # r => report'[q] = report[q]
      BY <1>1, <2>4
    <2>6. SteadyOK(report[r])'
      BY <1>1, <1>2, <2>1, <2>3, <2>5 DEF SteadyOK
    <2>7. QED
      BY <1>1, <1>2, <2>5, <2>6, StatsRemembers
  <1>4. CASE reportEnds(r)
    <2>1. report' = [report EXCEPT ![r] = NoReport]
      BY <1>4 DEF reportEnds
    <2>2. report' \in [Reports -> ReportRecord] /\ report'[r] = NoReport /\ \A q \in Reports : q # r => report'[q] = report[q]
      BY <1>1, <2>1, NoReportIs
    <2>3. SteadyOK(report[r])'
      BY <2>2, NoReportIs DEF SteadyOK
    <2>4. QED
      BY <1>1, <1>2, <2>2, <2>3, StatsRemembers
  <1>5. QED
    BY <1>3, <1>4

\* An hour is added up: from memory when it is a part of the database's hour
\* with as many rows, that is, all of it; else from the database.
LEMMA StatsAdds ==
    ASSUME StatsInv, NEW r \in Reports, NEW h \in AllHours, addHour(r, h)
    PROVE  StatsInv'
  <1> DEFINE k == report[r]
             scan == {e \in HourOf(h) : e.ts >= k.since}
             got == IF ~partial(r, h) /\ trusted(r, h) THEN hours[h].rows ELSE scan
             left == [g \in DOMAIN k.counts \ {h} |-> k.counts[g]]
             n == [pc |-> "hours", since |-> k.since, out |-> k.out \cup got, steady |-> k.steady, counts |-> left]
             new == [known |-> TRUE, rows |-> scan]
  <1>1. /\ k.pc = "hours" /\ h \in DOMAIN k.counts /\ UNCHANGED <<time, events, inserted, deleting>>
        /\ report' = [report EXCEPT ![r] = n]
        /\ hours' = IF partial(r, h) \/ trusted(r, h) THEN hours ELSE [hours EXCEPT ![h] = new]
    BY DEF addHour
  <1>2. /\ events \subseteq EventRecord /\ IsFiniteSet(events) /\ deleting \in BOOLEAN /\ h \in Nat
        /\ report \in [Reports -> ReportRecord] /\ hours \in [AllHours -> HourRecord] /\ k \in ReportRecord
    BY HourFacts DEF StatsInv, StatsTypeOK
  <1>3. /\ k.since \in Nat /\ k.counts \in CountMaps /\ k.out \subseteq EventRecord /\ k.steady \in BOOLEAN
    BY <1>2 DEF ReportRecord
  <1>4. \A e \in HourOf(h) : e \in events /\ e \in EventRecord /\ e.ts \in Nat /\ 2 * h <= e.ts
    BY <1>2, HourFacts DEF HourOf, EventRecord
  <1>5. scan \subseteq EventRecord /\ hours[h].rows \subseteq EventRecord /\ new \in HourRecord
    BY <1>2, <1>4 DEF HourRecord
  <1>6. ~partial(r, h) => scan = HourOf(h)
    <2> SUFFICES ASSUME ~partial(r, h), NEW e \in HourOf(h) PROVE e.ts >= k.since
      OBVIOUS
    <2>1. ~(2 * h < k.since)
      BY DEF partial
    <2> HIDE DEF k
    <2>2. QED
      BY <1>2, <1>3, <1>4, <2>1
  <1>7. left \in CountMaps /\ DOMAIN left = DOMAIN k.counts \ {h} /\ \A g \in DOMAIN left : left[g] = k.counts[g]
    <2> HIDE DEF k
    <2>1. PICK D \in SUBSET Nat : k.counts \in [D -> Nat]
      BY <1>3 DEF CountMaps
    <2>2. left \in [D \ {h} -> Nat] /\ D \ {h} \in SUBSET Nat
      BY <2>1
    <2>3. QED
      BY <2>1, <2>2 DEF CountMaps
  <1>8. hours' \in [AllHours -> HourRecord] /\ \A g \in AllHours : Backed(g) => Backed(g)'
    <2>1. \A g : HourOf(g)' = HourOf(g)
      BY <1>1 DEF HourOf
    <2>2. scan \subseteq HourOf(h)'
      BY <2>1
    <2> HIDE DEF scan
    <2>3. new.rows = scan
      OBVIOUS
    <2> HIDE DEF new
    <2>4. CASE hours' = hours
      BY <1>2, <2>1, <2>4 DEF Backed
    <2>5. CASE hours' = [hours EXCEPT ![h] = new]
      <3>1. hours' \in [AllHours -> HourRecord] /\ hours'[h] = new /\ \A g \in AllHours : g # h => hours'[g] = hours[g]
        BY <1>2, <1>5, <2>5
      <3>2. ASSUME NEW g \in AllHours, Backed(g) PROVE Backed(g)'
        BY <2>1, <2>2, <2>3, <3>1, <3>2 DEF Backed
      <3>3. QED
        BY <3>1, <3>2
    <2>6. QED
      BY <1>1, <2>4, <2>5
  <1>9. k.steady => got = {e \in events : e.ts >= k.since /\ Hour(e.ts) = h}
    <2>1. scan = {e \in events : e.ts >= k.since /\ Hour(e.ts) = h}
      BY DEF HourOf
    <2>2. ASSUME k.steady, ~partial(r, h), trusted(r, h) PROVE hours[h].rows = HourOf(h)
      <3>1. SteadyOK(k)
        BY DEF StatsInv
      <3>2. 2 * h >= k.since
        <4>1. ~(2 * h < k.since)
          BY <2>2 DEF partial
        <4> HIDE DEF k
        <4>2. QED
          BY <1>2, <1>3, <4>1
      <3>3. Backed(h) /\ k.counts[h] = Cardinality(HourOf(h))
        BY <1>1, <2>2, <3>1, <3>2 DEF SteadyOK
      <3>4. /\ hours[h].rows \subseteq HourOf(h) /\ Cardinality(hours[h].rows) = Cardinality(HourOf(h))
        BY <2>2, <3>3 DEF Backed, trusted
      <3>5. IsFiniteSet(HourOf(h))
        BY <1>2, FS_Subset DEF HourOf
      <3>6. QED
        BY <3>4, <3>5, FS_Subset
    <2>3. QED
      BY <1>6, <2>1, <2>2
  <1>10. got \subseteq EventRecord
    BY <1>5
  <1> HIDE DEF got, left
  <1>11. /\ n \in ReportRecord /\ n.pc = "hours" /\ n.since = k.since /\ n.out = k.out \cup got
         /\ n.steady = k.steady /\ n.counts = left
    BY <1>3, <1>7, <1>10 DEF ReportRecord
  <1> HIDE DEF n
  <1>12. report' \in [Reports -> ReportRecord] /\ report'[r] = n /\ \A q \in Reports : q # r => report'[q] = report[q]
    BY <1>1, <1>2, <1>11
  <1>13. SteadyOK(report[r])'
    <2> HIDE DEF k
    <2> SUFFICES ASSUME n.steady
                 PROVE  /\ \A g \in DOMAIN n.counts : n.counts[g] = Cardinality(HourOf(g)')
                        /\ \A g \in AllHours \cap DOMAIN n.counts : 2 * g >= n.since => Backed(g)'
                        /\ n.out = {e \in events' : e.ts >= n.since /\ Hour(e.ts) \notin DOMAIN n.counts}
      BY <1>11, <1>12 DEF SteadyOK
    <2>1. SteadyOK(k) /\ k.steady /\ k.pc = "hours"
      BY <1>1, <1>11 DEF StatsInv, k
    <2>2. /\ \A g \in DOMAIN k.counts : k.counts[g] = Cardinality(HourOf(g))
          /\ \A g \in AllHours \cap DOMAIN k.counts : 2 * g >= k.since => Backed(g)
          /\ k.out = {e \in events : e.ts >= k.since /\ Hour(e.ts) \notin DOMAIN k.counts}
      BY <2>1 DEF SteadyOK
    <2>3. \A g : HourOf(g)' = HourOf(g)
      BY <1>1 DEF HourOf
    <2>4. k.out \cup got = {e \in events : e.ts >= k.since /\ Hour(e.ts) \notin DOMAIN left}
      BY <1>1, <1>7, <1>9, <2>1, <2>2
    <2>5. QED
      BY <1>1, <1>7, <1>8, <1>11, <2>2, <2>3, <2>4
  <1>14. QED
    BY <1>1, <1>2, <1>8, <1>12, <1>13, StatsRemembers

\* The report is made: all hours are added up, and hours without rows forgotten.
LEMMA StatsReports ==
    ASSUME StatsInv, NEW r \in Reports, statsReport(r)
    PROVE  StatsInv'
  <1>1. /\ UNCHANGED <<time, events, inserted, deleting>> /\ report[r].counts = [h \in {} |-> 0]
        /\ report' = [report EXCEPT ![r].pc = "made"]
        /\ hours' = [h \in AllHours |->
               IF h >= Hour(report[r].since) /\ h \notin {Hour(e.ts) : e \in report[r].out}
               THEN Unknown ELSE hours[h]]
    BY DEF statsReport
  <1>2. /\ report \in [Reports -> ReportRecord] /\ hours \in [AllHours -> HourRecord] /\ deleting \in BOOLEAN
    BY DEF StatsInv, StatsTypeOK
  <1>3. \A h \in AllHours : hours'[h] \in {Unknown, hours[h]}
    BY <1>1
  <1>4. hours' \in [AllHours -> HourRecord]
    BY <1>1, <1>2, UnknownIs
  <1>5. \A h \in AllHours : Backed(h) => Backed(h)'
    BY <1>1, <1>3, UnknownIs DEF Backed, HourOf
  <1>6. PICK k \in ReportRecord : k = report[r] /\ k.pc = "hours" /\ SteadyOK(k) /\ DOMAIN k.counts = {}
    BY <1>1, <1>2, NoCountsLeft DEF statsReport, StatsInv
  <1>7. PICK n \in ReportRecord : n = [k EXCEPT !.pc = "made"]
    BY DEF ReportRecord
  <1>8. n.pc = "made" /\ n.since = k.since /\ n.counts = k.counts /\ n.out = k.out /\ n.steady = k.steady
    BY <1>7 DEF ReportRecord
  <1>9. report' = [report EXCEPT ![r] = n]
    BY <1>1, <1>6, <1>7
  <1>10. report' \in [Reports -> ReportRecord] /\ report'[r] = n /\ \A q \in Reports : q # r => report'[q] = report[q]
    BY <1>2, <1>9
  <1>11. SteadyOK(report[r])'
    BY <1>1, <1>6, <1>8, <1>10 DEF SteadyOK
  <1>12. QED
    BY <1>1, <1>2, <1>4, <1>5, <1>10, <1>11, StatsRemembers

LEMMA StatsStutters == ASSUME StatsInv, UNCHANGED statsVars PROVE StatsInv'
  <1>1. UNCHANGED <<time, events, inserted, hours, report, deleting>>
    BY DEF statsVars
  <1>2. StatsTypeOK'
    BY <1>1 DEF StatsInv, StatsTypeOK
  <1>3. \A h : (Backed(h)' <=> Backed(h)) /\ HourOf(h)' = HourOf(h)
    BY <1>1 DEF Backed, HourOf
  <1>4. RememberedInv'
    BY <1>1, <1>3 DEF StatsInv, RememberedInv
  <1>5. \A r \in Reports : SteadyOK(report[r])'
    BY <1>1, <1>3 DEF StatsInv, SteadyOK
  <1>6. QED
    BY <1>2, <1>4, <1>5 DEF StatsInv

\* For every number of reports, lengths, retention and rows: a report during
\* which the database did not change shows exactly the rows since the time it
\* was asked for, although it takes remembered hours on nothing but an equal
\* number of rows (hoursSince, reset, the collector's pruning).
THEOREM ReportsAreExact == StatsSpec => []ReportIsExact
  <1>1. StatsInv => ReportIsExact
    <2> SUFFICES ASSUME StatsInv, NEW r \in Reports, report[r].pc = "made", report[r].steady
                 PROVE  report[r].out = {e \in events : e.ts >= report[r].since}
      BY DEF ReportIsExact
    <2>1. SteadyOK(report[r])
      BY DEF StatsInv
    <2>2. QED
      BY <2>1 DEF SteadyOK
  <1>2. ASSUME StatsInv, [StatsNext]_statsVars PROVE StatsInv'
    BY <1>2, StatsTicks, StatsInserts, StatsPrunes, StatsForgets, StatsDeletes, StatsCounts,
       StatsMoves, StatsAdds, StatsReports, StatsStutters DEF StatsNext
  <1>3. QED
    BY <1>1, <1>2, StatsInvInit, PTL DEF StatsSpec
=============================================================================
