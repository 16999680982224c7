------------------------ MODULE AccessControl_proofs ------------------------
(***************************************************************************)
(* Proofs about access control.  The three places, the list, the mark and  *)
(* the table, are written one after the other by processes that nothing    *)
(* holds apart.  The invariant says for every place a process can be in    *)
(* what it still knows, as long as nobody has changed that under it, and   *)
(* that the three places differ only while an edit is halfway.             *)
(***************************************************************************)
EXTENDS AccessControl, TLAPS

AdminPC == {"idle", "checked", "editing", "reading", "asking", "installing", "clearing",
            "enabling", "disabling", "marking"}
RestorerPC == {"idle", "listing", "checking", "restoring"}

\* A list is in memory that is to be installed.
Carries(p) == pc[p] \in {"asking", "installing", "checking", "restoring"}

\* What a process knows by itself, whoever else is at work.
Place(p) ==
  /\ p \in Admins => pc[p] \in AdminPC
  /\ p \in Restorers => pc[p] \in RestorerPC
  /\ Carries(p) => list[p] # {}
  /\ pc[p] = "disabling" => cmd[p].op = "disable"
  /\ pc[p] = "editing" => Edits(p)

\* What it knows of the list, the table and the mark unless they are outdated.
Knows(p) ==
  /\ Carries(p) /\ "list" \notin outdated[p] => list[p] = file
  /\ pc[p] = "clearing" /\ "list" \notin outdated[p] => file = {}
  /\ pc[p] = "enabling" /\ outdated[p] \cap {"list", "table"} = {} => kernel \in {file, Open}
  /\ pc[p] = "marking" /\ "table" \notin outdated[p] => kernel = Open
  /\ pc[p] \in {"listing", "checking", "restoring"} /\ "mark" \notin outdated[p] => ~off

\* What the panel's check has established for its own client.
ClientStays(a) ==
  /\ pc[a] = "checked" => Client[a] \in edited(cmd[a], file)
  /\ pc[a] = "editing" => Client[a] \in edited(cmd[a], list[a])
  /\ pc[a] = "reading" => Client[a] \in file
  /\ pc[a] \in {"asking", "installing"} => Client[a] \in list[a]

PanelKnows(p) == p \in Panels /\ "check" \notin outdated[p] => ClientStays(p)

Agree == kernel # Open => kernel = file /\ ~off

AccessInv ==
  /\ TypeOK
  /\ \A p \in Procs : Place(p) /\ Knows(p) /\ PanelKnows(p)
  /\ settled => Agree \/ \E a \in Admins : Halfway(a)

LEMMA WellTyped == AccessInv => TypeOK
  BY DEF AccessInv

LEMMA AccessInvInit == Init => AccessInv
  <1> SUFFICES ASSUME Init PROVE AccessInv
    OBVIOUS
  <1>1. apply \in Command
    BY DEF apply, Command
  <1>2. TypeOK
    <2>1. kernel \in ((SUBSET Prefixes) \ {{}}) \cup {Open} /\ file \subseteq Prefixes
      BY DEF Init
    <2>2. commands \in 0..MaxCommands /\ faults \in 0..MaxFaults
      BY AccessAssumption DEF Init
    <2>3. /\ pc \in [Procs -> PC] /\ cmd \in [Procs -> Command] /\ list \in [Procs -> SUBSET Prefixes]
          /\ outdated \in [Procs -> SUBSET Places]
      BY <1>1 DEF Init, PC
    <2>4. QED
      BY <2>1, <2>2, <2>3 DEF Init, TypeOK
  <1>3. \A p \in Procs : pc[p] = "idle"
    BY DEF Init
  <1>4. Agree
    BY DEF Init, Agree
  <1>5. \A p \in Procs : Place(p) /\ Knows(p) /\ PanelKnows(p)
    BY <1>3 DEF Place, Edits, Knows, PanelKnows, ClientStays, Carries, AdminPC, RestorerPC
  <1>6. QED
    BY <1>2, <1>4, <1>5 DEF AccessInv

\* One process moves; the memory of the others stays as it was, and what they
\* rely on is outdated if it was written.
Moved(p, place, c, l, written) ==
  /\ pc' \in [Procs -> PC] /\ cmd' \in [Procs -> Command] /\ list' \in [Procs -> SUBSET Prefixes]
  /\ outdated' \in [Procs -> SUBSET Places]
  /\ pc'[p] = place
  /\ place # "idle" => cmd'[p] = c /\ list'[p] = l /\ outdated'[p] = outdated[p]
  /\ \A q \in Procs : q # p => /\ pc'[q] = pc[q] /\ cmd'[q] = cmd[q] /\ list'[q] = list[q]
                               /\ outdated'[q] = outdated[q] \cup (written \cap Relies(q))

LEMMA MoveFrame ==
    ASSUME TypeOK, NEW p \in Procs, NEW place \in PC, NEW c \in Command, NEW l \in SUBSET Prefixes,
           NEW written \in SUBSET Places, Move(p, place, c, l, written)
    PROVE  Moved(p, place, c, l, written)
  <1>1. apply \in Command
    BY DEF apply, Command
  <1>2. outdated' = [q \in Procs |-> IF q # p THEN outdated[q] \cup (written \cap Relies(q))
                                     ELSE IF place = "idle" THEN {} ELSE outdated[p]]
    BY DEF Move
  <1>3. outdated' \in [Procs -> SUBSET Places]
    BY <1>2 DEF TypeOK
  <1>4. /\ pc' = [pc EXCEPT ![p] = place]
        /\ cmd' = [cmd EXCEPT ![p] = IF place = "idle" THEN apply ELSE c]
        /\ list' = [list EXCEPT ![p] = IF place = "idle" THEN {} ELSE l]
    BY DEF Move
  <1>5. pc' \in [Procs -> PC] /\ cmd' \in [Procs -> Command] /\ list' \in [Procs -> SUBSET Prefixes]
    BY <1>1, <1>4 DEF TypeOK
  <1>6. QED
    BY <1>2, <1>3, <1>4, <1>5 DEF TypeOK, Moved

\* A step of one process: the others keep what they know, because what the step
\* writes is outdated for whoever relies on it.
LEMMA Moves ==
    ASSUME AccessInv, NEW p \in Procs, NEW place \in PC, NEW c \in Command, NEW l \in SUBSET Prefixes,
           NEW written \in SUBSET Places, Move(p, place, c, l, written),
           file' \subseteq Prefixes, off' \in BOOLEAN, settled' \in BOOLEAN,
           kernel' \in ((SUBSET Prefixes) \ {{}}) \cup {Open},
           commands' \in 0..MaxCommands, faults' \in 0..MaxFaults,
           file' # file => {"check", "list"} \subseteq written,
           kernel' # kernel => "table" \in written,
           off' # off => "mark" \in written,
           p \in Admins => place \in AdminPC, p \in Restorers => place \in RestorerPC,
           place \in {"asking", "installing", "checking", "restoring"} => l # {},
           place = "disabling" => c.op = "disable",
           place = "editing" => c.op \in {"add", "remove", "set"},
           place # "idle" => Knows(p)' /\ PanelKnows(p)',
           settled' => Agree' \/ (p \in Admins /\ Halfway(p)') \/ \E a \in Admins \ {p} : Halfway(a)
    PROVE  AccessInv'
  <1>1. /\ pc' \in [Procs -> PC] /\ cmd' \in [Procs -> Command] /\ list' \in [Procs -> SUBSET Prefixes]
        /\ outdated' \in [Procs -> SUBSET Places]
        /\ pc'[p] = place
        /\ place # "idle" => cmd'[p] = c /\ list'[p] = l
        /\ \A q \in Procs : q # p => /\ pc'[q] = pc[q] /\ cmd'[q] = cmd[q] /\ list'[q] = list[q]
                                     /\ outdated'[q] = outdated[q] \cup (written \cap Relies(q))
    <2>1. Moved(p, place, c, l, written)
      BY MoveFrame, WellTyped
    <2>2. QED
      BY <2>1 DEF Moved
  <1>2. TypeOK'
    BY <1>1 DEF TypeOK
  <1>3. Place(p)' /\ Knows(p)' /\ PanelKnows(p)'
    <2>1. Place(p)'
      BY <1>1 DEF Place, Carries, Edits
    <2>2. place = "idle" => Knows(p)' /\ PanelKnows(p)'
      BY <1>1 DEF Knows, PanelKnows, ClientStays, Carries
    <2>3. QED
      BY <2>1, <2>2
  <1>4. ASSUME NEW q \in Procs, q # p
        PROVE  Place(q)' /\ Knows(q)' /\ PanelKnows(q)'
    <2>1. /\ Place(q) /\ Knows(q) /\ PanelKnows(q)
          /\ pc'[q] = pc[q] /\ cmd'[q] = cmd[q] /\ list'[q] = list[q]
          /\ outdated'[q] = outdated[q] \cup (written \cap Relies(q))
      BY <1>1, <1>4 DEF AccessInv
    <2>2. Place(q)'
      BY <2>1 DEF Place, Carries, Edits
    <2>3. Carries(q)' /\ "list" \notin outdated'[q] => list'[q] = file'
      BY <2>1 DEF Knows, Carries, Relies
    <2>4. pc'[q] = "clearing" /\ "list" \notin outdated'[q] => file' = {}
      BY <2>1 DEF Knows, Relies
    <2>5. pc'[q] = "enabling" /\ outdated'[q] \cap {"list", "table"} = {} => kernel' \in {file', Open}
      BY <2>1 DEF Knows, Relies
    <2>6. pc'[q] = "marking" /\ "table" \notin outdated'[q] => kernel' = Open
      BY <2>1 DEF Knows, Relies
    <2>7. pc'[q] \in {"listing", "checking", "restoring"} /\ "mark" \notin outdated'[q] => ~off'
      BY <2>1 DEF Knows, Relies
    <2>8. PanelKnows(q)'
      <3> SUFFICES ASSUME q \in Panels, "check" \notin outdated'[q] PROVE ClientStays(q)'
        BY DEF PanelKnows
      <3>1. ClientStays(q)
        BY <2>1 DEF PanelKnows
      <3>2. pc[q] \in {"checked", "reading"} => file' = file
        BY <2>1 DEF Relies
      <3>3. QED
        BY <2>1, <3>1, <3>2 DEF ClientStays
    <2>9. QED
      BY <2>2, <2>3, <2>4, <2>5, <2>6, <2>7, <2>8 DEF Knows
  <1>5. ASSUME settled'
        PROVE  Agree' \/ \E a \in Admins : Halfway(a)'
    <2>1. CASE Agree' \/ (p \in Admins /\ Halfway(p)')
      BY <2>1
    <2>2. ASSUME NEW a \in Admins \ {p}, Halfway(a)
          PROVE  Halfway(a)'
      <3>1. pc'[a] = pc[a] /\ cmd'[a] = cmd[a]
        BY <1>1, <2>2 DEF Procs
      <3>2. QED
        BY <2>2, <3>1 DEF Halfway, Edits
    <2>3. QED
      BY <1>5, <2>1, <2>2
  <1>6. QED
    BY <1>2, <1>3, <1>4, <1>5 DEF AccessInv

\* A step that writes nothing: the places agree, or an edit is halfway, as before.
LEMMA NothingWritten ==
    ASSUME AccessInv, settled, NEW p \in Procs, UNCHANGED <<file, off, kernel>>,
           Halfway(p) => Halfway(p)'
    PROVE  Agree' \/ (p \in Admins /\ Halfway(p)') \/ \E a \in Admins \ {p} : Halfway(a)
  BY DEF AccessInv, Agree, Halfway

LEMMA EditedIsAList ==
    ASSUME NEW c \in Command, NEW l \in SUBSET Prefixes
    PROVE  edited(c, l) \in SUBSET Prefixes
  BY DEF edited, Command

LEMMA NothingIsAPlace == {} \in SUBSET Places /\ {"check", "list"} \in SUBSET Places
                         /\ {"table"} \in SUBSET Places /\ {"mark"} \in SUBSET Places
  BY DEF Places

\* cmdACL and the panel's start of it: the list is read for an edit.
LEMMA BeginKeeps ==
    ASSUME AccessInv, NEW a \in Admins, NEW c \in Command, Begin(a, c), commands' \in 0..MaxCommands,
           pc[a] \in {"idle", "checked"},
           a \in Panels /\ c.op # "disable" /\ "check" \notin outdated[a] => Client[a] \in edited(c, file)
    PROVE  AccessInv'
  <1>1. PICK f : f = file
    OBVIOUS
  <1>2. /\ file' = f /\ UNCHANGED <<off, kernel, settled, faults>> /\ f \in SUBSET Prefixes
        /\ {} \in SUBSET Prefixes /\ faults' \in 0..MaxFaults /\ settled' \in BOOLEAN
        /\ off' \in BOOLEAN /\ kernel' \in ((SUBSET Prefixes) \ {{}}) \cup {Open}
    BY <1>1 DEF Begin, AccessInv, TypeOK
  <1>3. a \in Procs /\ a \notin Restorers
    BY AccessAssumption DEF Procs
  <1>4. ASSUME NEW place \in {"editing", "reading", "disabling"}, NEW l \in {f, {}}, Move(a, place, c, l, {}),
               place = "disabling" => c.op = "disable", place # "disabling" => c.op # "disable",
               place = "editing" => c.op \in {"add", "remove", "set"},
               place = "editing" => edited(c, l) = edited(c, f),
               place = "reading" => edited(c, f) = f
        PROVE  AccessInv'
    <2>1. place \in AdminPC /\ place \in PC /\ place # "idle" /\ l \in SUBSET Prefixes
      BY <1>2 DEF AdminPC, PC
    <2>2. pc'[a] = place /\ cmd'[a] = c /\ list'[a] = l /\ outdated'[a] = outdated[a]
      <3>1. Moved(a, place, c, l, {})
        BY <1>3, <1>4, <2>1, MoveFrame, NothingIsAPlace, WellTyped
      <3>2. QED
        BY <3>1 DEF Moved
    <2>3. Knows(a)'
      BY <2>2 DEF Knows, Carries
    <2>4. PanelKnows(a)'
      BY <1>1, <1>2, <1>4, <2>2 DEF PanelKnows, ClientStays
    <2>5. settled' => Agree' \/ (a \in Admins /\ Halfway(a)') \/ \E b \in Admins \ {a} : Halfway(b)
      <3>1. ~Halfway(a)
        BY DEF Halfway
      <3>2. QED
        BY <1>1, <1>2, <1>3, <3>1, NothingWritten
    <2>6. QED
      BY <1>1, <1>2, <1>3, <1>4, <2>1, <2>3, <2>4, <2>5, Moves, NothingIsAPlace
  <1>5. CASE c.op \in {"add", "remove"} /\ Move(a, "editing", c, file, {})
    BY <1>1, <1>4, <1>5
  <1>6. CASE c.op = "set" /\ Move(a, "editing", c, {}, {})
    <2>1. edited(c, {}) = edited(c, f)
      BY <1>6 DEF edited
    <2>2. QED
      BY <1>4, <1>6, <2>1
  <1>7. CASE c.op = "apply" /\ Move(a, "reading", c, {}, {})
    <2>1. edited(c, f) = f
      BY <1>7 DEF edited
    <2>2. QED
      BY <1>4, <1>7, <2>1
  <1>8. CASE c.op = "disable" /\ Move(a, "disabling", c, {}, {})
    BY <1>4, <1>8
  <1>9. QED
    BY <1>5, <1>6, <1>7, <1>8 DEF Begin

LEMMA CommandsKeep ==
    ASSUME AccessInv, NEW a \in Admins, NEW c \in Commands,
           PanelCheck(a, c) \/ (a \notin Panels /\ cmdACL(a, c)) \/ (c.op = "disable" /\ cmdACL(a, c))
    PROVE  AccessInv'
  <1>1. /\ c \in Command /\ a \in Procs /\ a \notin Restorers
        /\ commands \in 0..MaxCommands /\ MaxCommands \in Nat /\ settled \in BOOLEAN
        /\ file \subseteq Prefixes /\ off \in BOOLEAN /\ faults \in 0..MaxFaults
        /\ kernel \in ((SUBSET Prefixes) \ {{}}) \cup {Open}
    BY AccessAssumption DEF AccessInv, TypeOK, Procs
  <1>2. commands' \in 0..MaxCommands
    <2>1. commands < MaxCommands /\ commands' = commands + 1
      BY DEF PanelCheck, cmdACL
    <2>2. QED
      BY <1>1, <2>1
  <1>3. pc[a] = "idle"
    BY DEF PanelCheck, cmdACL, Busy
  <1>4. CASE cmdACL(a, c) /\ (a \notin Panels \/ c.op = "disable")
    BY <1>1, <1>2, <1>3, <1>4, BeginKeeps DEF cmdACL
  <1>5. CASE PanelCheck(a, c)
    <2>1. /\ Move(a, "checked", c, {}, {}) /\ UNCHANGED <<file, off, kernel, settled, faults>>
          /\ Client[a] \in edited(c, file)
      BY <1>5 DEF PanelCheck, aclLockoutCheck
    <2>2. "checked" \in AdminPC /\ "checked" \in PC /\ {} \in SUBSET Prefixes
      BY DEF AdminPC, PC
    <2>3. pc'[a] = "checked" /\ cmd'[a] = c
      <3>1. Moved(a, "checked", c, {}, {})
        BY <1>1, <2>1, <2>2, MoveFrame, NothingIsAPlace, WellTyped
      <3>2. QED
        BY <3>1 DEF Moved
    <2>4. Knows(a)' /\ PanelKnows(a)'
      BY <2>1, <2>3 DEF Knows, PanelKnows, ClientStays, Carries
    <2>5. settled' => Agree' \/ (a \in Admins /\ Halfway(a)') \/ \E b \in Admins \ {a} : Halfway(b)
      <3>1. ~Halfway(a)
        BY <1>3 DEF Halfway
      <3>2. QED
        BY <1>1, <2>1, <3>1, NothingWritten
    <2>6. QED
      BY <1>1, <1>2, <2>1, <2>2, <2>4, <2>5, Moves, NothingIsAPlace
  <1>6. QED
    BY <1>4, <1>5

LEMMA PanelRunKeeps ==
    ASSUME AccessInv, NEW a \in Admins, PanelRun(a)
    PROVE  AccessInv'
  <1>1. PICK c : c = cmd[a]
    OBVIOUS
  <1>2. pc[a] = "checked" /\ Begin(a, c) /\ UNCHANGED commands
    BY <1>1 DEF PanelRun
  <1>3. c \in Command /\ commands' \in 0..MaxCommands /\ PanelKnows(a)
    BY <1>1, <1>2 DEF AccessInv, TypeOK, Procs
  <1>4. a \in Panels /\ "check" \notin outdated[a] => Client[a] \in edited(c, file)
    BY <1>1, <1>2, <1>3 DEF PanelKnows, ClientStays
  <1>5. QED
    BY <1>2, <1>3, <1>4, BeginKeeps

LEMMA SetKeeps ==
    ASSUME AccessInv, NEW a \in Admins, SetACL(a)
    PROVE  AccessInv'
  <1>1. PICK c, l : c = cmd[a] /\ l = list[a]
    OBVIOUS
  <1>2. /\ pc[a] = "editing" /\ file' = edited(c, l)
        /\ Move(a, "reading", c, l, {"check", "list"}) /\ UNCHANGED <<off, kernel, settled, commands, faults>>
    BY <1>1 DEF SetACL, Goto
  <1>3. /\ a \in Procs /\ a \notin Restorers /\ c \in Command /\ l \in SUBSET Prefixes
        /\ off' \in BOOLEAN /\ settled' \in BOOLEAN /\ commands' \in 0..MaxCommands
        /\ faults' \in 0..MaxFaults /\ kernel' \in ((SUBSET Prefixes) \ {{}}) \cup {Open}
        /\ PanelKnows(a) /\ Place(a)
    BY <1>1, <1>2, AccessAssumption DEF AccessInv, TypeOK, Procs
  <1>4. file' \subseteq Prefixes
    BY <1>2, <1>3, EditedIsAList
  <1>5. "reading" \in AdminPC /\ "reading" \in PC
    BY DEF AdminPC, PC
  <1>6. pc'[a] = "reading" /\ cmd'[a] = c /\ list'[a] = l /\ outdated'[a] = outdated[a]
    <2>1. Moved(a, "reading", c, l, {"check", "list"})
      BY <1>2, <1>3, <1>5, MoveFrame, NothingIsAPlace, WellTyped
    <2>2. QED
      BY <2>1 DEF Moved
  <1>7. Knows(a)'
    BY <1>6 DEF Knows, Carries
  <1>8. PanelKnows(a)'
    BY <1>1, <1>2, <1>3, <1>6 DEF PanelKnows, ClientStays
  <1>9. settled' => Agree' \/ Halfway(a)' \/ \E b \in Admins \ {a} : Halfway(b)
    BY <1>1, <1>2, <1>3, <1>6 DEF Halfway, Edits, Place
  <1>10. QED
    BY <1>2, <1>3, <1>4, <1>5, <1>7, <1>8, <1>9, Moves, NothingIsAPlace

LEMMA ReadListKeeps ==
    ASSUME AccessInv, NEW a \in Admins, ReadList(a)
    PROVE  AccessInv'
  <1>1. PICK c, f : c = cmd[a] /\ f = file
    OBVIOUS
  <1>2. PICK place : place = IF mustClear(f) THEN "clearing" ELSE IF c.mode = "preview" THEN "idle"
                             ELSE IF c.mode = "yes" THEN "installing" ELSE "asking"
    OBVIOUS
  <1>3. /\ pc[a] = "reading" /\ Move(a, place, c, f, {})
        /\ settled' = (settled /\ ~(Edits(a) /\ c.mode = "preview" /\ ~mustClear(f)))
        /\ file' = f /\ UNCHANGED <<off, kernel, commands, faults>>
    BY <1>1, <1>2 DEF ReadList, Read
  <1>4. /\ a \in Procs /\ a \notin Restorers /\ c \in Command /\ f \in SUBSET Prefixes
        /\ off' \in BOOLEAN /\ commands' \in 0..MaxCommands /\ settled \in BOOLEAN
        /\ faults' \in 0..MaxFaults /\ kernel' \in ((SUBSET Prefixes) \ {{}}) \cup {Open}
        /\ PanelKnows(a)
    BY <1>1, <1>3, AccessAssumption DEF AccessInv, TypeOK, Procs
  <1>5. place \in AdminPC /\ place \in PC /\ place \notin {"disabling", "editing"}
        /\ (place \in {"asking", "installing", "checking", "restoring"} => f # {})
    BY <1>2 DEF AdminPC, PC, mustClear
  <1>6. pc'[a] = place /\ (place # "idle" => cmd'[a] = c /\ list'[a] = f /\ outdated'[a] = outdated[a])
    <2>1. Moved(a, place, c, f, {})
      BY <1>3, <1>4, <1>5, MoveFrame, NothingIsAPlace, WellTyped
    <2>2. QED
      BY <2>1 DEF Moved
  <1>7. place # "idle" => Knows(a)'
    BY <1>2, <1>3, <1>6 DEF Knows, Carries, mustClear
  <1>8. place # "idle" => PanelKnows(a)'
    BY <1>1, <1>2, <1>3, <1>4, <1>6 DEF PanelKnows, ClientStays
  <1>9. settled' \in BOOLEAN
    BY <1>3, <1>4
  <1>10. settled' => Agree' \/ (a \in Admins /\ Halfway(a)') \/ \E b \in Admins \ {a} : Halfway(b)
    <2> SUFFICES ASSUME settled' PROVE Agree' \/ (a \in Admins /\ Halfway(a)') \/ \E b \in Admins \ {a} : Halfway(b)
      OBVIOUS
    <2>1. settled /\ (Edits(a) => place # "idle")
      BY <1>2, <1>3
    <2>2. Halfway(a) => Halfway(a)'
      BY <1>1, <1>2, <1>3, <1>6, <2>1 DEF Halfway, Edits
    <2>3. QED
      BY <1>1, <1>3, <1>4, <2>1, <2>2, NothingWritten
  <1>11. QED
    BY <1>1, <1>3, <1>4, <1>5, <1>7, <1>8, <1>9, <1>10, Moves, NothingIsAPlace

\* The steps that leave the list alone: what they leave behind is argued from
\* the place they start in.
LEMMA LaterStepsKeep ==
    ASSUME AccessInv, NEW a \in Admins,
           Answer(a) \/ ACLApply(a) \/ ClearTable(a) \/ EnableACL(a) \/ ACLDisable(a) \/ MarkDisabled(a)
    PROVE  AccessInv'
  <1>1. PICK c, l : c = cmd[a] /\ l = list[a]
    OBVIOUS
  <1>2. /\ a \in Procs /\ a \notin Restorers /\ c \in Command /\ l \in SUBSET Prefixes
        /\ Place(a) /\ Knows(a) /\ PanelKnows(a) /\ outdated[a] \in SUBSET Places
        /\ file \subseteq Prefixes /\ off \in BOOLEAN /\ settled \in BOOLEAN /\ commands \in 0..MaxCommands
        /\ faults \in 0..MaxFaults /\ kernel \in ((SUBSET Prefixes) \ {{}}) \cup {Open}
    BY <1>1, AccessAssumption DEF AccessInv, TypeOK, Procs
  <1>3. \A place \in {"idle", "installing", "enabling", "marking"} : place \in AdminPC /\ place \in PC
    BY DEF AdminPC, PC
  <1>4. CASE Answer(a)
    <2>1. pc[a] = "asking" /\ l # {} /\ UNCHANGED <<file, off, kernel, commands, faults>>
      BY <1>1, <1>2, <1>4 DEF Answer, Place, Carries
    <2>2. CASE Move(a, "installing", c, l, {}) /\ UNCHANGED settled
      <3>1. pc'[a] = "installing" /\ cmd'[a] = c /\ list'[a] = l /\ outdated'[a] = outdated[a]
        <4>1. Moved(a, "installing", c, l, {})
          BY <1>2, <1>3, <2>2, MoveFrame, NothingIsAPlace, WellTyped
        <4>2. QED
          BY <4>1 DEF Moved
      <3>2. Knows(a)' /\ PanelKnows(a)'
        BY <1>1, <1>2, <2>1, <3>1 DEF Knows, Carries, PanelKnows, ClientStays
      <3>3. settled' => Agree' \/ (a \in Admins /\ Halfway(a)') \/ \E b \in Admins \ {a} : Halfway(b)
        <4>1. Halfway(a) => Halfway(a)'
          BY <1>1, <2>1, <3>1 DEF Halfway, Edits
        <4>2. QED
          BY <1>2, <2>1, <2>2, <4>1, NothingWritten
      <3>4. QED
        BY <1>2, <1>3, <2>1, <2>2, <3>2, <3>3, Moves, NothingIsAPlace
    <2>3. CASE Move(a, "idle", c, l, {}) /\ settled' = (settled /\ ~Edits(a))
      <3>1. settled' => Agree' \/ (a \in Admins /\ Halfway(a)') \/ \E b \in Admins \ {a} : Halfway(b)
        <4> SUFFICES ASSUME settled'
                     PROVE Agree' \/ (a \in Admins /\ Halfway(a)') \/ \E b \in Admins \ {a} : Halfway(b)
          OBVIOUS
        <4>1. ~Halfway(a)
          BY <2>1, <2>3 DEF Halfway
        <4>2. QED
          BY <1>2, <2>1, <2>3, <4>1, NothingWritten
      <3>2. QED
        BY <1>2, <1>3, <2>1, <2>3, <3>1, Moves, NothingIsAPlace
    <2>4. QED
      BY <1>1, <1>4, <2>2, <2>3 DEF Answer, Goto
  <1>5. ASSUME NEW k \in ((SUBSET Prefixes) \ {{}}) \cup {Open}, Move(a, "enabling", c, l, {"table"}),
               kernel' = k, UNCHANGED <<file, off, settled, commands, faults>>,
               outdated[a] \cap {"list", "table"} = {} => k \in {file, Open}
        PROVE  AccessInv'
    <2>1. pc'[a] = "enabling" /\ cmd'[a] = c /\ list'[a] = l /\ outdated'[a] = outdated[a]
      <3>1. Moved(a, "enabling", c, l, {"table"})
        BY <1>2, <1>3, <1>5, MoveFrame, NothingIsAPlace, WellTyped
      <3>2. QED
        BY <3>1 DEF Moved
    <2>2. Knows(a)' /\ PanelKnows(a)' /\ Halfway(a)'
      BY <1>5, <2>1 DEF Knows, Carries, PanelKnows, ClientStays, Halfway
    <2>3. QED
      BY <1>2, <1>3, <1>5, <2>2, Moves, NothingIsAPlace
  <1>6. CASE ACLApply(a)
    <2>1. /\ pc[a] = "installing" /\ kernel' = l /\ Move(a, "enabling", c, l, {"table"})
          /\ UNCHANGED <<file, off, settled, commands, faults>>
      BY <1>1, <1>6 DEF ACLApply, Goto
    <2>2. l # {} /\ ("list" \notin outdated[a] => l = file)
      BY <1>1, <1>2, <2>1 DEF Place, Knows, Carries
    <2>3. QED
      BY <1>2, <1>5, <2>1, <2>2
  <1>7. CASE ClearTable(a)
    <2>1. /\ kernel' = Open /\ Move(a, "enabling", c, l, {"table"})
          /\ UNCHANGED <<file, off, settled, commands, faults>>
      BY <1>1, <1>7 DEF ClearTable, Goto
    <2>2. QED
      BY <1>5, <2>1
  <1>8. CASE EnableACL(a)
    <2>1. /\ pc[a] = "enabling" /\ off' = FALSE /\ Move(a, "idle", c, l, {"mark"}) /\ settled' = Current(a)
          /\ UNCHANGED <<file, kernel, commands, faults>>
      BY <1>1, <1>8 DEF EnableACL, Goto
    <2>2. settled' => Agree'
      BY <1>2, <2>1 DEF Knows, Current, Agree, Places
    <2>3. settled' \in BOOLEAN
      BY <2>1 DEF Current
    <2>4. QED
      BY <1>2, <1>3, <2>1, <2>2, <2>3, Moves, NothingIsAPlace
  <1>9. CASE ACLDisable(a)
    <2>1. /\ kernel' = Open /\ Move(a, "marking", c, l, {"table"})
          /\ UNCHANGED <<file, off, settled, commands, faults>>
      BY <1>1, <1>9 DEF ACLDisable, Goto
    <2>2. pc'[a] = "marking"
      <3>1. Moved(a, "marking", c, l, {"table"})
        BY <1>2, <1>3, <2>1, MoveFrame, NothingIsAPlace, WellTyped
      <3>2. QED
        BY <3>1 DEF Moved
    <2>3. Knows(a)' /\ PanelKnows(a)' /\ Agree'
      BY <2>1, <2>2 DEF Knows, Carries, PanelKnows, ClientStays, Agree
    <2>4. QED
      BY <1>2, <1>3, <2>1, <2>3, Moves, NothingIsAPlace
  <1>10. CASE MarkDisabled(a)
    <2>1. /\ pc[a] = "marking" /\ off' = TRUE /\ Move(a, "idle", c, l, {"mark"}) /\ settled' = Current(a)
          /\ UNCHANGED <<file, kernel, commands, faults>>
      BY <1>1, <1>10 DEF MarkDisabled, Goto
    <2>2. settled' => Agree'
      BY <1>2, <2>1 DEF Knows, Current, Agree, Places
    <2>3. settled' \in BOOLEAN
      BY <2>1 DEF Current
    <2>4. QED
      BY <1>2, <1>3, <2>1, <2>2, <2>3, Moves, NothingIsAPlace
  <1>11. QED
    BY <1>4, <1>6, <1>7, <1>8, <1>9, <1>10

LEMMA RestoreKeeps ==
    ASSUME AccessInv, NEW r \in Restorers, RestoreACL(r)
    PROVE  AccessInv'
  <1>1. PICK c, l, f : c = cmd[r] /\ l = list[r] /\ f = file
    OBVIOUS
  <1>2. /\ r \in Procs /\ r \notin Admins /\ r \notin Panels /\ c \in Command /\ l \in SUBSET Prefixes
        /\ f \in SUBSET Prefixes /\ Place(r) /\ Knows(r) /\ outdated[r] \in SUBSET Places
        /\ off \in BOOLEAN /\ settled \in BOOLEAN /\ commands \in 0..MaxCommands
        /\ faults \in 0..MaxFaults /\ kernel \in ((SUBSET Prefixes) \ {{}}) \cup {Open}
    BY <1>1, AccessAssumption DEF AccessInv, TypeOK, Procs
  <1>3. ASSUME NEW place \in RestorerPC, NEW k \in SUBSET Prefixes, Move(r, place, c, k, {}),
               UNCHANGED <<file, off, kernel, settled, commands, faults>>,
               place \in {"checking", "restoring"} => k # {} /\ ("list" \notin outdated[r] => k = file),
               place # "idle" /\ "mark" \notin outdated[r] => ~off
        PROVE  AccessInv'
    <2>1. place \in PC
      BY DEF RestorerPC, PC
    <2>2. pc'[r] = place /\ (place # "idle" => list'[r] = k /\ outdated'[r] = outdated[r])
      <3>1. Moved(r, place, c, k, {})
        BY <1>2, <1>3, <2>1, MoveFrame, NothingIsAPlace, WellTyped
      <3>2. QED
        BY <3>1 DEF Moved
    <2>3. place # "idle" => Knows(r)'
      BY <1>3, <2>2 DEF Knows, Carries, RestorerPC
    <2>4. PanelKnows(r)'
      BY <1>2 DEF PanelKnows
    <2>5. settled' => Agree' \/ (r \in Admins /\ Halfway(r)') \/ \E b \in Admins \ {r} : Halfway(b)
      BY <1>2, <1>3, NothingWritten DEF Halfway
    <2>6. place \notin {"asking", "installing", "disabling", "editing"}
      BY DEF RestorerPC
    <2>7. QED
      BY <1>1, <1>2, <1>3, <2>1, <2>3, <2>4, <2>5, <2>6, Moves, NothingIsAPlace
  <1>4. CASE EnforcedACL(r)
    <2>1. Move(r, IF off THEN "idle" ELSE "listing", c, l, {})
          /\ UNCHANGED <<file, off, kernel, settled, commands, faults>>
      BY <1>1, <1>4 DEF EnforcedACL, Goto, ACLDisabled
    <2>2. "idle" \in RestorerPC /\ "listing" \in RestorerPC
      BY DEF RestorerPC
    <2>3. QED
      BY <1>2, <1>3, <2>1, <2>2
  <1>5. CASE ReadEnforced(r)
    <2>1. /\ Move(r, IF f = {} THEN "idle" ELSE "checking", c, f, {}) /\ pc[r] = "listing"
          /\ UNCHANGED <<file, off, kernel, settled, commands, faults>>
      BY <1>1, <1>5 DEF ReadEnforced, Read
    <2>2. "idle" \in RestorerPC /\ "checking" \in RestorerPC
      BY DEF RestorerPC
    <2>3. "mark" \notin outdated[r] => ~off
      BY <1>2, <2>1 DEF Knows
    <2>4. QED
      BY <1>1, <1>2, <1>3, <2>1, <2>2, <2>3
  <1>6. CASE CheckInstalled(r)
    <2>1. /\ Move(r, IF kernel # Open THEN "idle" ELSE "restoring", c, l, {}) /\ pc[r] = "checking"
          /\ UNCHANGED <<file, off, kernel, settled, commands, faults>>
      BY <1>1, <1>6 DEF CheckInstalled, Goto, ACLInstalled
    <2>2. "idle" \in RestorerPC /\ "restoring" \in RestorerPC
      BY DEF RestorerPC
    <2>3. /\ "mark" \notin outdated[r] => ~off
          /\ l # {} /\ ("list" \notin outdated[r] => l = file)
      BY <1>1, <1>2, <2>1 DEF Knows, Place, Carries
    <2>4. QED
      BY <1>2, <1>3, <2>1, <2>2, <2>3
  <1>7. CASE Reinstall(r)
    <2>1. /\ Move(r, "idle", c, l, {"table"}) /\ kernel' = l /\ pc[r] = "restoring" /\ settled' = Current(r)
          /\ UNCHANGED <<file, off, commands, faults>>
      BY <1>1, <1>7 DEF Reinstall, Goto
    <2>2. "idle" \in RestorerPC /\ "idle" \in PC
      BY DEF RestorerPC, PC
    <2>3. /\ "mark" \notin outdated[r] => ~off
          /\ l # {} /\ ("list" \notin outdated[r] => l = file)
      BY <1>1, <1>2, <2>1 DEF Knows, Place, Carries
    <2>4. settled' \in BOOLEAN /\ (settled' => Agree')
      BY <2>1, <2>3 DEF Current, Agree
    <2>5. QED
      BY <1>1, <1>2, <2>1, <2>2, <2>3, <2>4, Moves, NothingIsAPlace
  <1>8. QED
    BY <1>4, <1>5, <1>6, <1>7 DEF RestoreACL

LEMMA AbortKeeps ==
    ASSUME AccessInv, NEW p \in Procs, Abort(p)
    PROVE  AccessInv'
  <1>1. PICK c, l : c = cmd[p] /\ l = list[p]
    OBVIOUS
  <1>2. /\ faults < MaxFaults /\ faults' = faults + 1 /\ settled' = (settled /\ ~Halfway(p))
        /\ Move(p, "idle", c, l, {}) /\ UNCHANGED <<file, off, kernel, commands>>
    BY <1>1 DEF Abort, Goto
  <1>3. /\ c \in Command /\ l \in SUBSET Prefixes /\ file \subseteq Prefixes /\ off \in BOOLEAN
        /\ commands \in 0..MaxCommands /\ faults \in 0..MaxFaults /\ settled \in BOOLEAN
        /\ kernel \in ((SUBSET Prefixes) \ {{}}) \cup {Open}
    BY <1>1 DEF AccessInv, TypeOK
  <1>4. faults' \in 0..MaxFaults /\ settled' \in BOOLEAN
    BY <1>2, <1>3, AccessAssumption
  <1>5. "idle" \in AdminPC /\ "idle" \in RestorerPC /\ "idle" \in PC
    BY DEF AdminPC, RestorerPC, PC
  <1>6. settled' => Agree' \/ (p \in Admins /\ Halfway(p)') \/ \E b \in Admins \ {p} : Halfway(b)
    <2> SUFFICES ASSUME settled'
                 PROVE Agree' \/ (p \in Admins /\ Halfway(p)') \/ \E b \in Admins \ {p} : Halfway(b)
      OBVIOUS
    <2>1. settled /\ ~Halfway(p)
      BY <1>2
    <2>2. QED
      BY <1>2, <2>1, NothingWritten
  <1>7. QED
    BY <1>2, <1>3, <1>4, <1>5, <1>6, Moves, NothingIsAPlace

LEMMA FlushKeeps ==
    ASSUME AccessInv, FlushRuleset
    PROVE  AccessInv'
  <1>1. /\ kernel' = Open /\ UNCHANGED <<file, off, pc, cmd, list, outdated, settled, commands>>
        /\ faults < MaxFaults /\ faults' = faults + 1
    BY DEF FlushRuleset
  <1>2. TypeOK'
    BY <1>1, AccessAssumption DEF AccessInv, TypeOK
  <1>3. ASSUME NEW p \in Procs
        PROVE  Place(p)' /\ Knows(p)' /\ PanelKnows(p)'
    BY <1>1 DEF AccessInv, Place, Edits, Knows, PanelKnows, ClientStays, Carries
  <1>4. Agree'
    BY <1>1 DEF Agree
  <1>5. QED
    BY <1>2, <1>3, <1>4 DEF AccessInv

LEMMA AccessInvStep == AccessInv /\ [Next]_vars => AccessInv'
  <1> SUFFICES ASSUME AccessInv, [Next]_vars PROVE AccessInv'
    OBVIOUS
  <1>1. ASSUME NEW a \in Admins, Admin(a)
        PROVE  AccessInv'
    BY <1>1, CommandsKeep, PanelRunKeeps, SetKeeps, ReadListKeeps, LaterStepsKeep DEF Admin
  <1>2. CASE UNCHANGED vars
    <2>1. TypeOK'
      BY <1>2 DEF vars, AccessInv, TypeOK
    <2>2. ASSUME NEW p \in Procs
          PROVE  Place(p)' /\ Knows(p)' /\ PanelKnows(p)'
      BY <1>2 DEF vars, AccessInv, Place, Edits, Knows, PanelKnows, ClientStays, Carries
    <2>3. settled' => Agree' \/ \E a \in Admins : Halfway(a)'
      BY <1>2 DEF vars, AccessInv, Agree, Halfway, Edits
    <2>4. QED
      BY <2>1, <2>2, <2>3 DEF AccessInv
  <1>3. QED
    BY <1>1, <1>2, RestoreKeeps, AbortKeeps, FlushKeeps DEF Next

\* Commands (cmdACL) and restorers (RestoreACL) overlap in any order, and when
\* nobody is at work a table in the kernel enforces exactly acl.txt and there is
\* none after "acl disable", unless the last to write was undermined, or an edit
\* was previewed, declined or cut off halfway.
THEOREM PlacesAgree == Spec => []PlacesAgreeAtRest
  <1>1. AccessInv => PlacesAgreeAtRest
    <2> SUFFICES ASSUME AccessInv, settled, Idle PROVE Agree
      BY DEF AccessInv, PlacesAgreeAtRest, Agree
    <2>1. \A a \in Admins : ~Halfway(a)
      BY DEF Idle, Busy, Halfway, Procs
    <2>2. QED
      BY <2>1 DEF AccessInv
  <1>2. QED
    BY <1>1, AccessInvInit, AccessInvStep, PTL DEF Spec

\* A change made through the panel locks out the client that made it only if
\* another edit is saved between the check and the end (aclLockoutCheck, then
\* cmdACL), and an edit removes no table on the way (SetACL, ACLApply), whoever
\* else is at work.
THEOREM EditingIsSafe == Spec => EditsAreSafe
  <1> DEFINE Stays == \A a \in Panels :
                        pc[a] = "installing" /\ pc'[a] = "enabling" /\ "check" \notin outdated[a]
                          => Client[a] \in kernel'
             Guarded == kernel # Open /\ kernel' = Open /\ faults' = faults
                          => \E a \in Admins :
                               \/ pc[a] = "disabling" /\ cmd[a].op = "disable"
                               \/ pc[a] = "clearing" /\ (file = {} \/ "list" \in outdated[a])
  <1>1. AccessInv /\ [Next]_vars => [Stays]_vars
    <2> SUFFICES ASSUME AccessInv, Next, NEW a \in Panels, pc[a] = "installing", pc'[a] = "enabling",
                        "check" \notin outdated[a]
                 PROVE  Client[a] \in kernel'
      OBVIOUS
    <2>1. a \in Admins /\ Busy(a) /\ a \in Procs /\ a \notin Restorers
      BY AccessAssumption DEF Busy, Procs
    <2>2. Client[a] \in list[a]
      BY <2>1 DEF AccessInv, PanelKnows, ClientStays
    <2>3. kernel' = list[a]
      <3> USE DEF Move, Goto, Read
      <3>1. pc \in [Procs -> PC]
        BY DEF AccessInv, TypeOK
      <3>2. ASSUME NEW b \in Admins, Admin(b)
            PROVE  kernel' = list[a]
        <4>1. \E place : pc' = [pc EXCEPT ![b] = place]
          BY <3>2 DEF Admin, PanelCheck, cmdACL, Begin, PanelRun, SetACL, ReadList, Answer, ACLApply,
             ClearTable, EnableACL, ACLDisable, MarkDisabled
        <4>2. b = a
          BY <2>1, <3>1, <4>1
        <4>3. CASE ACLApply(a)
          BY <4>3 DEF ACLApply
        <4>4. CASE ~ACLApply(a)
          BY <2>1, <3>2, <4>2, <4>4 DEF Admin, PanelCheck, cmdACL, PanelRun, SetACL, ReadList, Answer,
             ClearTable, EnableACL, ACLDisable, MarkDisabled, Busy
        <4>5. QED
          BY <4>3, <4>4
      <3>3. ASSUME NEW r \in Restorers, RestoreACL(r)
            PROVE  FALSE
        <4>1. \E place : pc' = [pc EXCEPT ![r] = place]
          BY <3>3 DEF RestoreACL, EnforcedACL, ReadEnforced, CheckInstalled, Reinstall
        <4>2. QED
          BY <2>1, <3>1, <4>1
      <3>4. ASSUME NEW p \in Procs, Abort(p)
            PROVE  FALSE
        BY <2>1, <3>1, <3>4 DEF Abort
      <3>5. CASE FlushRuleset
        BY <3>5 DEF FlushRuleset
      <3>6. QED
        BY <3>2, <3>3, <3>4, <3>5 DEF Next
    <2>4. QED
      BY <2>2, <2>3
  <1>2. AccessInv /\ [Next]_vars => [Guarded]_vars
    <2> SUFFICES ASSUME AccessInv, Next, kernel # Open, kernel' = Open, faults' = faults
                 PROVE  \E a \in Admins :
                          \/ pc[a] = "disabling" /\ cmd[a].op = "disable"
                          \/ pc[a] = "clearing" /\ (file = {} \/ "list" \in outdated[a])
      OBVIOUS
    <2>1. list \in [Procs -> SUBSET Prefixes] /\ faults \in Nat /\ \A S \in SUBSET Prefixes : Open # S
      BY AccessAssumption DEF AccessInv, TypeOK
    <2>2. ASSUME NEW a \in Admins, Admin(a)
          PROVE  \/ pc[a] = "disabling" /\ cmd[a].op = "disable"
                 \/ pc[a] = "clearing" /\ (file = {} \/ "list" \in outdated[a])
      <3>1. CASE ACLApply(a)
        <4>1. kernel' = list[a] /\ a \in Procs
          BY <3>1 DEF ACLApply, Procs
        <4>2. QED
          BY <2>1, <4>1
      <3>2. CASE ClearTable(a)
        BY <3>2 DEF ClearTable, AccessInv, Knows, Procs
      <3>3. CASE ACLDisable(a)
        BY <3>3 DEF ACLDisable, AccessInv, Place, Procs
      <3>4. CASE ~(ACLApply(a) \/ ClearTable(a) \/ ACLDisable(a))
        <4>1. kernel' = kernel
          BY <2>2, <3>4 DEF Admin, PanelCheck, cmdACL, Begin, PanelRun, SetACL, ReadList, Answer,
             EnableACL, MarkDisabled
        <4>2. QED
          BY <4>1
      <3>5. QED
        BY <3>1, <3>2, <3>3, <3>4
    <2>3. ASSUME NEW r \in Restorers, RestoreACL(r)
          PROVE  FALSE
      <3>1. CASE Reinstall(r)
        <4>1. kernel' = list[r] /\ r \in Procs
          BY <3>1 DEF Reinstall, Procs
        <4>2. QED
          BY <2>1, <4>1
      <3>2. QED
        BY <2>3, <3>1 DEF RestoreACL, EnforcedACL, ReadEnforced, CheckInstalled
    <2>4. ASSUME NEW p \in Procs, Abort(p)
          PROVE  FALSE
      BY <2>1, <2>4 DEF Abort
    <2>5. CASE FlushRuleset
      BY <2>1, <2>5 DEF FlushRuleset
    <2>6. QED
      BY <2>2, <2>3, <2>4, <2>5 DEF Next
  <1>3. QED
    BY <1>1, <1>2, AccessInvInit, AccessInvStep, PTL DEF Spec, EditsAreSafe, PanelKeepsItself, EditKeepsGuard
=============================================================================
