--------------------------- MODULE AccessControl ---------------------------
(***************************************************************************)
(* Access control of the encrypted entrance: the list acl.txt, the mark    *)
(* acl.disabled, and the kernel's nftables table dns_acl, which must agree *)
(* although nothing locks them.                                            *)
(*                                                                         *)
(* Administrators edit the list with "dns-stack acl" (from a shell, or     *)
(* from the panel, which first checks that the client does not lock itself *)
(* out).  Restorers (the watchdog every minute, the routing service when   *)
(* it starts, also with --preview) put a missing table back.  Each command *)
(* is a process that reads files, writes files and calls nft, one after    *)
(* the other, and any two of them interleave.                              *)
(*                                                                         *)
(* A prefix is an element of Prefixes; CollapsePrefixes and Subtract keep  *)
(* the set of addresses, so a list is the set of the prefixes it covers.   *)
(***************************************************************************)
EXTENDS Integers, FiniteSets

CONSTANTS
  Prefixes,    \* client prefixes
  Admins,      \* processes of "dns-stack acl"
  Panels,      \* those of them that the panel starts
  Client,      \* Client[p]: where the browser of panel process p is
  Restorers,   \* processes that call RestoreACL
  Watchdog,    \* the restorer that the timer starts
  Commands,    \* what an administrator may ask for
  Open,        \* no table in the kernel: everybody is let in
  MaxCommands, \* bound: commands given
  MaxFaults    \* bound: flushed rulesets, failed calls, killed processes

Procs == Admins \cup Restorers

Command == [op   : {"add", "remove", "set", "apply", "disable"},
            args : SUBSET Prefixes,
            mode : {"ask", "yes", "preview"}]

ASSUME AccessAssumption ==
  /\ Panels \subseteq Admins
  /\ Admins \cap Restorers = {}
  /\ Client \in [Panels -> Prefixes]
  /\ Watchdog \in Restorers
  /\ Commands \subseteq Command
  /\ \A S \in SUBSET Prefixes : Open # S
  /\ MaxCommands \in Nat /\ MaxFaults \in Nat

VARIABLES
  file,     \* acl.txt
  off,      \* acl.disabled exists
  kernel,   \* the prefixes the table lets in, or Open
  pc, cmd,  \* where each process is, and the command of an administrator
  list,     \* the list a process has read
  outdated, \* history: what each process relies on that others have changed since
  settled,  \* history: the last to write ended on what was current
  commands, faults  \* used budgets

vars == <<file, off, kernel, pc, cmd, list, outdated, settled, commands, faults>>

PC == {"idle", "checked", "editing", "reading", "asking", "installing", "clearing",
       "enabling", "disabling", "marking", "listing", "checking", "restoring"}

\* What a process may rely on: the list its panel checked, the list it has read,
\* the table it has written, the mark it has seen.
Places == {"check", "list", "table", "mark"}

TypeOK ==
  /\ file \subseteq Prefixes
  /\ off \in BOOLEAN
  /\ kernel \in ((SUBSET Prefixes) \ {{}}) \cup {Open}
  /\ pc \in [Procs -> PC]
  /\ cmd \in [Procs -> Command]
  /\ list \in [Procs -> SUBSET Prefixes]
  /\ outdated \in [Procs -> SUBSET Places]
  /\ settled \in BOOLEAN
  /\ commands \in 0..MaxCommands
  /\ faults \in 0..MaxFaults

apply == [op |-> "apply", args |-> {}, mode |-> "yes"]

\* EnsureFiles has created an empty list, or a list was enforced before; a
\* reboot may have removed the table.
Init ==
  /\ file \in SUBSET Prefixes
  /\ off \in BOOLEAN
  /\ kernel \in {Open} \cup (IF off \/ file = {} THEN {} ELSE {file})
  /\ pc = [p \in Procs |-> "idle"]
  /\ cmd = [p \in Procs |-> apply]
  /\ list = [p \in Procs |-> {}]
  /\ outdated = [p \in Procs |-> {}]
  /\ settled = TRUE
  /\ commands = 0
  /\ faults = 0

Relies(p) ==
  (IF p \in Panels /\ pc[p] \in {"checked", "editing", "reading", "asking", "installing"}
   THEN {"check"} ELSE {})
  \cup (IF pc[p] \in {"asking", "installing", "clearing", "enabling", "checking", "restoring"}
        THEN {"list"} ELSE {})
  \cup (IF pc[p] \in {"enabling", "marking"} THEN {"table"} ELSE {})
  \cup (IF pc[p] \in {"listing", "checking", "restoring"} THEN {"mark"} ELSE {})

\* A process goes on with command c and list l in its memory, or ends; what it
\* has written is outdated for the others.
Move(p, place, c, l, written) ==
  /\ pc' = [pc EXCEPT ![p] = place]
  /\ cmd' = [cmd EXCEPT ![p] = IF place = "idle" THEN apply ELSE c]
  /\ list' = [list EXCEPT ![p] = IF place = "idle" THEN {} ELSE l]
  /\ outdated' = [q \in Procs |-> IF q # p THEN outdated[q] \cup (written \cap Relies(q))
                                ELSE IF place = "idle" THEN {} ELSE outdated[p]]

Goto(p, place, written) == Move(p, place, cmd[p], list[p], written)
Read(p, place) == Move(p, place, cmd[p], file, {})
Busy(p) == pc[p] # "idle"

\* Its author has changed acl.txt and not yet the table.
Edits(a) == cmd[a].op \in {"add", "remove", "set"}
Current(p) == outdated[p] \subseteq {"check"}

-----------------------------------------------------------------------------
(* dns-stack acl. *)

\* AddACL, RemoveACL and SetACL, on the list they read.
edited(c, current) ==
  CASE c.op = "add"    -> current \cup c.args
    [] c.op = "remove" -> current \ c.args
    [] c.op = "set"    -> c.args
    [] OTHER           -> current

\* cmdACL parses the command; add and remove read the current list.
Begin(a, c) ==
  /\ \/ c.op \in {"add", "remove"} /\ Move(a, "editing", c, file, {})
     \/ c.op = "set" /\ Move(a, "editing", c, {}, {})
     \/ c.op = "apply" /\ Move(a, "reading", c, {}, {})
     \/ c.op = "disable" /\ Move(a, "disabling", c, {}, {})
  /\ UNCHANGED <<file, off, kernel, settled, faults>>

cmdACL(a, c) ==
  /\ ~Busy(a)
  /\ c.op \in {"add", "remove"} => c.args # {}
  /\ commands < MaxCommands /\ commands' = commands + 1
  /\ Begin(a, c)

\* Mutant: the panel looks at the prefixes that are removed as well.
lockoutCheckLoose(a, c) == Client[a] \in file \cup c.args

\* aclLockoutCheck: the changed list is not empty and lets the client in.
aclLockoutCheck(a, c) == Client[a] \in edited(c, file)

\* The panel refuses a change after which the list is empty or does not let
\* its own client in (aclLockoutCheck); then the helper runs the command.
PanelCheck(a, c) ==
  /\ a \in Panels /\ ~Busy(a)
  /\ c.op \in {"add", "remove", "apply"} /\ c.mode = "yes"
  /\ c.op # "apply" => c.args # {}
  /\ aclLockoutCheck(a, c)
  /\ commands < MaxCommands /\ commands' = commands + 1
  /\ Move(a, "checked", c, {}, {})
  /\ UNCHANGED <<file, off, kernel, settled, faults>>

PanelRun(a) ==
  /\ pc[a] = "checked"
  /\ Begin(a, cmd[a])
  /\ UNCHANGED commands

\* The list is saved before anything is asked or previewed.
SetACL(a) ==
  /\ pc[a] = "editing"
  /\ file' = edited(cmd[a], list[a])
  /\ Goto(a, "reading", {"check", "list"})
  /\ UNCHANGED <<off, kernel, settled, commands, faults>>

\* len(entries) == 0.
mustClear(l) == l = {}

\* An empty list removes the table, before --preview is looked at; a preview
\* prints the script and ends, with an edited list saved; --yes asks no question.
ReadList(a) ==
  /\ pc[a] = "reading"
  /\ settled' = (settled /\ ~(Edits(a) /\ cmd[a].mode = "preview" /\ ~mustClear(file)))
  /\ Read(a, IF mustClear(file) THEN "clearing"
             ELSE IF cmd[a].mode = "preview" THEN "idle"
             ELSE IF cmd[a].mode = "yes" THEN "installing" ELSE "asking")
  /\ UNCHANGED <<file, off, kernel, commands, faults>>

Answer(a) ==
  /\ pc[a] = "asking"
  /\ \/ /\ Goto(a, "installing", {})
        /\ UNCHANGED settled
     \/ /\ Goto(a, "idle", {})
        /\ settled' = (settled /\ ~Edits(a))
  /\ UNCHANGED <<file, off, kernel, commands, faults>>

\* One nft transaction replaces the whole table.
ACLApply(a) ==
  /\ pc[a] = "installing"
  /\ kernel' = list[a]
  /\ Goto(a, "enabling", {"table"})
  /\ UNCHANGED <<file, off, settled, commands, faults>>

\* The list is empty: ACLDisable.
ClearTable(a) ==
  /\ pc[a] = "clearing"
  /\ kernel' = Open
  /\ Goto(a, "enabling", {"table"})
  /\ UNCHANGED <<file, off, settled, commands, faults>>

\* SetACLDisabled(false)
EnableACL(a) ==
  /\ pc[a] = "enabling"
  /\ off' = FALSE
  /\ Goto(a, "idle", {"mark"})
  /\ settled' = Current(a)
  /\ UNCHANGED <<file, kernel, commands, faults>>

\* "acl disable": the table goes first, the mark is written second.
ACLDisable(a) ==
  /\ pc[a] = "disabling"
  /\ kernel' = Open
  /\ Goto(a, "marking", {"table"})
  /\ UNCHANGED <<file, off, settled, commands, faults>>

MarkDisabled(a) ==
  /\ pc[a] = "marking"
  /\ off' = TRUE
  /\ Goto(a, "idle", {"mark"})
  /\ settled' = Current(a)
  /\ UNCHANGED <<file, kernel, commands, faults>>

Admin(a) ==
  \/ \E c \in Commands : PanelCheck(a, c) \/ (a \notin Panels /\ cmdACL(a, c))
  \/ a \in Panels /\ \E c \in Commands : c.op = "disable" /\ cmdACL(a, c)
  \/ PanelRun(a) \/ SetACL(a) \/ ReadList(a) \/ Answer(a) \/ ACLApply(a)
  \/ ClearTable(a) \/ EnableACL(a) \/ ACLDisable(a) \/ MarkDisabled(a)

-----------------------------------------------------------------------------
(* RestoreACL. *)
\* ACLDisabled.  Mutant: the mark is not looked at.
ACLDisabledNever == FALSE
ACLDisabled == off

\* "nft list chain" finds it.  Mutant: its exit status is read the wrong way.
ACLInstalledWrong == kernel = Open
ACLInstalled == kernel # Open

\* EnforcedACL: nothing to do while the mark exists; otherwise the list is read.
EnforcedACL(r) ==
  /\ ~Busy(r)
  /\ Goto(r, IF ACLDisabled THEN "idle" ELSE "listing", {})
  /\ UNCHANGED <<file, off, kernel, settled, commands, faults>>

ReadEnforced(r) ==
  /\ pc[r] = "listing"
  /\ Read(r, IF file = {} THEN "idle" ELSE "checking")
  /\ UNCHANGED <<file, off, kernel, settled, commands, faults>>

\* A table that is there is left alone, whatever it lets in.
CheckInstalled(r) ==
  /\ pc[r] = "checking"
  /\ Goto(r, IF ACLInstalled THEN "idle" ELSE "restoring", {})
  /\ UNCHANGED <<file, off, kernel, settled, commands, faults>>

Reinstall(r) ==
  /\ pc[r] = "restoring"
  /\ kernel' = list[r]
  /\ Goto(r, "idle", {"table"})
  /\ settled' = Current(r)
  /\ UNCHANGED <<file, off, commands, faults>>

RestoreACL(r) == EnforcedACL(r) \/ ReadEnforced(r) \/ CheckInstalled(r) \/ Reinstall(r)

-----------------------------------------------------------------------------
(* The rest of the machine. *)

\* It has written one place and not yet the next.
Halfway(a) ==
  /\ a \in Admins
  /\ \/ pc[a] = "enabling"
     \/ pc[a] \in {"reading", "asking", "installing", "clearing"} /\ Edits(a)

\* A call fails (nft, a full disk) or the process is killed: what it has done
\* so far stays.
Abort(p) ==
  /\ Busy(p)
  /\ faults < MaxFaults /\ faults' = faults + 1
  /\ Goto(p, "idle", {})
  /\ settled' = (settled /\ ~Halfway(p))
  /\ UNCHANGED <<file, off, kernel, commands>>

\* nft flush ruleset, a restart of nftables.service, a reboot.
FlushRuleset ==
  /\ kernel # Open
  /\ faults < MaxFaults /\ faults' = faults + 1
  /\ kernel' = Open
  /\ UNCHANGED <<file, off, pc, cmd, list, outdated, settled, commands>>

Next ==
  \/ \E a \in Admins : Admin(a)
  \/ \E r \in Restorers : RestoreACL(r)
  \/ \E p \in Procs : Abort(p)
  \/ FlushRuleset

Spec == Init /\ [][Next]_vars

\* The timer starts the watchdog every minute; commands that were started run
\* on, except that nobody is obliged to answer a question.
FairSpec ==
  /\ Spec
  /\ WF_vars(RestoreACL(Watchdog))

-----------------------------------------------------------------------------
(* Properties. *)

Idle == \A p \in Procs : ~Busy(p)

(***************************************************************************)
(* The state is well typed, and when nobody is at work a table in the      *)
(* kernel enforces exactly acl.txt and there is none after "acl disable":  *)
(* commands and restorers may overlap in any order, and the three places   *)
(* differ at most after an edit that was previewed, declined or cut off    *)
(* halfway, or when the last to finish relied on what another had changed  *)
(* under it.  The next one that finishes undisturbed makes them agree.     *)
(***************************************************************************)
PlacesAgreeAtRest ==
  /\ TypeOK
  /\ settled /\ Idle /\ kernel # Open => kernel = file /\ ~off

(***************************************************************************)
(* A change made through the panel never locks out the client that made    *)
(* it: the panel checks the list it expects, the command it starts reads   *)
(* the list again.  Whoever else applies, restores, fails or is at work,   *)
(* only another edit saved between the check and the end defeats it.       *)
(***************************************************************************)
PanelKeepsItself ==
  [][\A a \in Panels :
       pc[a] = "installing" /\ pc'[a] = "enabling" /\ "check" \notin outdated[a]
         => Client[a] \in kernel']_vars

(***************************************************************************)
(* Editing the list never opens the entrance on the way: the table leaves  *)
(* the kernel only because of "acl disable", the outside world or a list   *)
(* that is empty, or was when the command read it and has been filled by   *)
(* another since.                                                          *)
(***************************************************************************)
EditKeepsGuard ==
  [][kernel # Open /\ kernel' = Open /\ faults' = faults
       => \E a \in Admins :
            \/ pc[a] = "disabling" /\ cmd[a].op = "disable"
            \/ pc[a] = "clearing" /\ (file = {} \/ "list" \in outdated[a])]_vars

(***************************************************************************)
(* An edit neither locks its author out nor opens the entrance: the two    *)
(* together are what makes it safe to edit a list that is enforced.        *)
(***************************************************************************)
EditsAreSafe == PanelKeepsItself /\ EditKeepsGuard

(***************************************************************************)
(* An enforced list is put back: whatever removed the table, the watchdog  *)
(* installs it again unless the administrator turned access control off.   *)
(***************************************************************************)
EnforcedIsInstalled ==
  (file # {} /\ ~off) ~> (kernel # Open \/ off \/ file = {})

=============================================================================
