----------------------------- MODULE LocalRecords -----------------------------
(***************************************************************************)
(* The operator's own DNS records.  A command edits the list of records    *)
(* under the lock, writes Unbound's configuration from the list, has it    *)
(* checked and put back if refused, and then hands the records of the name *)
(* to the running Unbound.  Only the edit of the list is locked.  A failed *)
(* addition takes the record off the list again; a failed removal does     *)
(* not put it back.  Whether the old configuration could be put back is    *)
(* not looked at.  Unbound's configuration is the set of records it holds; *)
(* one that does not exist holds none.                                     *)
(***************************************************************************)
EXTENDS Integers, FiniteSets

CONSTANTS Commands,        \* processes that run the commands
          Hosts,           \* names that records are for
          Addresses,       \* values (type and address)
          MaxCommands,     \* bound: commands begun
          MaxRecordFaults  \* bound: failures and kills

Records == [name : Hosts, value : Addresses]

VARIABLES records,   \* local-records.txt
          conf,      \* Unbound's configuration file
          live,      \* the records Unbound answers with
          shadowed,  \* names the block list or the hk list covers
          command,   \* the commands under way
          behind,    \* history: names of which Unbound was not, or not surely, told
          stale,     \* history: what has left the configuration other than the list
                     \*   may have, and no command has written it alone since
          commands, recordFaults \* history: counted

localVars == <<records, conf, live, shadowed, command, behind, stale, commands, recordFaults>>

AnyHost == CHOOSE h \in Hosts : TRUE
\* alone is history: no other command has been under way beside this one; and
\* so is tried: Unbound was restarted between the write and the check.
Running(pc, verb, name, values, todo, alone) ==
    [pc |-> pc, verb |-> verb, name |-> name, values |-> values, read |-> {}, previous |-> {},
     todo |-> todo, alone |-> alone, tried |-> FALSE]
NoCommand == Running("idle", "sync", AnyHost, {}, {}, TRUE)

LocalInit ==
    /\ records \in SUBSET Records
    /\ conf = records /\ live = records
    /\ shadowed \in SUBSET Hosts
    /\ command = [c \in Commands |-> NoCommand]
    /\ behind = {} /\ stale = FALSE
    /\ commands = 0 /\ recordFaults = 0

RecordFault == recordFaults < MaxRecordFaults /\ recordFaults' = recordFaults + 1

RecordsFor(rs, name) == {r \in rs : r.name = name}

\* The records a command is about: name and value, or all of the name.
Meant(c) == [name : {command[c].name}, value : command[c].values]

Stops(c) == command' = [command EXCEPT ![c] = NoCommand]

\* The names a command at work has yet to tell Unbound of.
Untold(r) ==
    CASE r.pc = "idle"                                             -> {}
      [] r.verb = "sync" /\ r.pc \notin {"idle", "unload", "load"} -> r.todo
      [] OTHER                                                     -> r.todo \cup {r.name}

Busy == {d \in Commands : command[d].pc # "idle"}

\* cmdLocalRecord.  An addition is of one value, a removal of one or all; a
\* sync goes through the names it has read at its start.  Of commands that
\* work at once each may undo what the other has done.
Command(c, verb, name, values) ==
    /\ command[c].pc = "idle"
    /\ commands < MaxCommands
    /\ commands' = commands + 1
    /\ LET new == Running(IF verb = "sync" THEN "render" ELSE "list", verb, name, values,
                          IF verb = "sync" THEN {r.name : r \in records} ELSE {}, Busy = {})
       IN /\ command' = [d \in Commands |-> IF d = c THEN new
                            ELSE IF d \in Busy THEN [command[d] EXCEPT !.alone = FALSE] ELSE command[d]]
          /\ IF Busy = {} THEN UNCHANGED <<behind, stale>>
             ELSE /\ behind' = behind \cup Untold(new) \cup UNION {Untold(command[d]) : d \in Busy}
                  /\ stale' = TRUE
    /\ UNCHANGED <<records, conf, live, shadowed, recordFaults>>

\* Shadowing: a record nobody would be answered with is refused.
Shadowing(c) ==
    /\ command[c].pc = "list" /\ command[c].verb = "add"
    /\ command[c].name \in shadowed
    /\ Stops(c)
    /\ UNCHANGED <<records, conf, live, shadowed, behind, stale, commands, recordFaults>>

\* AddLocalRecord, under the lock from the read to the write.
AddLocalRecord(c) ==
    /\ command[c].pc = "list" /\ command[c].verb = "add"
    /\ command[c].name \notin shadowed
    /\ records' = records \cup Meant(c)
    /\ command' = [command EXCEPT ![c] = IF Meant(c) \subseteq records THEN NoCommand
                                         ELSE [@ EXCEPT !.pc = "render"]]
    /\ UNCHANGED <<conf, live, shadowed, behind, stale, commands, recordFaults>>

\* RemoveLocalRecords.
RemoveLocalRecords(c) ==
    /\ command[c].pc = "list" /\ command[c].verb = "remove"
    /\ records' = records \ Meant(c)
    /\ command' = [command EXCEPT ![c] = IF Meant(c) \cap records = {} THEN NoCommand
                                         ELSE [@ EXCEPT !.pc = "render"]]
    /\ UNCHANGED <<conf, live, shadowed, behind, stale, commands, recordFaults>>

\* The lock is not had in time, or the list cannot be read or written.
listFails(c) ==
    /\ command[c].pc = "list"
    /\ RecordFault
    /\ Stops(c)
    /\ UNCHANGED <<records, conf, live, shadowed, behind, stale, commands>>

\* What a command that fails before the configuration has changed leaves: an
\* addition undoes its edit of the list as well, a removal does not.
GivesUp(c) ==
    IF command[c].verb = "add" THEN command' = [command EXCEPT ![c].pc = "undo"] ELSE Stops(c)

\* A removal that does not come through stays in the list alone.
LeftBehind(c) == IF command[c].verb = "remove" THEN {command[c].name} ELSE {}

\* writeConf reads the list, and the configuration for the way back ...
RenderUnboundLocal(c) ==
    /\ command[c].pc = "render"
    /\ command' = [command EXCEPT ![c].pc = "conf", ![c].read = records, ![c].previous = conf]
    /\ UNCHANGED <<records, conf, live, shadowed, behind, stale, commands, recordFaults>>

\* ... writes the configuration ...
writeConf(c) ==
    /\ command[c].pc = "conf"
    /\ conf' = command[c].read
    /\ command' = [command EXCEPT ![c].pc = "checkconf"]
    /\ UNCHANGED <<records, live, shadowed, behind, stale, commands, recordFaults>>

\* ... unless the list cannot be read or the file not be written, which it is
\* whole or not at all, ...
writeConfFails(c) ==
    /\ command[c].pc \in {"render", "conf"}
    /\ RecordFault
    /\ GivesUp(c)
    /\ behind' = behind \cup LeftBehind(c)
    /\ stale' = (stale \/ command[c].verb = "remove")
    /\ UNCHANGED <<records, conf, live, shadowed, commands>>

\* ... and has it checked: an addition or a removal goes on with its name, a
\* sync with its names.  A command that works alone has by now written the list.
checkconfPasses(c) ==
    /\ command[c].pc = "checkconf"
    /\ command' = [command EXCEPT ![c].pc = "apply",
                                  ![c].todo = IF command[c].verb = "sync" THEN @ ELSE {command[c].name}]
    /\ stale' = (stale /\ ~command[c].alone)
    /\ UNCHANGED <<records, conf, live, shadowed, behind, commands, recordFaults>>

putBackNot(c) == conf

\* The configuration from before.
putBack(c) == command[c].previous

\* The check refuses it, or does not end in time: it is put back; or that fails
\* and it stays; or there was no reading it before, and it goes.  A restarted
\* Unbound may by then have taken the refused one, or not have started with it.
checkconfRefuses(c) ==
    /\ command[c].pc = "checkconf"
    /\ RecordFault
    /\ \/ conf' = putBack(c) /\ stale' = (stale \/ command[c].verb = "remove")
       \/ conf' \in {conf, {}} /\ stale' = TRUE
    /\ GivesUp(c)
    /\ behind' = IF command[c].tried THEN Hosts ELSE behind \cup LeftBehind(c)
    /\ UNCHANGED <<records, live, shadowed, commands>>

undo(c) ==
    /\ command[c].pc = "undo"
    /\ records' = records \ Meant(c)
    /\ Stops(c)
    /\ UNCHANGED <<conf, live, shadowed, behind, stale, commands, recordFaults>>

\* The list cannot be edited again, and the error says so.
undoFails(c) ==
    /\ command[c].pc = "undo"
    /\ RecordFault
    /\ behind' = behind \cup {command[c].name}
    /\ stale' = TRUE
    /\ Stops(c)
    /\ UNCHANGED <<records, conf, live, shadowed, commands>>

\* applyName reads the list again, or fails to, and warns ...
applyName(c) ==
    /\ command[c].pc = "apply"
    /\ \E n \in command[c].todo :
        \/ /\ command' = [command EXCEPT ![c] =
                  [command[c] EXCEPT !.pc = "unload", !.name = n, !.read = records,
                                     !.todo = command[c].todo \ {n}]]
           /\ UNCHANGED <<behind, recordFaults>>
        \/ /\ RecordFault
           /\ command' = [command EXCEPT ![c].todo = @ \ {n}]
           /\ behind' = behind \cup {n}
    /\ UNCHANGED <<records, conf, live, shadowed, stale, commands>>

\* ... takes everything of the name from Unbound, or fails to, and warns ...
local_data_remove(c) ==
    /\ command[c].pc = "unload"
    /\ command' = [command EXCEPT ![c].pc = "load"]
    /\ \/ /\ live' = live \ RecordsFor(live, command[c].name)
          /\ UNCHANGED <<behind, recordFaults>>
       \/ /\ RecordFault
          /\ behind' = behind \cup {command[c].name}
          /\ UNCHANGED live
    /\ UNCHANGED <<records, conf, shadowed, stale, commands>>

\* ... and hands it the name's records, ...
local_data(c) == RecordsFor(command[c].read, command[c].name)

\* ... each of which may fail.  Then the cached answer is flushed.
handOver(c) ==
    /\ command[c].pc = "load"
    /\ command' = [command EXCEPT ![c].pc = "apply"]
    /\ \/ /\ live' = live \cup local_data(c)
          /\ UNCHANGED <<behind, recordFaults>>
       \/ /\ RecordFault
          /\ \E some \in SUBSET local_data(c) : live' = live \cup some
          /\ behind' = behind \cup {command[c].name}
    /\ UNCHANGED <<records, conf, shadowed, stale, commands>>

commandEnds(c) ==
    /\ command[c].pc = "apply" /\ command[c].todo = {}
    /\ Stops(c)
    /\ UNCHANGED <<records, conf, live, shadowed, behind, stale, commands, recordFaults>>

\* The helper's time limit ends the process.
commandKilled(c) ==
    /\ command[c].pc \notin {"idle", "list"}
    /\ RecordFault
    /\ Stops(c)
    /\ behind' = behind \cup Untold(command[c])
    /\ stale' = TRUE
    /\ UNCHANGED <<records, conf, live, shadowed, commands>>

\* External: Unbound starts again and reads its configuration, also one that
\* has yet to be checked, with which it may not start.
Unchecked == {c \in Commands : command[c].pc = "checkconf"}

UnboundRestart ==
    /\ \/ live' = conf /\ behind' = IF stale THEN Hosts ELSE {}
       \/ Unchecked # {} /\ live' = {} /\ behind' = Hosts
    /\ command' = [c \in Commands |-> IF c \in Unchecked THEN [command[c] EXCEPT !.tried = TRUE] ELSE command[c]]
    /\ UNCHANGED <<records, conf, shadowed, stale, commands, recordFaults>>

LocalNext ==
    \/ \E c \in Commands :
        \/ \E h \in Hosts, a \in Addresses : Command(c, "add", h, {a})
        \/ \E h \in Hosts, as \in {Addresses} \cup {{a} : a \in Addresses} : Command(c, "remove", h, as)
        \/ Command(c, "sync", AnyHost, {})
        \/ Shadowing(c) \/ AddLocalRecord(c) \/ RemoveLocalRecords(c) \/ listFails(c)
        \/ RenderUnboundLocal(c) \/ writeConf(c) \/ writeConfFails(c) \/ checkconfPasses(c) \/ checkconfRefuses(c)
        \/ undo(c) \/ undoFails(c)
        \/ applyName(c) \/ local_data_remove(c) \/ handOver(c) \/ commandEnds(c)
        \/ commandKilled(c)
    \/ UnboundRestart

LocalSpec == LocalInit /\ [][LocalNext]_localVars

-----------------------------------------------------------------------------

\* When nothing is under way, Unbound answers with the listed records, but for
\* names whose command has failed, warned, been killed or had another beside
\* it; and the configuration holds exactly the listed records, also after an
\* addition that failed and was undone, from the first command on that worked
\* alone and had its configuration accepted, whatever overlapped, was killed
\* or could not be put back before (add, remove, sync, writeConf, applyName).
RecordsAgree ==
    Busy = {} =>
        /\ stale \/ conf = records
        /\ \A h \in Hosts \ behind : RecordsFor(live, h) = RecordsFor(records, h)

=============================================================================
