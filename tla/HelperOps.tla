------------------------------ MODULE HelperOps ------------------------------
(***************************************************************************)
(* The privileged helper.  The panel sends one operation per connection    *)
(* and waits up to its own deadline; the helper checks the request, waits  *)
(* for one of its slots and runs the operation's commands, each with a     *)
(* time limit.  A panel that stops waiting closes the connection, and the  *)
(* operation goes on.  Of the operations, those that change several places *)
(* in turn are told apart: the two cache lifetimes (Unbound's option now,  *)
(* its file for the next start, mosproxy's file), the cache flush and the  *)
(* checked restart of Unbound.  All others run one command.                *)
(***************************************************************************)
EXTENDS Integers, Sequences, FiniteSets

CONSTANTS Calls,     \* connections open together
          ExecSlots, \* execSlots: operations running together
          TTLs,      \* lifetimes, in seconds
          NoCall     \* configEditMu is free

ASSUME HelperConstants == ExecSlots \in Nat \ {0} /\ TTLs # {} /\ NoCall \notin Calls

VARIABLES call,    \* each connection's request and what is left of it
          live,    \* Unbound's options as it runs
          conf,    \* the options' fields in Unbound's file
          editor,  \* holder of configEditMu
          snap,    \* the file as each editing call read it
          job,     \* systemd still carries out a restart whose command was killed
          slipped  \* history: options whose last change was answered with a failure
                   \*   or a warning, or overlapped another change or a restart

helperVars == <<call, live, conf, editor, snap, job, slipped>>

Options == {"serve-expired-ttl", "cache-min-ttl"}

OpNames == {"set_cache_ttl", "set_min_ttl", "flush_cache", "restart_unbound", "command"}

\* Operations the request must confirm.
DangerousOps == {"flush_cache", "restart_unbound"}

\* The steps of an operation: what is done, and to what.
Plan(op) ==
    CASE op = "set_cache_ttl"   -> << <<"set", "serve-expired-ttl">>,
                                      <<"edit", "serve-expired-ttl">>, <<"edit", "optimistic_ttl">> >>
      [] op = "set_min_ttl"     -> << <<"set", "cache-min-ttl">>, <<"edit", "cache-min-ttl">> >>
      [] op = "flush_cache"     -> << <<"flush", "unbound">>, <<"flush", "mosproxy">> >>
      [] op = "restart_unbound" -> << <<"checkconf", "unbound">>, <<"restart", "unbound">> >>
      [] op = "command"         -> << <<"run", "command">> >>

\* Nothing is read outside an edit.
NoFile == [f \in Options |-> 0]

NoRequestYet == [pc |-> "idle", ttl |-> 0, todo |-> <<>>]

Step(c) == Head(call[c].todo)
At(c, kind) == call[c].pc = "running" /\ call[c].todo # <<>> /\ Step(c)[1] = kind
StepDone(c) == [call EXCEPT ![c].todo = Tail(@)]
OpFailed(c) == [call EXCEPT ![c].todo = <<>>]

\* Calls that have set option f and not yet brought its file up to date.
Unsettled(f) == {c \in Calls : call[c].pc \in {"running", "editing"}
                                /\ call[c].todo # <<>> /\ Step(c) = <<"edit", f>>}
Changing(f) == {c \in Calls : \E i \in 1..Len(call[c].todo) : call[c].todo[i][2] = f}

HelperInit ==
    /\ call = [c \in Calls |-> NoRequestYet]
    /\ \E ttl \in TTLs : live = [f \in Options |-> ttl] /\ conf = [f \in Options |-> ttl]
    /\ editor = NoCall
    /\ snap = [c \in Calls |-> NoFile]
    /\ job = FALSE
    /\ slipped = {}

\* The panel's handler checks role and confirmation, and sends.
action(c) ==
    /\ call[c].pc = "idle"
    /\ \E op \in OpNames, ttl \in TTLs, confirm \in BOOLEAN :
        /\ op \in DangerousOps => confirm
        /\ op \notin {"set_cache_ttl", "set_min_ttl"} => ttl = CHOOSE t \in TTLs : TRUE
        /\ call' = [call EXCEPT ![c] = [pc |-> "queued", ttl |-> ttl, todo |-> Plan(op)]]
    /\ UNCHANGED <<live, conf, editor, snap, job, slipped>>

\* The request reached the helper; it waits for a slot.
Dispatch(c) ==
    /\ call[c].pc = "queued"
    /\ Cardinality({d \in Calls : call[d].pc \in {"running", "editing"}}) < ExecSlots
    /\ call' = [call EXCEPT ![c].pc = "running"]
    /\ UNCHANGED <<live, conf, editor, snap, job, slipped>>

\* set_option.  When it fails the operation ends; a command that was killed at
\* its limit may have reached Unbound before.
unboundControl(c) ==
    LET f == Step(c)[2]
        set == [live EXCEPT ![f] = call[c].ttl]
    IN
    /\ At(c, "set")
    /\ \/ /\ live' = set
          /\ call' = StepDone(c)
          /\ slipped' = IF Unsettled(f) # {} THEN slipped \cup {f} ELSE slipped \ {f}
       \/ /\ live' \in {live, set}
          /\ call' = OpFailed(c)
          /\ slipped' = slipped \cup {f}
    /\ UNCHANGED <<conf, editor, snap, job>>

\* replaceIntField without its mutex.
editReadUnlocked(c) ==
    /\ At(c, "edit")
    /\ editor' = c
    /\ snap' = [snap EXCEPT ![c] = conf]
    /\ call' = [call EXCEPT ![c].pc = "editing"]
    /\ UNCHANGED <<live, conf, job, slipped>>

\* replaceIntField: under the mutex the whole file is read ...
editRead(c) ==
    /\ At(c, "edit")
    /\ editor = NoCall
    /\ editor' = c
    /\ snap' = [snap EXCEPT ![c] = conf]
    /\ call' = [call EXCEPT ![c].pc = "editing"]
    /\ UNCHANGED <<live, conf, job, slipped>>

\* A failed write returns without unlocking.
editWriteKeepsLock(c) ==
    LET f == Step(c)[2] IN
    /\ call[c].pc = "editing"
    /\ \/ f \in Options /\ conf' = [snap[c] EXCEPT ![f] = call[c].ttl] /\ editor' = NoCall
          /\ UNCHANGED slipped
       \/ slipped' = slipped \cup ({f} \cap Options) /\ UNCHANGED <<conf, editor>>
    /\ snap' = [snap EXCEPT ![c] = NoFile]
    /\ call' = [call EXCEPT ![c] = [pc |-> "running", ttl |-> @.ttl, todo |-> Tail(@.todo)]]
    /\ UNCHANGED <<live, job>>

\* ... and written with one field replaced.  A failure, or a file without the
\* field, is a warning.  mosproxy's file is written the same way; its field is
\* not part of the model.
editWrite(c) ==
    LET f == Step(c)[2] IN
    /\ call[c].pc = "editing"
    /\ \/ /\ f \in Options
          /\ conf' = [snap[c] EXCEPT ![f] = call[c].ttl]
          /\ UNCHANGED slipped
       \/ slipped' = slipped \cup ({f} \cap Options) /\ UNCHANGED conf
    /\ editor' = NoCall
    /\ snap' = [snap EXCEPT ![c] = NoFile]
    /\ call' = [call EXCEPT ![c] = [pc |-> "running", ttl |-> @.ttl, todo |-> Tail(@.todo)]]
    /\ UNCHANGED <<live, job>>

\* unbound-checkconf: a configuration it refuses leaves Unbound running.
checkconf(c) ==
    /\ At(c, "checkconf")
    /\ call' \in {StepDone(c), OpFailed(c)}
    /\ UNCHANGED <<live, conf, editor, snap, job, slipped>>

\* Unbound starts from its file.
Restarted ==
    /\ live' = [f \in Options |-> conf[f]]
    /\ slipped' = {f \in Options : Unsettled(f) # {}}

\* A restart that fails has not begun or, when its command was killed at its
\* limit, is carried out by systemd later.
opRestartUnbound(c) ==
    /\ At(c, "restart")
    /\ \/ Restarted /\ call' = StepDone(c) /\ UNCHANGED job
       \/ call' = OpFailed(c) /\ job' \in {job, TRUE} /\ UNCHANGED <<live, slipped>>
    /\ UNCHANGED <<conf, editor, snap>>

LateRestart ==
    /\ job
    /\ Restarted
    /\ job' = FALSE
    /\ UNCHANGED <<call, conf, editor, snap>>

\* Unbound's cache first, whose failure ends the operation; then mosproxy's.
opFlushCache(c) ==
    /\ At(c, "flush")
    /\ call' \in {StepDone(c), OpFailed(c)}
    /\ UNCHANGED <<live, conf, editor, snap, job, slipped>>

\* Any other operation: one command, which ends or is killed at its limit.
runCommand(c) ==
    /\ At(c, "run")
    /\ call' = StepDone(c)
    /\ UNCHANGED <<live, conf, editor, snap, job, slipped>>

\* The slot is released and the answer written.  A panel whose deadline has
\* passed (helperTimeout) closed the connection before; nothing else depends
\* on whether it listens.
answer(c) ==
    /\ call[c].pc = "running"
    /\ call[c].todo = <<>>
    /\ call' = [call EXCEPT ![c] = NoRequestYet]
    /\ UNCHANGED <<live, conf, editor, snap, job, slipped>>

Work(c) ==
    \/ unboundControl(c) \/ editWrite(c) \/ checkconf(c)
    \/ opRestartUnbound(c) \/ opFlushCache(c) \/ runCommand(c) \/ answer(c)

HelperNext ==
    \/ LateRestart
    \/ \E c \in Calls : action(c) \/ Dispatch(c) \/ editRead(c) \/ Work(c)

HelperSpec == HelperInit /\ [][HelperNext]_helperVars

\* With no change of it in progress, an option has the value its file gives
\* it at the next start, unless its last change was answered with a failure or
\* a warning or overlapped another change of it or a restart; the next change
\* or restart that nothing disturbs brings them together again.  Edits of
\* different options to the same file never undo each other (opSetCacheTTL,
\* opSetMinTTL, opRestartUnbound, replaceIntField).
SettingsAgree ==
    \A f \in Options \ slipped : Changing(f) = {} => live[f] = conf[f]

\* Every request the helper received is finished and its slot freed, whether
\* or not the panel still waits, whatever fails on the way.
EveryCallEnds == \A c \in Calls : call[c].pc # "idle" ~> call[c].pc = "idle"
=============================================================================
