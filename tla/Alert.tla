-------------------------------- MODULE Alert --------------------------------
(***************************************************************************)
(* The watchdog's alerts.  Each round collects the current problems,       *)
(* compares them with the ones it last reported, which a file keeps, sends *)
(* a message when they differ, and only then writes the file.  The channel *)
(* may be unreachable, the write may fail and the process may be killed.   *)
(***************************************************************************)
EXTENDS Integers

CONSTANTS Problems,       \* sets of problems a round may find; {}: none
          MaxChanges,     \* bound: changes of the problems
          MaxAlertFaults  \* bound: unreachable channels, failed writes, kills

ASSUME AlertConstants == {} \in Problems /\ MaxChanges \in Nat /\ MaxAlertFaults \in Nat

VARIABLES problems,    \* what is wrong now
          alertState,  \* the state file
          told,        \* the operator's last message
          round,       \* the round in progress
          unrecorded,  \* history: a message went out that the file does not know
          alertFaults, \* history: faults so far
          changes      \* history: changes so far

alertVars == <<problems, alertState, told, round, unrecorded, alertFaults, changes>>

NoRound == [pc |-> "idle", found |-> {}]

AlertInit ==
    /\ problems \in Problems
    /\ alertState = {} /\ told = {}
    /\ round = NoRound
    /\ unrecorded = FALSE
    /\ alertFaults = 0 /\ changes = 0

ProblemsChange ==
    /\ changes < MaxChanges
    /\ problems' \in Problems \ {problems}
    /\ changes' = changes + 1
    /\ UNCHANGED <<alertState, told, round, unrecorded, alertFaults>>

\* cmdRoutingWatchdog collects the problems.
collect ==
    /\ round.pc = "idle"
    /\ round' = [pc |-> "notify", found |-> problems]
    /\ UNCHANGED <<problems, alertState, told, unrecorded, alertFaults, changes>>

\* Only a round with problems is reported.
newsOnlyBad(previous, current) == current # {} /\ previous # current

news(previous, current) == previous # current

Notify ==
    /\ round.pc = "notify"
    /\ \/ /\ news(alertState, round.found)
          /\ told' = round.found
          /\ unrecorded' = TRUE
          /\ round' = [round EXCEPT !.pc = "write"]
       \/ /\ ~news(alertState, round.found)
          /\ round' = NoRound
          /\ UNCHANGED <<told, unrecorded>>
    /\ UNCHANGED <<problems, alertState, alertFaults, changes>>

\* The channel does not answer, or refuses: the next round tries again.
sendFails ==
    /\ round.pc = "notify"
    /\ news(alertState, round.found)
    /\ alertFaults < MaxAlertFaults
    /\ alertFaults' = alertFaults + 1
    /\ round' = NoRound
    /\ UNCHANGED <<problems, alertState, told, unrecorded, changes>>

WriteAtomic ==
    /\ round.pc = "write"
    /\ alertState' = round.found
    /\ unrecorded' = FALSE
    /\ round' = NoRound
    /\ UNCHANGED <<problems, told, alertFaults, changes>>

\* The file cannot be written, or the process is killed.
RoundLost ==
    /\ round.pc # "idle"
    /\ alertFaults < MaxAlertFaults
    /\ alertFaults' = alertFaults + 1
    /\ round' = NoRound
    /\ UNCHANGED <<problems, alertState, told, unrecorded, changes>>

AlertNext ==
    ProblemsChange \/ collect \/ Notify \/ sendFails \/ WriteAtomic \/ RoundLost

\* Problems that no longer change, a recovery included, end up in the
\* operator's last message, in spite of unreachable channels and killed rounds,
\* unless a message was sent and its record lost (Notify: the file is written
\* after the message).
OperatorIsTold == <>[](told = problems \/ unrecorded)
=============================================================================
