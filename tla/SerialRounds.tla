---------------------------- MODULE SerialRounds ----------------------------
(***************************************************************************)
(* What the pipeline promises of its products, whoever starts rounds and   *)
(* however they end: rounds publish one at a time; a round takes the steps *)
(* in the order of the list, each at most once and none after one of its   *)
(* needs failed or was blocked; a product is replaced at once, computed    *)
(* from what was published when its step began, and nothing else is        *)
(* published meanwhile, except that the route list may have been edited.   *)
(***************************************************************************)
EXTENDS Integers

CONSTANTS N, Needs,   \* the steps and what each needs
          Authority,  \* the step that reads the route list
          RouteList,  \* the list, as an input
          Procs, NoProc

VARIABLES behind,  \* inputs of each product that changed since it was computed
          holder,  \* whose round it is
          at,      \* the step the round has come to
          reading, \* that step is computing
          edited,  \* the route list was edited since it began
          broken   \* steps of the round that failed or were blocked

serialVars == <<behind, holder, at, reading, edited, broken>>

SerialInit ==
  /\ behind = [i \in 1..N |-> Needs[i]]
  /\ holder = NoProc
  /\ at = 1
  /\ reading = FALSE
  /\ edited = FALSE
  /\ broken = {}

Begins(p) ==
  /\ holder = NoProc
  /\ holder' = p
  /\ UNCHANGED <<behind, at, reading, edited, broken>>

\* A step is left out: its need is broken, or there is no reason to run it.
Passes ==
  /\ holder # NoProc /\ ~reading /\ at \in 1..N
  /\ \/ broken' = broken
     \/ Needs[at] \cap broken # {} /\ broken' = broken \cup {at}
  /\ at' = at + 1
  /\ UNCHANGED <<behind, holder, reading, edited>>

Reads ==
  /\ holder # NoProc /\ ~reading /\ at \in 1..N
  /\ Needs[at] \cap broken = {}
  /\ reading' = TRUE
  /\ UNCHANGED <<behind, holder, at, edited, broken>>

\* The new product lacks nothing but an edit made since its step began.
Publishes ==
  behind' = [j \in 1..N |-> IF j = at THEN (IF edited THEN {RouteList} ELSE {})
                            ELSE IF at \in Needs[j] THEN behind[j] \cup {at} ELSE behind[j]]

Over == holder' = NoProc /\ at' = 1 /\ broken' = {}

\* The step succeeds or fails, with or without a new product.  After a failure
\* the round may be over.
Computed ==
  /\ reading
  /\ Publishes \/ UNCHANGED behind
  /\ \/ at' = at + 1 /\ broken' \in {broken, broken \cup {at}} /\ UNCHANGED holder
     \/ Over
  /\ reading' = FALSE /\ edited' = FALSE

\* The round ends or is killed; a product that is being computed stays as it was.
Ends ==
  /\ holder # NoProc
  /\ Over
  /\ reading' = FALSE /\ edited' = FALSE
  /\ UNCHANGED behind

Edit ==
  /\ behind' = [behind EXCEPT ![Authority] = @ \cup {RouteList}]
  /\ edited' = (edited \/ reading)
  /\ UNCHANGED <<holder, at, reading, broken>>

SerialNext ==
  \/ Passes \/ Reads \/ Computed \/ Ends \/ Edit
  \/ \E p \in Procs : Begins(p)

SerialSpec == SerialInit /\ [][SerialNext]_serialVars
=============================================================================
