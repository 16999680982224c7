----------------------------- MODULE SharedCache -----------------------------
(***************************************************************************)
(* The panel's shared results (overview, statistics).  Readers that ask    *)
(* while a computation is under way wait for it; its result is served to   *)
(* others until it is too old.  After an operation that changes the data,  *)
(* the panel forgets result and computation and raises a generation, so    *)
(* that a computation begun before cannot come back as the cached result.  *)
(***************************************************************************)
EXTENDS Integers

CONSTANTS Readers,     \* requests in progress
          Flights,     \* computations that may run together
          MaxVersion,  \* bound: changes of the data
          NoFlight     \* no computation

ASSUME SharedConstants == MaxVersion \in Nat /\ NoFlight \notin Flights

VARIABLES version,    \* the data: how often it has changed
          body,       \* sharedResult.body: the version it shows; 0: nil
          gen,        \* sharedResult.gen
          flight,     \* sharedResult.flight
          runs,       \* the running computations: generation at start, version read
          reader,     \* the computation each reader waits for, and its floor
          forgotten,  \* history: the version at the last forget
          stale       \* history: a reader got less than its floor

sharedVars == <<version, body, gen, flight, runs, reader, forgotten, stale>>

NoRun == [gen |-> 0, got |-> 0, busy |-> FALSE]
NotReading == [on |-> NoFlight, floor |-> 0]

SharedInit ==
    /\ version = 1
    /\ body = 0
    /\ gen = 0
    /\ flight = NoFlight
    /\ runs = [f \in Flights |-> NoRun]
    /\ reader = [r \in Readers |-> NotReading]
    /\ forgotten = 1
    /\ stale = FALSE

\* A cached result is served at once.
getCached(r) ==
    /\ reader[r].on = NoFlight
    /\ body # 0
    /\ stale' = (stale \/ body < forgotten)
    /\ UNCHANGED <<version, body, gen, flight, runs, reader, forgotten>>

\* Otherwise the reader joins the computation, or starts one.
getShared(r) ==
    /\ reader[r].on = NoFlight
    /\ body = 0
    /\ \/ /\ flight # NoFlight
          /\ reader' = [reader EXCEPT ![r] = [on |-> flight, floor |-> forgotten]]
          /\ UNCHANGED <<flight, runs>>
       \/ /\ flight = NoFlight
          /\ \E f \in Flights :
              /\ ~runs[f].busy
              /\ \A q \in Readers : reader[q].on # f
              /\ flight' = f
              /\ runs' = [runs EXCEPT ![f] = [gen |-> gen, got |-> 0, busy |-> TRUE]]
              /\ reader' = [reader EXCEPT ![r] = [on |-> f, floor |-> forgotten]]
    /\ UNCHANGED <<version, body, gen, forgotten, stale>>

\* The reader's own context ends; the computation goes on.
cancelled(r) ==
    /\ reader[r].on # NoFlight
    /\ reader' = [reader EXCEPT ![r] = NotReading]
    /\ UNCHANGED <<version, body, gen, flight, runs, forgotten, stale>>

compute(f) ==
    /\ runs[f].busy /\ runs[f].got = 0
    /\ runs' = [runs EXCEPT ![f].got = version]
    /\ UNCHANGED <<version, body, gen, flight, reader, forgotten, stale>>

\* The end of run: keep the result, clear the flight, wake the readers.
Deliver(f) ==
    /\ flight' = IF flight = f THEN NoFlight ELSE flight
    /\ runs' = [runs EXCEPT ![f] = NoRun]
    /\ reader' = [r \in Readers |-> IF reader[r].on = f THEN NotReading ELSE reader[r]]

\* The generation is not compared.
runIgnoringGeneration(f) ==
    /\ runs[f].got # 0
    /\ body' = runs[f].got
    /\ stale' = (stale \/ \E r \in Readers : reader[r].on = f /\ runs[f].got < reader[r].floor)
    /\ Deliver(f)
    /\ UNCHANGED <<version, gen, forgotten>>

run(f) ==
    /\ runs[f].got # 0
    /\ body' = IF runs[f].gen = gen THEN runs[f].got ELSE body
    /\ stale' = (stale \/ \E r \in Readers : reader[r].on = f /\ runs[f].got < reader[r].floor)
    /\ Deliver(f)
    /\ UNCHANGED <<version, gen, forgotten>>

\* compute fails or panics: nothing is kept, the readers get the error.
runFailed(f) ==
    /\ runs[f].busy
    /\ Deliver(f)
    /\ UNCHANGED <<version, body, gen, forgotten, stale>>

\* now - at >= ttl
Expire ==
    /\ body # 0
    /\ body' = 0
    /\ UNCHANGED <<version, gen, flight, runs, reader, forgotten, stale>>

\* The collector, or an operation of the panel, changes the data ...
Change ==
    /\ version < MaxVersion
    /\ version' = version + 1
    /\ UNCHANGED <<body, gen, flight, runs, reader, forgotten, stale>>

\* ... and the operation's handler ends with forgetShared.
forget ==
    /\ forgotten < version
    /\ body' = 0
    /\ flight' = NoFlight
    /\ gen' = gen + 1
    /\ forgotten' = version
    /\ UNCHANGED <<version, runs, reader, stale>>

SharedNext ==
    \/ Expire \/ Change \/ forget
    \/ \E r \in Readers : getCached(r) \/ getShared(r) \/ cancelled(r)
    \/ \E f \in Flights : compute(f) \/ run(f) \/ runFailed(f)

SharedSpec == SharedInit /\ [][SharedNext]_sharedVars

\* A reader who asks after an operation's forget never gets a result computed
\* from data older than that operation, although computations begun before it
\* are still running (get, run, forget).
FreshAfterForget == ~stale
=============================================================================
