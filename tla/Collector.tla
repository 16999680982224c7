------------------------------ MODULE Collector ------------------------------
(***************************************************************************)
(* The query-log collector: mosproxy writes one log line per answer into a *)
(* pipe; a reader goroutine moves lines into a bounded channel and drops   *)
(* them when it is full, so that DNS never waits for the statistics; the   *)
(* consumer batches events, writes them to SQLite, counts what was         *)
(* dropped, and prunes the two tables.                                     *)
(*                                                                         *)
(* A line is what the tables tell apart: a domain and a time, or none for  *)
(* a line that is not a query log.  Intervals (flush, report, prune) are   *)
(* nondeterministic: a due action may happen in any iteration.             *)
(*                                                                         *)
(* External: mosproxy, the pipe, SQLite (a transaction or a statement is   *)
(* atomic and may fail), systemd (Restart=always).                         *)
(***************************************************************************)
EXTENDS Integers, Sequences, FiniteSets, FiniteSetsExt

CONSTANTS
  Domains,       \* query names
  NoEvent,       \* a line that is not an event: operational log, malformed name
  PipeCap,       \* capacity of the pipe
  LineBuffer,    \* lineBuffer
  MaxBatch,      \* maxBatch
  ReconnectAfter,\* reconnectAfter
  MaxRows,       \* eventMaxRows
  PruneBatch,    \* pruneBatch
  Retention,     \* eventRetentionDays
  MaxLines,      \* bound: lines mosproxy writes
  MaxClock,      \* bound: the clock
  MaxFaults      \* bound: failures, kills, restarts

ASSUME CollectorAssumption ==
  /\ NoEvent \notin Domains
  /\ {PipeCap, LineBuffer, MaxBatch, ReconnectAfter, MaxRows, PruneBatch} \subseteq Nat \ {0}
  /\ {Retention, MaxLines, MaxClock, MaxFaults} \subseteq Nat

VARIABLES
  clock,     \* c.now()
  lines, pipe,        \* lines written so far; lines in the pipe
  reader,    \* the reader goroutine: reading, saw EOF, saw a read error
  eof,       \* mosproxy closed its end
  chan,      \* the channel lines
  pending,   \* c.pending
  pc, mode,  \* where Run is; what this iteration is: a line, a tick, the start
  now,       \* the time this iteration or the start looked at
  pruning,
  conn,      \* c.db: open, broken (every call fails) or closed
  failures,  \* consecutiveFailures
  dropped, droppedReported,
  rows, nextId,       \* table query_events and its AUTOINCREMENT counter
  table,     \* table domains
  state,     \* collector_state.dropped_lines
  blind,     \* history: failed flushes since the last fault
  faults     \* used budget

source   == <<lines, pipe, eof>>
queue    == <<reader, chan, dropped>>
consumer == <<pending, pc, mode, now, pruning, conn, failures, droppedReported, blind>>
database == <<rows, nextId, table, state>>
vars     == <<clock, source, queue, consumer, database, faults>>

Event == [domain : Domains, ts : 0 .. MaxClock]

TypeOK ==
  /\ clock \in 0 .. MaxClock /\ now \in 0 .. MaxClock
  /\ lines \in 0 .. MaxLines /\ pipe \in 0 .. PipeCap
  /\ reader \in {"reading", "eof", "error"} /\ eof \in BOOLEAN
  /\ chan \in Seq(Event \cup {NoEvent}) /\ Len(chan) <= LineBuffer
  /\ pending \in Seq(Event) /\ Len(pending) <= MaxBatch
  /\ pc \in {"opening", "started", "pruneTime", "pruneRows", "pruneDomains", "select",
             "flush", "report", "lastFlush", "lastReport", "done", "draining", "failed"}
  /\ mode \in {"start", "line", "tick"}
  /\ pruning \in BOOLEAN
  /\ conn \in {"open", "broken", "closed"}
  /\ failures \in Nat /\ blind \in Nat
  /\ dropped \in 0 .. lines /\ droppedReported \in 0 .. dropped /\ state \in 0 .. MaxLines
  /\ rows \subseteq [id : 1 .. MaxLines, domain : Domains, ts : 0 .. MaxClock]
  /\ nextId \in 1 .. MaxLines + 1
  /\ \E S \in SUBSET Domains : table \in [S -> [last : 0 .. MaxClock, count : 1 .. MaxLines]]
  /\ faults \in 0 .. MaxFaults

Init ==
  /\ clock = 0 /\ now = 0
  /\ lines = 0 /\ pipe = 0 /\ eof = FALSE
  /\ reader = "reading" /\ chan = <<>> /\ dropped = 0
  /\ pending = <<>> /\ pc = "opening" /\ mode = "start" /\ pruning = FALSE
  /\ conn = "closed" /\ failures = 0 /\ droppedReported = 0 /\ blind = 0
  /\ rows = {} /\ nextId = 1 /\ table = <<>> /\ state = 0
  /\ faults = 0

Fault == faults < MaxFaults /\ faults' = faults + 1
-----------------------------------------------------------------------------
(* mosproxy and the reader goroutine. *)

\* mosproxy logs an answer; a full pipe makes it wait, and DNS with it.
Log ==
  /\ ~eof /\ pipe < PipeCap /\ lines < MaxLines
  /\ pipe' = pipe + 1 /\ lines' = lines + 1
  /\ UNCHANGED <<clock, eof, queue, consumer, database, faults>>

\* mosproxy exits.
Exit ==
  /\ ~eof /\ Fault
  /\ eof' = TRUE
  /\ UNCHANGED <<clock, lines, pipe, queue, consumer, database>>

\* The lines mosproxy can have written: its clock stamps them before the reader
\* sees them, so an event may be older than the reader's time.
Line == {NoEvent} \cup [domain : Domains, ts : {t \in {clock - 1, clock} : t >= 0}]

\* Mutant: the reader waits for room in the channel.
sendBlocking(l) == Len(chan) < LineBuffer /\ chan' = Append(chan, l) /\ UNCHANGED dropped

\* select with a default: a full channel drops the line and counts it.
send(l) == IF Len(chan) < LineBuffer
           THEN chan' = Append(chan, l) /\ UNCHANGED dropped
           ELSE dropped' = dropped + 1 /\ UNCHANGED chan

\* forEachLine hands a line on.
forEachLine ==
  /\ reader = "reading" /\ pipe > 0
  /\ pipe' = pipe - 1
  /\ \E l \in Line : send(l)
  /\ UNCHANGED <<clock, lines, eof, reader, consumer, database, faults>>

\* An oversized line is skipped and counted in the log only.
skipLine ==
  /\ reader = "reading" /\ pipe > 0
  /\ pipe' = pipe - 1
  /\ UNCHANGED <<clock, lines, eof, queue, consumer, database, faults>>

\* The pipe is closed and empty, or reading it fails; the channel is closed.
readerEnds ==
  /\ reader = "reading"
  /\ \/ eof /\ pipe = 0 /\ reader' = "eof" /\ UNCHANGED faults
     \/ Fault /\ reader' = "error"
  /\ UNCHANGED <<clock, source, chan, dropped, consumer, database>>

\* consumeWithoutBlocking: whatever became of the consumer, the pipe is emptied.
discard ==
  /\ pc \in {"done", "failed"} /\ pipe > 0
  /\ pipe' = 0
  /\ UNCHANGED <<clock, lines, eof, queue, consumer, database, faults>>

Closed == reader # "reading" /\ chan = <<>>
-----------------------------------------------------------------------------
(* Run. *)

\* OpenDB at the start; a database that cannot be opened leaves Run draining.
OpenDB ==
  /\ pc = "opening"
  /\ \/ conn' = "open" /\ pc' = "started" /\ UNCHANGED faults
     \/ Fault /\ pc' = "draining" /\ UNCHANGED conn
  /\ now' = clock
  /\ UNCHANGED <<clock, source, queue, pending, mode, pruning, failures, droppedReported, blind,
                 database>>

drain ==
  /\ pc = "draining"
  /\ IF Closed THEN pc' = "failed" /\ UNCHANGED chan
     ELSE chan # <<>> /\ chan' = Tail(chan) /\ UNCHANGED pc
  /\ UNCHANGED <<clock, source, reader, dropped, pending, mode, now, pruning, conn, failures,
                 droppedReported, blind, database, faults>>

\* RecordCollectorState: an error is ignored.
RecordCollectorState(n) ==
  IF conn = "open"
  THEN \/ state' = n /\ UNCHANGED faults
       \/ Fault /\ UNCHANGED state
  ELSE UNCHANGED <<state, faults>>

\* started_at is saved and dropped_lines reset; pruning begins at once.
recordStart ==
  /\ pc = "started"
  /\ RecordCollectorState(0)
  /\ pc' = "pruneTime" /\ pruning' = TRUE
  /\ UNCHANGED <<clock, source, queue, pending, mode, now, conn, failures, droppedReported,
                 blind, rows, nextId, table>>

\* One turn of the loop: a line, a tick, or the closed channel.
receive ==
  /\ pc = "select" /\ chan # <<>>
  /\ chan' = Tail(chan)
  /\ pending' = IF Head(chan) = NoEvent THEN pending ELSE Append(pending, Head(chan))
  /\ pc' = "flush" /\ mode' = "line" /\ now' = clock
  /\ UNCHANGED <<clock, source, reader, dropped, pruning, conn, failures, droppedReported, blind,
                 database, faults>>

tick ==
  /\ pc = "select"
  /\ pc' = "flush" /\ mode' = "tick" /\ now' = clock
  /\ UNCHANGED <<clock, source, queue, pending, pruning, conn, failures, droppedReported, blind,
                 database, faults>>

channelClosed ==
  /\ pc = "select" /\ Closed
  /\ pc' = "lastFlush" /\ now' = clock
  /\ UNCHANGED <<clock, source, queue, pending, mode, pruning, conn, failures, droppedReported,
                 blind, database, faults>>
-----------------------------------------------------------------------------
(* Flush and RecordEvents. *)

Batch(d) == {i \in 1 .. Len(pending) : pending[i].domain = d}
Names    == {pending[i].domain : i \in 1 .. Len(pending)}

\* aggregateDomains: how often a name occurs in the batch, and its newest time.
aggregateDomains(d) == [count |-> Cardinality(Batch(d)),
                        last  |-> Max({pending[i].ts : i \in Batch(d)})]

\* ON CONFLICT(domain) DO UPDATE
upsert(old, new) == [last  |-> IF old.last > new.last THEN old.last ELSE new.last,
                     count |-> old.count + new.count]

\* One transaction: a row for every event, then the names.
RecordEvents ==
  /\ rows' = rows \cup {[id |-> nextId + i - 1, domain |-> pending[i].domain,
                         ts |-> pending[i].ts] : i \in 1 .. Len(pending)}
  /\ nextId' = nextId + Len(pending)
  /\ table' = [d \in DOMAIN table \cup Names |->
                 IF d \notin Names THEN table[d]
                 ELSE IF d \in DOMAIN table THEN upsert(table[d], aggregateDomains(d))
                 ELSE aggregateDomains(d)]

\* Mutant: one failure too many is waited for.
reconnectLate == failures + 1 > ReconnectAfter
reconnectDue == failures + 1 >= ReconnectAfter

\* The failed batch is dropped; after ReconnectAfter failures in a row the
\* connection is rebuilt; what made the batch fail may fail that too.
flushFails(fault) ==
  /\ IF ~reconnectDue
     THEN /\ failures' = failures + 1 /\ UNCHANGED conn
          /\ IF fault THEN Fault /\ blind' = 0 ELSE blind' = blind + 1 /\ UNCHANGED faults
     ELSE \/ /\ conn' = "open" /\ failures' = 0
             /\ IF fault THEN Fault /\ blind' = 0 ELSE blind' = blind + 1 /\ UNCHANGED faults
          \/ /\ Fault /\ conn' = "closed" /\ failures' = failures + 1 /\ blind' = 0
  /\ UNCHANGED <<rows, nextId, table>>

Flush ==
  IF pending = <<>> THEN UNCHANGED <<pending, conn, failures, blind, rows, nextId, table, faults>>
  ELSE /\ pending' = <<>>
       /\ \/ /\ conn = "open"
             /\ RecordEvents
             /\ failures' = 0 /\ blind' = 0
             /\ UNCHANGED <<conn, faults>>
          \/ conn = "open" /\ flushFails(TRUE)
          \/ conn # "open" /\ flushFails(FALSE)

\* A full batch is flushed, any other when its interval is over.
flush ==
  /\ pc = "flush"
  /\ \/ Flush
     \/ Len(pending) < MaxBatch /\ UNCHANGED <<pending, conn, failures, blind, rows, nextId, table, faults>>
  /\ pc' = IF mode = "tick" THEN "report" ELSE "select"
  /\ UNCHANGED <<clock, source, queue, mode, now, pruning, droppedReported, state>>

lastFlush ==
  /\ pc = "lastFlush"
  /\ Flush
  /\ pc' = "lastReport"
  /\ UNCHANGED <<clock, source, queue, mode, now, pruning, droppedReported, state>>
-----------------------------------------------------------------------------
(* reportDropped. *)

\* Reports are an interval apart, except for the last one.
deferrable(force) == dropped # droppedReported /\ ~force

\* The count is taken as reported before it is known to be saved.
reportDropped(force) ==
  \/ dropped = droppedReported /\ UNCHANGED <<droppedReported, state, faults>>
  \/ deferrable(force) /\ UNCHANGED <<droppedReported, state, faults>>
  \/ dropped # droppedReported /\ droppedReported' = dropped /\ RecordCollectorState(dropped)

\* Pruning goes on, or begins when it is due.
report ==
  /\ pc = "report"
  /\ reportDropped(FALSE)
  /\ \/ pruning' = TRUE /\ pc' = "pruneTime"
     \/ ~pruning /\ pc' = "select" /\ UNCHANGED pruning
  /\ UNCHANGED <<clock, source, queue, pending, mode, now, conn, failures, blind, rows, nextId,
                 table>>

lastReport ==
  /\ pc = "lastReport"
  /\ reportDropped(TRUE)
  /\ conn' = "closed" /\ pc' = "done"
  /\ UNCHANGED <<clock, source, queue, pending, mode, now, pruning, failures, blind, rows, nextId,
                 table>>
-----------------------------------------------------------------------------
(* PruneStep: three statements, the first two in batches. *)

expired  == {r \in rows : r.ts < now - Retention}
newest   == IF rows = {} THEN 0 ELSE Max({r.id : r \in rows})
excess   == {r \in rows : r.id <= newest - MaxRows}

\* Mutant: a full batch is taken for the last one.
partialLoose(deleted) == Cardinality(deleted) > PruneBatch
\* A full batch: there may be more.
partial(deleted) == Cardinality(deleted) >= PruneBatch

\* DELETE ... LIMIT
Deletions(S) == {D \in SUBSET S : Cardinality(D) = (IF Cardinality(S) < PruneBatch
                                                    THEN Cardinality(S) ELSE PruneBatch)}

\* The step is over; at the start the next one follows until pruning is done.
pruneReturns(done) ==
  /\ pruning' = ~done
  /\ pc' = IF mode = "start" /\ ~done THEN "pruneTime" ELSE "select"

pruneFails ==
  /\ pc \in {"pruneTime", "pruneRows", "pruneDomains"}
  /\ \/ conn = "open" /\ Fault
     \/ conn # "open" /\ UNCHANGED faults
  /\ pruneReturns(TRUE)
  /\ UNCHANGED <<clock, source, queue, pending, mode, now, conn, failures, droppedReported, blind,
                 database>>

deleteRows(at, S, next) ==
  /\ pc = at /\ conn = "open"
  /\ \E D \in Deletions(S) :
       /\ rows' = rows \ D
       /\ IF partial(D) THEN pruneReturns(FALSE) ELSE pc' = next /\ UNCHANGED pruning
  /\ UNCHANGED <<clock, source, queue, pending, mode, now, conn, failures, droppedReported, blind,
                 nextId, table, state, faults>>

pruneTime == deleteRows("pruneTime", expired, "pruneRows")

\* ORDER BY id does not matter: what is not deleted now is deleted next.
pruneRows == deleteRows("pruneRows", excess, "pruneDomains")

pruneDomains ==
  /\ pc = "pruneDomains" /\ conn = "open"
  /\ table' = [d \in {x \in DOMAIN table : table[x].last >= now - Retention} |-> table[d]]
  /\ pruneReturns(TRUE)
  /\ UNCHANGED <<clock, source, queue, pending, mode, now, conn, failures, droppedReported, blind,
                 rows, nextId, state, faults>>
-----------------------------------------------------------------------------
(* The rest of the machine. *)

\* The handle goes bad: every call fails until it is rebuilt.
breakConn ==
  /\ conn = "open" /\ Fault
  /\ conn' = "broken" /\ blind' = 0
  /\ UNCHANGED <<clock, source, queue, pending, pc, mode, now, pruning, failures, droppedReported,
                 database>>

Elapse ==
  /\ clock < MaxClock
  /\ clock' = clock + 1
  /\ UNCHANGED <<source, queue, consumer, database, faults>>

\* The service is killed, or ended, and systemd starts it again; only the
\* database survives.
restart ==
  /\ \/ Fault
     \/ pc \in {"done", "failed"} /\ eof /\ pipe = 0 /\ UNCHANGED faults
  /\ pipe' = 0 /\ eof' = FALSE
  /\ reader' = "reading" /\ chan' = <<>> /\ dropped' = 0
  /\ pending' = <<>> /\ pc' = "opening" /\ mode' = "start" /\ pruning' = FALSE
  /\ conn' = "closed" /\ failures' = 0 /\ droppedReported' = 0 /\ blind' = 0
  /\ UNCHANGED <<clock, now, lines, database>>

Reader == forEachLine \/ skipLine \/ readerEnds \/ discard

Consumer ==
  \/ OpenDB \/ drain \/ recordStart \/ receive \/ tick \/ channelClosed
  \/ flush \/ lastFlush \/ report \/ lastReport
  \/ pruneTime \/ pruneRows \/ pruneDomains \/ pruneFails

Next == Log \/ Exit \/ Reader \/ Consumer \/ breakConn \/ Elapse \/ restart

Spec == Init /\ [][Next]_vars

(***************************************************************************)
(* The reader runs on (which lines are oversized is up to mosproxy, so     *)
(* skipping them is no progress to rely on); a database call may take any  *)
(* time, and only once the reader is gone is the consumer assumed to come  *)
(* to its end.  select chooses at random among what is ready, so ticks     *)
(* alone cannot keep it from the channel (strong fairness).                *)
(***************************************************************************)
FairSpec ==
  /\ Spec
  /\ WF_vars(forEachLine) /\ WF_vars(discard)
  /\ WF_vars(reader # "reading" /\ Consumer)
  /\ SF_vars(reader # "reading" /\ receive) /\ SF_vars(channelClosed)
-----------------------------------------------------------------------------
(* Properties. *)

(***************************************************************************)
(* DNS never waits for the statistics: a full pipe is always read, with a  *)
(* database that stalls, fails or cannot be opened, and after a read error *)
(* (TestAStalledDatabaseNeverStallsTheLogPipe,                             *)
(* TestAFailedCollectorNeverStopsMosproxyFromLogging).                     *)
(***************************************************************************)
PipeNeverStalls == (pipe = PipeCap) ~> (pipe < PipeCap)

(***************************************************************************)
(* Every row of query_events has its name in domains, which was seen no    *)
(* earlier and counted at least as often, whatever is pruned, in whichever *)
(* batches, and wherever pruning stops or the process dies.                *)
(***************************************************************************)
RowsHaveNames ==
  \A r \in rows :
    /\ r.domain \in DOMAIN table
    /\ table[r.domain].last >= r.ts
    /\ table[r.domain].count >= Cardinality({q \in rows : q.domain = r.domain})

(***************************************************************************)
(* When pruning comes to the names, no expired row and no more than        *)
(* eventMaxRows rows are left (PruneStep deletes in batches and keeps the  *)
(* newest ids without counting the table).                                 *)
(***************************************************************************)
PruneIsComplete ==
  pc = "pruneDomains" => expired = {} /\ Cardinality(rows) <= MaxRows

(***************************************************************************)
(* Run does not return before every dropped line has been reported.        *)
(***************************************************************************)
DropsAreReported == pc = "done" => droppedReported = dropped

(***************************************************************************)
(* The state is well typed and what the tables say is sound: names for the *)
(* rows, rows within the limits once pruning is through, and every dropped *)
(* line accounted for.                                                     *)
(***************************************************************************)
RecordsAreSound == TypeOK /\ RowsHaveNames /\ PruneIsComplete /\ DropsAreReported

(***************************************************************************)
(* A broken connection costs at most reconnectAfter batches: so many       *)
(* flushes fail before it is rebuilt, and when rebuilding fails the next   *)
(* flush tries again.                                                      *)
(***************************************************************************)
HealsInTime == blind <= ReconnectAfter
=============================================================================
