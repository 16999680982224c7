-------------------------- MODULE Collector_proofs --------------------------
(***************************************************************************)
(* Proofs, for every threshold, limit and bound, that the collector        *)
(* rebuilds a broken connection in time and that what its tables say is    *)
(* sound.                                                                  *)
(***************************************************************************)
EXTENDS Collector, FiniteSetTheorems, WellFoundedInduction, TLAPS

Ended == pc \in {"done", "failed"}

CountTypes ==
  /\ failures \in Nat /\ blind \in Nat

(***************************************************************************)
(* HealsInTime is not inductive: what a broken connection has cost must be *)
(* tied to the failures counted.  Every flush that fails for want of a     *)
(* connection counts in both; a fault that leaves the connection closed    *)
(* leaves failures at the threshold, so the next flush rebuilds it.        *)
(***************************************************************************)
IInv ==
  /\ CountTypes
  /\ conn # "open" /\ ~Ended => blind <= failures /\ blind < ReconnectAfter
  /\ HealsInTime

LEMMA Threshold == ReconnectAfter \in Nat /\ ReconnectAfter >= 1
  BY CollectorAssumption

LEMMA InitIInv == Init => IInv
  BY Threshold DEF Init, IInv, CountTypes, HealsInTime

\* What the invariant speaks of, unchanged; the end may be reached with the
\* connection closed.
LEMMA Unmoved ==
  ASSUME IInv, UNCHANGED <<conn, failures, blind>>, Ended => Ended'
  PROVE  IInv'
  BY DEF IInv, CountTypes, HealsInTime, Ended

\* A failed flush costs a batch and is counted, or rebuilds the connection.
LEMMA FailsIInv ==
  ASSUME IInv, ~Ended, NEW fault \in BOOLEAN, fault \/ conn # "open", flushFails(fault)
  PROVE  /\ failures' \in Nat /\ blind' \in Nat /\ blind' <= ReconnectAfter
         /\ conn' # "open" => blind' <= failures' /\ blind' < ReconnectAfter
  <1>1. CASE ~reconnectDue
    <2>1. failures + 1 < ReconnectAfter
      BY <1>1, Threshold DEF reconnectDue, IInv, CountTypes
    <2>2. failures' = failures + 1 /\ conn' = conn
      BY <1>1 DEF flushFails
    <2>3. CASE fault
      BY <1>1, <2>1, <2>2, <2>3, Threshold DEF flushFails, IInv, CountTypes
    <2>4. CASE ~fault
      <3>1. blind' = blind + 1 /\ blind <= failures
        BY <1>1, <2>4 DEF flushFails, IInv
      <3> QED BY <2>1, <2>2, <3>1, Threshold DEF IInv, CountTypes
    <2> QED BY <2>3, <2>4
  <1>2. CASE reconnectDue
    <2>1. CASE conn' = "closed" /\ failures' = failures + 1 /\ blind' = 0
      BY <2>1, Threshold DEF IInv, CountTypes
    <2>2. CASE /\ conn' = "open" /\ failures' = 0
               /\ IF fault THEN Fault /\ blind' = 0 ELSE blind' = blind + 1 /\ UNCHANGED faults
      <3>1. ~fault => blind < ReconnectAfter
        BY DEF IInv
      <3> QED BY <2>2, <3>1, Threshold DEF IInv, CountTypes
    <2> QED BY <1>2, <2>1, <2>2 DEF flushFails
  <1> QED BY <1>1, <1>2

LEMMA FlushIInv ==
  ASSUME IInv, ~Ended, Flush, pc' \notin {"done", "failed"}
  PROVE  IInv'
  <1>1. CASE pending = <<>>
    BY <1>1, Unmoved DEF Flush, Ended
  <1>2. CASE pending # <<>> /\ conn = "open" /\ flushFails(TRUE)
    BY <1>2, FailsIInv DEF IInv, CountTypes, HealsInTime, Ended
  <1>3. CASE pending # <<>> /\ conn # "open" /\ flushFails(FALSE)
    BY <1>3, FailsIInv DEF IInv, CountTypes, HealsInTime, Ended
  <1>4. CASE conn = "open" /\ failures' = 0 /\ blind' = 0 /\ conn' = conn
    BY <1>4, Threshold DEF IInv, CountTypes, HealsInTime
  <1> QED BY <1>1, <1>2, <1>3, <1>4 DEF Flush

\* The steps that leave connection and counters alone and do not leave an end.
LEMMA OthersIInv ==
  ASSUME IInv,
         \/ Log \/ Exit \/ Reader \/ Elapse \/ drain \/ recordStart \/ receive \/ tick
         \/ channelClosed \/ report \/ pruneTime \/ pruneRows \/ pruneDomains \/ pruneFails
  PROVE  IInv'
  <1>1. UNCHANGED <<conn, failures, blind>>
    BY DEF Log, Exit, Reader, forEachLine, skipLine, readerEnds, discard, Elapse, drain, recordStart,
           receive, tick, channelClosed, report, pruneTime, pruneRows, pruneDomains, pruneFails,
           deleteRows, consumer
  <1>2. Ended => Ended'
    BY DEF Log, Exit, Reader, forEachLine, skipLine, readerEnds, discard, Elapse, drain, recordStart,
           receive, tick, channelClosed, report, pruneTime, pruneRows, pruneDomains, pruneFails,
           deleteRows, consumer, Ended
  <1> QED BY <1>1, <1>2, Unmoved

LEMMA NextIInv == IInv /\ [Next]_vars => IInv'
  <1> SUFFICES ASSUME IInv, [Next]_vars PROVE IInv'
    OBVIOUS
  <1>1. CASE \/ Log \/ Exit \/ Reader \/ Elapse \/ drain \/ recordStart \/ receive \/ tick
             \/ channelClosed \/ report \/ pruneTime \/ pruneRows \/ pruneDomains \/ pruneFails
    BY <1>1, OthersIInv
  <1>2. CASE OpenDB
    BY <1>2 DEF OpenDB, IInv, CountTypes, HealsInTime, Ended
  <1>3. CASE flush
    <2>1. ~Ended /\ pc' \notin {"done", "failed"}
      BY <1>3 DEF flush, Ended
    <2>2. CASE Flush
      BY <2>1, <2>2, FlushIInv
    <2>3. CASE UNCHANGED <<conn, failures, blind>>
      BY <2>1, <2>3, Unmoved
    <2> QED BY <1>3, <2>2, <2>3 DEF flush
  <1>4. CASE lastFlush
    BY <1>4, FlushIInv DEF lastFlush, Ended
  <1>5. CASE lastReport
    BY <1>5 DEF lastReport, IInv, CountTypes, HealsInTime, Ended
  <1>6. CASE breakConn
    BY <1>6, Threshold DEF breakConn, IInv, CountTypes, HealsInTime
  <1>7. CASE restart
    BY <1>7, Threshold DEF restart, IInv, CountTypes, HealsInTime
  <1>8. CASE UNCHANGED vars
    BY <1>8, Unmoved DEF vars, consumer, Ended
  <1> QED
    BY <1>1, <1>2, <1>3, <1>4, <1>5, <1>6, <1>7, <1>8 DEF Next, Consumer

(***************************************************************************)
(* A broken connection costs at most reconnectAfter batches, for every     *)
(* threshold and however often the database fails, the handle breaks or    *)
(* the process is killed (Flush and its reconnection).                     *)
(***************************************************************************)
THEOREM HealsInTimeHolds == Spec => []HealsInTime
  <1>1. IInv => HealsInTime
    BY DEF IInv
  <1> QED BY InitIInv, NextIInv, <1>1, PTL DEF Spec

-----------------------------------------------------------------------------
(* What the tables say. *)

(***************************************************************************)
(* RecordsAreSound needs, besides the shape of the state: that every line  *)
(* written is in one place at most (Budget: as a row's id, in the batch,   *)
(* in the channel, in the pipe, or dropped), that a batch in which there   *)
(* is no room is flushed (Room), that ids name rows (Tables), that an      *)
(* earlier statement of PruneStep did all of its work (Pruned), and that   *)
(* nothing is dropped once Run has seen the channel closed (Reported).     *)
(***************************************************************************)
Shape ==
  /\ clock \in 0 .. MaxClock /\ now \in 0 .. MaxClock
  /\ lines \in 0 .. MaxLines /\ pipe \in 0 .. PipeCap
  /\ reader \in {"reading", "eof", "error"} /\ eof \in BOOLEAN
  /\ chan \in Seq(Event \cup {NoEvent}) /\ Len(chan) <= LineBuffer
  /\ pending \in Seq(Event)
  /\ pc \in {"opening", "started", "pruneTime", "pruneRows", "pruneDomains", "select",
             "flush", "report", "lastFlush", "lastReport", "done", "draining", "failed"}
  /\ mode \in {"start", "line", "tick"}
  /\ pruning \in BOOLEAN
  /\ conn \in {"open", "broken", "closed"}
  /\ failures \in Nat /\ blind \in Nat
  /\ faults \in 0 .. MaxFaults

Budget ==
  /\ dropped \in Nat /\ droppedReported \in Nat /\ droppedReported <= dropped
  /\ state \in 0 .. MaxLines
  /\ nextId \in Nat /\ nextId >= 1
  /\ (nextId - 1) + Len(pending) + Len(chan) + pipe + dropped <= lines

Room ==
  /\ Len(pending) <= MaxBatch
  /\ pc # "flush" => Len(pending) < MaxBatch

Tables ==
  /\ rows \subseteq [id : 1 .. nextId - 1, domain : Domains, ts : 0 .. MaxClock]
  /\ \A q, r \in rows : q.id = r.id => q = r
  /\ DOMAIN table \subseteq Domains
  /\ table \in [DOMAIN table -> [last : 0 .. MaxClock, count : 1 .. nextId - 1]]
  /\ RowsHaveNames

Pruned ==
  /\ pc \in {"pruneRows", "pruneDomains"} => expired = {}
  /\ pc = "pruneDomains" => Cardinality(rows) <= MaxRows

Reported ==
  /\ pc \in {"lastFlush", "lastReport", "done"} => reader # "reading"
  /\ pc = "done" => droppedReported = dropped

RInv == Shape /\ Budget /\ Room /\ Tables /\ Pruned /\ Reported

LEMMA Bounds ==
  /\ NoEvent \notin Domains
  /\ PipeCap \in Nat /\ LineBuffer \in Nat /\ MaxBatch \in Nat /\ MaxRows \in Nat /\ PruneBatch \in Nat
  /\ PipeCap >= 1 /\ LineBuffer >= 1 /\ MaxBatch >= 1 /\ MaxRows >= 1 /\ PruneBatch >= 1
  /\ Retention \in Nat /\ MaxLines \in Nat /\ MaxClock \in Nat /\ MaxFaults \in Nat
  BY CollectorAssumption

\* Ids name rows, so there are only finitely many rows.
LEMMA RowsAreFinite ==
  ASSUME RInv PROVE IsFiniteSet(rows)
  <1> DEFINE f == [r \in rows |-> r.id]
  <1>1. nextId - 1 \in Int /\ IsFiniteSet(1 .. nextId - 1)
    BY FS_Interval DEF RInv, Budget
  <1>2. f \in Injection(rows, 1 .. nextId - 1)
    BY DEF RInv, Tables, Injection, IsInjective
  <1> HIDE DEF f
  <1> QED BY <1>1, <1>2, FS_Injection

\* Max of a bounded set.
LEMMA MaxOfBounded ==
  ASSUME NEW S, S \subseteq Nat, S # {}, NEW n \in Nat, \A x \in S : x <= n
  PROVE  Max(S) \in S /\ \A y \in S : Max(S) >= y
  <1> DEFINE T == {n - x : x \in S}
  <1>1. T \subseteq Nat /\ T # {}
    <2>1. \A x \in S : n - x \in Nat
      OBVIOUS
    <2> QED BY <2>1
  <1>2. PICK t \in T : \A y \in T : ~ (<<y, t>> \in OpToRel(<, Nat))
    <2> HIDE DEF T
    <2> QED BY <1>1, NatLessThanWellFounded, WFMin
  <1>3. \A y \in T : ~(y < t)
    BY <1>1, <1>2 DEF OpToRel
  <1>4. PICK x \in S : t = n - x
    OBVIOUS
  <1>5. ASSUME NEW y \in S PROVE x >= y
    <2>1. n - y \in T /\ ~(n - y < n - x)
      BY <1>3, <1>4
    <2> HIDE DEF T
    <2> QED BY <2>1
  <1> QED BY <1>5 DEF Max

\* An explicit enumeration bounds a set.
LEMMA Enumerated ==
  ASSUME NEW S, IsFiniteSet(S), NEW T, NEW f, f \in [S -> T], \A t \in T : \E s \in S : f[s] = t
  PROVE  IsFiniteSet(T) /\ Cardinality(T) \in Nat /\ Cardinality(T) <= Cardinality(S)
  <1>1. f \in Surjection(S, T)
    BY DEF Surjection
  <1> QED BY <1>1, FS_Surjection, FS_CardinalityType

LEMMA CardOfUnion ==
  ASSUME NEW S, IsFiniteSet(S), NEW T, IsFiniteSet(T)
  PROVE  Cardinality(S \cup T) <= Cardinality(S) + Cardinality(T)
  <1>1. IsFiniteSet(S \cap T)
    BY FS_Intersection
  <1>2. Cardinality(S \cap T) \in Nat /\ Cardinality(S) \in Nat /\ Cardinality(T) \in Nat
    BY <1>1, FS_CardinalityType
  <1>3. Cardinality(S \cup T) = Cardinality(S) + Cardinality(T) - Cardinality(S \cap T)
    BY FS_Union
  <1> QED BY <1>2, <1>3

LEMMA InitRInv == Init => RInv
  <1> SUFFICES ASSUME Init PROVE RInv
    OBVIOUS
  <1>1. Shape
    <2>1. chan \in Seq(Event \cup {NoEvent}) /\ Len(chan) = 0 /\ pending \in Seq(Event)
      BY DEF Init
    <2>2. eof \in BOOLEAN /\ pruning \in BOOLEAN
      BY DEF Init
    <2> QED BY <2>1, <2>2, Bounds DEF Init, Shape
  <1>2. Budget /\ Room /\ Reported
    BY Bounds DEF Init, Budget, Room, Reported
  <1>3. Tables
    BY DEF Init, Tables, RowsHaveNames
  <1>4. Pruned
    BY DEF Init, Pruned
  <1> QED BY <1>1, <1>2, <1>3, <1>4 DEF RInv

\* An event the reader hands on is one: its time is not in the future.
LEMMA LinesAreEvents ==
  ASSUME Shape PROVE Line \subseteq Event \cup {NoEvent}
  <1>1. \A t \in {clock - 1, clock} : t >= 0 => t \in 0 .. MaxClock
    BY Bounds DEF Shape
  <1> QED BY <1>1 DEF Line, Event

LEMMA ReaderShape ==
  ASSUME RInv, Log \/ Exit \/ Reader \/ breakConn \/ Elapse \/ restart
  PROVE  Shape' /\ Budget' /\ Room' /\ Reported'
  <1> USE DEF RInv
  <1>1. CASE Log
    BY <1>1, Bounds DEF Log, Shape, Budget, Room, Reported, queue, consumer, database
  <1>2. CASE Exit
    BY <1>2, Bounds DEF Exit, Fault, Shape, Budget, Room, Reported, queue, consumer, database
  <1>3. CASE forEachLine
    <2>1. PICK l \in Line : send(l)
      BY <1>3 DEF forEachLine
    <2>2. l \in Event \cup {NoEvent}
      BY LinesAreEvents
    <2>3. pipe \in Nat /\ pipe > 0 /\ pipe' = pipe - 1
      BY <1>3, Bounds DEF forEachLine, Shape
    <2>4. /\ chan' \in Seq(Event \cup {NoEvent}) /\ Len(chan') <= LineBuffer
          /\ dropped' \in Nat /\ dropped' >= dropped
          /\ Len(chan') + dropped' = Len(chan) + dropped + 1
      <3>1. CASE Len(chan) < LineBuffer
        <4>1. chan' = Append(chan, l) /\ dropped' = dropped
          BY <2>1, <3>1 DEF send
        <4>2. chan' \in Seq(Event \cup {NoEvent}) /\ Len(chan') = Len(chan) + 1
          BY <2>2, <4>1 DEF Shape
        <4>3. Len(chan) \in Nat
          BY DEF Shape
        <4> QED BY <3>1, <4>1, <4>2, <4>3, Bounds DEF Budget
      <3>2. CASE ~(Len(chan) < LineBuffer)
        <4>1. Len(chan) \in Nat
          BY DEF Shape
        <4> QED BY <2>1, <3>2, <4>1 DEF send, Shape, Budget
      <3> QED BY <3>1, <3>2
    <2>5. Shape'
      BY <1>3, <2>3, <2>4, Bounds DEF forEachLine, Shape, consumer
    <2>6. Budget'
      BY <1>3, <2>3, <2>4, Bounds DEF forEachLine, Shape, Budget, consumer, database
    <2>7. Room' /\ Reported'
      BY <1>3 DEF forEachLine, Room, Reported, consumer
    <2> QED BY <2>5, <2>6, <2>7
  <1>4. CASE skipLine
    BY <1>4, Bounds DEF skipLine, Shape, Budget, Room, Reported, queue, consumer, database
  <1>5. CASE readerEnds
    BY <1>5, Bounds DEF readerEnds, Fault, Shape, Budget, Room, Reported, source, consumer, database
  <1>6. CASE discard
    BY <1>6, Bounds DEF discard, Shape, Budget, Room, Reported, queue, consumer, database
  <1>7. CASE breakConn
    BY <1>7, Bounds DEF breakConn, Fault, Shape, Budget, Room, Reported, source, queue, database
  <1>8. CASE Elapse
    BY <1>8, Bounds DEF Elapse, Shape, Budget, Room, Reported, source, queue, consumer, database
  <1>9. CASE restart
    <2>1. chan' = <<>> /\ pending' = <<>> /\ eof' \in BOOLEAN /\ pruning' \in BOOLEAN
      BY <1>9 DEF restart
    <2>2. chan' \in Seq(Event \cup {NoEvent}) /\ Len(chan') = 0 /\ pending' \in Seq(Event) /\ Len(pending') = 0
      BY <2>1
    <2>3. faults' \in 0 .. MaxFaults
      BY <1>9, Bounds DEF restart, Fault, Shape
    <2>4. Shape'
      BY <1>9, <2>1, <2>2, <2>3, Bounds DEF restart, Shape
    <2>5. Budget' /\ Room' /\ Reported'
      BY <1>9, <2>2, Bounds DEF restart, database, Shape, Budget, Room, Reported
    <2> QED BY <2>4, <2>5
  <1> QED BY <1>1, <1>2, <1>3, <1>4, <1>5, <1>6, <1>7, <1>8, <1>9 DEF Reader

\* What writing the drop count may do.
LEMMA SavedCount ==
  ASSUME RInv, NEW n \in 0 .. MaxLines, RecordCollectorState(n)
  PROVE  state' \in 0 .. MaxLines /\ faults' \in 0 .. MaxFaults
  BY Bounds DEF RecordCollectorState, Fault, RInv, Shape, Budget

LEMMA DropsAreLines ==
  ASSUME RInv PROVE dropped \in 0 .. MaxLines
  BY Bounds DEF RInv, Shape, Budget

\* The counts after a report.
LEMMA ReportCounts ==
  ASSUME RInv, NEW force \in BOOLEAN, reportDropped(force)
  PROVE  /\ state' \in 0 .. MaxLines /\ faults' \in 0 .. MaxFaults
         /\ droppedReported' \in {droppedReported, dropped}
         /\ force => droppedReported' = dropped
  <1>1. CASE UNCHANGED <<droppedReported, state, faults>> /\ (dropped = droppedReported \/ ~force)
    BY <1>1 DEF RInv, Shape, Budget
  <1>2. CASE droppedReported' = dropped /\ RecordCollectorState(dropped)
    BY <1>2, DropsAreLines, SavedCount
  <1> QED BY <1>1, <1>2 DEF reportDropped, deferrable

\* What becomes of the batch and its counters; the tables apart.
LEMMA FlushShape ==
  ASSUME RInv, Flush
  PROVE  /\ pending' \in Seq(Event) /\ Len(pending') = 0
         /\ conn' \in {"open", "broken", "closed"} /\ failures' \in Nat /\ blind' \in Nat
         /\ faults' \in 0 .. MaxFaults
         /\ nextId' \in {nextId, nextId + Len(pending)}
  <1> USE DEF RInv
  <1>1. CASE pending = <<>>
    BY <1>1 DEF Flush, Shape, Budget
  <1>2. CASE pending # <<>>
    <2>1. pending' = <<>>
      BY <1>2 DEF Flush
    <2>2. pending' \in Seq(Event) /\ Len(pending') = 0
      BY <2>1
    <2>3. CASE conn = "open" /\ RecordEvents /\ failures' = 0 /\ blind' = 0 /\ UNCHANGED <<conn, faults>>
      BY <2>2, <2>3 DEF RecordEvents, Shape
    <2>4. ASSUME NEW fault \in BOOLEAN, flushFails(fault) 
          PROVE  /\ conn' \in {"open", "broken", "closed"} /\ failures' \in Nat /\ blind' \in Nat
                 /\ faults' \in 0 .. MaxFaults /\ nextId' = nextId
      BY <2>4, Bounds DEF flushFails, Fault, Shape
    <2> QED BY <1>2, <2>2, <2>3, <2>4 DEF Flush
  <1> QED BY <1>1, <1>2

LEMMA FlushBudget ==
  ASSUME RInv, Flush, UNCHANGED <<lines, pipe, chan, dropped, droppedReported, state>>
  PROVE  Budget'
  <1>1. Len(pending) \in Nat /\ Len(chan) \in Nat /\ nextId \in Nat
    BY DEF RInv, Shape, Budget
  <1>2. /\ Len(pending') = 0 /\ Len(chan') = Len(chan)
        /\ nextId' \in Nat /\ nextId' >= nextId /\ nextId' <= nextId + Len(pending)
    BY <1>1, FlushShape
  <1> QED BY <1>1, <1>2, Bounds DEF RInv, Shape, Budget

LEMMA ConsumerShape ==
  ASSUME RInv, Consumer
  PROVE  Shape' /\ Budget' /\ Room' /\ Reported'
  <1> USE DEF RInv
  <1>1. CASE OpenDB
    BY <1>1, Bounds DEF OpenDB, Fault, Shape, Budget, Room, Reported, source, queue, database
  <1>2. CASE drain
    <2>1. \/ chan' = chan
          \/ chan # <<>> /\ chan' = Tail(chan)
      BY <1>2 DEF drain
    <2>2. chan' \in Seq(Event \cup {NoEvent}) /\ Len(chan') <= Len(chan) /\ Len(chan') \in Nat
      <3>1. chan \in Seq(Event \cup {NoEvent})
        BY DEF Shape
      <3> QED BY <2>1, <3>1
    <2>3. Shape'
      BY <1>2, <2>2, Bounds DEF drain, Shape, source, database
    <2>4. Budget' /\ Room' /\ Reported'
      BY <1>2, <2>2, Bounds DEF drain, Shape, Budget, Room, Reported, source, database
    <2> QED BY <2>3, <2>4
  <1>3. CASE recordStart
    <2>1. state' \in 0 .. MaxLines /\ faults' \in 0 .. MaxFaults
      BY <1>3, Bounds, SavedCount DEF recordStart
    <2> QED BY <1>3, <2>1, Bounds DEF recordStart, Shape, Budget, Room, Reported, source, queue
  <1>4. CASE receive
    <2>1. /\ chan # <<>> /\ chan' = Tail(chan)
          /\ pending' = IF Head(chan) = NoEvent THEN pending ELSE Append(pending, Head(chan))
      BY <1>4 DEF receive
    <2>2. /\ chan' \in Seq(Event \cup {NoEvent}) /\ Len(chan') = Len(chan) - 1
          /\ Head(chan) \in Event \cup {NoEvent}
      BY <2>1 DEF Shape
    <2>3. /\ pending' \in Seq(Event) /\ Len(pending') <= Len(pending) + 1
          /\ Len(pending') \in Nat
      BY <2>1, <2>2 DEF Shape
    <2>4. Shape'
      BY <1>4, <2>2, <2>3, Bounds DEF receive, Shape, source
    <2>5. Budget'
      BY <1>4, <2>2, <2>3, Bounds DEF receive, Shape, Budget, source, database
    <2>6. Room' /\ Reported'
      BY <1>4, <2>3, Bounds DEF receive, Shape, Room, Reported
    <2> QED BY <2>4, <2>5, <2>6
  <1>5. CASE tick
    BY <1>5, Bounds DEF tick, Shape, Budget, Room, Reported, source, queue, database
  <1>6. CASE channelClosed
    BY <1>6, Bounds DEF channelClosed, Closed, Shape, Budget, Room, Reported, source, queue, database
  <1>7. CASE flush
    <2>1. CASE Flush
      <3>1. Shape'
        BY <1>7, <2>1, FlushShape, Bounds DEF flush, Shape, source, queue
      <3>2. Budget'
        BY <1>7, <2>1, FlushBudget DEF flush, source, queue
      <3>3. Room' /\ Reported'
        BY <1>7, <2>1, FlushShape, Bounds DEF flush, Room, Reported
      <3> QED BY <3>1, <3>2, <3>3
    <2>2. CASE /\ Len(pending) < MaxBatch
               /\ UNCHANGED <<pending, conn, failures, blind, rows, nextId, table, faults>>
      BY <1>7, <2>2, Bounds DEF flush, Shape, Budget, Room, Reported, source, queue
    <2> QED BY <1>7, <2>1, <2>2 DEF flush
  <1>8. CASE lastFlush
    <2>1. Flush
      BY <1>8 DEF lastFlush
    <2>2. Shape'
      BY <1>8, <2>1, FlushShape, Bounds DEF lastFlush, Shape, source, queue
    <2>3. Budget'
      BY <1>8, <2>1, FlushBudget DEF lastFlush, source, queue
    <2>4. Room' /\ Reported'
      BY <1>8, <2>1, FlushShape, Bounds DEF lastFlush, queue, Room, Reported
    <2> QED BY <2>2, <2>3, <2>4
  <1>9. CASE report
    <2>1. reportDropped(FALSE)
      BY <1>9 DEF report
    <2>2. /\ state' \in 0 .. MaxLines /\ faults' \in 0 .. MaxFaults
          /\ droppedReported' \in {droppedReported, dropped}
      BY <2>1, ReportCounts
    <2>3. Shape'
      BY <1>9, <2>2 DEF report, Shape, source, queue
    <2>4. Budget' /\ Room' /\ Reported'
      BY <1>9, <2>2 DEF report, Shape, Budget, Room, Reported, source, queue
    <2> QED BY <2>3, <2>4
  <1>10. CASE lastReport
    <2>1. reportDropped(TRUE)
      BY <1>10 DEF lastReport
    <2>2. /\ state' \in 0 .. MaxLines /\ faults' \in 0 .. MaxFaults
          /\ droppedReported' \in {droppedReported, dropped}
          /\ droppedReported' = dropped
      BY <2>1, ReportCounts
    <2>3. Shape'
      BY <1>10, <2>2 DEF lastReport, Shape, source, queue
    <2>4. Budget' /\ Room' /\ Reported'
      BY <1>10, <2>2 DEF lastReport, Shape, Budget, Room, Reported, source, queue
    <2> QED BY <2>3, <2>4
  <1>11. CASE pruneTime \/ pruneRows
    BY <1>11, Bounds DEF pruneTime, pruneRows, deleteRows, pruneReturns, Shape, Budget, Room, Reported,
                        source, queue
  <1>12. CASE pruneDomains
    BY <1>12, Bounds DEF pruneDomains, pruneReturns, Shape, Budget, Room, Reported, source, queue
  <1>13. CASE pruneFails
    BY <1>13, Bounds DEF pruneFails, Fault, pruneReturns, Shape, Budget, Room, Reported, source, queue, database
  <1> QED BY <1>1, <1>2, <1>3, <1>4, <1>5, <1>6, <1>7, <1>8, <1>9, <1>10, <1>11, <1>12, <1>13
          DEF Consumer

\* What aggregateDomains says of a name of the batch.
LEMMA Aggregates ==
  ASSUME RInv, NEW d \in Names
  PROVE  /\ d \in Domains
         /\ IsFiniteSet(Batch(d))
         /\ aggregateDomains(d).count = Cardinality(Batch(d))
         /\ aggregateDomains(d).count \in 1 .. Len(pending)
         /\ aggregateDomains(d).last \in 0 .. MaxClock
         /\ \A i \in Batch(d) : pending[i].ts <= aggregateDomains(d).last
  <1>1. pending \in Seq(Event) /\ Len(pending) \in Nat
    BY DEF RInv, Shape
  <1>2. \A i \in 1 .. Len(pending) : pending[i] \in Event
    BY <1>1
  <1>3. PICK j \in 1 .. Len(pending) : pending[j].domain = d
    BY DEF Names
  <1>4. d \in Domains
    BY <1>2, <1>3 DEF Event
  <1>5. Batch(d) \in SUBSET (1 .. Len(pending)) /\ j \in Batch(d)
    BY <1>3 DEF Batch
  <1>6. IsFiniteSet(1 .. Len(pending)) /\ Cardinality(1 .. Len(pending)) = Len(pending)
    BY <1>1, FS_Interval
  <1>7. /\ IsFiniteSet(Batch(d)) /\ Cardinality(Batch(d)) <= Len(pending)
        /\ Cardinality(Batch(d)) \in Nat /\ Cardinality(Batch(d)) # 0
    BY <1>5, <1>6, FS_Subset, FS_CardinalityType, FS_EmptySet
  <1> DEFINE times == {pending[i].ts : i \in Batch(d)}
  <1>8. /\ times \subseteq 0 .. MaxClock /\ times # {}
        /\ \A i \in Batch(d) : pending[i].ts \in times
    BY <1>2, <1>5 DEF Event
  <1>9. times \subseteq Nat /\ \A x \in times : x <= MaxClock
    BY <1>8, Bounds
  <1>10. aggregateDomains(d) = [count |-> Cardinality(Batch(d)), last |-> Max(times)]
    BY DEF aggregateDomains
  <1> HIDE DEF times
  <1>11. Max(times) \in times /\ \A y \in times : Max(times) >= y
    BY <1>8, <1>9, Bounds, MaxOfBounded
  <1>12. aggregateDomains(d).count = Cardinality(Batch(d)) /\ aggregateDomains(d).last = Max(times)
    BY <1>10
  <1> HIDE DEF aggregateDomains
  <1>13. aggregateDomains(d).last \in 0 .. MaxClock
    BY <1>8, <1>11, <1>12
  <1>14. \A i \in Batch(d) : pending[i].ts <= aggregateDomains(d).last
    <2> SUFFICES ASSUME NEW i \in Batch(d) PROVE pending[i].ts <= Max(times)
      BY <1>12
    <2> QED BY <1>8, <1>9, <1>11
  <1>15. aggregateDomains(d).count \in 1 .. Len(pending)
    BY <1>1, <1>7, <1>12
  <1> QED BY <1>4, <1>7, <1>12, <1>13, <1>14, <1>15

NewRow(i)  == [id |-> nextId + i - 1, domain |-> pending[i].domain, ts |-> pending[i].ts]
RowsOf(d)  == {q \in rows : q.domain = d}

\* The rows of a name are no more than its count says, if it has any.
LEMMA CountedRows ==
  ASSUME RInv, NEW d
  PROVE  /\ IsFiniteSet(RowsOf(d)) /\ Cardinality(RowsOf(d)) \in Nat
         /\ d \in DOMAIN table => Cardinality(RowsOf(d)) <= table[d].count
         /\ d \notin DOMAIN table => RowsOf(d) = {}
  <1>1. RowsOf(d) \in SUBSET rows
    BY DEF RowsOf
  <1>2. IsFiniteSet(RowsOf(d)) /\ Cardinality(RowsOf(d)) \in Nat
    BY <1>1, RowsAreFinite, FS_Subset, FS_CardinalityType
  <1>3. CASE RowsOf(d) = {}
    <2>1. Cardinality(RowsOf(d)) = 0
      BY <1>3, FS_EmptySet
    <2>2. d \in DOMAIN table => table[d].count \in Nat
      BY DEF RInv, Tables, Budget
    <2> QED BY <1>2, <1>3, <2>1, <2>2
  <1>4. CASE RowsOf(d) # {}
    <2>1. PICK r \in rows : r.domain = d
      BY <1>4 DEF RowsOf
    <2>2. d \in DOMAIN table /\ table[d].count >= Cardinality(RowsOf(d))
      BY <2>1 DEF RInv, Tables, RowsHaveNames, RowsOf
    <2>3. table[d].count \in Nat
      BY <2>2 DEF RInv, Tables, Budget
    <2> QED BY <1>2, <2>2, <2>3
  <1> QED BY <1>3, <1>4

\* The transaction of a batch keeps the tables sound.
LEMMA RecordTables ==
  ASSUME RInv, RecordEvents
  PROVE  Tables'
  <1> DEFINE fresh == {NewRow(i) : i \in 1 .. Len(pending)}
             n == Len(pending)
  <1>1. /\ rows' = rows \cup fresh
        /\ nextId' = nextId + n
        /\ table' = [d \in DOMAIN table \cup Names |->
                       IF d \notin Names THEN table[d]
                       ELSE IF d \in DOMAIN table THEN upsert(table[d], aggregateDomains(d))
                       ELSE aggregateDomains(d)]
    BY DEF RecordEvents, NewRow
  <1>2. n \in Nat /\ nextId \in Nat /\ nextId >= 1
    BY DEF RInv, Shape, Budget
  <1>3. \A i \in 1 .. n : pending[i].domain \in Names /\ pending[i].domain \in Domains
                          /\ pending[i].ts \in 0 .. MaxClock
    <2>1. \A i \in 1 .. n : pending[i] \in Event
      BY DEF RInv, Shape
    <2> QED BY <2>1 DEF Event, Names
  <1>4. \A i \in 1 .. n : NewRow(i).id = nextId + i - 1 /\ NewRow(i).domain = pending[i].domain
                          /\ NewRow(i).ts = pending[i].ts
    BY DEF NewRow
  <1>5. fresh \subseteq [id : nextId .. nextId' - 1, domain : Names \cap Domains, ts : 0 .. MaxClock]
    BY <1>1, <1>2, <1>3 DEF NewRow
  <1>6. \A r \in fresh : \E i \in 1 .. n : r = NewRow(i)
    OBVIOUS
  <1>7. /\ rows \subseteq [id : 1 .. nextId - 1, domain : Domains, ts : 0 .. MaxClock]
        /\ DOMAIN table \subseteq Domains
        /\ table \in [DOMAIN table -> [last : 0 .. MaxClock, count : 1 .. nextId - 1]]
        /\ \A q, r \in rows : q.id = r.id => q = r
        /\ RowsHaveNames
    BY DEF RInv, Tables
  <1> HIDE DEF fresh, n
  <1>8. rows' \subseteq [id : 1 .. nextId' - 1, domain : Domains, ts : 0 .. MaxClock]
    BY <1>1, <1>2, <1>5, <1>7
  <1>9. \A q, r \in rows' : q.id = r.id => q = r
    <2> SUFFICES ASSUME NEW q \in rows', NEW r \in rows', q.id = r.id PROVE q = r
      OBVIOUS
    <2>1. CASE q \in fresh /\ r \in fresh
      <3>1. PICK i \in 1 .. n : q = NewRow(i)
        BY <1>6, <2>1
      <3>2. PICK j \in 1 .. n : r = NewRow(j)
        BY <1>6, <2>1
      <3>3. i = j
        <4>1. nextId + i - 1 = nextId + j - 1
          BY <1>4, <3>1, <3>2
        <4> QED BY <1>2, <4>1
      <3> QED BY <3>1, <3>2, <3>3
    <2>2. CASE (q \in rows /\ r \in fresh) \/ (q \in fresh /\ r \in rows)
      BY <1>2, <1>5, <1>7, <2>2
    <2>3. CASE q \in rows /\ r \in rows
      BY <1>7, <2>3
    <2>4. (q \in rows \/ q \in fresh) /\ (r \in rows \/ r \in fresh)
      BY <1>1
    <2> QED BY <2>1, <2>2, <2>3, <2>4
  <1>10. DOMAIN table' = DOMAIN table \cup Names /\ DOMAIN table' \subseteq Domains
    BY <1>1, <1>7, Aggregates
  <1>11. ASSUME NEW d \in DOMAIN table'
         PROVE  /\ table'[d] \in [last : 0 .. MaxClock, count : 1 .. nextId' - 1]
                /\ d \in DOMAIN table => table'[d].last >= table[d].last
                /\ \A r \in fresh : r.domain = d => table'[d].last >= r.ts
                /\ table'[d].count >= Cardinality({q \in rows' : q.domain = d})
    <2>1. CASE d \notin Names
      <3>1. d \in DOMAIN table /\ table'[d] = table[d]
        BY <1>1, <1>10, <2>1
      <3>2. \A r \in fresh : r.domain # d
        BY <1>5, <2>1
      <3>3. {q \in rows' : q.domain = d} = RowsOf(d)
        BY <1>1, <3>2 DEF RowsOf
      <3>4. table[d] \in [last : 0 .. MaxClock, count : 1 .. nextId - 1]
        BY <1>7, <3>1
      <3>5. table[d] \in [last : 0 .. MaxClock, count : 1 .. nextId' - 1] /\ table[d].last \in Int
        BY <1>1, <1>2, <3>4, Bounds
      <3>6. table[d].count >= Cardinality(RowsOf(d))
        BY <3>1, <3>4, CountedRows, <1>2
      <3>7. table'[d].last >= table[d].last
        BY <3>1, <3>5
      <3>8. table'[d].count >= Cardinality({q \in rows' : q.domain = d})
        BY <3>1, <3>3, <3>6
      <3> QED BY <3>1, <3>2, <3>5, <3>7, <3>8
    <2>2. CASE d \in Names
      <3> DEFINE agg == aggregateDomains(d)
                 mine == {NewRow(i) : i \in Batch(d)}
                 f == [i \in Batch(d) |-> NewRow(i)]
      <3>1. /\ IsFiniteSet(Batch(d)) /\ agg.count = Cardinality(Batch(d))
            /\ agg.count \in 1 .. n /\ agg.last \in 0 .. MaxClock
            /\ \A i \in Batch(d) : pending[i].ts <= agg.last
        BY <2>2, Aggregates DEF n
      <3>2. IsFiniteSet(mine) /\ Cardinality(mine) \in Nat /\ Cardinality(mine) <= agg.count
        <4>1. f \in [Batch(d) -> mine] /\ \A t \in mine : \E i \in Batch(d) : f[i] = t
          OBVIOUS
        <4> HIDE DEF f, mine, agg
        <4> QED BY <3>1, <4>1, Enumerated
      <3>3. \A r \in fresh : r.domain = d => r \in mine /\ r.ts <= agg.last
        <4> SUFFICES ASSUME NEW r \in fresh, r.domain = d PROVE r \in mine /\ r.ts <= agg.last
          OBVIOUS
        <4>1. PICK i \in 1 .. n : r = NewRow(i)
          BY <1>6
        <4>2. i \in Batch(d)
          BY <1>4, <4>1 DEF Batch, n
        <4>3. r \in mine
          BY <4>1, <4>2
        <4> HIDE DEF mine, agg
        <4> QED BY <1>4, <3>1, <4>1, <4>2, <4>3
      <3>4. {q \in rows' : q.domain = d} \subseteq RowsOf(d) \cup mine
        BY <1>1, <3>3 DEF RowsOf
      <3>5. /\ Cardinality({q \in rows' : q.domain = d}) \in Nat
            /\ Cardinality({q \in rows' : q.domain = d}) <= Cardinality(RowsOf(d)) + Cardinality(mine)
        <4> HIDE DEF mine
        <4>1. IsFiniteSet(RowsOf(d))
          BY CountedRows
        <4>2. IsFiniteSet(RowsOf(d) \cup mine)
              /\ Cardinality(RowsOf(d) \cup mine) <= Cardinality(RowsOf(d)) + Cardinality(mine)
          BY <3>2, <4>1, FS_Union, CardOfUnion
        <4> DEFINE W == {q \in rows' : q.domain = d}
        <4>3. W \in SUBSET (RowsOf(d) \cup mine)
          BY <3>4
        <4> HIDE DEF W
        <4>4. IsFiniteSet(W) /\ Cardinality(W) <= Cardinality(RowsOf(d) \cup mine)
          BY <4>2, <4>3, FS_Subset
        <4>5. Cardinality(W) \in Nat /\ Cardinality(RowsOf(d) \cup mine) \in Nat
              /\ Cardinality(RowsOf(d)) \in Nat
          BY <4>1, <4>2, <4>4, FS_CardinalityType
        <4>6. Cardinality(W) \in Nat /\ Cardinality(W) <= Cardinality(RowsOf(d)) + Cardinality(mine)
          BY <3>2, <4>2, <4>4, <4>5
        <4> QED BY <4>6 DEF W
      <3> HIDE DEF mine, f
      <3>6. CASE d \in DOMAIN table
        <4>1. table'[d] = upsert(table[d], agg)
          BY <1>1, <1>10, <2>2, <3>6
        <4> HIDE DEF agg
        <4>2. table[d].last \in 0 .. MaxClock /\ table[d].count \in 1 .. nextId - 1
          BY <1>7, <3>6
        <4>3. /\ table'[d].last = IF table[d].last > agg.last THEN table[d].last ELSE agg.last
              /\ table'[d].count = table[d].count + agg.count
              /\ table'[d] = [last |-> table'[d].last, count |-> table'[d].count]
          BY <4>1 DEF upsert
        <4>4. table'[d].last \in 0 .. MaxClock /\ table'[d].last >= table[d].last /\ table'[d].last >= agg.last
          BY <3>1, <4>2, <4>3, Bounds
        <4>5. table'[d].count \in 1 .. nextId' - 1
          BY <1>1, <1>2, <3>1, <4>2, <4>3
        <4>6. table'[d] \in [last : 0 .. MaxClock, count : 1 .. nextId' - 1]
          BY <4>3, <4>4, <4>5
        <4>7. table'[d].count >= Cardinality({q \in rows' : q.domain = d})
          <5>1. Cardinality(RowsOf(d)) \in Nat /\ Cardinality(RowsOf(d)) <= table[d].count
            BY <3>6, CountedRows
          <5> QED BY <1>2, <3>1, <3>2, <3>5, <4>2, <4>3, <5>1
        <4>8. \A r \in fresh : r.domain = d => table'[d].last >= r.ts
          <5> SUFFICES ASSUME NEW r \in fresh, r.domain = d PROVE table'[d].last >= r.ts
            OBVIOUS
          <5>1. r.ts \in 0 .. MaxClock /\ r.ts <= agg.last
            BY <1>5, <3>3
          <5> QED BY <3>1, <4>4, <5>1, Bounds
        <4> QED BY <4>4, <4>6, <4>7, <4>8
      <3>7. CASE d \notin DOMAIN table
        <4>1. table'[d] = agg
          BY <1>1, <1>10, <2>2, <3>7
        <4>2. agg = [count |-> agg.count, last |-> agg.last]
          BY DEF aggregateDomains
        <4> HIDE DEF agg
        <4>3. agg.count \in 1 .. nextId' - 1
          BY <1>1, <1>2, <3>1
        <4>4. agg \in [last : 0 .. MaxClock, count : 1 .. nextId' - 1]
          BY <3>1, <4>2, <4>3
        <4>5. agg.count >= Cardinality({q \in rows' : q.domain = d})
          <5>1. Cardinality(RowsOf(d)) = 0
            BY <3>7, CountedRows, FS_EmptySet
          <5> QED BY <1>2, <3>1, <3>2, <3>5, <5>1
        <4>6. \A r \in fresh : r.domain = d => agg.last >= r.ts
          <5> SUFFICES ASSUME NEW r \in fresh, r.domain = d PROVE agg.last >= r.ts
            OBVIOUS
          <5>1. r.ts \in 0 .. MaxClock /\ r.ts <= agg.last
            BY <1>5, <3>3
          <5> QED BY <3>1, <5>1, Bounds
        <4> QED BY <3>7, <4>1, <4>4, <4>5, <4>6
      <3> QED BY <3>6, <3>7
    <2> QED BY <2>1, <2>2
  <1>12. table' \in [DOMAIN table' -> [last : 0 .. MaxClock, count : 1 .. nextId' - 1]]
    <2>1. table' = [d \in DOMAIN table' |-> table'[d]]
      BY <1>1
    <2> QED BY <1>11, <2>1
  <1>13. RowsHaveNames'
    <2> SUFFICES ASSUME NEW r \in rows'
                 PROVE  /\ r.domain \in DOMAIN table'
                        /\ table'[r.domain].last >= r.ts
                        /\ table'[r.domain].count >= Cardinality({q \in rows' : q.domain = r.domain})
      BY DEF RowsHaveNames
    <2>1. CASE r \in fresh
      <3>1. r.domain \in DOMAIN table'
        BY <1>5, <1>10, <2>1
      <3> QED BY <1>11, <2>1, <3>1
    <2>2. CASE r \in rows
      <3>1. r.domain \in DOMAIN table /\ table[r.domain].last >= r.ts
        BY <1>7, <2>2 DEF RowsHaveNames
      <3>2. r.domain \in DOMAIN table'
        BY <1>10, <3>1
      <3>3. table'[r.domain].last >= table[r.domain].last
            /\ table'[r.domain].last \in 0 .. MaxClock
        BY <1>11, <3>1, <3>2
      <3>4. table[r.domain].last \in 0 .. MaxClock /\ r.ts \in 0 .. MaxClock
        BY <1>7, <2>2, <3>1
      <3>5. table'[r.domain].last >= r.ts
        BY <3>1, <3>3, <3>4, Bounds
      <3> QED BY <1>11, <3>2, <3>5
    <2> QED BY <1>1, <2>1, <2>2
  <1> QED BY <1>8, <1>9, <1>10, <1>12, <1>13 DEF Tables

LEMMA SameTables ==
  ASSUME RInv, UNCHANGED <<rows, nextId, table>> PROVE Tables'
  BY DEF RInv, Tables, RowsHaveNames

LEMMA FlushTables ==
  ASSUME RInv, Flush PROVE Tables'
  <1>1. RecordEvents \/ UNCHANGED <<rows, nextId, table>>
    BY DEF Flush, flushFails
  <1> QED BY <1>1, RecordTables, SameTables

\* Deleting rows keeps the names sound.
LEMMA FewerRows ==
  ASSUME RInv, rows' \subseteq rows, UNCHANGED <<nextId, table>> PROVE Tables'
  <1>1. RowsHaveNames'
    <2> SUFFICES ASSUME NEW r \in rows'
                 PROVE  /\ r.domain \in DOMAIN table
                        /\ table[r.domain].last >= r.ts
                        /\ table[r.domain].count >= Cardinality({q \in rows' : q.domain = r.domain})
      BY DEF RowsHaveNames
    <2>1. r.domain \in DOMAIN table /\ table[r.domain].last >= r.ts
      BY DEF RInv, Tables, RowsHaveNames
    <2> DEFINE W == {q \in rows' : q.domain = r.domain}
    <2>2. W \in SUBSET RowsOf(r.domain)
      BY DEF RowsOf
    <2> HIDE DEF W
    <2>3. IsFiniteSet(RowsOf(r.domain)) /\ Cardinality(RowsOf(r.domain)) \in Nat
          /\ Cardinality(RowsOf(r.domain)) <= table[r.domain].count
      BY <2>1, CountedRows
    <2>4. Cardinality(W) \in Nat /\ Cardinality(W) <= Cardinality(RowsOf(r.domain))
      BY <2>2, <2>3, FS_Subset, FS_CardinalityType
    <2>5. table[r.domain].count \in Nat
      BY <2>1 DEF RInv, Tables, Budget
    <2>6. table[r.domain].count >= Cardinality(W)
      BY <2>3, <2>4, <2>5
    <2> QED BY <2>1, <2>6 DEF W
  <1> QED BY <1>1 DEF RInv, Tables

\* A batch that is not full took everything there was to delete.
LEMMA LastBatch ==
  ASSUME RInv, NEW S, S \subseteq rows, NEW D \in Deletions(S), ~partial(D)
  PROVE  D = S
  <1>1. IsFiniteSet(S) /\ Cardinality(S) \in Nat
    BY RowsAreFinite, FS_Subset, FS_CardinalityType
  <1>2. D \in SUBSET S /\ Cardinality(D) = (IF Cardinality(S) < PruneBatch THEN Cardinality(S) ELSE PruneBatch)
    BY DEF Deletions
  <1>3. ~(Cardinality(D) >= PruneBatch)
    BY DEF partial
  <1>4. Cardinality(D) = Cardinality(S)
    BY <1>1, <1>2, <1>3, Bounds
  <1> QED BY <1>1, <1>2, <1>4, FS_Subset

\* With the excess gone, at most MaxRows rows are left: their ids lie in a
\* window of that width.
LEMMA WithinLimit ==
  ASSUME RInv PROVE Cardinality(rows \ excess) <= MaxRows
  <1>1. CASE rows = {}
    <2>1. rows \ excess = {}
      BY <1>1
    <2> QED BY <2>1, FS_EmptySet, Bounds
  <1>2. CASE rows # {}
    <2> DEFINE ids == {r.id : r \in rows}
               kept == rows \ excess
               f == [r \in kept |-> r.id]
    <2>1. nextId \in Nat /\ nextId >= 1 /\ nextId - 1 \in Nat
      BY DEF RInv, Budget
    <2>2. ids \subseteq 1 .. nextId - 1 /\ ids # {} /\ \A r \in rows : r.id \in ids
      BY <1>2 DEF RInv, Tables
    <2>3. ids \subseteq Nat /\ \A x \in ids : x <= nextId - 1
      <3> HIDE DEF ids
      <3> QED BY <2>1, <2>2
    <2>4. newest = Max(ids)
      BY <1>2 DEF newest
    <2> HIDE DEF ids
    <2>5. Max(ids) \in ids /\ \A y \in ids : Max(ids) >= y
      BY <2>1, <2>2, <2>3, MaxOfBounded
    <2>6. newest \in Nat /\ \A r \in rows : r.id \in Nat /\ r.id <= newest
      BY <2>2, <2>3, <2>4, <2>5
    <2>7. \A r \in kept : r.id \in newest - MaxRows + 1 .. newest
      <3> SUFFICES ASSUME NEW r \in rows, r \notin excess PROVE r.id \in newest - MaxRows + 1 .. newest
        OBVIOUS
      <3>1. ~(r.id <= newest - MaxRows)
        BY DEF excess
      <3> QED BY <2>6, <3>1, Bounds
    <2>8. f \in Injection(kept, newest - MaxRows + 1 .. newest)
      BY <2>7 DEF RInv, Tables, Injection, IsInjective
    <2> DEFINE low == newest - MaxRows + 1
    <2>9. low \in Int /\ newest \in Int /\ (newest - low) + 1 = MaxRows /\ ~(low > newest)
      BY <2>6, Bounds
    <2>10. IsFiniteSet(low .. newest) /\ Cardinality(low .. newest) = MaxRows
      <3> HIDE DEF low
      <3>1. IsFiniteSet(low .. newest) /\ Cardinality(low .. newest) = IF low > newest THEN 0 ELSE newest - low + 1
        BY <2>9, FS_Interval
      <3> QED BY <2>9, <3>1
    <2>11. f \in Injection(kept, low .. newest)
      BY <2>8
    <2> HIDE DEF f, low, kept
    <2>12. Cardinality(kept) <= MaxRows
      BY <2>10, <2>11, FS_Injection
    <2> QED BY <2>12 DEF kept
  <1> QED BY <1>1, <1>2

\* A statement of PruneStep that comes to its end has done all of its work.
LEMMA DeletePruned ==
  ASSUME RInv, pruneTime \/ pruneRows PROVE Tables' /\ Pruned'
  <1>1. CASE pruneTime
    <2>1. PICK D \in Deletions(expired) :
             /\ rows' = rows \ D
             /\ IF partial(D) THEN pruneReturns(FALSE) ELSE pc' = "pruneRows" /\ UNCHANGED pruning
      BY <1>1 DEF pruneTime, deleteRows
    <2>2. UNCHANGED <<nextId, table, now>>
      BY <1>1 DEF pruneTime, deleteRows
    <2>3. Tables'
      BY <2>1, <2>2, FewerRows
    <2>4. CASE partial(D)
      <3>1. pc' \in {"pruneTime", "select"}
        BY <2>1, <2>4 DEF pruneReturns
      <3> QED BY <2>3, <3>1 DEF Pruned
    <2>5. CASE ~partial(D)
      <3>1. D = expired
        BY <2>5, LastBatch DEF expired
      <3>2. expired' = {}
        BY <2>1, <2>2, <3>1 DEF expired
      <3>3. pc' = "pruneRows"
        BY <2>1, <2>5
      <3> QED BY <2>3, <3>2, <3>3 DEF Pruned
    <2> QED BY <2>4, <2>5
  <1>2. CASE pruneRows
    <2>1. PICK D \in Deletions(excess) :
             /\ rows' = rows \ D
             /\ IF partial(D) THEN pruneReturns(FALSE) ELSE pc' = "pruneDomains" /\ UNCHANGED pruning
      BY <1>2 DEF pruneRows, deleteRows
    <2>2. UNCHANGED <<nextId, table, now>> /\ pc = "pruneRows"
      BY <1>2 DEF pruneRows, deleteRows
    <2>3. Tables'
      BY <2>1, <2>2, FewerRows
    <2>4. CASE partial(D)
      <3>1. pc' \in {"pruneTime", "select"}
        BY <2>1, <2>4 DEF pruneReturns
      <3> QED BY <2>3, <3>1 DEF Pruned
    <2>5. CASE ~partial(D)
      <3>1. D = excess
        BY <2>5, LastBatch DEF excess
      <3>2. expired' = {}
        <4>1. expired = {}
          BY <2>2 DEF RInv, Pruned
        <4> QED BY <2>1, <2>2, <4>1 DEF expired
      <3>3. pc' = "pruneDomains" /\ rows' = rows \ excess
        BY <2>1, <2>5, <3>1
      <3>4. Cardinality(rows') <= MaxRows
        BY <3>3, WithinLimit
      <3> QED BY <2>3, <3>2, <3>3, <3>4 DEF Pruned
    <2> QED BY <2>4, <2>5
  <1> QED BY <1>1, <1>2

\* The names last seen before the limit go; no row that is left is that old.
LEMMA NamesPruned ==
  ASSUME RInv, pruneDomains PROVE Tables' /\ Pruned'
  <1> DEFINE left == {x \in DOMAIN table : table[x].last >= now - Retention}
  <1>1. table' = [d \in left |-> table[d]] /\ UNCHANGED <<rows, nextId>> /\ pc = "pruneDomains"
    BY DEF pruneDomains
  <1>2. pc' = "select"
    BY DEF pruneDomains, pruneReturns
  <1>3. ASSUME NEW r \in rows
        PROVE  r.domain \in left
    <2>1. r.domain \in DOMAIN table /\ table[r.domain].last >= r.ts
      BY DEF RInv, Tables, RowsHaveNames
    <2>2. ~(r.ts < now - Retention)
      BY <1>1 DEF RInv, Pruned, expired
    <2>3. table[r.domain].last \in Int /\ r.ts \in Int /\ now \in Int
      <3>1. table[r.domain].last \in 0 .. MaxClock /\ r.ts \in 0 .. MaxClock /\ now \in 0 .. MaxClock
        BY <2>1 DEF RInv, Tables, Shape
      <3> QED BY <3>1, Bounds
    <2>4. table[r.domain].last >= now - Retention
      BY <2>1, <2>2, <2>3, Bounds
    <2> QED BY <2>1, <2>4
  <1>4. RowsHaveNames'
    BY <1>1, <1>3 DEF RInv, Tables, RowsHaveNames
  <1>5. Tables'
    <2>1. DOMAIN table' = left /\ left \subseteq DOMAIN table
      BY <1>1
    <2>2. table' \in [DOMAIN table' -> [last : 0 .. MaxClock, count : 1 .. nextId' - 1]]
      BY <1>1 DEF RInv, Tables
    <2> QED BY <1>1, <1>4, <2>1, <2>2 DEF RInv, Tables
  <1> QED BY <1>2, <1>5 DEF Pruned

\* Outside PruneStep nothing is claimed, and inside it rows and time stand still.
LEMMA OtherPruned ==
  ASSUME RInv, \/ pc' \notin {"pruneRows", "pruneDomains"}
               \/ UNCHANGED <<pc, rows, now>>
  PROVE  Pruned'
  BY DEF RInv, Pruned, expired

LEMMA TablesNext ==
  ASSUME RInv, [Next]_vars PROVE Tables' /\ Pruned'
  <1>1. CASE Log \/ Exit \/ Reader \/ breakConn \/ Elapse \/ UNCHANGED vars
    <2>1. UNCHANGED <<rows, nextId, table, pc, now>>
      BY <1>1 DEF Log, Exit, Reader, forEachLine, skipLine, readerEnds, discard, breakConn, Elapse,
                  vars, consumer, database
    <2> QED BY <2>1, SameTables, OtherPruned
  <1>2. CASE OpenDB \/ drain \/ recordStart \/ receive \/ tick \/ channelClosed \/ restart
             \/ report \/ lastReport \/ pruneFails
    <2>1. UNCHANGED <<rows, nextId, table>> /\ pc' \notin {"pruneRows", "pruneDomains"}
      BY <1>2 DEF OpenDB, drain, recordStart, receive, tick, channelClosed, restart, report,
                  lastReport, pruneFails, pruneReturns, database
    <2> QED BY <2>1, SameTables, OtherPruned
  <1>3. CASE flush \/ lastFlush
    <2>1. Flush \/ UNCHANGED <<rows, nextId, table>>
      BY <1>3 DEF flush, lastFlush
    <2>2. pc' \notin {"pruneRows", "pruneDomains"}
      BY <1>3 DEF flush, lastFlush
    <2> QED BY <2>1, <2>2, FlushTables, SameTables, OtherPruned
  <1>4. CASE pruneTime \/ pruneRows
    BY <1>4, DeletePruned
  <1>5. CASE pruneDomains
    BY <1>5, NamesPruned
  <1> QED BY <1>1, <1>2, <1>3, <1>4, <1>5 DEF Next, Consumer

LEMMA NextRInv == RInv /\ [Next]_vars => RInv'
  <1> SUFFICES ASSUME RInv, [Next]_vars PROVE RInv'
    OBVIOUS
  <1>1. Tables' /\ Pruned'
    BY TablesNext
  <1>2. Shape' /\ Budget' /\ Room' /\ Reported'
    <2>1. CASE UNCHANGED vars
      BY <2>1 DEF RInv, Shape, Budget, Room, Reported, vars, source, queue, consumer, database
    <2>2. CASE Next
      BY <2>2, ReaderShape, ConsumerShape DEF Next
    <2> QED BY <2>1, <2>2
  <1> QED BY <1>1, <1>2 DEF RInv

LEMMA SoundFromRInv == RInv => RecordsAreSound
  <1> SUFFICES ASSUME RInv PROVE RecordsAreSound
    OBVIOUS
  <1>1. /\ Len(pending) \in Nat /\ Len(chan) \in Nat /\ pipe \in Nat /\ lines \in Nat
        /\ lines <= MaxLines /\ nextId \in Nat /\ nextId >= 1
    BY Bounds DEF RInv, Shape, Budget
  <1>2. nextId \in 1 .. MaxLines + 1 /\ dropped \in 0 .. lines /\ droppedReported \in 0 .. dropped
        /\ 1 .. nextId - 1 \subseteq 1 .. MaxLines
    BY <1>1, Bounds DEF RInv, Budget
  <1>3. rows \subseteq [id : 1 .. MaxLines, domain : Domains, ts : 0 .. MaxClock]
    BY <1>2 DEF RInv, Tables
  <1>4. \E S \in SUBSET Domains : table \in [S -> [last : 0 .. MaxClock, count : 1 .. MaxLines]]
    <2>1. table \in [DOMAIN table -> [last : 0 .. MaxClock, count : 1 .. MaxLines]]
      BY <1>2 DEF RInv, Tables
    <2> QED BY <2>1 DEF RInv, Tables
  <1>5. TypeOK
    BY <1>2, <1>3, <1>4 DEF RInv, Shape, Budget, Room, TypeOK
  <1> QED BY <1>5 DEF RInv, Tables, Pruned, Reported, RecordsAreSound, PruneIsComplete, DropsAreReported

(***************************************************************************)
(* What the collector's tables say is sound, for every batch size, limit   *)
(* and retention: every row has its name, seen no earlier and counted no   *)
(* less often; when PruneStep comes to the names no expired row and no     *)
(* more than eventMaxRows rows are left; and Run does not return with a    *)
(* dropped line unreported (RecordEvents, PruneStep, reportDropped).       *)
(***************************************************************************)
THEOREM TablesAreSound == Spec => []RecordsAreSound
  <1> QED BY InitRInv, NextRInv, SoundFromRInv, PTL DEF Spec
=============================================================================
