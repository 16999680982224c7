----------------------------- MODULE StatsRollup -----------------------------
(***************************************************************************)
(* The panel's statistics.  A report counts the rows of every hour, takes  *)
(* from memory the summary of an hour whose count has not changed, and     *)
(* scans the others; the first hour, of which only a part is asked for, is *)
(* scanned every time.  Meanwhile the collector inserts and prunes rows,   *)
(* and an operation of the panel may delete some: it then forgets the      *)
(* remembered hours.  A summary is modelled by the rows it was made from;  *)
(* ranking, and the limit on the names remembered per hour, are left out.  *)
(* Time runs in half hours.                                                *)
(***************************************************************************)
EXTENDS Integers, FiniteSets

CONSTANTS Reports,    \* requests that compute a report
          Spans,      \* lengths of the reports, in half hours
          Retention,  \* half hours the collector keeps
          MaxTime,    \* bound: half hours
          MaxRows     \* bound: rows inserted

ASSUME StatsConstants ==
    /\ Spans \subseteq Nat \ {0}
    /\ Retention \in Nat /\ \A s \in Spans : s <= Retention
    /\ MaxTime \in Nat /\ MaxRows \in Nat

VARIABLES time,      \* the clock
          events,    \* query_events
          inserted,  \* history: rows inserted so far
          hours,     \* statsRollup.hours
          rollupMu,  \* the report that holds statsRollup.mu
          report,    \* the reports under way
          deleting   \* an operation has deleted rows and has yet to forget

statsVars == <<time, events, inserted, hours, rollupMu, report, deleting>>

Hour(ts) == ts \div 2
HourOf(h) == {r \in events : Hour(r.ts) = h}
AllHours == 0..Hour(MaxTime)

NoReport == [pc |-> "idle", since |-> 0, counts |-> [h \in {} |-> 0], out |-> {}, steady |-> TRUE]
NoMutex == "free"

\* No summary of the hour is remembered.
Unknown == [known |-> FALSE, rows |-> {}]

StatsInit ==
    /\ time = 0
    /\ events = {} /\ inserted = 0
    /\ hours = [h \in AllHours |-> Unknown]
    /\ rollupMu = NoMutex
    /\ report = [r \in Reports |-> NoReport]
    /\ deleting = FALSE

\* The database changes under the reports.
Disturbed == report' = [r \in Reports |-> [report[r] EXCEPT !.steady = FALSE]]

\* External: the clock.
Tick ==
    /\ time < MaxTime
    /\ time' = time + 1
    /\ UNCHANGED <<events, inserted, hours, rollupMu, report, deleting>>

\* External: the collector inserts what has just been answered ...
Insert ==
    /\ inserted < MaxRows
    /\ inserted' = inserted + 1
    /\ events' = events \cup {[id |-> inserted + 1, ts |-> time]}
    /\ Disturbed
    /\ UNCHANGED <<time, hours, rollupMu, deleting>>

\* ... and removes what is too old.
PruneOld ==
    LET kept == {r \in events : r.ts + Retention >= time} IN
    /\ kept # events
    /\ events' = kept
    /\ Disturbed
    /\ UNCHANGED <<time, inserted, hours, rollupMu, deleting>>

\* deleteQuery, deleteDomain: one transaction.
deleteRows(gone) ==
    /\ ~deleting
    /\ gone # {}
    /\ events' = events \ gone
    /\ deleting' = TRUE
    /\ Disturbed
    /\ UNCHANGED <<time, inserted, hours, rollupMu>>

resetNothing ==
    /\ deleting /\ rollupMu = NoMutex
    /\ deleting' = FALSE
    /\ UNCHANGED <<time, events, inserted, hours, rollupMu, report>>

\* forgetShared, when the operation returns.
reset ==
    /\ deleting /\ rollupMu = NoMutex
    /\ deleting' = FALSE
    /\ hours' = [h \in AllHours |-> Unknown]
    /\ UNCHANGED <<time, events, inserted, rollupMu, report>>

\* hoursSince reads the counts of the hours from the first one on ...
countHours(r, span) ==
    LET since == IF span > time THEN 0 ELSE time - span
        seen  == {Hour(e.ts) : e \in {e \in events : Hour(e.ts) >= Hour(since)}} IN
    /\ report[r].pc = "idle"
    /\ report' = [report EXCEPT ![r] =
           [pc |-> "counted", since |-> since, out |-> {}, steady |-> ~deleting,
            counts |-> [h \in seen |-> Cardinality(HourOf(h))]]]
    /\ UNCHANGED <<time, events, inserted, hours, rollupMu, deleting>>

\* ... takes the mutex ...
takeMutex(r) ==
    /\ report[r].pc = "counted" /\ rollupMu = NoMutex
    /\ rollupMu' = r
    /\ report' = [report EXCEPT ![r].pc = "hours"]
    /\ UNCHANGED <<time, events, inserted, hours, deleting>>

\* A remembered hour is used when it has as many rows as were counted.
trusted(r, h) == hours[h].known /\ Cardinality(hours[h].rows) = report[r].counts[h]

\* The hour begins before the time asked for: it is scanned from there on, and
\* not remembered.
partial(r, h) == 2 * h < report[r].since

\* ... and adds up hour after hour.  An hour whose rows have gone since they
\* were counted adds nothing.
addHour(r, h) ==
    LET scan == {e \in HourOf(h) : e.ts >= report[r].since}
        got  == IF ~partial(r, h) /\ trusted(r, h) THEN hours[h].rows ELSE scan IN
    /\ report[r].pc = "hours"
    /\ h \in DOMAIN report[r].counts
    /\ report' = [report EXCEPT ![r] =
           [pc |-> "hours", since |-> @.since, out |-> @.out \cup got, steady |-> @.steady,
            counts |-> [g \in DOMAIN @.counts \ {h} |-> @.counts[g]]]]
    /\ hours' = IF partial(r, h) \/ trusted(r, h) THEN hours
                ELSE [hours EXCEPT ![h] = [known |-> TRUE, rows |-> scan]]
    /\ UNCHANGED <<time, events, inserted, rollupMu, deleting>>

\* Hours without rows are forgotten, and the report is made of the sum.
statsReport(r) ==
    /\ report[r].pc = "hours" /\ report[r].counts = [h \in {} |-> 0]
    /\ rollupMu' = NoMutex
    /\ report' = [report EXCEPT ![r].pc = "made"]
    /\ hours' = [h \in AllHours |->
           IF h >= Hour(report[r].since) /\ h \notin {Hour(e.ts) : e \in report[r].out}
           THEN Unknown ELSE hours[h]]
    /\ UNCHANGED <<time, events, inserted, deleting>>

reportEnds(r) ==
    /\ report[r].pc = "made"
    /\ report' = [report EXCEPT ![r] = NoReport]
    /\ UNCHANGED <<time, events, inserted, hours, rollupMu, deleting>>

StatsNext ==
    \/ Tick \/ Insert \/ PruneOld \/ reset
    \/ \E gone \in SUBSET events : deleteRows(gone)
    \/ \E r \in Reports :
        \/ \E span \in Spans : countHours(r, span)
        \/ takeMutex(r)
        \/ \E h \in AllHours : addHour(r, h)
        \/ statsReport(r) \/ reportEnds(r)

StatsSpec == StatsInit /\ [][StatsNext]_statsVars

-----------------------------------------------------------------------------

\* A report during which the database did not change shows exactly the rows
\* since the time it was asked for: no row of an hour remembered before it
\* changed, none deleted by an operation that has returned, none left out
\* because a shorter report had read a part of its hour (hoursSince, reset).
ReportIsExact ==
    \A r \in Reports : report[r].pc = "made" /\ report[r].steady =>
        report[r].out = {e \in events : e.ts >= report[r].since}

=============================================================================
