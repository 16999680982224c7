------------------------------ MODULE Pipeline ------------------------------
(***************************************************************************)
(* The routing-data pipeline: a list of steps that rebuild the routing     *)
(* data, each with its own period, its upstream steps and a timestamp      *)
(* file.  A round (pipeline.Run) walks the list once.  Rounds are started  *)
(* by the systemd timer, by an administrator (CLI or panel) and by the     *)
(* "route" command; a file lock (flock) keeps them apart, except for       *)
(* --dry-run rounds, which take no lock.                                   *)
(*                                                                         *)
(* Time is counted in ticks of the timer's period.  A timestamp is kept as *)
(* its age, saturated at AgeCap: an age of AgeCap is beyond every period   *)
(* even for a round that started MaxRound ticks ago, so it stands for      *)
(* "older" and for "no stamp" alike, which the code treats the same way.   *)
(***************************************************************************)
EXTENDS Integers, FiniteSets

CONSTANTS
  N,              \* number of steps; a step is its position in the list
  Every,          \* Every[i]: the period of step i, in ticks; 0 is "always"
  Needs,          \* Needs[i]: the upstream steps of step i
  Critical,       \* the steps whose failure ends the round
  PreviewWrites,  \* the steps that publish even in a preview round
  Authority,      \* the step that reads the administrator's route list
  Timer,          \* the timer's process
  Operators,      \* processes of an administrator or of the panel
  Routers,        \* processes of the "route" command
  Requests,       \* the option records an administrator may start with
  NoProc,         \* nobody holds the lock
  MaxRound,       \* bound: ticks one round may last
  MaxStarts,      \* bound: rounds started by people
  MaxFaults,      \* bound: failures, kills and empty infra caches
  AgeCap          \* where ages saturate

Steps == 1..N
Procs == {Timer} \cup Operators \cup Routers

\* The administrator's list, an input beside the upstream products.
RouteList == 0

Option == [only : SUBSET Steps, force : BOOLEAN, dryRun : BOOLEAN, preview : BOOLEAN]

\* The timer runs "routing-data --quiet"; "route" runs one forced step.
TimerOption  == [only |-> {}, force |-> FALSE, dryRun |-> FALSE, preview |-> FALSE]
RouterOption == [only |-> {Authority}, force |-> TRUE, dryRun |-> FALSE, preview |-> FALSE]

\* Run refuses a list in which a step precedes one of its needs.
validate(needs) == \A i \in Steps : needs[i] \subseteq 1..(i - 1)

ASSUME StepAssumption ==
  /\ N \in Nat \ {0}
  /\ Every \in [Steps -> Nat]
  /\ Needs \in [Steps -> SUBSET Steps]
  /\ validate(Needs)
  /\ Critical \subseteq Steps
  /\ PreviewWrites \subseteq Steps
  /\ Authority \in Steps

ASSUME ProcAssumption ==
  /\ Timer \notin Operators /\ Timer \notin Routers
  /\ Operators \cap Routers = {}
  /\ NoProc \notin Procs
  /\ Requests \subseteq Option

ASSUME BoundAssumption ==
  /\ MaxRound \in Nat /\ MaxStarts \in Nat /\ MaxFaults \in Nat /\ AgeCap \in Nat
  /\ \A i \in Steps : Every[i] + MaxRound <= AgeCap

VARIABLES
  age,      \* age[i]: ticks since the time in step i's stamp file
  behind,   \* behind[i]: inputs of i that changed since i last read them
  lock,     \* holder of dns-stack-routing-data.lock
  pc,       \* where each process is
  opt,      \* the options of its round
  pos,      \* the step its round is at
  elapsed,  \* ticks since its round read the clock
  done,     \* steps that downstream steps may build on
  ran,      \* steps its round ran to success
  failed, blocked,  \* what its report says
  written,  \* steps whose product its round replaced
  missed,   \* inputs changed since its current step read them
  exit,     \* how its last round ended
  starts, faults    \* used budgets

shared == <<age, behind, lock>>
vars   == <<age, behind, lock, pc, opt, pos, elapsed, done, ran, failed,
            blocked, written, missed, exit, starts, faults>>

PC     == {"idle", "waiting", "deciding", "running", "stamping"}
Exit   == {"none", "ok", "locked", "error", "crashed"}

TypeOK ==
  /\ age \in [Steps -> 0..AgeCap]
  /\ behind \in [Steps -> SUBSET (Steps \cup {RouteList})]
  /\ lock \in Procs \cup {NoProc}
  /\ pc \in [Procs -> PC]
  /\ opt \in [Procs -> Option]
  /\ pos \in [Procs -> 1..(N + 1)]
  /\ elapsed \in [Procs -> 0..MaxRound]
  /\ done \in [Procs -> SUBSET Steps]
  /\ ran \in [Procs -> SUBSET Steps]
  /\ failed \in [Procs -> SUBSET Steps]
  /\ blocked \in [Procs -> SUBSET Steps]
  /\ written \in [Procs -> SUBSET Steps]
  /\ missed \in [Procs -> SUBSET (Steps \cup {RouteList})]
  /\ exit \in [Procs -> Exit]
  /\ starts \in 0..MaxStarts
  /\ faults \in 0..MaxFaults

Init ==
  /\ age = [i \in Steps |-> AgeCap]
  /\ behind = [i \in Steps |-> Needs[i]]
  /\ lock = NoProc
  /\ pc = [p \in Procs |-> "idle"]
  /\ opt = [p \in Procs |-> TimerOption]
  /\ pos = [p \in Procs |-> 1]
  /\ elapsed = [p \in Procs |-> 0]
  /\ done = [p \in Procs |-> {}]
  /\ ran = [p \in Procs |-> {}]
  /\ failed = [p \in Procs |-> {}]
  /\ blocked = [p \in Procs |-> {}]
  /\ written = [p \in Procs |-> {}]
  /\ missed = [p \in Procs |-> {}]
  /\ exit = [p \in Procs |-> "none"]
  /\ starts = 0
  /\ faults = 0

-----------------------------------------------------------------------------
(* Starting a round. *)

Set(f, p, v) == [f EXCEPT ![p] = v]

\* Run begins: the clock is read, the report and the done map are empty.
Begin(p, o) ==
  /\ pc' = Set(pc, p, "deciding")
  /\ opt' = Set(opt, p, o)
  /\ pos' = Set(pos, p, 1)
  /\ elapsed' = Set(elapsed, p, 0)
  /\ done' = Set(done, p, {})
  /\ ran' = Set(ran, p, {})
  /\ failed' = Set(failed, p, {})
  /\ blocked' = Set(blocked, p, {})
  /\ written' = Set(written, p, {})
  /\ missed' = Set(missed, p, {})
  /\ exit' = Set(exit, p, "none")
  /\ UNCHANGED <<age, behind>>

\* The process ends without running the pipeline.
Refuse(p, o, e) ==
  /\ pc' = Set(pc, p, "idle")
  /\ opt' = Set(opt, p, o)
  /\ exit' = Set(exit, p, e)
  /\ UNCHANGED <<shared, pos, elapsed, done, ran, failed, blocked, written, missed>>

\* Mutant: the lock is not looked at.
AcquireAnyway(p) == lock' = p

Acquire(p) == lock = NoProc /\ lock' = p

\* cmdRoutingData: a dry run takes no lock; a second round is skipped quietly
\* unless it was forced, in which case the administrator gets an error.
cmdRoutingData(p, o) ==
  /\ pc[p] = "idle"
  /\ \/ o.dryRun /\ Begin(p, o) /\ UNCHANGED lock
     \/ ~o.dryRun /\ Acquire(p) /\ Begin(p, o)
     \/ ~o.dryRun /\ lock # NoProc /\ o.force /\ Refuse(p, o, "error")
     \/ ~o.dryRun /\ lock # NoProc /\ ~o.force /\ Refuse(p, o, "locked")

StartTimer == cmdRoutingData(Timer, TimerOption) /\ UNCHANGED <<starts, faults>>

StartOperator(p) ==
  /\ starts < MaxStarts /\ starts' = starts + 1
  /\ \E o \in Requests : cmdRoutingData(p, o)
  /\ UNCHANGED faults

\* A product or a list changed: its readers are behind, and so is a step that
\* has already read it and not yet published.
Changed(s) ==
  /\ behind' = [i \in Steps |-> IF s \in Needs[i] \/ (s = RouteList /\ i = Authority)
                                THEN behind[i] \cup {s} ELSE behind[i]]
  /\ missed' = [p \in Procs |-> IF pc[p] = "running" THEN missed[p] \cup {s} ELSE missed[p]]

\* "route add|remove cn": the list file is saved first; then the command waits
\* for the lock (or, with --no-apply, leaves the rest to the timer).
cmdRoute(p) ==
  /\ pc[p] = "idle"
  /\ starts < MaxStarts /\ starts' = starts + 1
  /\ Changed(RouteList)
  /\ \/ pc' = Set(pc, p, "waiting")
     \/ pc' = pc
  /\ opt' = Set(opt, p, RouterOption)
  /\ exit' = Set(exit, p, "none")
  /\ UNCHANGED <<age, lock, pos, elapsed, done, ran, failed, blocked, written, faults>>

\* rebuildAuthorityRoutes: retry the lock for 90 seconds, then give up.
RouteAcquire(p) ==
  /\ pc[p] = "waiting"
  /\ Acquire(p)
  /\ Begin(p, RouterOption)
  /\ UNCHANGED <<starts, faults>>

RouteTimeout(p) ==
  /\ pc[p] = "waiting" /\ lock # NoProc
  /\ Refuse(p, RouterOption, "error")
  /\ UNCHANGED <<starts, faults>>

-----------------------------------------------------------------------------
(* One step of a round. *)
\* Mutant: an empty --only selects nothing.
selectedOnly(o, i) == i \in o.only

selected(o, i) == o.only = {} \/ i \in o.only

\* Mutant: only the first of a step's needs is looked at.
blockedByFirst(i, d) == {n \in Needs[i] : \A m \in Needs[i] : n <= m} \ d

blockedBy(i, d) == Needs[i] \ d

\* now.Sub(last), with now the time the round began at.
ageAtStart(p, i) == age[i] - elapsed[p]

fresh(p, i) == /\ ~opt[p].force
               /\ Every[i] > 0
               /\ ageAtStart(p, i) < Every[i]

verdict(p, i) ==
  IF ~selected(opt[p], i) THEN "skipped"
  ELSE IF blockedBy(i, done[p]) # {} THEN "blocked"
  ELSE IF fresh(p, i) THEN "skipped"
  ELSE "run"

\* The kernel releases the flock with the process.  Mutant: the lock stays.
releasedNever(p) == lock
released(p) == IF lock = p THEN NoProc ELSE lock

\* The process ends: its lock is released, and of what it had in memory the
\* exit status is all that is left.
Leave(p, e) ==
  /\ pc' = Set(pc, p, "idle")
  /\ exit' = Set(exit, p, e)
  /\ lock' = released(p)
  /\ pos' = Set(pos, p, 1)
  /\ elapsed' = Set(elapsed, p, 0)
  /\ done' = Set(done, p, {})
  /\ ran' = Set(ran, p, {})
  /\ failed' = Set(failed, p, {})
  /\ blocked' = Set(blocked, p, {})
  /\ written' = Set(written, p, {})
  /\ UNCHANGED opt

\* Skipped steps count as done; so do the steps a dry run would have run.
skippedDone(p) == done[p] \cup {pos[p]}

Skip(p) ==
  /\ pc[p] = "deciding" /\ pos[p] <= N
  /\ LET v == verdict(p, pos[p]) IN v = "skipped" \/ (v = "run" /\ opt[p].dryRun)
  /\ done' = Set(done, p, skippedDone(p))
  /\ pos' = Set(pos, p, pos[p] + 1)
  /\ UNCHANGED <<shared, pc, opt, elapsed, ran, failed, blocked, written, missed, exit,
                 starts, faults>>

Block(p) ==
  /\ pc[p] = "deciding" /\ pos[p] <= N
  /\ verdict(p, pos[p]) = "blocked"
  /\ blocked' = Set(blocked, p, blocked[p] \cup {pos[p]})
  /\ pos' = Set(pos, p, pos[p] + 1)
  /\ UNCHANGED <<shared, pc, opt, elapsed, done, ran, failed, written, missed, exit,
                 starts, faults>>

\* step.Run begins and reads its inputs.
RunStep(p) ==
  /\ pc[p] = "deciding" /\ pos[p] <= N
  /\ verdict(p, pos[p]) = "run" /\ ~opt[p].dryRun
  /\ pc' = Set(pc, p, "running")
  /\ missed' = Set(missed, p, {})
  /\ UNCHANGED <<shared, opt, pos, elapsed, done, ran, failed, blocked, written, exit,
                 starts, faults>>

\* Step i's product is replaced: i is behind only by what it read too early,
\* and every reader of i is behind.
Replaced(p, i) ==
  [j \in Steps |-> IF j = i THEN missed[p] \cap (Needs[i] \cup {RouteList})
                   ELSE IF i \in Needs[j] THEN behind[j] \cup {i} ELSE behind[j]]

\* What p's step did not see is settled; the others may have missed S.
Missed(p, S) ==
  [q \in Procs |-> IF q = p THEN {}
                   ELSE IF pc[q] = "running" THEN missed[q] \cup S ELSE missed[q]]

mayWrite(p, i) == ~opt[p].preview \/ i \in PreviewWrites

\* The effect of step i of p's round on the products: replaced, or left alone.
Effect(p, i, writes) ==
  IF writes
  THEN /\ mayWrite(p, i)
       /\ behind' = Replaced(p, i)
       /\ missed' = Missed(p, {i})
  ELSE /\ missed' = Missed(p, {})
       /\ UNCHANGED behind

\* The step succeeds, with a new product or with the previous one kept:
\* nothing new upstream, a missing criterion, a preview.  For the authority
\* step outside preview a kept product means that Unbound's infra cache is
\* still empty, which passes.
Succeed(p, writes) ==
  /\ pc[p] = "running"
  /\ Effect(p, pos[p], writes)
  /\ IF ~writes /\ pos[p] = Authority /\ ~opt[p].preview
     THEN faults < MaxFaults /\ faults' = faults + 1
     ELSE UNCHANGED faults
  /\ written' = Set(written, p, IF writes THEN written[p] \cup {pos[p]} ELSE written[p])
  /\ pc' = Set(pc, p, "stamping")
  /\ done' = Set(done, p, done[p] \cup {pos[p]})
  /\ ran' = Set(ran, p, ran[p] \cup {pos[p]})
  /\ UNCHANGED <<age, lock, opt, pos, elapsed, failed, blocked, exit, starts>>

\* The step fails, before or after it replaced (part of) its product.  A
\* critical step's failure ends the round.
Fail(p, writes) ==
  /\ pc[p] = "running"
  /\ faults < MaxFaults /\ faults' = faults + 1
  /\ Effect(p, pos[p], writes)
  /\ IF pos[p] \in Critical
     THEN Leave(p, "error")
     ELSE /\ pc' = Set(pc, p, "deciding")
          /\ pos' = Set(pos, p, pos[p] + 1)
          /\ failed' = Set(failed, p, failed[p] \cup {pos[p]})
          /\ written' = Set(written, p, IF writes THEN written[p] \cup {pos[p]} ELSE written[p])
          /\ UNCHANGED <<exit, lock, opt, elapsed, done, ran, blocked>>
  /\ UNCHANGED <<age, starts>>

\* writeStamp records the time the round began, not the time the step ended;
\* a stamp that cannot be written is only a warning.
Stamp(p) ==
  /\ pc[p] = "stamping"
  /\ \/ age' = Set(age, pos[p], elapsed[p]) /\ UNCHANGED faults
     \/ faults < MaxFaults /\ faults' = faults + 1 /\ UNCHANGED age
  /\ pc' = Set(pc, p, "deciding")
  /\ pos' = Set(pos, p, pos[p] + 1)
  /\ UNCHANGED <<behind, lock, opt, elapsed, done, ran, failed, blocked, written,
                 missed, exit, starts>>

\* The list is walked; Report.Err is an error iff a step failed.
Finish(p) ==
  /\ pc[p] = "deciding" /\ pos[p] = N + 1
  /\ Leave(p, IF failed[p] = {} THEN "ok" ELSE "error")
  /\ UNCHANGED <<age, behind, missed, starts, faults>>

\* The process is killed (OOM, TimeoutStartSec, reboot); the kernel drops its
\* flock, and what it had in memory is gone.
Kill(p) ==
  /\ pc[p] # "idle"
  /\ faults < MaxFaults /\ faults' = faults + 1
  /\ Leave(p, "crashed")
  /\ missed' = Missed(p, {})
  /\ UNCHANGED <<age, behind, starts>>

\* A tick of the clock.  No round outlives MaxRound (TimeoutStartSec).
older(a) == IF a < AgeCap THEN a + 1 ELSE a

Tick ==
  /\ \A p \in Procs : pc[p] \in {"deciding", "running", "stamping"} => elapsed[p] < MaxRound
  /\ age' = [i \in Steps |-> older(age[i])]
  /\ elapsed' = [p \in Procs |-> IF pc[p] \in {"deciding", "running", "stamping"}
                                 THEN elapsed[p] + 1 ELSE elapsed[p]]
  /\ UNCHANGED <<behind, lock, pc, opt, pos, done, ran, failed, blocked, written, missed,
                 exit, starts, faults>>

Round(p) ==
  \/ Skip(p) \/ Block(p) \/ RunStep(p)
  \/ \E writes \in BOOLEAN : Succeed(p, writes) \/ Fail(p, writes)
  \/ Stamp(p) \/ Finish(p)

Next ==
  \/ StartTimer
  \/ \E p \in Operators : StartOperator(p)
  \/ \E p \in Routers : cmdRoute(p) \/ RouteAcquire(p) \/ RouteTimeout(p)
  \/ \E p \in Procs : Round(p) \/ Kill(p)
  \/ Tick

Spec == Init /\ [][Next]_vars

(***************************************************************************)
(* The timer keeps firing, the clock keeps ticking, and a process that can *)
(* take a step takes it.  The authority step publishes rather than keeps   *)
(* (an empty infra cache is a fault, and faults are bounded).  Nothing     *)
(* obliges people to start rounds.                                         *)
(***************************************************************************)
FairSpec ==
  /\ Spec
  /\ WF_vars(StartTimer)
  /\ WF_vars(Tick)
  /\ \A p \in Procs : WF_vars(Round(p))
  /\ \A p \in Routers : WF_vars(RouteAcquire(p))
-----------------------------------------------------------------------------
(* Properties. *)

Active(p) == pc[p] \in {"deciding", "running", "stamping"}

(***************************************************************************)
(* No step builds on stale data: when a step runs, none of the steps it    *)
(* needs failed or was blocked in the same round, selected or not          *)
(* (TestFailedUpstreamBlocksDownstreamInsteadOfUsingStaleData).            *)
(***************************************************************************)
NoStaleDownstream ==
  \A p \in Procs : \A i \in ran[p] : Needs[i] \cap (failed[p] \cup blocked[p]) = {}

(***************************************************************************)
(* A round is not torn: what a round published is up to date with the      *)
(* upstream products it was computed from for as long as the round lasts,  *)
(* because the list is in dependency order and nobody else publishes.      *)
(***************************************************************************)
RoundIsConsistent ==
  \A p \in Procs : Active(p) => \A i \in written[p] : behind[i] \subseteq {RouteList}

(***************************************************************************)
(* The exit status tells the truth: a blocked step is always explained by  *)
(* a failed one, so Report.Err, which looks at failures only, never        *)
(* reports success for a round that left a selected step behind.           *)
(***************************************************************************)
BlockedIsReported ==
  \A p \in Procs : blocked[p] # {} => failed[p] # {}

(***************************************************************************)
(* Every step runs again and again, whatever rounds people start, however  *)
(* long rounds take and whatever failed before.                            *)
(***************************************************************************)
EveryStepKeepsRunning ==
  \A i \in Steps : []<>(\E p \in Procs : pc[p] = "stamping" /\ pos[p] = i)

(***************************************************************************)
(* A saved route list takes effect even when the command that saved it     *)
(* gave up waiting or was killed, and even when the list was saved while a *)
(* round was already computing.                                            *)
(***************************************************************************)
EditsTakeEffect ==
  (RouteList \in behind[Authority]) ~> (RouteList \notin behind[Authority])
-----------------------------------------------------------------------------
(***************************************************************************)
(* The round that publishes: the one of the process that holds the lock.   *)
(* A step whose stamp is being written is over.                            *)
(***************************************************************************)
Holding   == lock # NoProc
RoundAt   == IF ~Holding THEN 1
             ELSE IF pc[lock] = "stamping" THEN pos[lock] + 1 ELSE pos[lock]
Computing == Holding /\ pc[lock] = "running"
Edited    == Computing /\ RouteList \in missed[lock]
Broken    == IF Holding THEN failed[lock] \cup blocked[lock] ELSE {}

Rounds == INSTANCE SerialRounds WITH
  holder <- lock, at <- RoundAt, reading <- Computing, edited <- Edited, broken <- Broken

(***************************************************************************)
(* With all processes at once, dry runs, refused starts, failures and      *)
(* kills, the products are what rounds one after the other make of them    *)
(* (cmdRoutingData's lock, Run's order of steps, the flock that dies with  *)
(* its process).                                                           *)
(***************************************************************************)
ImplementsSerialRounds == Rounds!SerialSpec
=============================================================================
