--------------------------- MODULE Pipeline_proofs ---------------------------
(***************************************************************************)
(* Proofs, for every list of steps in dependency order, every set of       *)
(* processes and every bound, of the type invariant of Pipeline and of its *)
(* safety properties.                                                      *)
(***************************************************************************)
EXTENDS Pipeline, TLAPS

USE StepAssumption, ProcAssumption, BoundAssumption

(***************************************************************************)
(* The invariant is TypeOK and, for every process, seven facts.            *)
(***************************************************************************)

\* The lock is held exactly by the process in a round that is no dry run.
Locked(p) == (lock = p) <=> (Active(p) /\ ~opt[p].dryRun)

\* A dry run never runs a step and never writes.
Dry(p) == opt[p].dryRun => pc[p] \notin {"running", "stamping"} /\ written[p] = {}

\* A process outside a round has an empty report.
Idle(p) == ~Active(p) =>
             ran[p] = {} /\ failed[p] = {} /\ blocked[p] = {} /\ written[p] = {}

\* The steps a round has passed are split between done and failed or blocked.
Passed(p) ==
  Active(p) =>
    /\ \A i \in Steps : i < pos[p] => i \in done[p] \/ i \in failed[p] \/ i \in blocked[p]
    /\ \A i \in Steps : i \in failed[p] \/ i \in blocked[p] => i < pos[p] /\ i \notin done[p]
    /\ \A i \in Steps : i \in done[p] => i < pos[p] \/ (i = pos[p] /\ pc[p] = "stamping")
    /\ pos[p] = N + 1 => pc[p] = "deciding"
    /\ pc[p] = "stamping" => pos[p] \in done[p]

\* What ran had its needs done; a running step has its needs done.
Ready(p) ==
  /\ \A i \in ran[p] : i \in done[p] /\ \A j \in Needs[i] : j \in done[p]
  /\ pc[p] = "running" => \A j \in Needs[pos[p]] : j \in done[p]

\* What a round wrote lies behind it and has seen every upstream product; its
\* running step has missed no upstream product either.
Fresh(p) ==
  /\ \A i \in written[p] : i <= pos[p] /\ behind[i] \subseteq {RouteList}
  /\ pc[p] \in {"deciding", "running"} => pos[p] \notin written[p]
  /\ pc[p] = "running" => missed[p] \subseteq {RouteList}

Reported(p) == blocked[p] # {} => failed[p] # {}

ProcInv(p) ==
  Locked(p) /\ Dry(p) /\ Idle(p) /\ Passed(p) /\ Ready(p) /\ Fresh(p) /\ Reported(p)

IInv == TypeOK /\ \A p \in Procs : ProcInv(p)
-----------------------------------------------------------------------------
\* Needs point backwards in the list: what Run's validate establishes.
LEMMA NeedsBackwards == \A i \in Steps : \A j \in Needs[i] : j \in Steps /\ j < i
  BY DEF validate, Steps

LEMMA ProcFacts == /\ Timer \in Procs /\ Operators \subseteq Procs /\ Routers \subseteq Procs
                   /\ \A p \in Procs : p # NoProc
  BY DEF Procs

LEMMA OptionFacts == TimerOption \in Option /\ RouterOption \in Option
  BY DEF TimerOption, RouterOption, Option, Steps

\* What TypeOK says of one process.
LEMMA TypeAt ==
  ASSUME TypeOK, NEW p \in Procs
  PROVE  /\ pc[p] \in PC /\ opt[p] \in Option /\ pos[p] \in 1..(N + 1)
         /\ done[p] \subseteq Steps /\ ran[p] \subseteq Steps /\ failed[p] \subseteq Steps
         /\ blocked[p] \subseteq Steps /\ written[p] \subseteq Steps
         /\ elapsed[p] \in 0..MaxRound /\ exit[p] \in Exit
         /\ missed[p] \subseteq Steps \cup {RouteList}
  BY DEF TypeOK

\* What a step leaves of the local state of a process that does not take it.
Same(q) ==
  /\ pc'[q] = pc[q] /\ opt'[q] = opt[q] /\ pos'[q] = pos[q] /\ done'[q] = done[q]
  /\ ran'[q] = ran[q] /\ failed'[q] = failed[q] /\ blocked'[q] = blocked[q]
  /\ written'[q] = written[q]

\* A step of another process preserves the invariant of q unless it takes q's
\* lock or makes what q wrote, or what q has read, stale.
LEMMA OtherProc ==
  ASSUME NEW q \in Procs, ProcInv(q), Same(q), (lock' = q) <=> (lock = q),
         \A i \in written[q] : behind'[i] \subseteq behind[i] \cup {RouteList},
         pc[q] = "running" => missed'[q] \subseteq missed[q] \cup {RouteList}
  PROVE  ProcInv(q)'
  <1> USE DEF ProcInv, Same, Active
  <1>1. Locked(q)' /\ Dry(q)' /\ Idle(q)'
    BY DEF Locked, Dry, Idle
  <1>2. Passed(q)'
    BY DEF Passed
  <1>3. Ready(q)' /\ Reported(q)'
    BY DEF Ready, Reported
  <1>4. Fresh(q)'
    BY DEF Fresh
  <1> QED BY <1>1, <1>2, <1>3, <1>4

\* A process that does not hold the lock has written nothing and runs nothing.
LEMMA NotHolder ==
  ASSUME NEW q \in Procs, ProcInv(q), lock # q
  PROVE  written[q] = {} /\ pc[q] \notin {"running", "stamping"}
  BY DEF ProcInv, Locked, Dry, Idle, Active

\* What lies behind a step lies behind the next one too.
LEMMA Behind == \A i, k \in Steps : k <= i => k <= i + 1 /\ k # i + 1
  BY DEF Steps

\* The steps passed once the round moves on from step i.
LEMMA Advance ==
  ASSUME NEW i \in Steps
  PROVE  \A k \in Steps : (k < i + 1) <=> (k < i \/ k = i)
  BY DEF Steps

\* A round is shorter than AgeCap, and a step that runs or stamps is in the list.
LEMMA RoundCap == \A e \in 0..MaxRound : e \in 0..AgeCap
  <1>1. 1 \in Steps
    BY DEF Steps
  <1>2. Every[1] \in Nat /\ Every[1] + MaxRound <= AgeCap
    BY <1>1
  <1> QED BY <1>2

LEMMA InList ==
  ASSUME TypeOK, NEW p \in Procs, ProcInv(p), pc[p] \in {"running", "stamping"}
  PROVE  pos[p] \in Steps /\ pos[p] + 1 \in 1..(N + 1)
  <1>1. pos[p] \in 1..(N + 1)
    BY TypeAt
  <1>2. pos[p] # N + 1
    BY DEF ProcInv, Passed, Active
  <1> QED BY <1>1, <1>2 DEF Steps

\* The initial state satisfies the invariant.
LEMMA InitIInv == Init => IInv
  <1> SUFFICES ASSUME Init PROVE IInv
    OBVIOUS
  <1>1. TypeOK
    BY OptionFacts DEF Init, TypeOK, Steps, PC, Exit
  <1>2. ASSUME NEW p \in Procs PROVE ProcInv(p)
    <2>1. /\ pc[p] = "idle" /\ ran[p] = {} /\ failed[p] = {} /\ blocked[p] = {}
          /\ written[p] = {} /\ lock # p
      BY ProcFacts DEF Init
    <2> QED BY <2>1 DEF ProcInv, Locked, Dry, Idle, Passed, Ready, Fresh, Reported, Active
  <1> QED BY <1>1, <1>2 DEF IInv

\* A round begins, with the lock or as a dry run.
LEMMA BeginIInv ==
  ASSUME IInv, NEW p \in Procs, NEW o \in Option, ~Active(p), Begin(p, o),
         starts' \in 0..MaxStarts, faults' = faults,
         (o.dryRun /\ lock' = lock) \/ (~o.dryRun /\ Acquire(p))
  PROVE  IInv'
  <1> USE DEF IInv
  <1>0. 1 \in 1..(N + 1) /\ 0 \in 0..MaxRound
    OBVIOUS
  <1>1. TypeOK'
    BY <1>0, ProcFacts DEF Begin, Acquire, TypeOK, Set, PC, Exit
  <1>2. /\ pc'[p] = "deciding" /\ opt'[p] = o /\ pos'[p] = 1 /\ done'[p] = {} /\ ran'[p] = {}
        /\ failed'[p] = {} /\ blocked'[p] = {} /\ written'[p] = {} /\ missed'[p] = {}
    BY DEF Begin, TypeOK, Set
  <1>3. ASSUME NEW q \in Procs, q # p
        PROVE  Same(q) /\ behind' = behind /\ missed'[q] = missed[q]
    BY <1>3 DEF Begin, TypeOK, Set, Same
  <1>4. ProcInv(p)'
    <2>1. Locked(p)'
      BY <1>2, ProcFacts DEF Locked, Active, Acquire, ProcInv
    <2> QED BY <1>2, <2>1 DEF ProcInv, Dry, Idle, Passed, Ready, Fresh, Reported, Active, Steps
  <1>5. ASSUME NEW q \in Procs, q # p PROVE ProcInv(q)'
    <2>1. (lock' = q) <=> (lock = q)
      BY <1>5, ProcFacts DEF Acquire
    <2> QED BY <1>3, <1>5, <2>1, OtherProc
  <1> QED BY <1>1, <1>4, <1>5

\* A process gives up because another one holds the lock.
LEMMA RefuseIInv ==
  ASSUME IInv, NEW p \in Procs, NEW o \in Option, NEW e \in Exit, ~Active(p), Refuse(p, o, e),
         starts' \in 0..MaxStarts, faults' = faults
  PROVE  IInv'
  <1> USE DEF IInv
  <1>1. TypeOK'
    BY DEF Refuse, shared, TypeOK, Set, PC
  <1>2. /\ pc'[p] = "idle" /\ opt'[p] = o /\ ran'[p] = {} /\ failed'[p] = {}
        /\ blocked'[p] = {} /\ written'[p] = {} /\ lock' = lock /\ lock # p
    BY DEF Refuse, shared, TypeOK, Set, ProcInv, Idle, Locked
  <1>3. ASSUME NEW q \in Procs, q # p
        PROVE  Same(q) /\ behind' = behind /\ missed'[q] = missed[q] /\ lock' = lock
    BY <1>3 DEF Refuse, shared, TypeOK, Set, Same
  <1>4. ProcInv(p)'
    BY <1>2 DEF ProcInv, Locked, Dry, Idle, Passed, Ready, Fresh, Reported, Active
  <1>5. ASSUME NEW q \in Procs, q # p PROVE ProcInv(q)'
    BY <1>3, <1>5, OtherProc
  <1> QED BY <1>1, <1>4, <1>5

\* The route command saves the list: readers of the list fall behind by it.
LEMMA RouteIInv ==
  ASSUME IInv, NEW p \in Procs, cmdRoute(p)
  PROVE  IInv'
  <1> USE DEF IInv
  <1>1. TypeOK'
    BY OptionFacts DEF cmdRoute, Changed, TypeOK, Set, PC, Exit
  <1>2. /\ pc[p] = "idle" /\ pc'[p] \in {"idle", "waiting"} /\ lock' = lock
        /\ ran'[p] = ran[p] /\ failed'[p] = failed[p] /\ blocked'[p] = blocked[p]
        /\ written'[p] = written[p]
    BY DEF cmdRoute, TypeOK, Set
  <1>3. ASSUME NEW q \in Procs, q # p
        PROVE  /\ Same(q) /\ lock' = lock
               /\ missed'[q] \subseteq missed[q] \cup {RouteList}
               /\ \A i \in Steps : behind'[i] \subseteq behind[i] \cup {RouteList}
    <2>1. Same(q) /\ lock' = lock
      BY <1>3 DEF cmdRoute, TypeOK, Set, Same
    <2>2. /\ missed'[q] \subseteq missed[q] \cup {RouteList}
          /\ \A i \in Steps : behind'[i] \subseteq behind[i] \cup {RouteList}
      BY DEF cmdRoute, Changed, TypeOK
    <2> QED BY <2>1, <2>2
  <1>4. ProcInv(p)'
    BY <1>2 DEF ProcInv, Locked, Dry, Idle, Passed, Ready, Fresh, Reported, Active
  <1>5. ASSUME NEW q \in Procs, q # p PROVE ProcInv(q)'
    BY <1>3, <1>5, OtherProc, TypeAt
  <1> QED BY <1>1, <1>4, <1>5

\* A step is skipped.
LEMMA SkipIInv ==
  ASSUME IInv, NEW p \in Procs, Skip(p)
  PROVE  IInv'
  <1> USE DEF IInv
  <1> DEFINE i == pos[p]
  <1>0. i \in Steps /\ pc[p] = "deciding" /\ i + 1 \in 1..(N + 1)
    BY TypeAt DEF Skip, skippedDone, Steps
  <1>1. TypeOK'
    BY <1>0 DEF Skip, skippedDone, shared, TypeOK, Set
  <1>2. /\ pc'[p] = pc[p] /\ opt'[p] = opt[p] /\ pos'[p] = i + 1 /\ done'[p] = done[p] \cup {i}
        /\ ran'[p] = ran[p] /\ failed'[p] = failed[p] /\ blocked'[p] = blocked[p]
        /\ written'[p] = written[p] /\ behind' = behind /\ lock' = lock
    BY DEF Skip, skippedDone, shared, TypeOK, Set
  <1>3. ASSUME NEW q \in Procs, q # p
        PROVE  Same(q) /\ behind' = behind /\ missed' = missed /\ lock' = lock
    BY <1>3 DEF Skip, skippedDone, shared, TypeOK, Set, Same
  <1>4. ProcInv(p)'
    <2>1. Locked(p)' /\ Dry(p)' /\ Idle(p)' /\ Reported(p)'
      BY <1>0, <1>2 DEF ProcInv, Locked, Dry, Idle, Reported, Active
    <2>2. Passed(p)'
      <3>1. \A k \in Steps : (k < i + 1) <=> (k < i \/ k = i)
        BY <1>0, Advance
      <3>2. /\ \A k \in Steps : k < i => k \in done[p] \/ k \in failed[p] \/ k \in blocked[p]
            /\ \A k \in Steps : k \in failed[p] \/ k \in blocked[p] => k < i /\ k \notin done[p]
            /\ \A k \in Steps : k \in done[p] => k < i
        BY <1>0 DEF ProcInv, Passed, Active
      <3>3. \A k \in Steps : ~(k < k)
        BY DEF Steps
      <3> HIDE DEF i
      <3> QED BY <1>0, <1>2, <3>1, <3>2, <3>3 DEF Passed, Active
    <2>3. Ready(p)'
      BY <1>0, <1>2 DEF ProcInv, Ready
    <2>4. Fresh(p)'
      <3>1. \A k \in written[p] : k \in Steps /\ k <= i /\ behind[k] \subseteq {RouteList}
        BY TypeAt DEF ProcInv, Fresh
      <3>2. \A k \in Steps : k <= i => k <= i + 1 /\ k # i + 1
        BY <1>0, Behind
      <3>3. pc'[p] = "deciding"
        BY <1>0, <1>2
      <3> HIDE DEF i
      <3> QED BY <1>2, <3>1, <3>2, <3>3 DEF Fresh
    <2> QED BY <2>1, <2>2, <2>3, <2>4 DEF ProcInv
  <1>5. ASSUME NEW q \in Procs, q # p PROVE ProcInv(q)'
    BY <1>3, <1>5, OtherProc
  <1> QED BY <1>1, <1>4, <1>5

\* A step is blocked: one of its needs, which lies behind it, is not done and
\* therefore failed or was blocked itself.
LEMMA BlockIInv ==
  ASSUME IInv, NEW p \in Procs, Block(p)
  PROVE  IInv'
  <1> USE DEF IInv
  <1> DEFINE i == pos[p]
  <1>0. i \in Steps /\ pc[p] = "deciding" /\ i + 1 \in 1..(N + 1)
    BY TypeAt DEF Block, Steps
  <1>1. TypeOK'
    BY <1>0 DEF Block, shared, TypeOK, Set
  <1>2. /\ pc'[p] = pc[p] /\ opt'[p] = opt[p] /\ pos'[p] = i + 1 /\ done'[p] = done[p]
        /\ ran'[p] = ran[p] /\ failed'[p] = failed[p] /\ blocked'[p] = blocked[p] \cup {i}
        /\ written'[p] = written[p] /\ behind' = behind /\ lock' = lock
    BY DEF Block, shared, TypeOK, Set
  <1>3. ASSUME NEW q \in Procs, q # p
        PROVE  Same(q) /\ behind' = behind /\ missed' = missed /\ lock' = lock
    BY <1>3 DEF Block, shared, TypeOK, Set, Same
  <1>4. ProcInv(p)'
    <2>1. PICK j \in Needs[i] : j \notin done[p]
      BY DEF Block, verdict, blockedBy
    <2>2. failed[p] # {}
      BY <1>0, <2>1, NeedsBackwards DEF ProcInv, Passed, Reported, Active
    <2>3. Locked(p)' /\ Dry(p)' /\ Idle(p)' /\ Reported(p)'
      BY <1>0, <1>2, <2>2 DEF ProcInv, Locked, Dry, Idle, Reported, Active
    <2>4. Passed(p)'
      <3>1. \A k \in Steps : (k < i + 1) <=> (k < i \/ k = i)
        BY <1>0, Advance
      <3>2. /\ \A k \in Steps : k < i => k \in done[p] \/ k \in failed[p] \/ k \in blocked[p]
            /\ \A k \in Steps : k \in failed[p] \/ k \in blocked[p] => k < i /\ k \notin done[p]
            /\ \A k \in Steps : k \in done[p] => k < i
        BY <1>0 DEF ProcInv, Passed, Active
      <3>3. \A k \in Steps : ~(k < k)
        BY DEF Steps
      <3> HIDE DEF i
      <3> QED BY <1>0, <1>2, <3>1, <3>2, <3>3 DEF Passed, Active
    <2>5. Ready(p)'
      BY <1>0, <1>2 DEF ProcInv, Ready
    <2>6. Fresh(p)'
      <3>1. \A k \in written[p] : k \in Steps /\ k <= i /\ behind[k] \subseteq {RouteList}
        BY TypeAt DEF ProcInv, Fresh
      <3>2. \A k \in Steps : k <= i => k <= i + 1 /\ k # i + 1
        BY <1>0, Behind
      <3>3. pc'[p] = "deciding"
        BY <1>0, <1>2
      <3> HIDE DEF i
      <3> QED BY <1>2, <3>1, <3>2, <3>3 DEF Fresh
    <2> QED BY <2>3, <2>4, <2>5, <2>6 DEF ProcInv
  <1>5. ASSUME NEW q \in Procs, q # p PROVE ProcInv(q)'
    BY <1>3, <1>5, OtherProc
  <1> QED BY <1>1, <1>4, <1>5

\* A step starts: its needs are done, and it has read their products.
LEMMA RunStepIInv ==
  ASSUME IInv, NEW p \in Procs, RunStep(p)
  PROVE  IInv'
  <1> USE DEF IInv
  <1>0. pos[p] \in Steps /\ pc[p] = "deciding"
    BY TypeAt DEF RunStep, Steps
  <1>1. TypeOK'
    BY DEF RunStep, shared, TypeOK, Set, PC
  <1>2. /\ pc'[p] = "running" /\ opt'[p] = opt[p] /\ pos'[p] = pos[p] /\ done'[p] = done[p]
        /\ ran'[p] = ran[p] /\ failed'[p] = failed[p] /\ blocked'[p] = blocked[p]
        /\ written'[p] = written[p] /\ missed'[p] = {} /\ behind' = behind /\ lock' = lock
        /\ ~opt[p].dryRun
    BY DEF RunStep, shared, TypeOK, Set
  <1>3. ASSUME NEW q \in Procs, q # p
        PROVE  Same(q) /\ behind' = behind /\ missed'[q] = missed[q] /\ lock' = lock
    BY <1>3 DEF RunStep, shared, TypeOK, Set, Same
  <1>4. ProcInv(p)'
    <2>1. \A j \in Needs[pos[p]] : j \in done[p]
      BY DEF RunStep, verdict, blockedBy
    <2>2. Locked(p)' /\ Dry(p)' /\ Idle(p)' /\ Reported(p)'
      BY <1>0, <1>2 DEF ProcInv, Locked, Dry, Idle, Reported, Active
    <2>3. Passed(p)'
      <3>1. pos[p] # N + 1
        BY <1>0 DEF Steps
      <3> QED BY <1>0, <1>2, <3>1 DEF ProcInv, Passed, Active
    <2>4. Ready(p)' /\ Fresh(p)'
      BY <1>0, <1>2, <2>1 DEF ProcInv, Ready, Fresh
    <2> QED BY <2>2, <2>3, <2>4 DEF ProcInv
  <1>5. ASSUME NEW q \in Procs, q # p PROVE ProcInv(q)'
    BY <1>3, <1>5, OtherProc
  <1> QED BY <1>1, <1>4, <1>5

\* What a running step may do to the products: its own is replaced by one that
\* has seen every upstream product, and only later steps fall behind.
LEMMA EffectFacts ==
  ASSUME IInv, NEW p \in Procs, NEW writes \in BOOLEAN, pc[p] = "running",
         Effect(p, pos[p], writes)
  PROVE  /\ pos[p] \in Steps /\ lock = p
         /\ behind' \in [Steps -> SUBSET (Steps \cup {RouteList})]
         /\ missed' \in [Procs -> SUBSET (Steps \cup {RouteList})]
         /\ \A i \in written[p] : behind'[i] \subseteq {RouteList}
         /\ writes => behind'[pos[p]] \subseteq {RouteList}
  <1> USE DEF IInv
  <1>1. pos[p] \in Steps
    BY InList
  <1>2. lock = p
    BY DEF ProcInv, Locked, Dry, Active
  <1>3. /\ behind' \in [Steps -> SUBSET (Steps \cup {RouteList})]
        /\ missed' \in [Procs -> SUBSET (Steps \cup {RouteList})]
    <2>1. CASE writes
      <3>1. behind' = Replaced(p, pos[p]) /\ missed' = Missed(p, {pos[p]})
        BY <2>1 DEF Effect
      <3>2. Replaced(p, pos[p]) \in [Steps -> SUBSET (Steps \cup {RouteList})]
        BY <1>1 DEF Replaced, TypeOK
      <3>3. Missed(p, {pos[p]}) \in [Procs -> SUBSET (Steps \cup {RouteList})]
        BY <1>1 DEF Missed, TypeOK
      <3> QED BY <3>1, <3>2, <3>3
    <2>2. CASE ~writes
      BY <2>2 DEF Effect, Missed, TypeOK
    <2> QED BY <2>1, <2>2
  <1>4. writes => behind'[pos[p]] \subseteq {RouteList}
    BY <1>1 DEF Effect, Replaced, ProcInv, Fresh
  <1>5. ASSUME NEW i \in written[p] PROVE behind'[i] \subseteq {RouteList}
    <2>1. i \in Steps /\ behind[i] \subseteq {RouteList} /\ i # pos[p] /\ i <= pos[p]
      BY TypeAt DEF ProcInv, Fresh
    <2>2. pos[p] \notin Needs[i]
      BY <1>1, <2>1, NeedsBackwards DEF Steps
    <2> QED BY <2>1, <2>2 DEF Effect, Replaced
  <1> QED BY <1>1, <1>2, <1>3, <1>4, <1>5

\* A step succeeds.
LEMMA SucceedIInv ==
  ASSUME IInv, NEW p \in Procs, NEW writes \in BOOLEAN, Succeed(p, writes)
  PROVE  IInv'
  <1> USE DEF IInv
  <1> DEFINE i == pos[p]
  <1>0. /\ i \in Steps /\ pc[p] = "running" /\ lock = p
        /\ behind' \in [Steps -> SUBSET (Steps \cup {RouteList})]
        /\ missed' \in [Procs -> SUBSET (Steps \cup {RouteList})]
        /\ \A k \in written[p] : behind'[k] \subseteq {RouteList}
        /\ writes => behind'[i] \subseteq {RouteList}
    BY EffectFacts DEF Succeed
  <1>1. TypeOK'
    <2>1. elapsed[p] \in 0..AgeCap
      BY TypeAt, RoundCap
    <2>2. faults' \in 0..MaxFaults
      BY DEF Succeed, TypeOK
    <2>3. done[p] \cup {i} \subseteq Steps /\ ran[p] \cup {i} \subseteq Steps
          /\ written[p] \cup {i} \subseteq Steps
      BY <1>0, TypeAt
    <2> QED BY <1>0, <2>1, <2>2, <2>3 DEF Succeed, TypeOK, Set, PC
  <1>2. /\ pc'[p] = "stamping" /\ opt'[p] = opt[p] /\ pos'[p] = i /\ done'[p] = done[p] \cup {i}
        /\ ran'[p] = ran[p] \cup {i} /\ failed'[p] = failed[p] /\ blocked'[p] = blocked[p]
        /\ lock' = lock
        /\ written'[p] = written[p] \/ (writes /\ written'[p] = written[p] \cup {i})
    BY DEF Succeed, TypeOK, Set
  <1>3. ASSUME NEW q \in Procs, q # p
        PROVE  Same(q) /\ lock' = lock
    BY <1>3 DEF Succeed, TypeOK, Set, Same
  <1>4. ProcInv(p)'
    <2>1. Locked(p)' /\ Dry(p)' /\ Idle(p)' /\ Reported(p)'
      BY <1>0, <1>2 DEF ProcInv, Locked, Dry, Idle, Reported, Active
    <2>2. Passed(p)'
      <3>1. /\ \A k \in Steps : k < i => k \in done[p] \/ k \in failed[p] \/ k \in blocked[p]
            /\ \A k \in Steps : k \in failed[p] \/ k \in blocked[p] => k < i /\ k \notin done[p]
            /\ \A k \in Steps : k \in done[p] => k < i
        BY <1>0 DEF ProcInv, Passed, Active
      <3>2. i # N + 1 /\ ~(i < i)
        BY <1>0 DEF Steps
      <3> HIDE DEF i
      <3> QED BY <1>0, <1>2, <3>1, <3>2 DEF Passed, Active
    <2>3. Ready(p)'
      BY <1>0, <1>2 DEF ProcInv, Ready
    <2>4. Fresh(p)'
      BY <1>0, <1>2, TypeAt DEF ProcInv, Fresh, Steps
    <2> QED BY <2>1, <2>2, <2>3, <2>4 DEF ProcInv
  <1>5. ASSUME NEW q \in Procs, q # p PROVE ProcInv(q)'
    BY <1>0, <1>3, <1>5, OtherProc, NotHolder
  <1> QED BY <1>1, <1>4, <1>5

\* A process leaves its round.
LEMMA LeaveIInv ==
  ASSUME IInv, NEW p \in Procs, NEW e \in Exit, Leave(p, e),
         age' \in [Steps -> 0..AgeCap],
         behind' \in [Steps -> SUBSET (Steps \cup {RouteList})],
         missed' \in [Procs -> SUBSET (Steps \cup {RouteList})],
         starts' \in 0..MaxStarts, faults' \in 0..MaxFaults,
         lock = p \/ (behind' = behind
                      /\ \A q \in Procs : pc[q] = "running" /\ q # p => missed'[q] = missed[q])
  PROVE  IInv'
  <1> USE DEF IInv
  <1>0. 1 \in 1..(N + 1) /\ 0 \in 0..MaxRound
    OBVIOUS
  <1>1. TypeOK'
    BY <1>0 DEF Leave, released, TypeOK, Set, PC
  <1>2. /\ pc'[p] = "idle" /\ ran'[p] = {} /\ failed'[p] = {} /\ blocked'[p] = {}
        /\ written'[p] = {} /\ lock' # p /\ opt'[p] = opt[p]
    BY ProcFacts DEF Leave, released, TypeOK, Set
  <1>3. ASSUME NEW q \in Procs, q # p
        PROVE  Same(q) /\ ((lock' = q) <=> (lock = q))
    <2>1. Same(q)
      BY <1>3 DEF Leave, released, TypeOK, Set, Same
    <2>2. (lock' = q) <=> (lock = q)
      BY <1>3, ProcFacts DEF Leave, released
    <2> QED BY <2>1, <2>2
  <1>4. ProcInv(p)'
    BY <1>2 DEF ProcInv, Locked, Dry, Idle, Passed, Ready, Fresh, Reported, Active
  <1>5. ASSUME NEW q \in Procs, q # p PROVE ProcInv(q)'
    BY <1>3, <1>5, OtherProc, NotHolder
  <1> QED BY <1>1, <1>4, <1>5

\* A step fails: the round moves on, or ends if the step is critical.
LEMMA FailIInv ==
  ASSUME IInv, NEW p \in Procs, NEW writes \in BOOLEAN, Fail(p, writes)
  PROVE  IInv'
  <1> USE DEF IInv
  <1> DEFINE i == pos[p]
  <1>0. /\ i \in Steps /\ pc[p] = "running" /\ lock = p
        /\ behind' \in [Steps -> SUBSET (Steps \cup {RouteList})]
        /\ missed' \in [Procs -> SUBSET (Steps \cup {RouteList})]
        /\ \A k \in written[p] : behind'[k] \subseteq {RouteList}
        /\ writes => behind'[i] \subseteq {RouteList}
    BY EffectFacts DEF Fail
  <1>a. faults' \in 0..MaxFaults /\ starts' = starts /\ age' = age
    BY DEF Fail, TypeOK
  <1>1. CASE i \in Critical
    BY <1>0, <1>a, <1>1, LeaveIInv DEF Fail, TypeOK, Exit
  <1>2. CASE i \notin Critical
    <2>1. TypeOK'
      <3>1. i + 1 \in 1..(N + 1)
        BY <1>0 DEF Steps
      <3>2. failed[p] \cup {i} \subseteq Steps /\ written[p] \cup {i} \subseteq Steps
        BY <1>0, TypeAt
      <3>3. pos' \in [Procs -> 1..(N + 1)] /\ pc' \in [Procs -> PC]
        BY <1>2, <3>1 DEF Fail, TypeOK, Set, PC
      <3>4. failed' \in [Procs -> SUBSET Steps] /\ written' \in [Procs -> SUBSET Steps]
        <4>1. /\ failed' = Set(failed, p, failed[p] \cup {i})
              /\ written' = Set(written, p, IF writes THEN written[p] \cup {i} ELSE written[p])
          BY <1>2 DEF Fail
        <4> HIDE DEF i
        <4> QED BY <3>2, <4>1 DEF TypeOK, Set
      <3> QED BY <1>0, <1>a, <1>2, <3>3, <3>4 DEF Fail, TypeOK
    <2>2. /\ pc'[p] = "deciding" /\ opt'[p] = opt[p] /\ pos'[p] = i + 1 /\ done'[p] = done[p]
          /\ ran'[p] = ran[p] /\ failed'[p] = failed[p] \cup {i} /\ blocked'[p] = blocked[p]
          /\ lock' = lock
          /\ written'[p] = written[p] \/ (writes /\ written'[p] = written[p] \cup {i})
      BY <1>2 DEF Fail, TypeOK, Set
    <2>3. ASSUME NEW q \in Procs, q # p
          PROVE  Same(q) /\ lock' = lock
      BY <1>2, <2>3 DEF Fail, TypeOK, Set, Same
    <2>4. ProcInv(p)'
      <3>1. Locked(p)' /\ Dry(p)' /\ Idle(p)' /\ Reported(p)'
        BY <1>0, <2>2 DEF ProcInv, Locked, Dry, Idle, Reported, Active
      <3>2. Passed(p)'
        <4>1. \A k \in Steps : (k < i + 1) <=> (k < i \/ k = i)
          BY <1>0, Advance
        <4>2. /\ \A k \in Steps : k < i => k \in done[p] \/ k \in failed[p] \/ k \in blocked[p]
              /\ \A k \in Steps : k \in failed[p] \/ k \in blocked[p] => k < i /\ k \notin done[p]
              /\ \A k \in Steps : k \in done[p] => k < i
          BY <1>0 DEF ProcInv, Passed, Active
        <4>3. \A k \in Steps : ~(k < k)
          BY DEF Steps
        <4> HIDE DEF i
        <4> QED BY <1>0, <2>2, <4>1, <4>2, <4>3 DEF Passed, Active
      <3>3. Ready(p)'
        BY <1>0, <2>2 DEF ProcInv, Ready
      <3>4. Fresh(p)'
        <4>1. \A k \in written[p] : k \in Steps /\ k <= i
          BY TypeAt DEF ProcInv, Fresh
        <4>2. \A k \in Steps : k <= i => k <= i + 1 /\ k # i + 1
          BY <1>0 DEF Steps
        <4>3. i <= i
          BY <1>0 DEF Steps
        <4> HIDE DEF i
        <4> QED BY <1>0, <2>2, <4>1, <4>2, <4>3 DEF Fresh
      <3> QED BY <3>1, <3>2, <3>3, <3>4 DEF ProcInv
    <2>5. ASSUME NEW q \in Procs, q # p PROVE ProcInv(q)'
      BY <1>0, <2>3, <2>5, OtherProc, NotHolder
    <2> QED BY <2>1, <2>4, <2>5
  <1> QED BY <1>1, <1>2

\* The stamp of a successful step is written, or could not be.
LEMMA StampIInv ==
  ASSUME IInv, NEW p \in Procs, Stamp(p)
  PROVE  IInv'
  <1> USE DEF IInv
  <1> DEFINE i == pos[p]
  <1>0. i \in Steps /\ pc[p] = "stamping" /\ i + 1 \in 1..(N + 1)
    BY InList DEF Stamp
  <1>1. TypeOK'
    <2>1. elapsed[p] \in 0..AgeCap
      BY TypeAt, RoundCap
    <2>2. age' \in [Steps -> 0..AgeCap]
      BY <2>1 DEF Stamp, TypeOK, Set
    <2>3. faults' \in 0..MaxFaults
      BY DEF Stamp, TypeOK
    <2> QED BY <1>0, <2>2, <2>3 DEF Stamp, TypeOK, Set, PC
  <1>2. /\ pc'[p] = "deciding" /\ opt'[p] = opt[p] /\ pos'[p] = i + 1 /\ done'[p] = done[p]
        /\ ran'[p] = ran[p] /\ failed'[p] = failed[p] /\ blocked'[p] = blocked[p]
        /\ written'[p] = written[p] /\ behind' = behind /\ lock' = lock
    BY DEF Stamp, TypeOK, Set
  <1>3. ASSUME NEW q \in Procs, q # p
        PROVE  Same(q) /\ behind' = behind /\ missed' = missed /\ lock' = lock
    BY <1>3 DEF Stamp, TypeOK, Set, Same
  <1>4. ProcInv(p)'
    <2>1. Locked(p)' /\ Dry(p)' /\ Idle(p)' /\ Reported(p)'
      BY <1>0, <1>2 DEF ProcInv, Locked, Dry, Idle, Reported, Active
    <2>2. Passed(p)'
      <3>1. \A k \in Steps : (k < i + 1) <=> (k < i \/ k = i)
        BY <1>0, Advance
      <3>2. /\ \A k \in Steps : k < i => k \in done[p] \/ k \in failed[p] \/ k \in blocked[p]
            /\ \A k \in Steps : k \in failed[p] \/ k \in blocked[p] => k < i /\ k \notin done[p]
            /\ \A k \in Steps : k \in done[p] => k < i \/ k = i
            /\ i \in done[p]
        BY <1>0 DEF ProcInv, Passed, Active
      <3> HIDE DEF i
      <3> QED BY <1>0, <1>2, <3>1, <3>2 DEF Passed, Active
    <2>3. Ready(p)'
      BY <1>0, <1>2 DEF ProcInv, Ready
    <2>4. Fresh(p)'
      <3>1. \A k \in written[p] : k \in Steps /\ k <= i /\ behind[k] \subseteq {RouteList}
        BY TypeAt DEF ProcInv, Fresh
      <3>2. \A k \in Steps : k <= i => k <= i + 1 /\ k # i + 1
        BY <1>0, Behind
      <3>3. pc'[p] = "deciding"
        BY <1>0, <1>2
      <3> HIDE DEF i
      <3> QED BY <1>2, <3>1, <3>2, <3>3 DEF Fresh
    <2> QED BY <2>1, <2>2, <2>3, <2>4 DEF ProcInv
  <1>5. ASSUME NEW q \in Procs, q # p PROVE ProcInv(q)'
    BY <1>3, <1>5, OtherProc
  <1> QED BY <1>1, <1>4, <1>5

\* The clock ticks.
LEMMA TickIInv == IInv /\ Tick => IInv'
  <1> SUFFICES ASSUME IInv, Tick PROVE IInv'
    OBVIOUS
  <1> USE DEF IInv
  <1>1. TypeOK'
    <2>1. age' \in [Steps -> 0..AgeCap]
      BY DEF Tick, older, TypeOK
    <2>2. elapsed' \in [Procs -> 0..MaxRound]
      BY DEF Tick, TypeOK
    <2> QED BY <2>1, <2>2 DEF Tick, TypeOK
  <1>2. ASSUME NEW q \in Procs PROVE ProcInv(q)'
    BY OtherProc DEF Tick, Same
  <1> QED BY <1>1, <1>2

\* Every step preserves the invariant: one case per action.
LEMMA NextIInv == IInv /\ [Next]_vars => IInv'
  <1> SUFFICES ASSUME IInv, [Next]_vars PROVE IInv'
    OBVIOUS
  <1>0. TypeOK
    BY DEF IInv
  <1>1. ASSUME NEW p \in Procs, NEW o \in Option, cmdRoutingData(p, o),
               starts' \in 0..MaxStarts, faults' = faults
        PROVE  IInv'
    <2>1. ~Active(p)
      BY <1>1 DEF cmdRoutingData, Active
    <2>2. "error" \in Exit /\ "locked" \in Exit
      BY DEF Exit
    <2>3. \/ Begin(p, o) /\ ((o.dryRun /\ lock' = lock) \/ (~o.dryRun /\ Acquire(p)))
          \/ Refuse(p, o, "error") \/ Refuse(p, o, "locked")
      BY <1>1 DEF cmdRoutingData
    <2> QED BY <1>1, <2>1, <2>2, <2>3, BeginIInv, RefuseIInv
  <1>2. CASE StartTimer
    BY <1>0, <1>1, <1>2, ProcFacts, OptionFacts DEF StartTimer, TypeOK
  <1>3. ASSUME NEW p \in Operators, StartOperator(p) PROVE IInv'
    <2>1. PICK o \in Requests : cmdRoutingData(p, o)
      BY <1>3 DEF StartOperator
    <2>2. starts' \in 0..MaxStarts /\ faults' = faults
      BY <1>0, <1>3 DEF StartOperator, TypeOK
    <2> QED BY <1>1, <2>1, <2>2, ProcFacts
  <1>4. ASSUME NEW p \in Routers, RouteAcquire(p) PROVE IInv'
    <2>1. ~Active(p) /\ ~RouterOption.dryRun
      BY <1>4 DEF RouteAcquire, Active, RouterOption
    <2> QED BY <1>0, <1>4, <2>1, ProcFacts, OptionFacts, BeginIInv DEF RouteAcquire, TypeOK
  <1>5. ASSUME NEW p \in Routers, RouteTimeout(p) PROVE IInv'
    BY <1>0, <1>5, ProcFacts, OptionFacts, RefuseIInv DEF RouteTimeout, Active, Exit, TypeOK
  <1>6. ASSUME NEW p \in Procs, Finish(p) PROVE IInv'
    BY <1>0, <1>6, LeaveIInv DEF Finish, Exit, TypeOK
  <1>7. ASSUME NEW p \in Procs, Kill(p) PROVE IInv'
    <2>1. /\ missed' \in [Procs -> SUBSET (Steps \cup {RouteList})]
          /\ \A q \in Procs : pc[q] = "running" /\ q # p => missed'[q] = missed[q]
      BY <1>0, <1>7 DEF Kill, Missed, TypeOK
    <2>2. faults' \in 0..MaxFaults /\ "crashed" \in Exit
      BY <1>0, <1>7 DEF Kill, TypeOK, Exit
    <2> QED BY <1>0, <1>7, <2>1, <2>2, LeaveIInv DEF Kill, TypeOK
  <1>8. ASSUME NEW p \in Procs, Round(p) PROVE IInv'
    BY <1>6, <1>8, SkipIInv, BlockIInv, RunStepIInv, SucceedIInv, FailIInv, StampIInv DEF Round
  <1>9. CASE UNCHANGED vars
    <2>1. TypeOK'
      BY <1>0, <1>9 DEF vars, TypeOK
    <2>2. ASSUME NEW q \in Procs PROVE ProcInv(q)'
      BY <1>9, OtherProc DEF IInv, vars, Same
    <2> QED BY <2>1, <2>2 DEF IInv
  <1> QED
    BY <1>2, <1>3, <1>4, <1>5, <1>7, <1>8, <1>9, RouteIInv, TickIInv, ProcFacts DEF Next

LEMMA SpecIInv == Spec => []IInv
  BY InitIInv, NextIInv, PTL DEF Spec

(***************************************************************************)
(* Type correctness of the pipeline scheduler.                             *)
(***************************************************************************)
THEOREM TypeCorrect == Spec => []TypeOK
  BY SpecIInv, PTL DEF IInv

(***************************************************************************)
(* Whatever the step list (in dependency order), the options and the       *)
(* interleaving of timer, administrators, route commands and kills, no     *)
(* step runs in a round in which one of its needs failed or was blocked.   *)
(***************************************************************************)
THEOREM NoStaleDownstreamHolds == Spec => []NoStaleDownstream
  <1>1. IInv => NoStaleDownstream
    <2> SUFFICES ASSUME IInv, NEW p \in Procs, NEW i \in ran[p],
                        NEW j \in Needs[i], j \in failed[p] \/ j \in blocked[p]
                 PROVE  FALSE
      BY DEF NoStaleDownstream
    <2>1. i \in Steps /\ j \in done[p] /\ j \in Steps
      BY TypeAt, NeedsBackwards DEF IInv, ProcInv, Ready
    <2> QED BY <2>1 DEF IInv, ProcInv, Passed, Idle
  <1> QED BY <1>1, SpecIInv, PTL

(***************************************************************************)
(* During a round nothing it published is behind an upstream product: the  *)
(* lock keeps other writers out and the list is in dependency order.       *)
(***************************************************************************)
THEOREM RoundIsConsistentHolds == Spec => []RoundIsConsistent
  <1>1. IInv => RoundIsConsistent
    BY DEF IInv, ProcInv, Fresh, RoundIsConsistent
  <1> QED BY <1>1, SpecIInv, PTL

(***************************************************************************)
(* A round with a blocked step has a failed step, so its exit status is an *)
(* error.                                                                  *)
(***************************************************************************)
THEOREM BlockedIsReportedHolds == Spec => []BlockedIsReported
  <1>1. IInv => BlockedIsReported
    BY DEF IInv, ProcInv, Reported, BlockedIsReported
  <1> QED BY <1>1, SpecIInv, PTL
-----------------------------------------------------------------------------
(***************************************************************************)
(* The refinement.  What a dry run, a refused start, the clock or a stamp  *)
(* does is a stutter; everything else is a step of the round that holds    *)
(* the lock, or an edit of the route list.                                 *)
(***************************************************************************)

\* The round as the process with the lock sees it, before and after a step.
LEMMA HolderSees ==
  ASSUME NEW p \in Procs
  PROVE  /\ lock = p =>
              /\ Holding /\ RoundAt = (IF pc[p] = "stamping" THEN pos[p] + 1 ELSE pos[p])
              /\ Computing = (pc[p] = "running")
              /\ Edited = (pc[p] = "running" /\ RouteList \in missed[p])
              /\ Broken = failed[p] \cup blocked[p]
         /\ lock' = p =>
              /\ Holding' /\ RoundAt' = (IF pc'[p] = "stamping" THEN pos'[p] + 1 ELSE pos'[p])
              /\ Computing' = (pc'[p] = "running")
              /\ Edited' = (pc'[p] = "running" /\ RouteList \in missed'[p])
              /\ Broken' = failed'[p] \cup blocked'[p]
  BY ProcFacts DEF Holding, RoundAt, Computing, Edited, Broken

LEMMA NobodySees ==
  /\ lock = NoProc => /\ ~Holding /\ RoundAt = 1 /\ Broken = {}
                       /\ Computing = FALSE /\ Edited = FALSE
  /\ lock' = NoProc => /\ ~Holding' /\ RoundAt' = 1 /\ Broken' = {}
                        /\ Computing' = FALSE /\ Edited' = FALSE
  BY DEF Holding, RoundAt, Computing, Edited, Broken

\* A step that neither the products nor the process with the lock notice.
LEMMA Unseen ==
  ASSUME IInv, behind' = behind, lock' = lock,
         \A q \in Procs : lock = q => Same(q) /\ (pc[q] = "running" => missed'[q] = missed[q])
  PROVE  UNCHANGED Rounds!serialVars
  <1>1. CASE lock = NoProc
    BY <1>1, NobodySees DEF Rounds!serialVars
  <1>2. CASE lock \in Procs
    <2>1. Same(lock) /\ (pc[lock] = "running" => missed'[lock] = missed[lock])
      BY <1>2
    <2>2. RoundAt' = RoundAt /\ Broken' = Broken
      BY <1>2, <2>1, HolderSees DEF Same
    <2>3. Computing' = Computing /\ Edited' = Edited
      BY <1>2, <2>1, HolderSees DEF Same
    <2> QED BY <2>2, <2>3 DEF Rounds!serialVars
  <1> QED BY <1>1, <1>2 DEF IInv, TypeOK

LEMMA SerialInits == Init => Rounds!SerialInit
  BY NobodySees DEF Init, Rounds!SerialInit, Steps

\* A round begins with the lock, or a start is refused; neither by its holder.
LEMMA AcquireMaps ==
  ASSUME IInv, NEW p \in Procs, NEW o \in Option, Acquire(p), Begin(p, o)
  PROVE  Rounds!Begins(p)
  <1>1. pc'[p] = "deciding" /\ pos'[p] = 1 /\ failed'[p] = {} /\ blocked'[p] = {} /\ behind' = behind
    BY DEF Begin, IInv, TypeOK, Set
  <1>2. lock = NoProc /\ lock' = p
    BY DEF Acquire
  <1>3. RoundAt' = RoundAt /\ Broken' = Broken
    BY <1>1, <1>2, HolderSees, NobodySees
  <1>4. Computing' = Computing /\ Edited' = Edited
    BY <1>1, <1>2, HolderSees, NobodySees
  <1> QED BY <1>1, <1>2, <1>3, <1>4 DEF Rounds!Begins

LEMMA RefuseMaps ==
  ASSUME IInv, NEW p \in Procs, NEW o, NEW e, lock # p, Refuse(p, o, e)
  PROVE  UNCHANGED Rounds!serialVars
  <1>1. ASSUME NEW q \in Procs, q # p PROVE Same(q) /\ missed'[q] = missed[q]
    BY <1>1 DEF Refuse, shared, IInv, TypeOK, Set, Same
  <1>2. behind' = behind /\ lock' = lock
    BY DEF Refuse, shared
  <1> QED BY <1>1, <1>2, Unseen

LEMMA StartMaps ==
  ASSUME IInv, NEW p \in Procs, NEW o \in Option, cmdRoutingData(p, o)
  PROVE  Rounds!Begins(p) \/ UNCHANGED Rounds!serialVars
  <1>1. lock # p
    BY DEF cmdRoutingData, IInv, ProcInv, Locked, Active
  <1>2. CASE o.dryRun /\ Begin(p, o) /\ UNCHANGED lock
    <2>1. ASSUME NEW q \in Procs, q # p PROVE Same(q) /\ missed'[q] = missed[q]
      BY <1>2, <2>1 DEF Begin, IInv, TypeOK, Set, Same
    <2>2. behind' = behind
      BY <1>2 DEF Begin
    <2> QED BY <1>1, <1>2, <2>1, <2>2, Unseen
  <1> QED BY <1>1, <1>2, AcquireMaps, RefuseMaps DEF cmdRoutingData

LEMMA RouteMaps ==
  ASSUME IInv, NEW p \in Procs, cmdRoute(p)
  PROVE  Rounds!Edit
  <1>1. lock' = lock /\ lock # p
    BY DEF cmdRoute, IInv, ProcInv, Locked, Active
  <1>2. behind' = [behind EXCEPT ![Authority] = @ \cup {RouteList}]
    <2>1. \A i \in Steps : RouteList \notin Needs[i]
      BY DEF Steps, RouteList
    <2>2. behind' = [i \in Steps |-> IF i = Authority THEN behind[i] \cup {RouteList} ELSE behind[i]]
      BY <2>1 DEF cmdRoute, Changed
    <2> QED BY <2>2 DEF IInv, TypeOK
  <1>3. ASSUME NEW q \in Procs, lock = q
        PROVE  /\ Same(q)
               /\ missed'[q] = IF pc[q] = "running" THEN missed[q] \cup {RouteList} ELSE missed[q]
    <2>1. q # p
      BY <1>1, <1>3
    <2> QED BY <2>1 DEF cmdRoute, Changed, IInv, TypeOK, Set, Same
  <1>4. CASE lock = NoProc
    BY <1>1, <1>2, <1>4, NobodySees DEF Rounds!Edit
  <1>5. CASE lock \in Procs
    <2>1. /\ Same(lock)
          /\ missed'[lock] = IF pc[lock] = "running" THEN missed[lock] \cup {RouteList} ELSE missed[lock]
      BY <1>3, <1>5
    <2>2. RoundAt' = RoundAt /\ Broken' = Broken
      BY <1>1, <1>5, <2>1, HolderSees DEF Same
    <2>3. Computing' = Computing
      BY <1>1, <1>5, <2>1, HolderSees DEF Same
    <2>4. Edited' = (Edited \/ Computing)
      BY <1>1, <1>5, <2>1, HolderSees DEF Same
    <2> QED BY <1>1, <1>2, <2>2, <2>3, <2>4 DEF Rounds!Edit
  <1> QED BY <1>4, <1>5 DEF IInv, TypeOK

\* Steps of a round that are left out.
LEMMA PassMaps ==
  ASSUME IInv, NEW p \in Procs, Skip(p) \/ Block(p)
  PROVE  Rounds!Passes \/ UNCHANGED Rounds!serialVars
  <1>1. /\ behind' = behind /\ lock' = lock /\ missed' = missed
        /\ \A q \in Procs : q # p => Same(q)
    BY DEF Skip, Block, skippedDone, shared, IInv, TypeOK, Set, Same
  <1>2. CASE lock # p
    BY <1>1, <1>2, Unseen
  <1>3. CASE lock = p
    <2>1. /\ pc[p] = "deciding" /\ pc'[p] = "deciding" /\ pos[p] \in 1..N /\ pos'[p] = pos[p] + 1
          /\ failed'[p] = failed[p]
      BY TypeAt DEF Skip, Block, skippedDone, shared, IInv, TypeOK, Set
    <2>2. Holding /\ Computing = FALSE /\ RoundAt = pos[p] /\ Broken = failed[p] \cup blocked[p] /\ Edited = FALSE
      BY <1>3, <2>1, HolderSees
    <2>3. Computing' = FALSE /\ RoundAt' = pos[p] + 1 /\ Broken' = failed[p] \cup blocked'[p] /\ Edited' = FALSE
      BY <1>1, <1>3, <2>1, HolderSees
    <2>4. CASE Skip(p)
      <3>1. blocked'[p] = blocked[p]
        BY <2>4 DEF Skip, skippedDone
      <3> QED BY <1>1, <1>3, <2>1, <2>2, <2>3, <3>1 DEF Rounds!Passes, Holding
    <2>5. CASE Block(p)
      <3>1. blocked'[p] = blocked[p] \cup {pos[p]}
        BY <2>5 DEF Block, IInv, TypeOK, Set
      <3>2. PICK j \in Needs[pos[p]] : j \notin done[p]
        BY <2>5 DEF Block, verdict, blockedBy
      <3>3. j \in failed[p] \cup blocked[p]
        BY <2>1, <3>2, NeedsBackwards DEF IInv, ProcInv, Passed, Active, Steps
      <3> QED BY <1>1, <1>3, <2>1, <2>2, <2>3, <3>1, <3>2, <3>3 DEF Rounds!Passes, Holding
    <2> QED BY <2>4, <2>5
  <1> QED BY <1>2, <1>3

\* A step begins: nothing it needs failed or was blocked.
LEMMA ReadMaps ==
  ASSUME IInv, NEW p \in Procs, RunStep(p)
  PROVE  Rounds!Reads
  <1>1. lock = p /\ lock' = lock /\ behind' = behind
    BY DEF RunStep, shared, IInv, ProcInv, Locked, Active
  <1>2. /\ pc[p] = "deciding" /\ pc'[p] = "running" /\ pos[p] \in 1..N /\ pos'[p] = pos[p]
        /\ failed'[p] = failed[p] /\ blocked'[p] = blocked[p] /\ missed'[p] = {}
    BY TypeAt DEF RunStep, shared, IInv, TypeOK, Set
  <1>3. Needs[pos[p]] \cap (failed[p] \cup blocked[p]) = {}
    <2>1. \A j \in Needs[pos[p]] : j \in Steps /\ j \in done[p]
      BY <1>2, NeedsBackwards DEF RunStep, verdict, blockedBy, Steps
    <2> QED BY <1>2, <2>1 DEF IInv, ProcInv, Passed, Active
  <1>4. Holding /\ Computing = FALSE /\ RoundAt = pos[p] /\ Broken = failed[p] \cup blocked[p] /\ Edited = FALSE
    BY <1>1, <1>2, HolderSees
  <1>5. Computing' = TRUE /\ RoundAt' = pos[p] /\ Broken' = failed[p] \cup blocked[p] /\ Edited' = FALSE
    BY <1>1, <1>2, HolderSees
  <1> QED BY <1>1, <1>2, <1>3, <1>4, <1>5 DEF Rounds!Reads, Holding

\* The product of a step that computed with the lock lacks at most an edit.
LEMMA EffectMaps ==
  ASSUME IInv, NEW p \in Procs, NEW writes \in BOOLEAN, pc[p] = "running", Effect(p, pos[p], writes)
  PROVE  Rounds!Publishes \/ behind' = behind
  <1>1. lock = p /\ missed[p] \subseteq {RouteList}
    BY NotHolder DEF IInv, ProcInv, Fresh
  <1>2. RoundAt = pos[p] /\ Edited = (RouteList \in missed[p])
    BY <1>1, HolderSees
  <1>3. missed[p] \cap (Needs[pos[p]] \cup {RouteList}) = IF Edited THEN {RouteList} ELSE {}
    BY <1>1, <1>2
  <1>4. CASE writes
    <2>1. behind' = Replaced(p, pos[p])
      BY <1>4 DEF Effect
    <2> QED BY <1>2, <1>3, <2>1 DEF Replaced, Rounds!Publishes, Steps
  <1>5. CASE ~writes
    BY <1>5 DEF Effect
  <1> QED BY <1>4, <1>5

LEMMA ComputedMaps ==
  ASSUME IInv, NEW p \in Procs, NEW writes \in BOOLEAN, Succeed(p, writes) \/ Fail(p, writes)
  PROVE  Rounds!Computed
  <1>1. pc[p] = "running" /\ Effect(p, pos[p], writes)
    BY DEF Succeed, Fail
  <1>2. lock = p
    BY <1>1, NotHolder DEF IInv
  <1>3. Rounds!Publishes \/ behind' = behind
    BY <1>1, EffectMaps
  <1>4. Computing = TRUE /\ RoundAt = pos[p] /\ Broken = failed[p] \cup blocked[p]
    BY <1>1, <1>2, HolderSees
  <1>5. CASE Succeed(p, writes)
    <2>1. /\ pc'[p] = "stamping" /\ pos'[p] = pos[p] /\ failed'[p] = failed[p] /\ blocked'[p] = blocked[p]
          /\ lock' = lock
      BY <1>5 DEF Succeed, IInv, TypeOK, Set
    <2>2. Computing' = FALSE /\ Edited' = FALSE /\ RoundAt' = pos[p] + 1 /\ Broken' = failed[p] \cup blocked[p]
      BY <1>2, <2>1, HolderSees
    <2> QED BY <1>3, <1>4, <2>1, <2>2 DEF Rounds!Computed
  <1>6. CASE Fail(p, writes) /\ pos[p] \notin Critical
    <2>1. /\ pc'[p] = "deciding" /\ pos'[p] = pos[p] + 1 /\ failed'[p] = failed[p] \cup {pos[p]}
          /\ blocked'[p] = blocked[p] /\ lock' = lock
      BY <1>6 DEF Fail, IInv, TypeOK, Set
    <2>2. /\ Computing' = FALSE /\ Edited' = FALSE /\ RoundAt' = pos[p] + 1
          /\ Broken' = failed[p] \cup {pos[p]} \cup blocked[p]
      BY <1>2, <2>1, HolderSees
    <2> QED BY <1>3, <1>4, <2>1, <2>2 DEF Rounds!Computed
  <1>7. CASE Fail(p, writes) /\ pos[p] \in Critical
    <2>1. lock' = NoProc
      BY <1>2, <1>7 DEF Fail, Leave, released
    <2>2. Computing' = FALSE /\ Edited' = FALSE /\ RoundAt' = 1 /\ Broken' = {}
      BY <2>1, NobodySees
    <2> QED BY <1>3, <1>4, <2>1, <2>2 DEF Rounds!Computed, Rounds!Over
  <1> QED BY <1>5, <1>6, <1>7

LEMMA StampMaps ==
  ASSUME IInv, NEW p \in Procs, Stamp(p)
  PROVE  UNCHANGED Rounds!serialVars
  <1>1. lock = p /\ lock' = lock /\ behind' = behind
    BY NotHolder DEF Stamp, IInv
  <1>2. /\ pc[p] = "stamping" /\ pc'[p] = "deciding" /\ pos'[p] = pos[p] + 1
        /\ failed'[p] = failed[p] /\ blocked'[p] = blocked[p]
    BY DEF Stamp, IInv, TypeOK, Set
  <1>3. RoundAt' = RoundAt /\ Broken' = Broken
    BY <1>1, <1>2, HolderSees
  <1>4. Computing' = Computing /\ Edited' = Edited
    BY <1>1, <1>2, HolderSees
  <1> QED BY <1>1, <1>3, <1>4 DEF Rounds!serialVars

\* A round ends with its process, however that ends.
LEMMA EndMaps ==
  ASSUME IInv, NEW p \in Procs, Finish(p) \/ Kill(p)
  PROVE  Rounds!Ends \/ UNCHANGED Rounds!serialVars
  <1>1. behind' = behind /\ lock' = released(p)
    BY DEF Finish, Kill, Leave
  <1>2. CASE lock = p
    <2>1. Holding /\ lock' = NoProc
      BY <1>1, <1>2, HolderSees DEF released
    <2>2. Computing' = FALSE /\ Edited' = FALSE /\ RoundAt' = 1 /\ Broken' = {}
      BY <2>1, NobodySees
    <2> QED BY <1>1, <2>1, <2>2 DEF Rounds!Ends, Rounds!Over, Holding
  <1>3. CASE lock # p
    <2>1. lock' = lock
      BY <1>1, <1>3 DEF released
    <2>2. ASSUME NEW q \in Procs, q # p
          PROVE  Same(q) /\ (pc[q] = "running" => missed'[q] = missed[q])
      BY <2>2 DEF Finish, Kill, Leave, Missed, IInv, TypeOK, Set, Same
    <2> QED BY <1>1, <1>3, <2>1, <2>2, Unseen
  <1> QED BY <1>2, <1>3

(***************************************************************************)
(* Whatever starts, fails or is killed, and however rounds, dry runs and   *)
(* edits interleave: what the products go through is what the abstract     *)
(* specification of one round after the other allows (cmdRoutingData, Run, *)
(* cmdRoute).                                                              *)
(***************************************************************************)
THEOREM RoundsAreSerial == Spec => ImplementsSerialRounds
  <1>1. IInv /\ [Next]_vars => [Rounds!SerialNext]_Rounds!serialVars
    <2> SUFFICES ASSUME IInv, [Next]_vars
                 PROVE  Rounds!SerialNext \/ UNCHANGED Rounds!serialVars
      OBVIOUS
    <2> USE DEF Rounds!SerialNext
    <2>1. CASE StartTimer
      BY <2>1, StartMaps, ProcFacts, OptionFacts DEF StartTimer
    <2>2. ASSUME NEW p \in Operators, StartOperator(p)
          PROVE  Rounds!SerialNext \/ UNCHANGED Rounds!serialVars
      <3>1. PICK o \in Requests : cmdRoutingData(p, o)
        BY <2>2 DEF StartOperator
      <3> QED BY <3>1, StartMaps, ProcFacts
    <2>3. ASSUME NEW p \in Routers, cmdRoute(p) \/ RouteAcquire(p) \/ RouteTimeout(p)
          PROVE  Rounds!SerialNext \/ UNCHANGED Rounds!serialVars
      <3>1. pc[p] = "waiting" => lock # p
        BY ProcFacts DEF IInv, ProcInv, Locked, Active
      <3>2. CASE RouteAcquire(p)
        BY <3>2, AcquireMaps, ProcFacts, OptionFacts DEF RouteAcquire
      <3>3. CASE RouteTimeout(p)
        BY <3>1, <3>3, RefuseMaps, ProcFacts DEF RouteTimeout
      <3> QED BY <2>3, <3>2, <3>3, RouteMaps, ProcFacts
    <2>4. ASSUME NEW p \in Procs, Round(p) \/ Kill(p)
          PROVE  Rounds!SerialNext \/ UNCHANGED Rounds!serialVars
      BY <2>4, PassMaps, ReadMaps, ComputedMaps, StampMaps, EndMaps DEF Round
    <2>5. CASE Tick
      <3>1. behind' = behind /\ lock' = lock /\ \A q \in Procs : Same(q) /\ missed'[q] = missed[q]
        BY <2>5 DEF Tick, Same
      <3> QED BY <3>1, Unseen
    <2>6. CASE UNCHANGED vars
      <3>1. behind' = behind /\ lock' = lock /\ \A q \in Procs : Same(q) /\ missed'[q] = missed[q]
        BY <2>6 DEF vars, Same
      <3> QED BY <3>1, Unseen
    <2> QED BY <2>1, <2>2, <2>3, <2>4, <2>5, <2>6 DEF Next
  <1> QED BY <1>1, SerialInits, SpecIInv, PTL DEF Spec, ImplementsSerialRounds, Rounds!SerialSpec
=============================================================================
