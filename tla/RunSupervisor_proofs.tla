------------------------ MODULE RunSupervisor_proofs ------------------------
(***************************************************************************)
(* Theorems about RunSupervisor for every end tick, snapshot interval,     *)
(* chunk size, set of export jobs and journal bound.                       *)
(***************************************************************************)
EXTENDS RunSupervisor, TLAPS

(* A handler never has more ticks to execute than the run has left, and a
   pass never more than the handler: the strengthening that keeps the clock
   within the end tick. *)
OpInv ==
  /\ op.pc \in {"ensure", "backup", "loop", "await", "tick"}
       => op.remaining <= EndTick - tick
  /\ op.pc = "await" => op.remaining > 0
  /\ op.pc = "tick" => op.pass \in 1..op.remaining

TypeInv == TypeOK /\ OpInv

(* Where the elements of a concatenation come from. *)
LEMMA ConcatFacts ==
  ASSUME NEW T, NEW a \in Seq(T), NEW b \in Seq(T)
  PROVE  /\ a \o b \in Seq(T) /\ Len(a \o b) = Len(a) + Len(b)
         /\ \A i \in 1..Len(a) : (a \o b)[i] = a[i]
         /\ \A i \in (Len(a) + 1)..(Len(a) + Len(b)) :
              i - Len(a) \in 1..Len(b) /\ (a \o b)[i] = b[i - Len(a)]
<1>1. Len(a) \in Nat /\ Len(b) \in Nat
  OBVIOUS
<1>2. a \o b \in Seq(T) /\ Len(a \o b) = Len(a) + Len(b)
  OBVIOUS
<1>3. ASSUME NEW i \in 1..(Len(a) + Len(b))
      PROVE  (a \o b)[i] = IF i <= Len(a) THEN a[i] ELSE b[i - Len(a)]
  BY <1>1, <1>2
<1> QED BY <1>1, <1>2, <1>3

(* What an ID factory issues and saves. *)
LEMMA SerializeType ==
  ASSUME NEW from \in IdState, NEW events \in Nat, NEW rows \in {0, 1}
  PROVE  /\ serialize(from, events, rows) \in IdState
         /\ serialize(from, events, rows).evt = from.evt + events
         /\ serialize(from, events, rows).row = from.row + rows
         /\ issuedBy(from, rows) \in Seq(Nat)
         /\ Len(issuedBy(from, rows)) = rows
         /\ \A i \in 1..rows : issuedBy(from, rows)[i] = from.row + i
         /\ \A q \in Seq(Nat) : q \o issuedBy(from, rows) \in Seq(Nat)
<1>1. from.evt \in Nat /\ from.row \in Nat
  BY DEF IdState
<1>2. /\ issuedBy(from, rows) \in Seq(Nat) /\ Len(issuedBy(from, rows)) = rows
      /\ \A i \in 1..rows : issuedBy(from, rows)[i] = from.row + i
  BY <1>1 DEF issuedBy
<1>3. \A q \in Seq(Nat) : q \o issuedBy(from, rows) \in Seq(Nat)
  BY <1>2, ConcatFacts
<1> QED BY <1>1, <1>2, <1>3 DEF serialize, IdState

(* Appending a batch of events keeps the journal a sequence of events and
   moves the ID counter by as much as the journal. *)
LEMMA AppendBatchType ==
  ASSUME TypeOK, NEW types \in Seq(EventType), NEW rows \in {0, 1}, appendBatch(types, rows)
  PROVE  /\ log' \in Seq(Event)
         /\ ids' \in IdState /\ issued' \in Seq(Nat)
         /\ Len(log') = Len(log) + Len(types)
         /\ ids'.evt = ids.evt + Len(types)
<1> DEFINE new == [i \in 1..Len(types) |-> [type |-> types[i], tick |-> tick]]
<1>1. /\ log \in Seq(Event) /\ tick \in 0..EndTick
      /\ ids \in IdState /\ issued \in Seq(Nat) /\ Len(types) \in Nat
  BY DEF TypeOK, DurableTypes
<1>2. new \in Seq(Event) /\ Len(new) = Len(types)
  BY <1>1 DEF Event
<1>3. /\ log' = log \o new
      /\ ids' = serialize(ids, Len(types), rows)
      /\ issued' = issued \o issuedBy(ids, rows)
  BY DEF appendBatch
<1>5. ids' \in IdState /\ issued' \in Seq(Nat) /\ ids'.evt = ids.evt + Len(types)
  BY <1>1, <1>3, SerializeType
<1> HIDE DEF new
<1>4. log \o new \in Seq(Event) /\ Len(log \o new) = Len(log) + Len(new)
  BY <1>1, <1>2, ConcatFacts
<1> QED BY <1>1, <1>2, <1>3, <1>4, <1>5

(* A table transition leads to a status. *)
LEMMA TransitionType ==
  ASSUME NEW s, NEW c, NEW t \in transitionRunStatus(s, c)
  PROVE  t \in RunStatus
BY DEF transitionRunStatus, RunStatus

(* completeRun, taken or not, keeps the types of what it writes. *)
LEMMA CompleteAtEndType ==
  ASSUME TypeOK, completeAtEnd
  PROVE  status' \in RunStatus /\ log' \in Seq(Event) /\ ids' \in IdState /\ issued' \in Seq(Nat)
<1>1. CASE tick = EndTick /\ status # "completed"
  <2>1. /\ status' \in transitionRunStatus(status, "complete")
        /\ appendBatch(<<"simulation.completed">>, 0)
    BY <1>1 DEF completeAtEnd, transitionRun
  <2>2. <<"simulation.completed">> \in Seq(EventType)
    BY DEF EventType
  <2> QED BY <2>1, <2>2, AppendBatchType, TransitionType
<1>2. CASE ~(tick = EndTick /\ status # "completed")
  BY <1>2 DEF completeAtEnd, TypeOK, DurableTypes
<1> QED BY <1>1, <1>2

(* Every step keeps the types and the bound on the handler's ticks. *)
LEMMA TypeStep ==
  ASSUME TypeInv, [Next]_vars
  PROVE  TypeInv'
<1> USE EndTickAssumption, SupervisorAssumption
<1>0. TypeOK /\ DurableTypes /\ VolatileTypes /\ op \in OpType /\ OpInv
  BY DEF TypeInv, TypeOK
<1> SUFFICES DurableTypes' /\ VolatileTypes' /\ op' \in OpType /\ OpInv'
  BY DEF TypeInv, TypeOK
<1>n. /\ NoOp \in OpType
      /\ NoOp.pc = "idle"
      /\ NoOp.remaining = 0
      /\ NoLoop \in [tick : -1..EndTick, seq : Int, ids : IdState]
  BY DEF NoOp, OpType, OpKind, OpPc, NoLoop, NoIds, IdState
<1>l. Len(log) \in Nat /\ tick \in 0..EndTick /\ tick \in Nat
  BY <1>0 DEF DurableTypes
<1>e. ASSUME NEW k \in OpKind, NEW n \in 0..EndTick
      PROVE  /\ enterTicks(k, n) \in OpType
             /\ enterTicks(k, n).pc = "ensure" /\ enterTicks(k, n).remaining = n
  BY <1>n DEF enterTicks, OpType, OpPc
<1>1. ASSUME NEW c \in {"start", "pause", "resume", "stop"}, controlSimulation(c)
     PROVE  DurableTypes' /\ VolatileTypes' /\ op' \in OpType /\ OpInv'
  <2>1. /\ appendBatch(<<"admin.command.received", lifecycleType(c)>>, 0)
        /\ status' \in transitionRunStatus(status, c)
    BY <1>1 DEF controlSimulation, transitionRun
  <2>2. <<"admin.command.received", lifecycleType(c)>> \in Seq(EventType)
    BY DEF lifecycleType, EventType
  <2>3. log' \in Seq(Event) /\ ids' \in IdState /\ issued' \in Seq(Nat)
    BY <1>0, <2>1, <2>2, AppendBatchType
  <2>4. status' \in RunStatus
    BY <2>1, TransitionType
  <2>5. DurableTypes'
    BY <1>1, <1>0, <2>3, <2>4 DEF controlSimulation, DurableTypes
  <2>6. VolatileTypes'
    BY <1>1, <1>0 DEF controlSimulation, VolatileTypes
  <2>7. op' \in OpType
    BY <1>1, <1>0 DEF controlSimulation
  <2>8. OpInv'
    BY <1>1, <1>0 DEF controlSimulation, OpInv
  <2> QED BY <2>5, <2>6, <2>7, <2>8
<1>2. ASSUME setLlmControl
     PROVE  DurableTypes' /\ VolatileTypes' /\ op' \in OpType /\ OpInv'
  <2>1. <<"admin.command.received", "llm.control.changed">> \in Seq(EventType)
    BY DEF EventType
  <2>2. log' \in Seq(Event) /\ ids' \in IdState /\ issued' \in Seq(Nat)
    BY <1>2, <1>0, <2>1, AppendBatchType DEF setLlmControl
  <2>3. DurableTypes'
    BY <1>2, <1>0, <2>2 DEF setLlmControl, DurableTypes
  <2>4. VolatileTypes'
    BY <1>2, <1>0 DEF setLlmControl, volatile, VolatileTypes
  <2>5. op' \in OpType
    BY <1>2, <1>0 DEF setLlmControl, volatile
  <2>6. OpInv'
    BY <1>2, <1>0 DEF setLlmControl, volatile, OpInv
  <2> QED BY <2>3, <2>4, <2>5, <2>6
<1>3. ASSUME injectWorldEvent
     PROVE  DurableTypes' /\ VolatileTypes' /\ op' \in OpType /\ OpInv'
  <2>1. <<"admin.command.received", "world.event.injected">> \in Seq(EventType)
    BY DEF EventType
  <2>2. log' \in Seq(Event) /\ ids' \in IdState /\ issued' \in Seq(Nat)
    BY <1>3, <1>0, <2>1, AppendBatchType DEF injectWorldEvent
  <2>3. DurableTypes'
    BY <1>3, <1>0, <2>2 DEF injectWorldEvent, DurableTypes
  <2>4. VolatileTypes'
    BY <1>3, <1>0 DEF injectWorldEvent, volatile, VolatileTypes
  <2>5. op' \in OpType
    BY <1>3, <1>0 DEF injectWorldEvent, volatile
  <2>6. OpInv'
    BY <1>3, <1>0 DEF injectWorldEvent, volatile, OpInv
  <2> QED BY <2>3, <2>4, <2>5, <2>6
<1>4. ASSUME NEW n \in 1..EndTick, advanceSync(n)
     PROVE  DurableTypes' /\ VolatileTypes' /\ op' \in OpType /\ OpInv'
  <2>1. <<"admin.command.received">> \in Seq(EventType)
    BY DEF EventType
  <2>2. log' \in Seq(Event) /\ ids' \in IdState /\ issued' \in Seq(Nat)
    BY <1>4, <1>0, <2>1, AppendBatchType DEF advanceSync
  <2>3. op' \in OpType /\ op'.pc = "ensure" /\ op'.remaining = n
    BY <1>4, <1>e, "advance" \in OpKind DEF advanceSync, OpKind
  <2>4. DurableTypes'
    BY <1>4, <1>0, <2>2 DEF advanceSync, DurableTypes
  <2>5. VolatileTypes'
    BY <1>4, <1>0 DEF advanceSync, VolatileTypes
  <2>6. op' \in OpType
    BY <1>4, <2>3
  <2>7. OpInv'
    BY <1>4, <1>0, <2>3 DEF advanceSync, OpInv, DurableTypes
  <2> QED BY <2>4, <2>5, <2>6, <2>7
<1>5. ASSUME NEW n \in 1..EndTick, enqueueAdvanceTask(n)
     PROVE  DurableTypes' /\ VolatileTypes' /\ op' \in OpType /\ OpInv'
  <2>1. <<"admin.command.received">> \in Seq(EventType)
    BY DEF EventType
  <2>2. log' \in Seq(Event) /\ ids' \in IdState /\ issued' \in Seq(Nat)
    BY <1>5, <1>0, <2>1, AppendBatchType DEF enqueueAdvanceTask
  <2>3. task' \in TaskType
    BY <1>5, <1>0 DEF enqueueAdvanceTask, createAdvanceTask, TaskType, DurableTypes
  <2>4. DurableTypes'
    BY <1>5, <1>0, <2>2, <2>3 DEF enqueueAdvanceTask, DurableTypes
  <2>5. VolatileTypes'
    BY <1>5, <1>0 DEF enqueueAdvanceTask, VolatileTypes
  <2>6. op' \in OpType
    BY <1>5, <1>0 DEF enqueueAdvanceTask
  <2>7. OpInv'
    BY <1>5, <1>0 DEF enqueueAdvanceTask, OpInv
  <2> QED BY <2>4, <2>5, <2>6, <2>7
<1>6. ASSUME NEW e \in ExportIds, createExport(e)
     PROVE  DurableTypes' /\ VolatileTypes' /\ op' \in OpType /\ OpInv'
  <2>1. queuedJob \in JobType
    <3>1. NoJob \in JobType
      BY DEF NoJob, JobType
    <3> QED BY <1>l, <3>1 DEF queuedJob, JobType
  <2>2. DurableTypes'
    BY <1>6, <1>0, <2>1 DEF createExport, DurableTypes
  <2>3. VolatileTypes'
    BY <1>6, <1>0 DEF createExport, VolatileTypes
  <2>4. op' \in OpType
    BY <1>6, <1>0 DEF createExport
  <2>5. OpInv'
    BY <1>6, <1>0 DEF createExport, OpInv
  <2> QED BY <2>2, <2>3, <2>4, <2>5
<1>7. ASSUME superviseRun
     PROVE  DurableTypes' /\ VolatileTypes' /\ op' \in OpType /\ OpInv'
  <2>1. status' \in RunStatus /\ log' \in Seq(Event) /\ ids' \in IdState /\ issued' \in Seq(Nat)
    BY <1>7, <1>0, CompleteAtEndType DEF superviseRun
  <2>2. \/ op' = NoOp
        \/ tick # EndTick /\ op' \in OpType /\ op'.pc = "ensure" /\ op'.remaining = 1
    BY <1>7, <1>e, 1 \in 0..EndTick, "supervise" \in OpKind DEF superviseRun, OpKind
  <2>3. DurableTypes'
    BY <1>7, <1>0, <2>1 DEF superviseRun, DurableTypes
  <2>4. VolatileTypes'
    BY <1>7, <1>0 DEF superviseRun, VolatileTypes
  <2>5. op' \in OpType
    BY <2>2, <1>n
  <2>6. OpInv'
    BY <1>7, <1>0, <1>n, <2>2 DEF superviseRun, OpInv, DurableTypes
  <2> QED BY <2>3, <2>4, <2>5, <2>6
<1>8. ASSUME runAdvanceTaskStep
     PROVE  DurableTypes' /\ VolatileTypes' /\ op' \in OpType /\ OpInv'
  <2>1. task' \in TaskType
    BY <1>8, <1>0 DEF runAdvanceTaskStep, markRunning, markFailed, TaskType, DurableTypes
  <2>2. \/ op' = NoOp \/ op' = op
        \/ op' \in OpType /\ op'.pc = "loop" /\ op'.remaining = 0
        \/ /\ op' \in OpType /\ op'.pc = "ensure"
           /\ op'.remaining \in 1..(task.target - tick)
    <3>1. CASE tick < task.target
      <4> DEFINE n == Least(AsyncChunk, task.target - tick)
      <4>1. n \in 1..(task.target - tick) /\ n \in 0..EndTick
        BY <1>0, <3>1 DEF Least, DurableTypes, TaskType
      <4>2. op' = NoOp \/ op' = op \/ op' = enterTicks("task", n)
        BY <1>8, <3>1, <1>0 DEF runAdvanceTaskStep, DurableTypes, TaskType
      <4>3. "task" \in OpKind
        BY DEF OpKind
      <4> HIDE DEF n
      <4> QED BY <4>1, <4>2, <4>3, <1>e
    <3>2. CASE tick = task.target
      <4>1. op' = NoOp \/ op' = op \/ op' = [NoOp EXCEPT !.kind = "task", !.pc = "loop"]
        BY <1>8, <3>2 DEF runAdvanceTaskStep
      <4>2. ASSUME NEW r, r = [NoOp EXCEPT !.kind = "task", !.pc = "loop"]
            PROVE  r \in OpType /\ r.pc = "loop" /\ r.remaining = 0
        BY <1>n, <4>2 DEF OpType, OpKind, OpPc
      <4> QED BY <4>1, <4>2
    <3>3. CASE tick > task.target
      BY <1>8, <3>3 DEF runAdvanceTaskStep
    <3> QED BY <3>1, <3>2, <3>3, <1>0 DEF DurableTypes, TaskType
  <2>3. DurableTypes'
    BY <1>8, <1>0, <2>1 DEF runAdvanceTaskStep, DurableTypes
  <2>4. VolatileTypes'
    BY <1>8, <1>0 DEF runAdvanceTaskStep, VolatileTypes
  <2>5. op' \in OpType
    BY <1>0, <2>2, <1>n
  <2>6. OpInv'
    <3>1. tick' = tick /\ task.target \in 0..EndTick
      BY <1>8, <1>0 DEF runAdvanceTaskStep, DurableTypes, TaskType
    <3>0. CASE op' = op
      BY <1>0, <3>0, <3>1 DEF OpInv
    <3> SUFFICES ASSUME op' # op PROVE OpInv'
      BY <3>0
    <3>2. /\ op'.pc \in {"idle", "loop", "ensure"}
          /\ (op'.pc # "idle" => op'.remaining <= EndTick - tick)
      BY <1>l, <1>n, <2>2, <3>1
    <3> QED BY <3>1, <3>2 DEF OpInv
  <2> QED BY <2>3, <2>4, <2>5, <2>6
<1>9. ASSUME NEW e \in ExportIds, runExport(e)
     PROVE  DurableTypes' /\ VolatileTypes' /\ op' \in OpType /\ OpInv'
  <2>1. DurableTypes'
    <3>1. exports' \in [ExportIds -> JobType]
      <4>1. exports \in [ExportIds -> JobType] /\ exports[e] \in JobType
        BY <1>0 DEF DurableTypes
      <4>2. [exports[e] EXCEPT !.status = "running"] \in JobType
        BY <4>1 DEF JobType
      <4>3. \/ exports' = [exports EXCEPT ![e] = [exports[e] EXCEPT !.status = "running"]]
            \/ exports' = exports
        BY <1>9, <4>1 DEF runExport
      <4> QED BY <4>1, <4>2, <4>3
    <3> QED BY <1>9, <1>0, <3>1 DEF runExport, DurableTypes
  <2>2. VolatileTypes'
    BY <1>9, <1>0 DEF runExport, VolatileTypes
  <2>3. op' = op \/ (op' \in OpType /\ op'.pc = "materialize")
    <3>1. ASSUME NEW r, r = [NoOp EXCEPT !.kind = "export", !.pc = "materialize", !.job = {e}]
          PROVE  r \in OpType /\ r.pc = "materialize"
      BY <1>n, <3>1 DEF OpType, OpKind, OpPc
    <3>2. \/ op' = op
          \/ op' = [NoOp EXCEPT !.kind = "export", !.pc = "materialize", !.job = {e}]
      BY <1>9 DEF runExport
    <3> QED BY <3>1, <3>2
  <2>4. op' \in OpType /\ OpInv'
    BY <1>9, <1>0, <2>3 DEF runExport, OpInv
  <2> QED BY <2>1, <2>2, <2>3, <2>4
<1>10. ASSUME NEW e \in ExportIds, NEW ok \in BOOLEAN, settleExport(e, ok)
     PROVE  DurableTypes' /\ VolatileTypes' /\ op' \in OpType /\ OpInv'
  <2>1. DurableTypes'
    <3>1. exports' \in [ExportIds -> JobType]
      <4>1. exports \in [ExportIds -> JobType] /\ exports[e] \in JobType /\ Len(log) \in Nat
        BY <1>0 DEF DurableTypes
      <4>2. /\ [exports[e] EXCEPT !.status = "completed", !.content = Len(log)] \in JobType
            /\ [exports[e] EXCEPT !.status = "failed"] \in JobType
        BY <4>1 DEF JobType
      <4>3. \/ exports' = [exports EXCEPT ![e] =
                             [exports[e] EXCEPT !.status = "completed", !.content = Len(log)]]
            \/ exports' = [exports EXCEPT ![e] = [exports[e] EXCEPT !.status = "failed"]]
        BY <1>10, <4>1 DEF settleExport
      <4> QED BY <4>1, <4>2, <4>3
    <3> QED BY <1>10, <1>0, <3>1 DEF settleExport, DurableTypes
  <2>2. VolatileTypes'
    BY <1>10, <1>0 DEF settleExport, VolatileTypes
  <2>3. op' \in OpType
    BY <1>10, <1>n DEF settleExport
  <2>4. OpInv'
    BY <1>10, <1>n DEF settleExport, OpInv
  <2> QED BY <2>1, <2>2, <2>3, <2>4
<1>11. ASSUME ensurePeriodicSnapshot
     PROVE  DurableTypes' /\ VolatileTypes' /\ op' \in OpType /\ OpInv'
  <2>1. DurableTypes'
    BY <1>11, <1>0 DEF ensurePeriodicSnapshot, durable, DurableTypes
  <2>2. VolatileTypes'
    BY <1>11, <1>0 DEF ensurePeriodicSnapshot, VolatileTypes
  <2>3. op' \in OpType
    <3>1. buildSnapshotPlan \in OpType
      BY <1>0, <1>l DEF buildSnapshotPlan, DurableTypes, OpType, OpPc
    <3>2. [op EXCEPT !.pc = "loop"] \in OpType
      BY <1>0 DEF OpType, OpPc
    <3> QED BY <1>11, <3>1, <3>2 DEF ensurePeriodicSnapshot
  <2>4. OpInv'
    BY <1>11, <1>0 DEF ensurePeriodicSnapshot, buildSnapshotPlan, durable, OpInv, OpType
  <2> QED BY <2>1, <2>2, <2>3, <2>4
<1>12. ASSUME applySnapshotPlan
     PROVE  DurableTypes' /\ VolatileTypes' /\ op' \in OpType /\ OpInv'
  <2>1. <<"simulation.statehash.computed", "simulation.snapshot.created">> \in Seq(EventType)
    BY DEF EventType
  <2>2. log' \in Seq(Event) /\ ids' \in IdState /\ issued' \in Seq(Nat)
    BY <1>12, <1>0, <2>1, AppendBatchType DEF applySnapshotPlan
  <2>3. DurableTypes'
    BY <1>12, <1>0, <2>2 DEF applySnapshotPlan, DurableTypes
  <2>4. VolatileTypes'
    BY <1>12, <1>0 DEF applySnapshotPlan, VolatileTypes
  <2>5. op' \in OpType
    BY <1>12, <1>0 DEF applySnapshotPlan, OpType, OpPc
  <2>6. OpInv'
    BY <1>12, <1>0 DEF applySnapshotPlan, OpInv, OpType
  <2> QED BY <2>3, <2>4, <2>5, <2>6
<1>13. ASSUME NEW b \in BOOLEAN, beginPreparation(b)
     PROVE  DurableTypes' /\ VolatileTypes' /\ op' \in OpType /\ OpInv'
  <2>1. DurableTypes'
    BY <1>13, <1>0 DEF beginPreparation, durable, DurableTypes
  <2>2. VolatileTypes'
    BY <1>13, <1>0 DEF beginPreparation, VolatileTypes
  <2>3. op' \in OpType
    BY <1>13, <1>0 DEF beginPreparation, DurableTypes, OpType, OpPc
  <2>4. OpInv'
    BY <1>13, <1>0 DEF beginPreparation, durable, OpInv, OpType
  <2> QED BY <2>1, <2>2, <2>3, <2>4
<1>14. ASSUME NEW b \in BOOLEAN, recordUsage(b)
     PROVE  DurableTypes' /\ VolatileTypes' /\ op' \in OpType /\ OpInv'
  <2>1. /\ <<"llm.usage.recorded">> \in Seq(EventType)
        /\ <<"llm.usage.recorded", "llm.budget.threshold", "simulation.paused">> \in Seq(EventType)
    BY DEF EventType
  <2>2. \/ appendBatch(<<"llm.usage.recorded">>, 0)
        \/ appendBatch(<<"llm.usage.recorded", "llm.budget.threshold", "simulation.paused">>, 0)
    BY <1>14 DEF recordUsage
  <2>3. log' \in Seq(Event) /\ ids' \in IdState /\ issued' \in Seq(Nat)
    BY <1>0, <2>1, <2>2, AppendBatchType
  <2>4. DurableTypes'
    BY <1>14, <1>0, <2>3 DEF recordUsage, DurableTypes, RunStatus
  <2>5. VolatileTypes'
    BY <1>14, <1>0 DEF recordUsage, volatile, VolatileTypes
  <2>6. op' \in OpType
    BY <1>14, <1>0 DEF recordUsage, volatile
  <2>7. OpInv'
    BY <1>14, <1>0 DEF recordUsage, volatile, OpInv
  <2> QED BY <2>4, <2>5, <2>6, <2>7
<1>15. ASSUME restoreLoop
     PROVE  DurableTypes' /\ VolatileTypes' /\ op' \in OpType /\ OpInv'
  <2>1. tick % SnapshotInterval \in 0..(SnapshotInterval - 1)
    BY <1>0 DEF DurableTypes
  <2>2. op.remaining \in 1..EndTick
    BY <1>15, <1>0 DEF restoreLoop, OpInv, OpType
  <2>3. ASSUME NEW k \in Nat \ {0}
        PROVE  Least(op.remaining, k) \in 1..op.remaining
    BY <2>2 DEF Least
  <2>4. readRunCheckpoint \in [tick : -1..EndTick, seq : Int, ids : IdState]
    BY <1>0, <1>l DEF readRunCheckpoint, DurableTypes
  <2>5. PICK n \in 1..op.remaining : op' = [op EXCEPT !.pc = "tick", !.pass = n]
    <3>1. /\ SnapshotInterval - (tick % SnapshotInterval) \in Nat \ {0}
          /\ 1 \in 1..op.remaining
      BY <2>1, <2>2
    <3> DEFINE k == SnapshotInterval - (tick % SnapshotInterval)
    <3>2. Least(op.remaining, k) \in 1..op.remaining
      BY <2>3, <3>1
    <3>3. op' = [op EXCEPT !.pc = "tick", !.pass = 1]
          \/ op' = [op EXCEPT !.pc = "tick", !.pass = Least(op.remaining, k)]
      BY <1>15 DEF restoreLoop
    <3> HIDE DEF k
    <3> QED BY <3>1, <3>2, <3>3
  <2>6. DurableTypes'
    BY <1>15, <1>0 DEF restoreLoop, durable, DurableTypes
  <2>7. VolatileTypes'
    BY <1>15, <1>0, <2>4 DEF restoreLoop, VolatileTypes
  <2>8. op' \in OpType
    <3>1. n \in 0..EndTick
      BY <2>2
    <3> QED BY <1>0, <2>5, <3>1 DEF OpType, OpPc
  <2>9. OpInv'
    BY <1>15, <1>0, <2>3, <2>5 DEF restoreLoop, durable, OpInv, OpType
  <2> QED BY <2>6, <2>7, <2>8, <2>9
<1>16. ASSUME commitTick
     PROVE  DurableTypes' /\ VolatileTypes' /\ op' \in OpType /\ OpInv'
  <2>1. /\ tick + 1 \in 0..EndTick
        /\ op.pass \in 1..op.remaining
        /\ op.remaining \in 1..EndTick
    <3>1. op.pc = "tick"
      BY <1>16 DEF commitTick
    <3>2. op.remaining \in 0..EndTick /\ op.pass \in 0..EndTick
      BY <1>0 DEF OpType
    <3> QED BY <1>0, <1>l, <3>1, <3>2 DEF OpInv
  <2>2. stagedEvents \in Seq(Event) /\ Len(stagedEvents) = 2
    BY <2>1 DEF stagedEvents, Event, EventType
  <2>3. log' \in Seq(Event) /\ ids' \in IdState /\ issued' \in Seq(Nat)
    <3>1. loop.ids \in IdState /\ log \in Seq(Event) /\ issued \in Seq(Nat)
      BY <1>0 DEF DurableTypes, VolatileTypes
    <3>2. /\ log' = log \o stagedEvents
          /\ ids' = serialize(loop.ids, 2, 1)
          /\ issued' = issued \o issuedBy(loop.ids, 1)
      BY <1>16, <2>2 DEF commitTick
    <3> QED BY <3>1, <3>2, <2>2, SerializeType, ConcatFacts
  <2>4. op.remaining - 1 \in 0..EndTick /\ op.pass - 1 \in 0..EndTick
    BY <1>0, <2>1 DEF OpType
  <2>5. PICK p \in {"tick", "ensure", "loop"} :
          /\ op' = [op EXCEPT !.remaining = op.remaining - 1, !.pass = op.pass - 1, !.pc = p]
          /\ p = "tick" => op.pass # 1
    BY <1>16 DEF commitTick
  <2>6. DurableTypes'
    BY <1>16, <1>0, <2>1, <2>3 DEF commitTick, DurableTypes
  <2>7. VolatileTypes'
    <3>1. [tick |-> tick + 1, seq |-> loop.seq + 2, ids |-> ids'] \in [tick : -1..EndTick, seq : Int, ids : IdState]
      BY <1>0, <1>l, <2>1, <2>3 DEF VolatileTypes
    <3>2. loop' \in [tick : -1..EndTick, seq : Int, ids : IdState]
      BY <1>16, <1>n, <3>1 DEF commitTick
    <3> QED BY <1>16, <1>0, <3>2 DEF commitTick, VolatileTypes
  <2>8. op' \in OpType
    BY <1>0, <2>1, <2>4, <2>5 DEF OpType, OpPc
  <2>9. OpInv'
    <3>1. /\ op'.pc = p /\ op'.remaining = op.remaining - 1 /\ op'.pass = op.pass - 1
          /\ tick' = tick + 1 /\ op.pc = "tick"
      BY <1>16, <1>0, <2>5 DEF commitTick, OpType
    <3>2. op.remaining <= EndTick - tick
      BY <1>0, <3>1 DEF OpInv
    <3>3. op'.remaining <= EndTick - tick'
      BY <1>l, <2>1, <3>1, <3>2
    <3>4. op'.pc \in {"tick", "ensure", "loop"}
      BY <3>1
    <3>5. op'.pc = "tick" => op'.pass \in 1..op'.remaining
      <4>1. op'.pc = "tick" => op.pass # 1
        BY <2>5, <3>1
      <4>2. op'.pass = op.pass - 1 /\ op'.remaining = op.remaining - 1
        BY <3>1
      <4> QED BY <2>1, <4>1, <4>2
    <3> QED BY <3>3, <3>4, <3>5 DEF OpInv
  <2> QED BY <2>6, <2>7, <2>8, <2>9
<1>17. ASSUME finishSupervise
     PROVE  DurableTypes' /\ VolatileTypes' /\ op' \in OpType /\ OpInv'
  <2>1. status' \in RunStatus /\ log' \in Seq(Event) /\ ids' \in IdState /\ issued' \in Seq(Nat)
    BY <1>17, <1>0, CompleteAtEndType DEF finishSupervise
  <2>2. DurableTypes'
    BY <1>17, <1>0, <2>1 DEF finishSupervise, DurableTypes
  <2>3. VolatileTypes'
    BY <1>17, <1>0, <1>n DEF finishSupervise, shouldContinue, VolatileTypes
  <2>4. op' \in OpType
    BY <1>17, <1>n DEF finishSupervise
  <2>5. OpInv'
    BY <1>17, <1>n DEF finishSupervise, OpInv
  <2> QED BY <2>2, <2>3, <2>4, <2>5
<1>18. ASSUME finishAdvance
     PROVE  DurableTypes' /\ VolatileTypes' /\ op' \in OpType /\ OpInv'
  <2>1. status' \in RunStatus /\ log' \in Seq(Event) /\ ids' \in IdState /\ issued' \in Seq(Nat)
    BY <1>18, <1>0, CompleteAtEndType DEF finishAdvance
  <2>2. DurableTypes'
    BY <1>18, <1>0, <2>1 DEF finishAdvance, DurableTypes
  <2>3. VolatileTypes'
    BY <1>18, <1>0, <1>n DEF finishAdvance, shouldContinue, VolatileTypes
  <2>4. op' \in OpType
    BY <1>18, <1>n DEF finishAdvance
  <2>5. OpInv'
    BY <1>18, <1>n DEF finishAdvance, OpInv
  <2> QED BY <2>2, <2>3, <2>4, <2>5
<1>19. ASSUME finishTaskStep
     PROVE  DurableTypes' /\ VolatileTypes' /\ op' \in OpType /\ OpInv'
  <2>1. status' \in RunStatus /\ log' \in Seq(Event) /\ ids' \in IdState /\ issued' \in Seq(Nat)
    BY <1>19, <1>0, CompleteAtEndType DEF finishTaskStep, DurableTypes
  <2>2. DurableTypes'
    BY <1>19, <1>0, <2>1 DEF finishTaskStep, DurableTypes
  <2>3. VolatileTypes'
    BY <1>19, <1>0, <1>n DEF finishTaskStep, VolatileTypes
  <2>4. op' \in OpType
    BY <1>19, <1>0, <1>n DEF finishTaskStep, OpType, OpPc
  <2>5. OpInv'
    BY <1>19, <1>0, <1>n DEF finishTaskStep, OpInv, OpType
  <2> QED BY <2>2, <2>3, <2>4, <2>5
<1>20. ASSUME markTaskCompleted
     PROVE  DurableTypes' /\ VolatileTypes' /\ op' \in OpType /\ OpInv'
  <2>1. DurableTypes'
    BY <1>20, <1>0 DEF markTaskCompleted, markCompleted, DurableTypes, TaskType
  <2>2. VolatileTypes'
    BY <1>20, <1>0 DEF markTaskCompleted, VolatileTypes
  <2>3. op' \in OpType
    BY <1>20, <1>n DEF markTaskCompleted
  <2>4. OpInv'
    BY <1>20, <1>n DEF markTaskCompleted, OpInv
  <2> QED BY <2>1, <2>2, <2>3, <2>4
<1>21. ASSUME NEW j \in BOOLEAN, failRun(j)
     PROVE  DurableTypes' /\ VolatileTypes' /\ op' \in OpType /\ OpInv'
  <2>1. <<"system.error.raised">> \in Seq(EventType)
    BY DEF EventType
  <2>2. status' \in RunStatus /\ log' \in Seq(Event) /\ ids' \in IdState /\ issued' \in Seq(Nat)
    BY <1>21, <1>0, <2>1, AppendBatchType, TransitionType
    DEF failRun, transitionRun, DurableTypes
  <2>3. DurableTypes'
    BY <1>21, <1>0, <2>2 DEF failRun, DurableTypes
  <2>4. VolatileTypes'
    BY <1>21, <1>0, <1>n DEF failRun, VolatileTypes
  <2>5. op' \in OpType
    BY <1>21, <1>n DEF failRun
  <2>6. OpInv'
    BY <1>21, <1>n DEF failRun, OpInv
  <2> QED BY <2>3, <2>4, <2>5, <2>6
<1>22. ASSUME NEW j \in BOOLEAN, failAdvanceTask(j)
     PROVE  DurableTypes' /\ VolatileTypes' /\ op' \in OpType /\ OpInv'
  <2>1. DurableTypes'
    BY <1>22, <1>0 DEF failAdvanceTask, markFailed, DurableTypes, TaskType
  <2>2. VolatileTypes'
    BY <1>22, <1>0, <1>n DEF failAdvanceTask, VolatileTypes
  <2>3. op' \in OpType
    BY <1>22, <1>n DEF failAdvanceTask
  <2>4. OpInv'
    BY <1>22, <1>n DEF failAdvanceTask, OpInv
  <2> QED BY <2>1, <2>2, <2>3, <2>4
<1>23. ASSUME failAdvance \/ loseExportFailure
     PROVE  DurableTypes' /\ VolatileTypes' /\ op' \in OpType /\ OpInv'
  <2>1. DurableTypes'
    BY <1>23, <1>0 DEF failAdvance, loseExportFailure, durable, DurableTypes
  <2>2. VolatileTypes'
    BY <1>23, <1>0, <1>n DEF failAdvance, loseExportFailure, VolatileTypes
  <2>3. op' \in OpType
    BY <1>23, <1>n DEF failAdvance, loseExportFailure
  <2>4. OpInv'
    BY <1>23, <1>n DEF failAdvance, loseExportFailure, OpInv
  <2> QED BY <2>1, <2>2, <2>3, <2>4
<1>24. ASSUME close \/ crash
     PROVE  DurableTypes' /\ VolatileTypes' /\ op' \in OpType /\ OpInv'
  <2>1. DurableTypes'
    BY <1>24, <1>0 DEF close, crash, durable, DurableTypes
  <2>2. VolatileTypes'
    BY <1>24, <1>0, <1>n DEF close, crash, VolatileTypes
  <2>3. op' \in OpType
    BY <1>24, <1>0, <1>n DEF close, crash
  <2>4. OpInv'
    BY <1>24, <1>0, <1>n DEF close, crash, durable, OpInv
  <2> QED BY <2>1, <2>2, <2>3, <2>4
<1>25. ASSUME recover
     PROVE  DurableTypes' /\ VolatileTypes' /\ op' \in OpType /\ OpInv'
  <2>1. status' \in RunStatus /\ log' \in Seq(Event) /\ ids' \in IdState /\ issued' \in Seq(Nat)
    BY <1>25, <1>0, CompleteAtEndType DEF recover, DurableTypes
  <2>2. DurableTypes'
    BY <1>25, <1>0, <2>1 DEF recover, DurableTypes
  <2>3. VolatileTypes'
    BY <1>25, <1>0 DEF recover, listActive, recoverAdvanceTasks, taskActive, VolatileTypes
  <2>4. op' \in OpType
    BY <1>25, <1>0 DEF recover
  <2>5. OpInv'
    BY <1>25, <1>0 DEF recover, OpInv
  <2> QED BY <2>2, <2>3, <2>4, <2>5
<1>26. ASSUME UNCHANGED vars
     PROVE  DurableTypes' /\ VolatileTypes' /\ op' \in OpType /\ OpInv'
  <2>1. DurableTypes'
    BY <1>26, <1>0 DEF vars, durable, DurableTypes
  <2>2. VolatileTypes'
    BY <1>26, <1>0 DEF vars, volatile, VolatileTypes
  <2>3. op' \in OpType
    BY <1>26, <1>0 DEF vars, volatile
  <2>4. OpInv'
    BY <1>26, <1>0 DEF vars, durable, volatile, OpInv
  <2> QED BY <2>1, <2>2, <2>3, <2>4
<1> QED
  BY <1>1, <1>2, <1>3, <1>4, <1>5, <1>6, <1>7, <1>8, <1>9, <1>10, 
     <1>11, <1>12, <1>13, <1>14, <1>15, <1>16, <1>17, <1>18, <1>19, 
     <1>20, <1>21, <1>22, <1>23, <1>24, <1>25, <1>26
  DEF Next, Requests, Work, Faults

(* The initial state has the types. *)
LEMMA InitType ==
  ASSUME Init
  PROVE  TypeInv
<1>1. DurableTypes
  <2>1. NoTask \in TaskType /\ NoJob \in JobType /\ 0 \in 0..EndTick
    BY EndTickAssumption DEF NoTask, NoJob, TaskType, JobType
  <2>2. [type |-> "simulation.created", tick |-> 0] \in Event
    BY <2>1 DEF Event, EventType
  <2>3. log \in Seq(Event)
    BY <2>2 DEF Init
  <2>4. ids \in IdState /\ issued \in Seq(Nat)
    BY DEF Init, IdState
  <2> QED BY <2>1, <2>3, <2>4 DEF Init, LifecycleInit, DurableTypes, RunStatus
<1>2. op \in OpType /\ OpInv
  BY EndTickAssumption DEF Init, NoOp, NoIds, IdState, OpType, OpKind, OpPc, OpInv
<1>3. VolatileTypes
  <2>1. NoLoop \in [tick : -1..EndTick, seq : Int, ids : IdState]
    BY EndTickAssumption DEF NoLoop, NoIds, IdState
  <2> QED BY <2>1 DEF Init, VolatileTypes
<1> QED BY <1>1, <1>2, <1>3 DEF TypeInv, TypeOK

(* The types hold in every state of every run: in particular the clock never
   passes the end tick, whatever mixture of supervised ticks, advances, tasks,
   failures and restarts moves it. *)
THEOREM TypeCorrect == Spec => []TypeOK
<1>1. Init => TypeInv
  BY InitType
<1>2. TypeInv /\ [Next]_vars => TypeInv'
  BY TypeStep
<1>3. TypeInv => TypeOK
  BY DEF TypeInv
<1> QED BY <1>1, <1>2, <1>3, PTL DEF Spec

-----------------------------------------------------------------------------
(* Batches without a lifecycle fact, and batches that end in the fact that
   announces status s.  Neither completes a tick. *)
TicksNothing(ty) == \A i \in 1..Len(ty) : ty[i] # "simulation.tick.completed"
PlainBatch == {ty \in Seq(EventType) :
                 TicksNothing(ty) /\ \A i \in 1..Len(ty) : factStatus(ty[i]) = "none"}
FactBatch(s) == {ty \in Seq(EventType) :
                   TicksNothing(ty) /\ Len(ty) > 0 /\ factStatus(ty[Len(ty)]) = s}
Announced == {"running", "paused", "stopped", "completed"}

(* What a step does to the status, the journal and the ID counter together. *)
JournalEffect ==
  \/ UNCHANGED <<status, log, ids, issued>>
  \/ status' = status /\ \E ty \in PlainBatch, r \in {0, 1} : appendBatch(ty, r)
  \/ status' \in Announced /\ \E ty \in FactBatch(status'), r \in {0, 1} : appendBatch(ty, r)
  \/ commitTick

LEMMA CompleteEffect ==
  ASSUME completeAtEnd
  PROVE  JournalEffect
<1>1. <<"simulation.completed">> \in FactBatch("completed")
  BY DEF FactBatch, TicksNothing, factStatus, EventType
<1>2. transitionRunStatus(status, "complete") \subseteq {"completed"}
  BY DEF transitionRunStatus
<1> QED BY <1>1, <1>2 DEF completeAtEnd, transitionRun, JournalEffect, Announced

(* Every step has one of these effects: no code path changes the status
   without the event that says so. *)
LEMMA JournalStep ==
  ASSUME [Next]_vars
  PROVE  JournalEffect
<1>1. ASSUME NEW c \in {"start", "pause", "resume", "stop"}, controlSimulation(c)
      PROVE  JournalEffect
  <2>1. /\ appendBatch(<<"admin.command.received", lifecycleType(c)>>, 0)
        /\ status' \in transitionRunStatus(status, c)
    BY <1>1 DEF controlSimulation, transitionRun
  <2>2. status' = factStatus(lifecycleType(c)) /\ status' \in Announced
    BY <2>1 DEF transitionRunStatus, lifecycleType, factStatus, Announced
  <2>3. <<"admin.command.received", lifecycleType(c)>> \in FactBatch(status')
    BY <2>2 DEF FactBatch, TicksNothing, EventType, lifecycleType
  <2> QED BY <2>1, <2>2, <2>3 DEF JournalEffect
<1>2. ASSUME setLlmControl \/ injectWorldEvent
      PROVE  JournalEffect
  <2>1. /\ <<"admin.command.received", "llm.control.changed">> \in PlainBatch
        /\ <<"admin.command.received", "world.event.injected">> \in PlainBatch
    BY DEF PlainBatch, TicksNothing, factStatus, EventType
  <2> QED BY <1>2, <2>1 DEF setLlmControl, injectWorldEvent, JournalEffect
<1>3. ASSUME NEW n \in 1..EndTick, advanceSync(n) \/ enqueueAdvanceTask(n)
      PROVE  JournalEffect
  <2>1. <<"admin.command.received">> \in PlainBatch
    BY DEF PlainBatch, TicksNothing, factStatus, EventType
  <2> QED BY <1>3, <2>1 DEF advanceSync, enqueueAdvanceTask, JournalEffect
<1>4. ASSUME NEW e \in ExportIds, NEW ok \in BOOLEAN,
             createExport(e) \/ runExport(e) \/ settleExport(e, ok)
      PROVE  JournalEffect
  BY <1>4 DEF createExport, runExport, settleExport, JournalEffect
<1>5. ASSUME superviseRun \/ finishSupervise \/ finishAdvance
      PROVE  JournalEffect
  BY <1>5, CompleteEffect DEF superviseRun, finishSupervise, finishAdvance
<1>6. ASSUME finishTaskStep \/ recover
      PROVE  JournalEffect
  BY <1>6, CompleteEffect DEF finishTaskStep, recover, JournalEffect
<1>7. ASSUME runAdvanceTaskStep \/ markTaskCompleted
      PROVE  JournalEffect
  BY <1>7 DEF runAdvanceTaskStep, markTaskCompleted, JournalEffect
<1>8. ASSUME ensurePeriodicSnapshot \/ restoreLoop \/ failAdvance \/ loseExportFailure
             \/ close \/ crash
      PROVE  JournalEffect
  BY <1>8 DEF ensurePeriodicSnapshot, restoreLoop, failAdvance, loseExportFailure,
              close, crash, durable, JournalEffect
<1>9. ASSUME applySnapshotPlan
      PROVE  JournalEffect
  <2>1. <<"simulation.statehash.computed", "simulation.snapshot.created">> \in PlainBatch
    BY DEF PlainBatch, TicksNothing, factStatus, EventType
  <2> QED BY <1>9, <2>1 DEF applySnapshotPlan, JournalEffect
<1>10. ASSUME NEW b \in BOOLEAN, beginPreparation(b) \/ failAdvanceTask(b)
       PROVE  JournalEffect
  BY <1>10 DEF beginPreparation, failAdvanceTask, durable, JournalEffect
<1>11. ASSUME NEW b \in BOOLEAN, recordUsage(b)
       PROVE  JournalEffect
  <2>1. /\ <<"llm.usage.recorded">> \in PlainBatch
        /\ <<"llm.usage.recorded", "llm.budget.threshold", "simulation.paused">>
             \in FactBatch("paused")
    BY DEF PlainBatch, FactBatch, TicksNothing, factStatus, EventType
  <2> QED BY <1>11, <2>1 DEF recordUsage, JournalEffect, Announced
<1>12. ASSUME NEW j \in BOOLEAN, failRun(j)
       PROVE  JournalEffect
  <2>1. <<"system.error.raised">> \in FactBatch("paused")
    BY DEF FactBatch, TicksNothing, factStatus, EventType
  <2>2. transitionRunStatus(status, "pause") \subseteq {"paused"}
    BY DEF transitionRunStatus
  <2> QED BY <1>12, <2>1, <2>2 DEF failRun, transitionRun, JournalEffect, Announced
<1>13. ASSUME commitTick
       PROVE  JournalEffect
  BY <1>13 DEF JournalEffect
<1>14. ASSUME UNCHANGED vars
       PROVE  JournalEffect
  BY <1>14 DEF vars, durable, JournalEffect
<1> QED
  BY <1>1, <1>2, <1>3, <1>4, <1>5, <1>6, <1>7, <1>8, <1>9, <1>10, <1>11, <1>12,
     <1>13, <1>14
  DEF Next, Requests, Work, Faults

(* The events a tick stages are events: the tick they carry exists. *)
LEMMA StagedType ==
  ASSUME TypeInv, commitTick
  PROVE  /\ tick + 1 \in 0..EndTick
         /\ stagedEvents \in Seq(Event) /\ Len(stagedEvents) = 2
<1>1. op.pc = "tick"
  BY DEF commitTick
<1>2. op.remaining \in 0..EndTick /\ op.pass \in 0..EndTick /\ tick \in 0..EndTick
  BY DEF TypeInv, TypeOK, DurableTypes, OpType
<1>3. op.pass \in 1..op.remaining /\ op.remaining <= EndTick - tick
  BY <1>1 DEF TypeInv, OpInv
<1>4. tick + 1 \in 0..EndTick
  BY <1>2, <1>3, EndTickAssumption
<1> QED BY <1>4 DEF stagedEvents, Event, EventType

(* How the journal grows: by a suffix, with the old events in place. *)
LEMMA JournalGrows ==
  ASSUME TypeInv, JournalEffect
  PROVE  /\ Len(log) \in Nat /\ Len(log') \in Nat /\ Len(log) <= Len(log')
         /\ \A i \in 1..Len(log) : log'[i] = log[i]
<1>1. log \in Seq(Event) /\ Len(log) \in Nat
  BY DEF TypeInv, TypeOK, DurableTypes
<1>2. CASE UNCHANGED <<status, log, ids, issued>>
  BY <1>1, <1>2
<1>3. ASSUME NEW ty \in Seq(EventType), NEW r \in {0, 1}, appendBatch(ty, r)
      PROVE  /\ Len(log') \in Nat /\ Len(log) <= Len(log')
             /\ \A i \in 1..Len(log) : log'[i] = log[i]
  <2> DEFINE new == [i \in 1..Len(ty) |-> [type |-> ty[i], tick |-> tick]]
  <2>1. new \in Seq(Event) /\ Len(new) = Len(ty) /\ Len(ty) \in Nat
    BY DEF Event, TypeInv, TypeOK, DurableTypes
  <2>2. log' = log \o new
    BY <1>3 DEF appendBatch
  <2> HIDE DEF new
  <2>3. /\ Len(log \o new) = Len(log) + Len(ty)
        /\ \A i \in 1..Len(log) : (log \o new)[i] = log[i]
    BY <1>1, <2>1
  <2> QED BY <1>1, <2>1, <2>2, <2>3
<1>4. CASE commitTick
  <2>1. log' = log \o stagedEvents
    BY <1>4 DEF commitTick
  <2>2. stagedEvents \in Seq(Event) /\ Len(stagedEvents) = 2
    BY <1>4, StagedType
  <2>3. Len(log \o stagedEvents) = Len(log) + Len(stagedEvents)
    BY <1>1, <2>2, ConcatFacts
  <2>4. \A i \in 1..Len(log) : (log \o stagedEvents)[i] = log[i]
    BY <1>1, <2>2, ConcatFacts
  <2> QED BY <1>1, <2>1, <2>2, <2>3, <2>4
<1> QED BY <1>1, <1>2, <1>3, <1>4 DEF JournalEffect, PlainBatch, FactBatch

(* The events a batch adds are the types it lists, in order. *)
LEMMA BatchEvents ==
  ASSUME TypeInv, NEW ty \in Seq(EventType), NEW r \in {0, 1}, appendBatch(ty, r)
  PROVE  /\ Len(ty) \in Nat /\ Len(log') = Len(log) + Len(ty)
         /\ \A i \in (Len(log) + 1)..Len(log') :
              /\ i - Len(log) \in 1..Len(ty)
              /\ log'[i].type = ty[i - Len(log)] /\ log'[i].tick = tick
<1> DEFINE new == [i \in 1..Len(ty) |-> [type |-> ty[i], tick |-> tick]]
<1>1. log \in Seq(Event) /\ Len(log) \in Nat
  BY DEF TypeInv, TypeOK, DurableTypes
<1>2. /\ new \in Seq(Event) /\ Len(new) = Len(ty) /\ Len(ty) \in Nat
      /\ \A k \in 1..Len(ty) : new[k].type = ty[k] /\ new[k].tick = tick
  BY DEF Event, TypeInv, TypeOK, DurableTypes
<1>3. log' = log \o new
  BY DEF appendBatch
<1> HIDE DEF new
<1>4. Len(log \o new) = Len(log) + Len(new)
  BY <1>1, <1>2, ConcatFacts
<1>5. \A i \in (Len(log) + 1)..(Len(log) + Len(new)) :
         i - Len(log) \in 1..Len(new) /\ (log \o new)[i] = new[i - Len(log)]
  BY <1>1, <1>2, ConcatFacts
<1> QED BY <1>2, <1>3, <1>4, <1>5

(* The journal is append-only for every step, crashes and restarts included. *)
THEOREM JournalAppendOnlyHolds == Spec => JournalAppendOnly
<1>1. TypeInv /\ [Next]_vars =>
        [Len(log) <= Len(log') /\ \A i \in 1..Len(log) : log'[i] = log[i]]_vars
  BY JournalStep, JournalGrows
<1> QED BY <1>1, InitType, TypeStep, PTL DEF Spec, JournalAppendOnly

(* The status is always the one the last lifecycle fact of the journal
   announces: no request, failure, budget pause or recovery can leave the two
   apart, and neither can a crash between their transactions. *)
THEOREM StatusFollowsJournalHolds == Spec => []StatusFollowsJournal
<1> DEFINE Inv == TypeInv /\ StatusFollowsJournal
<1>1. Init => Inv
  <2> SUFFICES ASSUME Init PROVE StatusFollowsJournal
    BY InitType
  <2>1. Len(log) = 1 /\ log[1].type = "simulation.created" /\ status = "created"
    BY DEF Init, LifecycleInit
  <2> QED BY <2>1 DEF StatusFollowsJournal, isFact, factStatus
<1>2. Inv /\ [Next]_vars => Inv'
  <2> SUFFICES ASSUME Inv, [Next]_vars PROVE StatusFollowsJournal'
    BY TypeStep
  <2>1. JournalEffect /\ TypeInv /\ StatusFollowsJournal
    BY JournalStep
  <2>2. /\ Len(log) \in Nat /\ Len(log') \in Nat /\ Len(log) <= Len(log')
        /\ \A i \in 1..Len(log) : log'[i] = log[i]
    BY <2>1, JournalGrows
  <2>3. CASE UNCHANGED <<status, log, ids, issued>>
    BY <2>1, <2>3 DEF StatusFollowsJournal, isFact
  <2>4. ASSUME status' = status,
               \A i \in (Len(log) + 1)..Len(log') : factStatus(log'[i].type) = "none"
        PROVE  StatusFollowsJournal'
    <3>1. \A i \in 1..Len(log') : isFact(i)' => i \in 1..Len(log) /\ isFact(i)
      BY <2>2, <2>4 DEF isFact
    <3>2. \A i \in 1..Len(log) : i \in 1..Len(log') /\ (isFact(i)' <=> isFact(i))
      BY <2>2 DEF isFact
    <3> QED BY <2>1, <2>2, <2>4, <3>1, <3>2 DEF StatusFollowsJournal
  <2>5. ASSUME NEW ty \in PlainBatch, NEW r \in {0, 1}, appendBatch(ty, r), status' = status
        PROVE  StatusFollowsJournal'
    <3>1. \A i \in (Len(log) + 1)..Len(log') :
             i - Len(log) \in 1..Len(ty) /\ log'[i].type = ty[i - Len(log)]
      BY <2>1, <2>5, BatchEvents DEF PlainBatch
    <3>2. \A i \in (Len(log) + 1)..Len(log') : factStatus(log'[i].type) = "none"
      BY <3>1 DEF PlainBatch
    <3> QED BY <2>4, <2>5, <3>2
  <2>6. ASSUME status' \in Announced, NEW ty \in FactBatch(status'), NEW r \in {0, 1},
               appendBatch(ty, r)
        PROVE  StatusFollowsJournal'
    <3>1. Len(log') = Len(log) + Len(ty) /\ Len(ty) \in Nat \ {0}
      BY <2>1, <2>6, BatchEvents DEF FactBatch
    <3>2. log'[Len(log')].type = ty[Len(ty)]
      BY <2>1, <2>2, <2>6, <3>1, BatchEvents DEF FactBatch
    <3>3. /\ factStatus(log'[Len(log')].type) = status'
          /\ status' # "none"
          /\ status' # "created"
      BY <2>6, <3>2 DEF FactBatch, Announced
    <3>4. Len(log') \in 1..Len(log')
      BY <2>2, <3>1, <3>3 DEF isFact
    <3>5. \A i \in 1..Len(log') : i # Len(log') => Len(log') \in (i + 1)..Len(log')
      BY <2>2
    <3> QED BY <3>3, <3>4, <3>5 DEF StatusFollowsJournal, isFact
  <2>7. CASE commitTick
    <3>1. log' = log \o stagedEvents /\ status' = status
      BY <2>7 DEF commitTick
    <3>2. stagedEvents \in Seq(Event) /\ Len(stagedEvents) = 2 /\ log \in Seq(Event)
      BY <2>1, <2>7, StagedType DEF TypeInv, TypeOK, DurableTypes
    <3>3. \A k \in 1..2 : factStatus(stagedEvents[k].type) = "none"
      BY DEF stagedEvents, factStatus
    <3>4. \A i \in (Len(log) + 1)..Len(log') :
             i - Len(log) \in 1..2 /\ log'[i] = stagedEvents[i - Len(log)]
      BY <2>2, <3>1, <3>2, ConcatFacts
    <3> QED BY <2>4, <3>1, <3>3, <3>4
  <2> QED BY <2>1, <2>3, <2>5, <2>6, <2>7 DEF JournalEffect
<1>3. Inv => StatusFollowsJournal
  OBVIOUS
<1> QED BY <1>1, <1>2, <1>3, PTL DEF Spec

(* Completion, taken or not, is a lifecycle step. *)
LEMMA CompleteLifecycle ==
  ASSUME completeAtEnd, UNCHANGED tick
  PROVE  [LifecycleNext]_lifecycleVars
BY DEF completeAtEnd, transitionRun, LifecycleNext, Obey, RunCommand, lifecycleVars

(* The supervised run implements the lifecycle: each of its steps is a
   command of the transition table, a tick of the clock, or leaves both
   alone.  Failures, budget pauses and recovery add no transition. *)
THEOREM ImplementsLifecycle == Spec => LifecycleSpec
<1>1. Init => LifecycleInit
  BY DEF Init
<1>2. TypeInv /\ [Next]_vars => [LifecycleNext]_lifecycleVars
  <2> SUFFICES ASSUME TypeInv, [Next]_vars PROVE [LifecycleNext]_lifecycleVars
    OBVIOUS
  <2>1. ASSUME NEW c \in {"start", "pause", "resume", "stop"}, controlSimulation(c)
        PROVE  [LifecycleNext]_lifecycleVars
    BY <2>1 DEF controlSimulation, transitionRun, LifecycleNext, Obey, RunCommand
  <2>2. ASSUME NEW n \in 1..EndTick, advanceSync(n) \/ enqueueAdvanceTask(n)
        PROVE  UNCHANGED lifecycleVars
    BY <2>2 DEF advanceSync, enqueueAdvanceTask, lifecycleVars
  <2>3. ASSUME NEW e \in ExportIds, NEW ok \in BOOLEAN,
               createExport(e) \/ runExport(e) \/ settleExport(e, ok)
        PROVE  UNCHANGED lifecycleVars
    BY <2>3 DEF createExport, runExport, settleExport, lifecycleVars
  <2>4. ASSUME setLlmControl \/ injectWorldEvent \/ runAdvanceTaskStep
               \/ applySnapshotPlan \/ markTaskCompleted
        PROVE  UNCHANGED lifecycleVars
    BY <2>4 DEF setLlmControl, injectWorldEvent, runAdvanceTaskStep,
                applySnapshotPlan, markTaskCompleted, lifecycleVars
  <2>5. ASSUME ensurePeriodicSnapshot \/ restoreLoop \/ failAdvance
               \/ loseExportFailure \/ close \/ crash
        PROVE  UNCHANGED lifecycleVars
    BY <2>5 DEF ensurePeriodicSnapshot, restoreLoop, failAdvance, loseExportFailure,
                close, crash, durable, lifecycleVars
  <2>6. ASSUME NEW b \in BOOLEAN, beginPreparation(b) \/ failAdvanceTask(b)
        PROVE  UNCHANGED lifecycleVars
    BY <2>6 DEF beginPreparation, failAdvanceTask, durable, lifecycleVars
  <2>7. ASSUME superviseRun \/ finishSupervise \/ finishAdvance
        PROVE  [LifecycleNext]_lifecycleVars
    BY <2>7, CompleteLifecycle DEF superviseRun, finishSupervise, finishAdvance
  <2>8. ASSUME finishTaskStep \/ recover
        PROVE  [LifecycleNext]_lifecycleVars
    BY <2>8, CompleteLifecycle DEF finishTaskStep, recover, lifecycleVars
  <2>9. ASSUME NEW b \in BOOLEAN, recordUsage(b)
        PROVE  [LifecycleNext]_lifecycleVars
    <3>1. UNCHANGED tick /\ (status' = status \/ (status = "running" /\ status' = "paused"))
      BY <2>9 DEF recordUsage
    <3>2. "paused" \in transitionRunStatus("running", "pause")
      BY DEF transitionRunStatus
    <3> QED BY <3>1, <3>2 DEF LifecycleNext, Obey, RunCommand, lifecycleVars
  <2>10. ASSUME NEW j \in BOOLEAN, failRun(j)
         PROVE  [LifecycleNext]_lifecycleVars
    BY <2>10 DEF failRun, transitionRun, LifecycleNext, Obey, RunCommand, lifecycleVars
  <2>11. ASSUME commitTick
         PROVE  [LifecycleNext]_lifecycleVars
    <3>1. tick + 1 \in 0..EndTick /\ tick \in 0..EndTick
      BY <2>11, StagedType DEF TypeInv, TypeOK, DurableTypes
    <3>2. tick < EndTick
      BY <3>1, EndTickAssumption
    <3> QED BY <2>11, <3>2 DEF commitTick, CommitTick, LifecycleNext
  <2>12. ASSUME UNCHANGED vars
         PROVE  UNCHANGED lifecycleVars
    BY <2>12 DEF vars, durable, lifecycleVars
  <2> QED
    BY <2>1, <2>2, <2>3, <2>4, <2>5, <2>6, <2>7, <2>8, <2>9, <2>10, <2>11, <2>12
    DEF Next, Requests, Work, Faults
<1> QED BY <1>1, <1>2, InitType, TypeStep, PTL DEF Spec, LifecycleSpec

-----------------------------------------------------------------------------
(* Where a handler stands: its kind and its place go together, only a live
   process has one, and a cached loop exists only between the snapshot check
   and the end of a pass. *)
Standing ==
  /\ op.kind = "none" <=> op.pc = "idle"
  /\ op.kind = "export" <=> op.pc = "materialize"
  /\ op.pc = "mark" => op.kind = "task"
  /\ svc = "down" => op.kind = "none" /\ ~runTimer /\ ~taskTimer
  /\ loop # NoLoop => op.pc \in {"loop", "await", "tick"}

(* The loop also survives the await of a preparation without a batch. *)
LoopFresh ==
  op.pc = "await" /\ ~op.batch /\ loop # NoLoop => loop = readRunCheckpoint

HandlerInv == Standing /\ LoopFresh /\ CheckpointFresh

(* A timer of the run is set only while it runs, and never under the handler
   that drives it; an advance leaves the run paused. *)
TimerInv ==
  /\ runTimer => status = "running" /\ op.kind \in {"none", "export"}
  /\ op.kind = "advance" => status = "paused"
  /\ taskTimer => taskActive /\ op.kind # "task"

(* The handler of a task works on it, towards its target. *)
TaskHandlerInv ==
  op.kind = "task" =>
    /\ task.status = "running"
    /\ op.pc # "mark" => op.remaining <= task.target - tick

TaskInv == TimerInv /\ TaskHandlerInv /\ TaskOwnsRun

(* A due snapshot is there before a pass begins, and none falls due inside. *)
PassInv ==
  /\ op.pc \in {"await", "tick"} \/ (op.pc = "loop" /\ op.remaining > 0) =>
       (snapshotDue(tick) => hasSnapshot(tick))
  /\ op.pc = "backup" => ~hasSnapshot(tick)
  /\ op.pc = "tick" => (tick % SnapshotInterval) + op.pass <= SnapshotInterval

GapInv == PassInv /\ NoSnapshotGap

(* No event is later than the clock. *)
JournalInv == JournaledOnce /\ \A i \in 1..Len(log) : log[i].tick <= tick

(* A job whose timer is set waits, and the one under way is running. *)
JobInv ==
  /\ \A e \in exportTimers : exports[e].status \in {"queued", "running"}
  /\ op.kind = "export" =>
       \A e \in op.job : e \notin exportTimers /\ exports[e].status = "running"
  /\ \A e \in ExportIds : exports[e].status = "completed" => exports[e].content <= Len(log)

-----------------------------------------------------------------------------
(* The fields of the operations a handler starts with. *)
LEMMA OpFields ==
  /\ NoOp.kind = "none" /\ NoOp.pc = "idle" /\ NoOp.remaining = 0 /\ NoOp.job = {}
  /\ \A kind, n : LET o == enterTicks(kind, n)
                  IN  o.kind = kind /\ o.pc = "ensure" /\ o.remaining = n /\ o.job = {}
BY DEF NoOp, enterTicks

(* What every handler needs of its place; requests and faults take or give
   up the lock, and only the handler moves in between. *)
LEMMA HandlerStep ==
  ASSUME TypeInv, HandlerInv, [Next]_vars
  PROVE  HandlerInv'
<1> USE DEF HandlerInv, Standing, LoopFresh, CheckpointFresh
<1>0. /\ op \in OpType /\ op.pc \in OpPc /\ op.kind \in OpKind /\ tick \in 0..EndTick /\ log \in Seq(Event)
  BY DEF TypeInv, TypeOK, DurableTypes, OpType
<1>n. NoOp.kind = "none" /\ NoOp.pc = "idle"
  BY OpFields
<1>r. readRunCheckpoint # NoLoop
  BY <1>0, EndTickAssumption DEF readRunCheckpoint, NoLoop
<1>1. CASE UNCHANGED <<tick, log, ids, svc, op, loop, runTimer, taskTimer>>
  BY <1>1 DEF readRunCheckpoint, LogicalState
(* Requests and timers find the lock free. *)
<1>2. ASSUME Unlocked, UNCHANGED <<svc, op, loop>>, svc # "down"
      PROVE  HandlerInv'
  BY <1>2, <1>0 DEF Unlocked
<1>3. ASSUME Unlocked, UNCHANGED <<svc, loop>>, svc = "up",
             NEW k \in {"supervise", "advance", "task"}, NEW n, op' = enterTicks(k, n)
      PROVE  HandlerInv'
  BY <1>3, <1>0, OpFields DEF Unlocked
(* The lock is given up. *)
<1>4. ASSUME op' = NoOp, loop' = NoLoop, svc' = svc,
             svc = "down" => UNCHANGED <<runTimer, taskTimer>>
      PROVE  HandlerInv'
  BY <1>4, <1>n
<1>5. ASSUME NEW c \in {"start", "pause", "resume", "stop"}, controlSimulation(c)
      PROVE  HandlerInv'
  BY <1>5, <1>2 DEF controlSimulation, Serving
<1>6. ASSUME setLlmControl \/ injectWorldEvent
      PROVE  HandlerInv'
  BY <1>6, <1>2 DEF setLlmControl, injectWorldEvent, volatile, Serving
<1>7. ASSUME NEW n \in 1..EndTick, advanceSync(n) \/ enqueueAdvanceTask(n)
      PROVE  HandlerInv'
  <2>1. CASE advanceSync(n)
    BY <2>1, <1>3 DEF advanceSync, Serving
  <2>2. CASE enqueueAdvanceTask(n)
    BY <2>2, <1>2 DEF enqueueAdvanceTask, Serving
  <2> QED BY <1>7, <2>1, <2>2
<1>8. ASSUME NEW e \in ExportIds, createExport(e)
      PROVE  HandlerInv'
  BY <1>8, <1>2 DEF createExport
<1>9. ASSUME superviseRun
      PROVE  HandlerInv'
  <2>1. CASE op' = NoOp
    BY <1>9, <2>1, <1>n, <1>0 DEF superviseRun, Unlocked
  <2>2. CASE op' = enterTicks("supervise", 1)
    BY <1>9, <2>2, <1>3 DEF superviseRun
  <2> QED BY <1>9, <2>1, <2>2 DEF superviseRun
<1>10. ASSUME runAdvanceTaskStep
       PROVE  HandlerInv'
  <2>1. CASE op' = NoOp
    BY <1>10, <2>1, <1>n, <1>0 DEF runAdvanceTaskStep, Unlocked
  <2>2. CASE op' = [NoOp EXCEPT !.kind = "task", !.pc = "loop"]
    <3>1. op'.kind = "task" /\ op'.pc = "loop"
      BY <2>2 DEF NoOp
    <3> QED BY <1>10, <3>1, <1>0 DEF runAdvanceTaskStep, Unlocked
  <2>3. CASE op' = enterTicks("task", Least(AsyncChunk, task.target - tick))
    BY <1>10, <2>3, <1>3 DEF runAdvanceTaskStep
  <2>4. CASE op' = op
    BY <1>10, <2>4, <1>2 DEF runAdvanceTaskStep
  <2> QED BY <1>10, <2>1, <2>2, <2>3, <2>4 DEF runAdvanceTaskStep
<1>11. ASSUME NEW e \in ExportIds, runExport(e)
       PROVE  HandlerInv'
  <2>1. CASE op' = op
    BY <1>11, <2>1, <1>2 DEF runExport
  <2>2. CASE op' # op
    <3>1. op'.kind = "export" /\ op'.pc = "materialize"
      BY <1>11, <2>2 DEF runExport, NoOp
    <3> QED BY <1>11, <3>1, <1>0 DEF runExport, Unlocked
  <2> QED BY <2>1, <2>2
<1>12. ASSUME NEW e \in ExportIds, NEW ok \in BOOLEAN, settleExport(e, ok)
       PROVE  HandlerInv'
  BY <1>12, <1>4, <1>0 DEF settleExport
<1>13. ASSUME ensurePeriodicSnapshot
       PROVE  HandlerInv'
  <2>1. /\ op'.kind = op.kind
        /\ op'.pc \in {"backup", "loop"}
        /\ op.kind \in {"supervise", "advance", "task"}
    BY <1>13, <1>0 DEF ensurePeriodicSnapshot, buildSnapshotPlan, OpType, OpKind
  <2>2. op'.pc = "backup" => LogicalState = <<op'.at, op'.seq>> /\ ids = op'.ids
    BY <1>13, <1>0 DEF ensurePeriodicSnapshot, buildSnapshotPlan, OpType, LogicalState
  <2>3. loop = NoLoop /\ loop' = NoLoop /\ LogicalState' = LogicalState /\ ids' = ids
    BY <1>13 DEF ensurePeriodicSnapshot, durable, LogicalState
  <2> QED BY <1>13, <1>0, <2>1, <2>2, <2>3 DEF ensurePeriodicSnapshot
<1>14. ASSUME applySnapshotPlan
       PROVE  HandlerInv'
  <2>1. /\ op'.kind = op.kind
        /\ op'.pc = "loop"
        /\ op.kind \in {"supervise", "advance", "task"}
    BY <1>14, <1>0 DEF applySnapshotPlan, OpType, OpKind
  <2>2. loop' = NoLoop
    BY <1>14 DEF applySnapshotPlan
  <2> QED BY <1>14, <2>1, <2>2 DEF applySnapshotPlan
<1>15. ASSUME NEW b \in BOOLEAN, beginPreparation(b)
       PROVE  HandlerInv'
  <2>1. /\ op'.kind = op.kind
        /\ op'.pc = "await"
        /\ op'.at = tick
        /\ op.kind \in {"supervise", "advance", "task"}
    BY <1>15, <1>0 DEF beginPreparation, OpType, OpKind
  <2>2. UNCHANGED <<tick, log, ids, loop, svc>>
    BY <1>15 DEF beginPreparation, durable
  <2> QED BY <1>15, <2>1, <2>2 DEF beginPreparation, readRunCheckpoint
<1>16. ASSUME NEW b \in BOOLEAN, recordUsage(b)
       PROVE  HandlerInv'
  BY <1>16 DEF recordUsage, volatile
<1>17. ASSUME restoreLoop
       PROVE  HandlerInv'
  <2>1. /\ op'.kind = op.kind
        /\ op'.pc = "tick"
        /\ op.kind \in {"supervise", "advance", "task"}
    BY <1>17, <1>0 DEF restoreLoop, OpType, OpKind
  <2>2. loop' = readRunCheckpoint /\ UNCHANGED <<tick, log, ids, svc>>
    BY <1>17, <1>0 DEF restoreLoop, durable, OpType
  <2> QED BY <1>17, <1>r, <2>1, <2>2 DEF restoreLoop, readRunCheckpoint
<1>18. ASSUME commitTick
       PROVE  HandlerInv'
  <2>1. /\ op'.kind = op.kind
        /\ op'.pc \in {"tick", "ensure", "loop"}
        /\ op.kind \in {"supervise", "advance", "task"}
    BY <1>18, <1>0 DEF commitTick, OpType, OpKind
  <2>2. Len(log') = Len(log) + 2 /\ tick' = tick + 1
    <3>1. log' = log \o stagedEvents /\ tick' = tick + 1
      BY <1>18 DEF commitTick
    <3>2. stagedEvents \in Seq(Event) /\ Len(stagedEvents) = 2
      BY <1>18, StagedType
    <3>3. Len(log \o stagedEvents) = Len(log) + Len(stagedEvents)
      BY <1>0, <3>2, ConcatFacts
    <3> QED BY <3>1, <3>2, <3>3
  <2>3. loop' = NoLoop \/ (loop' = readRunCheckpoint' /\ op'.pc \in {"tick", "loop"})
    BY <1>18, <1>0, <2>2 DEF commitTick, readRunCheckpoint, OpType
  <2>4. op'.pc = "tick" => loop' = [tick |-> tick + 1, seq |-> Len(log) + 2, ids |-> ids']
    BY <1>18, <1>0 DEF commitTick, OpType
  <2>5. [tick |-> tick + 1, seq |-> Len(log) + 2, ids |-> ids'] # NoLoop
    BY <1>0, EndTickAssumption DEF NoLoop
  <2> QED BY <1>18, <2>1, <2>3, <2>4, <2>5 DEF commitTick
<1>19. ASSUME finishSupervise \/ finishAdvance \/ failAdvance
              \/ \E j \in BOOLEAN : failRun(j) \/ failAdvanceTask(j)
       PROVE  HandlerInv'
  <2>1. op' = NoOp /\ loop' = NoLoop /\ svc' = svc /\ svc # "down"
    BY <1>19, <1>0
    DEF finishSupervise, finishAdvance, failAdvance, failRun, failAdvanceTask, throwing,
        ticksDone
  <2> QED BY <2>1, <1>n
<1>20. ASSUME finishTaskStep
       PROVE  HandlerInv'
  <2>1. op' = NoOp \/ (op'.kind = "task" /\ op'.pc = "mark")
    BY <1>20, <1>0 DEF finishTaskStep, OpType
  <2>2. svc' = svc /\ svc # "down" /\ loop' = NoLoop
    BY <1>20 DEF finishTaskStep
  <2> QED BY <1>n, <2>1, <2>2
<1>21. ASSUME markTaskCompleted \/ loseExportFailure
       PROVE  HandlerInv'
  BY <1>21, <1>0, <1>n DEF markTaskCompleted, loseExportFailure
<1>22. ASSUME close \/ crash
       PROVE  HandlerInv'
  BY <1>22, <1>n, <1>1 DEF close, crash, durable, readRunCheckpoint, LogicalState
<1>23. ASSUME recover
       PROVE  HandlerInv'
  BY <1>23 DEF recover
<1>24. ASSUME UNCHANGED vars
       PROVE  HandlerInv'
  BY <1>24, <1>1 DEF vars, durable, volatile
<1> QED
  BY <1>5, <1>6, <1>7, <1>8, <1>9, <1>10, <1>11, <1>12, <1>13, <1>14, <1>15, <1>16, <1>17,
     <1>18, <1>19, <1>20, <1>21, <1>22, <1>23, <1>24
  DEF Next, Requests, Work, Faults

(* Completion happens at the end tick only, and a run that is not running or
   paused cannot complete. *)
LEMMA CompleteStatus ==
  ASSUME completeAtEnd
  PROVE  \/ status' = status /\ (tick = EndTick => status = "completed")
         \/ tick = EndTick /\ status \in {"running", "paused"} /\ status' = "completed"
BY DEF completeAtEnd, transitionRun, transitionRunStatus

(* The advance task, the timers and the run's driver. *)
OwnerInv == TaskInv /\ RunningIsDriven

LEMMA OwnerStep ==
  ASSUME TypeInv, HandlerInv, OwnerInv, [Next]_vars
  PROVE  OwnerInv'
<1> USE DEF OwnerInv, TaskInv, TimerInv, TaskHandlerInv, TaskOwnsRun, RunningIsDriven, taskActive
<1> USE EndTickAssumption, SupervisorAssumption
<1>0. /\ op \in OpType /\ op.pc \in OpPc /\ op.kind \in OpKind /\ op.remaining \in 0..EndTick
      /\ tick \in 0..EndTick /\ task \in TaskType /\ task.start \in 0..EndTick /\ task.target \in 0..EndTick
      /\ status \in RunStatus
  BY DEF TypeInv, TypeOK, DurableTypes, OpType, TaskType
<1>s. Standing /\ OpInv
  BY DEF HandlerInv, TypeInv
<1>n. NoOp.kind = "none" /\ NoOp.pc = "idle"
  BY OpFields
<1>1. ASSUME UNCHANGED <<status, tick, task, svc, runTimer, taskTimer, lost>>,
             op'.kind = op.kind, op'.remaining = op.remaining, op.pc # "mark" /\ op'.pc # "mark"
      PROVE  OwnerInv'
  BY <1>1
<1>2. ASSUME NEW c \in {"start", "pause", "resume", "stop"}, controlSimulation(c)
      PROVE  OwnerInv'
  <2>1. /\ op.kind = "none"
        /\ ~taskActive
        /\ runTimer' = (status' = "running")
        /\ UNCHANGED <<op, task, tick, taskTimer, svc, lost>>
    BY <1>2 DEF controlSimulation, Unlocked
  <2> QED BY <2>1
<1>3. ASSUME setLlmControl \/ injectWorldEvent
      PROVE  OwnerInv'
  BY <1>3 DEF setLlmControl, injectWorldEvent, volatile
<1>4. ASSUME NEW n \in 1..EndTick, advanceSync(n)
      PROVE  OwnerInv'
  <2>1. op'.kind = "advance" /\ op'.pc = "ensure"
    BY <1>4, OpFields DEF advanceSync
  <2>2. /\ status = "paused"
        /\ ~taskActive
        /\ UNCHANGED <<status, tick, task, svc, runTimer, taskTimer, lost>>
    BY <1>4 DEF advanceSync, assertCanAdvance
  <2> QED BY <2>1, <2>2
<1>5. ASSUME NEW n \in 1..EndTick, enqueueAdvanceTask(n)
      PROVE  OwnerInv'
  <2>1. /\ op.kind = "none"
        /\ status = "paused"
        /\ UNCHANGED <<status, tick, svc, op, runTimer, lost>>
    BY <1>5 DEF enqueueAdvanceTask, assertCanAdvance, Unlocked
  <2>2. task'.status = "pending" /\ task'.start = tick /\ task'.target = tick + n
    BY <1>5 DEF enqueueAdvanceTask, createAdvanceTask
  <2> QED BY <1>0, <2>1, <2>2
<1>6. ASSUME NEW e \in ExportIds, createExport(e)
      PROVE  OwnerInv'
  BY <1>6 DEF createExport
<1>7. ASSUME superviseRun
      PROVE  OwnerInv'
  <2>1. /\ op.kind = "none"
        /\ status = "running"
        /\ ~taskActive
        /\ ~runTimer'
        /\ UNCHANGED <<tick, task, svc, taskTimer, lost>>
    BY <1>7 DEF superviseRun, Unlocked
  <2>2. \/ status' = "completed" /\ op' = NoOp
        \/ status' = "running" /\ op'.kind = "supervise" /\ op'.pc = "ensure"
    BY <1>7, <2>1, CompleteStatus, OpFields DEF superviseRun
  <2> QED BY <2>1, <2>2, <1>n
<1>8. ASSUME runAdvanceTaskStep
      PROVE  OwnerInv'
  <2>1. /\ op.kind = "none"
        /\ taskActive
        /\ ~taskTimer'
        /\ UNCHANGED <<status, tick, svc, runTimer, lost>>
    BY <1>8 DEF runAdvanceTaskStep, Unlocked
  <2> DEFINE refused == tick > task.target \/ (tick < task.target /\ status # "paused")
  <2>r. ~refused
    BY <1>0, <2>1 DEF TaskType
  <2>a. /\ task' = IF refused THEN markFailed(task) ELSE markRunning(task)
        /\ op' = IF refused THEN NoOp
                 ELSE IF tick = task.target
                 THEN [NoOp EXCEPT !.kind = "task", !.pc = "loop"]
                 ELSE enterTicks("task", Least(AsyncChunk, task.target - tick))
    BY <1>8, <2>1 DEF runAdvanceTaskStep
  <2> HIDE DEF refused
  <2>2. task' = markRunning(task)
    BY <2>r, <2>a
  <2>3. task'.status = "running" /\ task'.start = task.start /\ task'.target = task.target
    BY <1>0, <2>2 DEF markRunning, TaskType
  <2>4. op'.kind = "task" /\ op'.pc # "mark" /\ op'.remaining <= task.target - tick
    <3>1. CASE tick = task.target
      <4>1. op' = [NoOp EXCEPT !.kind = "task", !.pc = "loop"]
        BY <2>r, <2>a, <3>1
      <4>2. op'.kind = "task" /\ op'.pc = "loop" /\ op'.remaining = 0
        BY <4>1 DEF NoOp
      <4> QED BY <1>0, <3>1, <4>2
    <3>2. CASE tick # task.target
      <4>1. op' = enterTicks("task", Least(AsyncChunk, task.target - tick))
        BY <2>r, <2>a, <3>2
      <4>2. Least(AsyncChunk, task.target - tick) <= task.target - tick
        BY <1>0 DEF Least
      <4> QED BY <4>1, <4>2, OpFields
    <3> QED BY <3>1, <3>2
  <2> QED BY <2>1, <2>3, <2>4
<1>9. ASSUME NEW e \in ExportIds, runExport(e)
      PROVE  OwnerInv'
  <2>1. op.kind = "none" /\ (op' = op \/ (op'.kind = "export" /\ op'.pc = "materialize"))
    BY <1>9 DEF runExport, NoOp, Unlocked
  <2> QED BY <1>9, <2>1 DEF runExport
<1>10. ASSUME loseExportFailure \/ \E e \in ExportIds, ok \in BOOLEAN : settleExport(e, ok)
       PROVE  OwnerInv'
  <2>1. /\ op.kind = "export"
        /\ op'.kind = "none"
        /\ UNCHANGED <<status, tick, task, svc, runTimer, taskTimer>>
        /\ ("run" \in lost => "run" \in lost')
    BY <1>10, <1>n, <1>s DEF settleExport, loseExportFailure, Standing, durable
  <2> QED BY <2>1
<1>11. ASSUME ensurePeriodicSnapshot
       PROVE  OwnerInv'
  <2>1. /\ op'.kind = op.kind
        /\ op'.remaining = op.remaining
        /\ op.pc # "mark"
        /\ op'.pc # "mark"
    BY <1>11, <1>0 DEF ensurePeriodicSnapshot, buildSnapshotPlan, OpType
  <2> QED BY <1>1, <1>11, <2>1 DEF ensurePeriodicSnapshot, durable
<1>12. ASSUME applySnapshotPlan
       PROVE  OwnerInv'
  <2>1. /\ op'.kind = op.kind
        /\ op'.remaining = op.remaining
        /\ op.pc # "mark"
        /\ op'.pc # "mark"
    BY <1>12, <1>0 DEF applySnapshotPlan, OpType
  <2> QED BY <1>1, <1>12, <2>1 DEF applySnapshotPlan
<1>13. ASSUME NEW b \in BOOLEAN, beginPreparation(b)
       PROVE  OwnerInv'
  <2>1. /\ op'.kind = op.kind
        /\ op'.remaining = op.remaining
        /\ op.pc # "mark"
        /\ op'.pc # "mark"
    BY <1>13, <1>0 DEF beginPreparation, OpType
  <2> QED BY <1>1, <1>13, <2>1 DEF beginPreparation, durable
<1>14. ASSUME NEW b \in BOOLEAN, recordUsage(b)
       PROVE  OwnerInv'
  <2>1. /\ op.kind \in {"supervise", "advance", "task"}
        /\ UNCHANGED <<tick, task, svc, op, runTimer, taskTimer, lost>>
    BY <1>14, <1>0, <1>s DEF recordUsage, volatile, Standing, OpKind
  <2>2. status' = status \/ (status = "running" /\ status' = "paused")
    BY <1>14 DEF recordUsage
  <2> QED BY <2>1, <2>2
<1>15. ASSUME restoreLoop
       PROVE  OwnerInv'
  <2>1. /\ op'.kind = op.kind
        /\ op'.remaining = op.remaining
        /\ op.pc # "mark"
        /\ op'.pc # "mark"
    BY <1>15, <1>0 DEF restoreLoop, OpType
  <2> QED BY <1>1, <1>15, <2>1 DEF restoreLoop, durable
<1>16. ASSUME commitTick
       PROVE  OwnerInv'
  <2>1. /\ op.pc = "tick"
        /\ op'.kind = op.kind
        /\ op'.remaining = op.remaining - 1
        /\ op'.pc # "mark"
    BY <1>16, <1>0 DEF commitTick, OpType
  <2>2. op.kind \in {"supervise", "advance", "task"} /\ op.remaining > 0
    BY <1>0, <1>s, <2>1 DEF Standing, OpInv, OpKind, OpType
  <2>3. tick' = tick + 1 /\ UNCHANGED <<status, task, svc, runTimer, taskTimer, lost>>
    BY <1>16 DEF commitTick
  <2> QED BY <1>0, <2>1, <2>2, <2>3
<1>17. ASSUME finishSupervise
       PROVE  OwnerInv'
  <2>1. /\ op.kind = "supervise"
        /\ op'.kind = "none"
        /\ UNCHANGED <<tick, task, svc, taskTimer, lost>>
    BY <1>17, <1>n DEF finishSupervise
  <2>2. /\ runTimer' => svc = "up" /\ tick # EndTick /\ status = "running"
        /\ svc = "up" /\ tick # EndTick /\ status = "running" => runTimer'
    BY <1>17 DEF finishSupervise, shouldContinue
  <2>3. completeAtEnd
    BY <1>17 DEF finishSupervise
  <2>4. status' = status \/ status' = "completed"
    BY <2>3, CompleteStatus
  <2>5. status' = status => (tick = EndTick => status = "completed")
    BY <2>3, CompleteStatus
  <2>6. tick # EndTick => status' = status
    BY <2>3, CompleteStatus
  <2>7. ~taskActive
    BY <2>1
  <2> QED BY <2>1, <2>2, <2>4, <2>5, <2>6, <2>7
<1>18. ASSUME finishAdvance
       PROVE  OwnerInv'
  <2>1. /\ op.kind = "advance"
        /\ op'.kind = "none"
        /\ UNCHANGED <<tick, task, svc, runTimer, taskTimer, lost>>
    BY <1>18, <1>n DEF finishAdvance
  <2>2. status' = status \/ status' = "completed"
    BY <1>18, CompleteStatus DEF finishAdvance
  <2> QED BY <2>1, <2>2
<1>19. ASSUME finishTaskStep
       PROVE  OwnerInv'
  <2>1. op.kind = "task" /\ UNCHANGED <<tick, task, svc, runTimer, lost>>
    BY <1>19 DEF finishTaskStep
  <2>2. CASE tick = task.target
    <3>1. op'.kind = "task" /\ op'.pc = "mark" /\ UNCHANGED taskTimer
      BY <1>19, <1>0, <2>2 DEF finishTaskStep, OpType
    <3>2. status' = status \/ status' = "completed"
      BY <1>19, <2>2, CompleteStatus DEF finishTaskStep
    <3> QED BY <2>1, <2>2, <3>1, <3>2
  <2>3. CASE tick # task.target
    <3>1. op'.kind = "none" /\ UNCHANGED status
      BY <1>19, <1>n, <2>3 DEF finishTaskStep
    <3> QED BY <2>1, <3>1
  <2> QED BY <2>2, <2>3
<1>20. ASSUME markTaskCompleted
       PROVE  OwnerInv'
  <2>1. /\ op.kind = "task"
        /\ op'.kind = "none"
        /\ UNCHANGED <<status, tick, svc, runTimer, taskTimer, lost>>
    BY <1>20, <1>n, <1>s DEF markTaskCompleted, Standing
  <2>2. /\ task'.start = task.start /\ task'.target = task.target
        /\ task'.status = task.status \/ (task'.status = "completed" /\ task.target = tick)
    BY <1>20, <1>0 DEF markTaskCompleted, markCompleted, TaskType
  <2> QED BY <2>1, <2>2
<1>21. ASSUME NEW j \in BOOLEAN, failRun(j)
       PROVE  OwnerInv'
  <2>1. /\ op.kind = "supervise"
        /\ op'.kind = "none"
        /\ UNCHANGED <<tick, task, svc, runTimer, taskTimer>>
    BY <1>21, <1>n DEF failRun, throwing
  <2>2. /\ status' = status \/ status' = "paused"
        /\ status' = "running" => "run" \in lost'
    BY <1>21 DEF failRun, transitionRun, transitionRunStatus
  <2> QED BY <2>1, <2>2
<1>22. ASSUME failAdvance
       PROVE  OwnerInv'
  <2>1. /\ op.kind = "advance"
        /\ op'.kind = "none"
        /\ UNCHANGED <<status, tick, task, svc, runTimer, taskTimer, lost>>
    BY <1>22, <1>n DEF failAdvance, throwing, durable
  <2> QED BY <2>1
<1>23. ASSUME NEW j \in BOOLEAN, failAdvanceTask(j)
       PROVE  OwnerInv'
  <2>1. /\ op.kind = "task"
        /\ op'.kind = "none"
        /\ UNCHANGED <<status, tick, svc, runTimer, taskTimer>>
        /\ ("run" \in lost => "run" \in lost')
    BY <1>23, <1>n, <1>s DEF failAdvanceTask, throwing, Standing
  <2>2. /\ task'.start = task.start /\ task'.target = task.target
        /\ task'.status = task.status \/ task'.status = "failed"
    BY <1>23, <1>0 DEF failAdvanceTask, markFailed, TaskType
  <2> QED BY <2>1, <2>2
<1>24. ASSUME close \/ crash
       PROVE  OwnerInv'
  BY <1>24, <1>n DEF close, crash, durable
<1>25. ASSUME recover
       PROVE  OwnerInv'
  <2>1. /\ svc = "down"
        /\ op.kind = "none"
        /\ UNCHANGED <<tick, task, op, lost>>
        /\ runTimer' = (status' = "running")
        /\ taskTimer' = taskActive
    BY <1>25, <1>s DEF recover, Standing, recoverAdvanceTasks
  <2>2. \/ status' = status
        \/ tick = EndTick /\ status' = "completed"
    BY <1>25, CompleteStatus DEF recover
  <2>3. taskActive /\ tick = EndTick => tick = task.target
    BY <1>0
  <2> QED BY <2>1, <2>2, <2>3
<1>26. ASSUME UNCHANGED vars
       PROVE  OwnerInv'
  BY <1>26 DEF vars, durable, volatile
<1> QED
  BY <1>2, <1>3, <1>4, <1>5, <1>6, <1>7, <1>8, <1>9, <1>10, <1>11, <1>12, <1>13, <1>14,
     <1>15, <1>16,
     <1>17, <1>18, <1>19, <1>20, <1>21, <1>22, <1>23, <1>24, <1>25, <1>26
  DEF Next, Requests, Work, Faults

-----------------------------------------------------------------------------
(* The clock within a snapshot interval. *)
LEMMA ModStep ==
  ASSUME NEW a \in Nat, NEW n \in Nat \ {0}
  PROVE  /\ a % n \in 0..(n - 1)
         /\ (a % n) + 1 < n => (a + 1) % n = (a % n) + 1
<1> DEFINE q == a \div n
           r == a % n
           p == (a + 1) \div n
           s == (a + 1) % n
<1>1. a = n * q + r /\ r \in 0..(n - 1) /\ q \in Nat
  OBVIOUS
<1>2. a + 1 = n * p + s /\ s \in 0..(n - 1) /\ p \in Nat
  OBVIOUS
<1> HIDE DEF q, r, p, s
<1>3. ASSUME r + 1 < n PROVE p = q
  <2>1. n * p + s = n * q + r + 1
    BY <1>1, <1>2
  <2>2. ASSUME p > q PROVE FALSE
    <3>1. n * p >= n * (q + 1)
      BY <1>1, <1>2, <2>2
    <3>2. n * (q + 1) = n * q + n
      BY <1>1
    <3> QED BY <1>1, <1>2, <1>3, <2>1, <3>1, <3>2
  <2>3. ASSUME q > p PROVE FALSE
    <3>1. n * q >= n * (p + 1)
      BY <1>1, <1>2, <2>3
    <3>2. n * (p + 1) = n * p + n
      BY <1>2
    <3> QED BY <1>1, <1>2, <1>3, <2>1, <3>1, <3>2
  <2> QED BY <1>1, <1>2, <2>2, <2>3
<1>4. r + 1 < n => s = r + 1
  BY <1>1, <1>2, <1>3
<1> QED BY <1>1, <1>4 DEF r, s

(* Only three steps touch the clock or the snapshots. *)
LEMMA RowsMove ==
  ASSUME [Next]_vars
  PROVE  \/ commitTick
         \/ applySnapshotPlan
         \/ UNCHANGED <<tick, snaps>>
<1>1. ASSUME Requests PROVE UNCHANGED <<tick, snaps>>
  BY <1>1 DEF Requests, controlSimulation, setLlmControl, injectWorldEvent, advanceSync,
              enqueueAdvanceTask, createExport
<1>2. ASSUME Work, ~commitTick, ~applySnapshotPlan PROVE UNCHANGED <<tick, snaps>>
  <2>1. ASSUME superviseRun \/ runAdvanceTaskStep \/ ensurePeriodicSnapshot \/ restoreLoop
        PROVE UNCHANGED <<tick, snaps>>
    BY <2>1
    DEF superviseRun, runAdvanceTaskStep, ensurePeriodicSnapshot, restoreLoop, durable
  <2>2. ASSUME finishSupervise \/ finishAdvance \/ finishTaskStep \/ markTaskCompleted
        PROVE UNCHANGED <<tick, snaps>>
    BY <2>2 DEF finishSupervise, finishAdvance, finishTaskStep, markTaskCompleted
  <2>3. ASSUME NEW b \in BOOLEAN, beginPreparation(b) \/ recordUsage(b)
        PROVE UNCHANGED <<tick, snaps>>
    BY <2>3 DEF beginPreparation, recordUsage, durable
  <2>4. ASSUME NEW e \in ExportIds, runExport(e) \/ settleExport(e, TRUE)
        PROVE UNCHANGED <<tick, snaps>>
    BY <2>4 DEF runExport, settleExport
  <2> QED BY <1>2, <2>1, <2>2, <2>3, <2>4 DEF Work
<1>3. ASSUME Faults PROVE UNCHANGED <<tick, snaps>>
  BY <1>3
  DEF Faults, failRun, failAdvanceTask, failAdvance, settleExport, loseExportFailure,
      durable
<1>4. ASSUME close \/ crash \/ recover \/ UNCHANGED vars PROVE UNCHANGED <<tick, snaps>>
  BY <1>4 DEF close, crash, recover, vars, durable
<1> QED BY <1>1, <1>2, <1>3, <1>4 DEF Next

(* A due snapshot is there before the run ticks on. *)
LEMMA GapStep ==
  ASSUME TypeInv, HandlerInv, GapInv, [Next]_vars
  PROVE  GapInv'
<1> USE EndTickAssumption, SupervisorAssumption
<1>0. /\ op \in OpType /\ op.pc \in OpPc /\ op.remaining \in 0..EndTick /\ op.pass \in 0..EndTick
      /\ tick \in Nat /\ OpInv /\ SnapshotInterval \in Nat \ {0}
  BY DEF TypeInv, TypeOK, DurableTypes, OpType
<1>n. NoOp.pc = "idle"
  BY OpFields
<1>g. NoSnapshotGap /\ PassInv
  BY DEF GapInv
<1> DEFINE Ready == snapshotDue(tick) => hasSnapshot(tick)
(* Elsewhere clock and snapshots stay, and so do the gaps. *)
<1>1. ASSUME UNCHANGED <<tick, snaps>>
      PROVE  /\ NoSnapshotGap'
             /\ Ready <=> Ready'
             /\ hasSnapshot(tick) <=> hasSnapshot(tick)'
  BY <1>1, <1>g DEF NoSnapshotGap, hasSnapshot, snapshotDue
<1> HIDE DEF Ready
<1>p. /\ op.pc \in {"await", "tick"} \/ (op.pc = "loop" /\ op.remaining > 0) => Ready
      /\ op.pc = "backup" => ~hasSnapshot(tick)
      /\ op.pc = "tick" => (tick % SnapshotInterval) + op.pass <= SnapshotInterval
  BY <1>g DEF PassInv, Ready
<1>2. ASSUME UNCHANGED <<tick, snaps>>,
             op' = op \/ op'.pc \in {"idle", "mark", "materialize", "ensure"}
             \/ (op'.pc = "loop" /\ op'.remaining = 0)
      PROVE  GapInv'
  <2>1. PassInv'
    BY <1>1, <1>2, <1>p DEF PassInv, Ready
  <2> QED BY <1>1, <1>2, <2>1 DEF GapInv
<1>3. ASSUME Requests
      PROVE  GapInv'
  BY <1>3, <1>2, OpFields
  DEF Requests, controlSimulation, setLlmControl, injectWorldEvent, advanceSync,
      enqueueAdvanceTask, createExport, volatile
<1>4. ASSUME superviseRun \/ runAdvanceTaskStep
      PROVE  GapInv'
  <2>1. /\ [NoOp EXCEPT !.kind = "task", !.pc = "loop"].pc = "loop"
        /\ [NoOp EXCEPT !.kind = "task", !.pc = "loop"].remaining = 0
    BY DEF NoOp
  <2>2. CASE superviseRun
    BY <2>2, <1>2, <1>n, OpFields DEF superviseRun
  <2>3. CASE runAdvanceTaskStep /\ op' = op
    BY <2>3, <1>2 DEF runAdvanceTaskStep
  <2>4. CASE runAdvanceTaskStep /\ op' # op
    <3>1. UNCHANGED <<tick, snaps>>
      BY <2>4 DEF runAdvanceTaskStep
    <3>2. \/ op' = NoOp
          \/ op' = [NoOp EXCEPT !.kind = "task", !.pc = "loop"]
          \/ op' = enterTicks("task", Least(AsyncChunk, task.target - tick))
      BY <2>4 DEF runAdvanceTaskStep
    <3>3. op'.pc \in {"idle", "ensure"} \/ (op'.pc = "loop" /\ op'.remaining = 0)
      <4>1. CASE op' = NoOp
        BY <4>1, <1>n
      <4>2. CASE op' = [NoOp EXCEPT !.kind = "task", !.pc = "loop"]
        BY <4>2, <2>1
      <4>3. CASE op' = enterTicks("task", Least(AsyncChunk, task.target - tick))
        BY <4>3, OpFields
      <4> QED BY <3>2, <4>1, <4>2, <4>3
    <3> QED BY <3>1, <3>3, <1>2
  <2> QED BY <1>4, <2>2, <2>3, <2>4
<1>5. ASSUME NEW e \in ExportIds, runExport(e)
      PROVE  GapInv'
  <2>1. op' = op \/ op'.pc = "materialize"
    BY <1>5 DEF runExport, NoOp
  <2> QED BY <1>5, <1>2, <2>1 DEF runExport
<1>6. ASSUME NEW e \in ExportIds, NEW ok \in BOOLEAN, settleExport(e, ok)
      PROVE  GapInv'
  BY <1>6, <1>2, <1>n DEF settleExport
<1>7. ASSUME ensurePeriodicSnapshot
      PROVE  GapInv'
  <2>1. UNCHANGED <<tick, snaps>>
    BY <1>7 DEF ensurePeriodicSnapshot, durable
  <2>2. CASE snapshotDue(tick) /\ ~hasSnapshot(tick)
    <3>1. op'.pc = "backup"
      BY <1>7, <2>2, <1>0 DEF ensurePeriodicSnapshot, buildSnapshotPlan, OpType
    <3> QED BY <1>1, <2>1, <2>2, <3>1 DEF GapInv, PassInv
  <2>3. CASE Ready
    <3>1. op'.pc = "loop"
      BY <1>7, <2>3, <1>0 DEF ensurePeriodicSnapshot, OpType, Ready
    <3>2. PassInv'
      BY <1>1, <2>1, <2>3, <3>1 DEF PassInv, Ready
    <3> QED BY <1>1, <2>1, <3>2 DEF GapInv
  <2> QED BY <2>2, <2>3 DEF Ready
<1>8. ASSUME applySnapshotPlan
      PROVE  GapInv'
  <2>1. /\ op'.pc = "loop"
        /\ tick' = tick
        /\ snaps' = snaps \cup {[tick |-> tick, seq |-> Len(log)]}
    BY <1>8, <1>0 DEF applySnapshotPlan, OpType
  <2>2. hasSnapshot(tick)' /\ \A t : hasSnapshot(t) => hasSnapshot(t)'
    <3>1. \A t : hasSnapshot(t) => hasSnapshot(t)'
      BY <2>1 DEF hasSnapshot
    <3> DEFINE new == [tick |-> tick, seq |-> Len(log)]
    <3>2. new.tick = tick' /\ new \in snaps'
      BY <2>1
    <3> HIDE DEF new
    <3>3. hasSnapshot(tick)'
      BY <3>2 DEF hasSnapshot
    <3> QED BY <3>1, <3>3
  <2>3. NoSnapshotGap'
    BY <1>g, <2>1, <2>2 DEF NoSnapshotGap, snapshotDue
  <2> QED BY <2>1, <2>2, <2>3 DEF GapInv, PassInv
<1>9. ASSUME NEW b \in BOOLEAN, beginPreparation(b)
      PROVE  GapInv'
  <2>1. UNCHANGED <<tick, snaps>> /\ op'.pc = "await" /\ Ready
    BY <1>9, <1>0, <1>p DEF beginPreparation, durable, OpType
  <2>2. PassInv'
    BY <1>1, <2>1 DEF PassInv, Ready
  <2> QED BY <1>1, <2>1, <2>2 DEF GapInv
<1>10. ASSUME NEW b \in BOOLEAN, recordUsage(b)
       PROVE  GapInv'
  BY <1>10, <1>2 DEF recordUsage, volatile
<1>11. ASSUME restoreLoop
       PROVE  GapInv'
  <2> DEFINE n == IF Provider \/ op.batch THEN 1 
                  ELSE Least(op.remaining, SnapshotInterval - (tick % SnapshotInterval))
  <2>1. UNCHANGED <<tick, snaps>> /\ op'.pc = "tick" /\ op'.pass = n /\ Ready
    BY <1>11, <1>0, <1>p DEF restoreLoop, durable, OpType
  <2>2. (tick % SnapshotInterval) + n <= SnapshotInterval
    <3>1. tick % SnapshotInterval \in 0..(SnapshotInterval - 1)
      BY <1>0, ModStep
    <3> HIDE DEF n
    <3>2. n = 1 \/ n <= SnapshotInterval - (tick % SnapshotInterval)
      BY <1>0, <3>1 DEF n, Least
    <3>3. n \in Int
      BY <1>0, <3>1 DEF n, Least
    <3> QED BY <1>0, <3>1, <3>2, <3>3
  <2>3. PassInv'
    BY <1>1, <2>1, <2>2 DEF PassInv, Ready
  <2> QED BY <1>1, <2>1, <2>3 DEF GapInv
<1>12. ASSUME commitTick
       PROVE  GapInv'
  <2>1. /\ tick' = tick + 1 /\ snaps' = snaps /\ op'.pass = op.pass - 1
        /\ op'.pc = CASE op.pass # 1 -> "tick"
                      [] op.pass = 1 /\ (tick + 1) % SnapshotInterval = 0 -> "ensure"
                      [] OTHER -> "loop"
        /\ op.pc = "tick"
    BY <1>12, <1>0 DEF commitTick, OpType
  <2>2. op.pass \in 1..op.remaining
    BY <1>0, <2>1 DEF OpInv
  <2>3. \A t : hasSnapshot(t) <=> hasSnapshot(t)'
    BY <2>1 DEF hasSnapshot
  <2>4. NoSnapshotGap'
    <3> SUFFICES ASSUME NEW t \in 1..tick, snapshotDue(t)
                 PROVE  hasSnapshot(t)
      BY <1>0, <2>1, <2>3 DEF NoSnapshotGap, snapshotDue
    <3>1. CASE t = tick
      BY <1>p, <2>1, <3>1 DEF Ready
    <3>2. CASE t \in 1..(tick - 1)
      BY <1>g, <3>2 DEF NoSnapshotGap
    <3> QED BY <1>0, <3>1, <3>2
  <2>5. CASE op.pass = 1
    <3>1. op'.pc = "loop" => ~snapshotDue(tick')
      BY <2>1, <2>5 DEF snapshotDue
    <3>2. op'.pc \in {"ensure", "loop"}
      BY <2>1, <2>5
    <3> QED BY <2>4, <3>1, <3>2 DEF GapInv, PassInv, snapshotDue
  <2>6. CASE op.pass # 1
    <3>1. (tick % SnapshotInterval) \in 0..(SnapshotInterval - 1) /\ op.pass >= 2
      <4>1. tick % SnapshotInterval \in 0..(SnapshotInterval - 1)
        BY <1>0, ModStep
      <4>2. op.pass >= 2
        BY <1>0, <2>2, <2>6
      <4> QED BY <4>1, <4>2
    <3>2. (tick % SnapshotInterval) + op.pass <= SnapshotInterval
      BY <1>p, <2>1
    <3>3. (tick % SnapshotInterval) + 1 < SnapshotInterval
      BY <1>0, <3>1, <3>2
    <3>4. (tick + 1) % SnapshotInterval = (tick % SnapshotInterval) + 1
      BY <1>0, <3>3, ModStep
    <3>5. ~snapshotDue(tick')
      <4>1. (tick + 1) % SnapshotInterval # 0
        BY <3>1, <3>4
      <4> QED BY <2>1, <4>1 DEF snapshotDue
    <3>6. (tick' % SnapshotInterval) + op'.pass <= SnapshotInterval
      BY <1>0, <2>1, <3>1, <3>2, <3>4
    <3>7. op'.pc = "tick"
      BY <2>1, <2>6
    <3> QED BY <2>4, <3>5, <3>6, <3>7 DEF GapInv, PassInv, snapshotDue
  <2> QED BY <2>5, <2>6
<1>13. ASSUME finishSupervise \/ finishAdvance \/ failAdvance \/ markTaskCompleted \/ loseExportFailure
       PROVE  GapInv'
  BY <1>13, <1>2, <1>n
  DEF finishSupervise, finishAdvance, failAdvance, markTaskCompleted, loseExportFailure,
      durable
<1>14. ASSUME NEW j \in BOOLEAN, failRun(j) \/ failAdvanceTask(j)
       PROVE  GapInv'
  BY <1>14, <1>2, <1>n DEF failRun, failAdvanceTask
<1>15. ASSUME finishTaskStep
       PROVE  GapInv'
  <2>1. op' = NoOp \/ op'.pc = "mark"
    BY <1>15, <1>0 DEF finishTaskStep, OpType
  <2> QED BY <1>15, <1>2, <1>n, <2>1 DEF finishTaskStep
<1>16. ASSUME close \/ crash \/ recover \/ UNCHANGED vars
       PROVE  GapInv'
  BY <1>16, <1>2, <1>n DEF close, crash, recover, vars, durable, volatile
<1> QED
  BY <1>3, <1>4, <1>5, <1>6, <1>7, <1>8, <1>9, <1>10, <1>11, <1>12, <1>13, <1>14, <1>15,
     <1>16
  DEF Next, Work, Faults

(* The journal after a batch that completes no tick. *)
LEMMA JournalBatch ==
  ASSUME TypeInv, JournalInv, NEW ty \in Seq(EventType), NEW r \in {0, 1},
         appendBatch(ty, r), TicksNothing(ty),
         tick' = tick,
         \/ snaps' = snaps
         \/ /\ ty = <<"simulation.statehash.computed", "simulation.snapshot.created">>
            /\ ~hasSnapshot(tick)
            /\ snaps' = snaps \cup {[tick |-> tick, seq |-> Len(log)]}
  PROVE  JournalInv'
<1>0. /\ log \in Seq(Event) /\ Len(log) \in Nat /\ tick \in 0..EndTick /\ EndTick \in Nat
      /\ snaps \subseteq [tick : 0..EndTick, seq : Nat]
      /\ \A i \in 1..Len(log) : log[i] \in Event /\ log[i].tick \in Nat
  <2>1. /\ log \in Seq(Event) /\ Len(log) \in Nat /\ tick \in 0..EndTick /\ EndTick \in Nat
        /\ snaps \subseteq [tick : 0..EndTick, seq : Nat]
    BY EndTickAssumption DEF TypeInv, TypeOK, DurableTypes
  <2>2. \A i \in 1..Len(log) : log[i] \in Event
    BY <2>1
  <2>3. \A x \in Event : x.tick \in Nat
    BY <2>1 DEF Event
  <2> QED BY <2>1, <2>2, <2>3
<1>1. /\ \A i \in 1..Len(log) : log'[i] = log[i]
      /\ Len(ty) \in Nat /\ Len(log') = Len(log) + Len(ty)
      /\ \A i \in (Len(log) + 1)..Len(log') :
           /\ i - Len(log) \in 1..Len(ty)
           /\ log'[i].type = ty[i - Len(log)] /\ log'[i].tick = tick
  <2>1. log \o [i \in 1..Len(ty) |-> [type |-> ty[i], tick |-> tick]] = log'
    BY DEF appendBatch
  <2>2. [i \in 1..Len(ty) |-> [type |-> ty[i], tick |-> tick]] \in Seq(Event)
    BY <1>0 DEF Event
  <2>3. \A i \in 1..Len(log) : log'[i] = log[i]
    BY <1>0, <2>1, <2>2, ConcatFacts
  <2> QED BY <2>3, BatchEvents
<1>2. log' \in Seq(Event) /\ \A i \in 1..Len(log') : log'[i] \in Event
  BY AppendBatchType DEF TypeInv
<1>j. JournaledOnce /\ \A i \in 1..Len(log) : log[i].tick <= tick
  BY DEF JournalInv
<1>3. \A i \in (Len(log) + 1)..Len(log') : log'[i].type # "simulation.tick.completed"
  BY <1>1 DEF TicksNothing
<1>4. \A i \in 1..Len(log') : i \in 1..Len(log) \/ i \in (Len(log) + 1)..Len(log')
  BY <1>0, <1>1
<1>5. \A i \in 1..Len(log') : log'[i].tick <= tick'
  <2> SUFFICES ASSUME NEW i \in 1..Len(log') PROVE log'[i].tick <= tick
    OBVIOUS
  <2>1. CASE i \in 1..Len(log)
    BY <1>1, <1>j, <2>1
  <2>2. CASE i \in (Len(log) + 1)..Len(log')
    BY <1>0, <1>1, <2>2
  <2> QED BY <1>4, <2>1, <2>2
<1>6. \A i, j \in 1..Len(log') : i <= j => log'[i].tick <= log'[j].tick
  <2> SUFFICES ASSUME NEW i \in 1..Len(log'), NEW j \in 1..Len(log'), i <= j
               PROVE  log'[i].tick <= log'[j].tick
    OBVIOUS
  <2>1. CASE j \in 1..Len(log)
    <3>1. i \in 1..Len(log)
      BY <1>0, <1>1, <2>1
    <3> QED BY <1>1, <1>j, <2>1, <3>1 DEF JournaledOnce
  <2>2. CASE j \in (Len(log) + 1)..Len(log')
    BY <1>1, <1>5, <2>2
  <2> QED BY <1>4, <2>1, <2>2
<1>7. \A i \in 1..Len(log') : \A t : completesTick(i, t)' => i \in 1..Len(log) /\ completesTick(i, t)
  BY <1>1, <1>3, <1>4 DEF completesTick
<1>8. \A i \in 1..Len(log) : \A t : completesTick(i, t) => i \in 1..Len(log') /\ completesTick(i, t)'
  BY <1>0, <1>1 DEF completesTick
<1>9. \A t \in 1..tick' : \E i \in 1..Len(log') : completesTick(i, t)'
  BY <1>j, <1>8 DEF JournaledOnce
<1>10. \A i \in 1..Len(log') :
         log'[i].type = "simulation.tick.completed" =>
           /\ log'[i].tick \in 1..tick'
           /\ \A j \in 1..Len(log') : completesTick(j, log[i].tick)' => j = i
  <2> SUFFICES ASSUME NEW i \in 1..Len(log'), log'[i].type = "simulation.tick.completed"
               PROVE  /\ log'[i].tick \in 1..tick'
                      /\ \A j \in 1..Len(log') : completesTick(j, log[i].tick)' => j = i
    OBVIOUS
  <2>1. i \in 1..Len(log) /\ log'[i] = log[i]
    BY <1>1, <1>3, <1>4
  <2>2. log[i].tick \in 1..tick /\ \A j \in 1..Len(log) : completesTick(j, log[i].tick) => j = i
    BY <1>j, <2>1 DEF JournaledOnce
  <2>3. ASSUME NEW j \in 1..Len(log'), completesTick(j, log[i].tick)'
        PROVE  j = i
    <3>1. log'[j] = [type |-> "simulation.tick.completed", tick |-> log[i].tick]
      BY <2>1, <2>3 DEF completesTick
    <3>2. j \in 1..Len(log) /\ log[j] = log'[j]
      BY <1>1, <1>3, <1>4, <3>1
    <3> QED BY <2>2, <3>1, <3>2 DEF completesTick
  <2> QED BY <2>1, <2>2, <2>3
<1>11. \A s \in snaps' :
         /\ s.seq + 2 <= Len(log')
         /\ log'[s.seq + 1] = [type |-> "simulation.statehash.computed", tick |-> s.tick]
         /\ log'[s.seq + 2] = [type |-> "simulation.snapshot.created", tick |-> s.tick]
  <2>1. ASSUME NEW s \in snaps
        PROVE  /\ s.seq + 2 <= Len(log')
               /\ log'[s.seq + 1] = [type |-> "simulation.statehash.computed", tick |-> s.tick]
               /\ log'[s.seq + 2] = [type |-> "simulation.snapshot.created", tick |-> s.tick]
    <3>1. s.seq \in Nat /\ s.seq + 2 <= Len(log)
      BY <1>0, <1>j DEF JournaledOnce
    <3>2. s.seq + 1 \in 1..Len(log) /\ s.seq + 2 \in 1..Len(log) /\ s.seq + 2 <= Len(log')
      BY <1>0, <1>1, <3>1
    <3> QED BY <1>1, <1>j, <3>2 DEF JournaledOnce
  <2>2. CASE snaps' = snaps
    BY <2>1, <2>2
  <2>3. ASSUME ty = <<"simulation.statehash.computed", "simulation.snapshot.created">>
        PROVE  /\ Len(log) + 2 <= Len(log')
               /\ log'[Len(log) + 1] = [type |-> "simulation.statehash.computed", tick |-> tick]
               /\ log'[Len(log) + 2] = [type |-> "simulation.snapshot.created", tick |-> tick]
    <3>1. /\ Len(ty) = 2
          /\ ty[1] = "simulation.statehash.computed"
          /\ ty[2] = "simulation.snapshot.created"
      BY <2>3
    <3>2. /\ Len(log) + 1 \in (Len(log) + 1)..Len(log') /\ Len(log) + 2 \in (Len(log) + 1)..Len(log')
          /\ (Len(log) + 1) - Len(log) = 1 /\ (Len(log) + 2) - Len(log) = 2
          /\ Len(log) + 1 \in 1..Len(log') /\ Len(log) + 2 \in 1..Len(log')
      BY <1>0, <1>1, <3>1
    <3>3. /\ log'[Len(log) + 1].type = ty[1] /\ log'[Len(log) + 1].tick = tick
          /\ log'[Len(log) + 2].type = ty[2] /\ log'[Len(log) + 2].tick = tick
          /\ log'[Len(log) + 1] \in Event /\ log'[Len(log) + 2] \in Event
      BY <1>1, <1>2, <3>2
    <3> QED BY <1>0, <1>1, <3>1, <3>3 DEF Event
  <2> QED
    <3>1. /\ [tick |-> tick, seq |-> Len(log)].tick = tick
          /\ [tick |-> tick, seq |-> Len(log)].seq = Len(log)
      OBVIOUS
    <3> QED BY <2>1, <2>2, <2>3, <3>1
<1>12. \A s, u \in snaps' : s.tick = u.tick => s = u
  <2>1. \A s, u \in snaps : s.tick = u.tick => s = u
    BY <1>j DEF JournaledOnce
  <2>2. CASE snaps' = snaps
    BY <2>1, <2>2
  <2>3. CASE ~hasSnapshot(tick) /\ snaps' = snaps \cup {[tick |-> tick, seq |-> Len(log)]}
    <3>1. \A s \in snaps : s.tick # [tick |-> tick, seq |-> Len(log)].tick
      BY <2>3 DEF hasSnapshot
    <3> QED BY <2>1, <2>3, <3>1
  <2> QED BY <2>2, <2>3
<1> QED BY <1>5, <1>6, <1>9, <1>10, <1>11, <1>12 DEF JournalInv, JournaledOnce

(* The journal after a tick: the clock moves with the two events staged. *)
LEMMA JournalTick ==
  ASSUME TypeInv, JournalInv, commitTick
  PROVE  JournalInv'
<1>0. /\ log \in Seq(Event) /\ Len(log) \in Nat /\ tick \in 0..EndTick /\ EndTick \in Nat
      /\ snaps \subseteq [tick : 0..EndTick, seq : Nat]
  BY EndTickAssumption DEF TypeInv, TypeOK, DurableTypes
<1>a. \A i \in 1..Len(log) : log[i].tick \in Nat
  <2>1. \A i \in 1..Len(log) : log[i] \in Event
    BY <1>0
  <2>2. \A x \in Event : x.tick \in Nat
    BY <1>0 DEF Event
  <2> QED BY <2>1, <2>2
<1>b. log' = log \o stagedEvents /\ tick' = tick + 1 /\ snaps' = snaps
  BY DEF commitTick
<1>1. /\ \A i \in 1..Len(log) : log'[i] = log[i]
      /\ Len(log') = Len(log) + 2
      /\ log'[Len(log) + 1] = [type |-> "simulation.tick.started", tick |-> tick + 1]
      /\ log'[Len(log) + 2] = [type |-> "simulation.tick.completed", tick |-> tick + 1]
  <2>1. stagedEvents \in Seq(Event) /\ Len(stagedEvents) = 2
    BY StagedType
  <2>2. /\ stagedEvents[1] = [type |-> "simulation.tick.started", tick |-> tick + 1]
        /\ stagedEvents[2] = [type |-> "simulation.tick.completed", tick |-> tick + 1]
    BY DEF stagedEvents
  <2> DEFINE new == stagedEvents
  <2> HIDE DEF new
  <2>6. new \in Seq(Event) /\ Len(new) = 2
    BY <2>1 DEF new
  <2>c. /\ Len(log \o new) = Len(log) + Len(new)
        /\ \A i \in 1..Len(log) : (log \o new)[i] = log[i]
        /\ \A i \in (Len(log) + 1)..(Len(log) + Len(new)) : (log \o new)[i] = new[i - Len(log)]
    <3>1. log \in Seq(Event) /\ new \in Seq(Event)
      BY <1>0, <2>6
    <3> QED BY <3>1, ConcatFacts
  <2>3. \A i \in (Len(log) + 1)..(Len(log) + 2) : (log \o stagedEvents)[i] = stagedEvents[i - Len(log)]
    BY <2>6, <2>c DEF new
  <2>4. /\ \A i \in 1..Len(log) : (log \o stagedEvents)[i] = log[i]
        /\ Len(log \o stagedEvents) = Len(log) + 2
    BY <2>6, <2>c DEF new
  <2>5. /\ Len(log) + 1 \in (Len(log) + 1)..(Len(log) + 2) /\ Len(log) + 2 \in (Len(log) + 1)..(Len(log) + 2)
        /\ (Len(log) + 1) - Len(log) = 1 /\ (Len(log) + 2) - Len(log) = 2
    BY <1>0
  <2> QED BY <1>b, <2>2, <2>3, <2>4, <2>5
<1>j. JournaledOnce /\ \A i \in 1..Len(log) : log[i].tick <= tick
  BY DEF JournalInv
<1>4. \A i \in 1..Len(log') : i \in 1..Len(log) \/ i = Len(log) + 1 \/ i = Len(log) + 2
  BY <1>0, <1>1
<1>5. \A i \in 1..Len(log') : log'[i].tick <= tick'
  <2>1. ASSUME NEW i \in 1..Len(log) PROVE log'[i].tick <= tick'
    BY <1>0, <1>1, <1>a, <1>b, <1>j
  <2>2. log'[Len(log) + 1].tick = tick' /\ log'[Len(log) + 2].tick = tick'
    BY <1>1, <1>b
  <2>3. tick' \in Int
    BY <1>0, <1>b
  <2>4. ASSUME NEW i \in 1..Len(log'), i = Len(log) + 1 \/ i = Len(log) + 2
        PROVE  log'[i].tick <= tick'
    <3>1. log'[i].tick = tick'
      BY <2>2, <2>4
    <3> QED BY <2>3, <3>1
  <2> QED BY <1>4, <2>1, <2>4
<1>6. \A i, j \in 1..Len(log') : i <= j => log'[i].tick <= log'[j].tick
  <2> SUFFICES ASSUME NEW i \in 1..Len(log'), NEW j \in 1..Len(log'), i <= j
               PROVE  log'[i].tick <= log'[j].tick
    OBVIOUS
  <2>1. CASE j \in 1..Len(log)
    <3>1. i \in 1..Len(log)
      BY <1>0, <1>1, <2>1
    <3> QED BY <1>1, <1>j, <2>1, <3>1 DEF JournaledOnce
  <2>2. CASE j = Len(log) + 1 \/ j = Len(log) + 2
    <3>1. log'[j].tick = tick'
      BY <1>1, <1>b, <2>2
    <3> QED BY <1>5, <3>1
  <2> QED BY <1>4, <2>1, <2>2
<1>7. \A i \in 1..Len(log') : log'[i].type = "simulation.tick.completed" => i \in 1..Len(log) \/ i = Len(log) + 2
  BY <1>1, <1>4
<1>9. \A t \in 1..tick' : \E i \in 1..Len(log') : completesTick(i, t)'
  <2>1. ASSUME NEW t \in 1..tick PROVE \E i \in 1..Len(log') : completesTick(i, t)'
    <3>1. PICK i \in 1..Len(log) : completesTick(i, t)
      BY <1>j DEF JournaledOnce
    <3>2. i \in 1..Len(log') /\ log'[i] = log[i]
      BY <1>0, <1>1
    <3> QED BY <3>1, <3>2 DEF completesTick
  <2>2. \E i \in 1..Len(log') : completesTick(i, tick)'
    <3>1. Len(log') \in 1..Len(log') /\ Len(log') = Len(log) + 2
      BY <1>0, <1>1
    <3>2. log'[Len(log')] = [type |-> "simulation.tick.completed", tick |-> tick']
      BY <1>1, <1>b
    <3> QED BY <3>1, <3>2 DEF completesTick
  <2>3. \A t \in 1..tick' : t \in 1..tick \/ t = tick'
    BY <1>0, <1>b
  <2>4. ASSUME NEW t, t = tick'
        PROVE  \E i \in 1..Len(log') : completesTick(i, t)'
    BY <2>2, <2>4 DEF completesTick
  <2> QED BY <2>1, <2>3, <2>4
<1>10. \A i \in 1..Len(log') :
         log'[i].type = "simulation.tick.completed" =>
           /\ log'[i].tick \in 1..tick'
           /\ \A j \in 1..Len(log') : completesTick(j, log[i].tick)' => j = i
  <2> SUFFICES ASSUME NEW i \in 1..Len(log'), log'[i].type = "simulation.tick.completed"
               PROVE  /\ log'[i].tick \in 1..tick'
                      /\ \A j \in 1..Len(log') : completesTick(j, log[i].tick)' => j = i
    OBVIOUS
  <2>n. tick + 1 \notin 1..tick
    BY <1>0
  <2>e. \A j \in 1..Len(log') : completesTick(j, log[i].tick)' =>
           log'[j].type = "simulation.tick.completed" /\ log'[j].tick = log'[i].tick
    BY DEF completesTick
  <2>c. \A j \in 1..Len(log) : log[j].type = "simulation.tick.completed" => log[j].tick \in 1..tick
    BY <1>j DEF JournaledOnce
  <2>1. CASE i \in 1..Len(log)
    <3>1. log[i].tick \in 1..tick /\ log'[i] = log[i]
      BY <1>1, <2>1, <2>c
    <3>2. log'[i].tick \in 1..tick'
      BY <1>0, <1>b, <3>1
    <3>3. ASSUME NEW j \in 1..Len(log'), completesTick(j, log[i].tick)'
          PROVE  j = i
      <4>1. j \in 1..Len(log)
        BY <1>1, <1>7, <2>e, <2>n, <3>1, <3>3
      <4>2. completesTick(j, log[i].tick)
        BY <1>1, <3>1, <3>3, <4>1 DEF completesTick
      <4> QED BY <1>1, <1>j, <2>1, <4>1, <4>2 DEF JournaledOnce
    <3> QED BY <3>2, <3>3
  <2>2. CASE i = Len(log) + 2
    <3>1. log'[i].tick = tick + 1 /\ log'[i].tick \in 1..tick'
      BY <1>0, <1>1, <1>b, <2>2
    <3>2. ASSUME NEW j \in 1..Len(log'), completesTick(j, log[i].tick)'
          PROVE  j = i
      BY <1>1, <1>7, <2>2, <2>c, <2>e, <2>n, <3>1, <3>2
    <3> QED BY <3>1, <3>2
  <2> QED BY <1>7, <2>1, <2>2
<1>11. \A s \in snaps' :
         /\ s.seq + 2 <= Len(log')
         /\ log'[s.seq + 1] = [type |-> "simulation.statehash.computed", tick |-> s.tick]
         /\ log'[s.seq + 2] = [type |-> "simulation.snapshot.created", tick |-> s.tick]
  <2> SUFFICES ASSUME NEW s \in snaps
        PROVE  /\ s.seq + 2 <= Len(log')
               /\ log'[s.seq + 1] = [type |-> "simulation.statehash.computed", tick |-> s.tick]
               /\ log'[s.seq + 2] = [type |-> "simulation.snapshot.created", tick |-> s.tick]
    BY <1>b
  <2>1. s.seq \in Nat /\ s.seq + 2 <= Len(log)
    BY <1>0, <1>j DEF JournaledOnce
  <2>2. s.seq + 1 \in 1..Len(log) /\ s.seq + 2 \in 1..Len(log) /\ s.seq + 2 <= Len(log')
    BY <1>0, <1>1, <2>1
  <2> QED BY <1>1, <1>j, <2>2 DEF JournaledOnce
<1> QED BY <1>5, <1>6, <1>9, <1>10, <1>11, <1>b, <1>j DEF JournalInv, JournaledOnce

(* The journal, the clock and the snapshots stay in step. *)
LEMMA JournalInvStep ==
  ASSUME TypeInv, HandlerInv, GapInv, JournalInv, [Next]_vars
  PROVE  JournalInv'
<1>1. CASE commitTick
  BY <1>1, JournalTick
<1>2. CASE applySnapshotPlan
  <2> DEFINE ty == <<"simulation.statehash.computed", "simulation.snapshot.created">>
  <2>1. ty \in Seq(EventType) /\ TicksNothing(ty)
    BY DEF EventType, TicksNothing
  <2>2. ~hasSnapshot(tick)
    BY <1>2 DEF applySnapshotPlan, GapInv, PassInv
  <2>3. /\ appendBatch(ty, 0)
        /\ tick' = tick
        /\ snaps' = snaps \cup {[tick |-> tick, seq |-> Len(log)]}
    BY <1>2 DEF applySnapshotPlan
  <2> QED BY <2>1, <2>2, <2>3, JournalBatch
<1>3. CASE UNCHANGED <<tick, snaps>>
  <2>1. CASE UNCHANGED log
    BY <1>3, <2>1 DEF JournalInv, JournaledOnce, completesTick
  <2>2. ASSUME NEW ty \in Seq(EventType), NEW r \in {0, 1}, TicksNothing(ty),
               appendBatch(ty, r)
        PROVE  JournalInv'
    BY <1>3, <2>2, JournalBatch
  <2> QED BY <1>1, <2>1, <2>2, JournalStep DEF JournalEffect, PlainBatch, FactBatch
<1> QED BY <1>1, <1>2, <1>3, RowsMove

-----------------------------------------------------------------------------
(* What may move an export job: the request that queues it, its timer, its
   settlement, and recovery, which sets timers again. *)
LEMMA ExportsMove ==
  ASSUME TypeInv, HandlerInv, [Next]_vars
  PROVE  \/ \E e \in ExportIds : createExport(e) \/ runExport(e)
         \/ \E e \in ExportIds, ok \in BOOLEAN : settleExport(e, ok)
         \/ recover
         \/ exports' = exports /\ exportTimers' \subseteq exportTimers
            /\ (op' = op \/ op'.kind # "export")
<1> DEFINE Still == exports' = exports /\ exportTimers' \subseteq exportTimers
                    /\ (op' = op \/ op'.kind # "export")
<1>0. op \in OpType /\ op.pc \in OpPc /\ NoOp.kind = "none"
  BY OpFields DEF TypeInv, TypeOK, OpType
<1>h. Standing /\ Standing'
  BY HandlerStep DEF HandlerInv
<1>1. ASSUME NEW c \in {"start", "pause", "resume", "stop"}, controlSimulation(c)
      PROVE  Still
  BY <1>1 DEF controlSimulation
<1>2. ASSUME setLlmControl \/ injectWorldEvent
      PROVE  Still
  BY <1>2 DEF setLlmControl, injectWorldEvent, volatile
<1>3. ASSUME NEW n \in 1..EndTick, advanceSync(n) \/ enqueueAdvanceTask(n)
      PROVE  Still
  BY <1>3, OpFields DEF advanceSync, enqueueAdvanceTask
<1>4. ASSUME superviseRun \/ runAdvanceTaskStep
      PROVE  Still
  <2>1. [NoOp EXCEPT !.kind = "task", !.pc = "loop"].kind = "task"
    BY DEF NoOp
  <2>2. CASE superviseRun
    BY <2>2, <1>0, OpFields DEF superviseRun
  <2>3. CASE runAdvanceTaskStep
    <3>1. exports' = exports /\ exportTimers' = exportTimers
      BY <2>3 DEF runAdvanceTaskStep
    <3>2. \/ op' = op \/ op' = NoOp
          \/ op' = [NoOp EXCEPT !.kind = "task", !.pc = "loop"]
          \/ op' = enterTicks("task", Least(AsyncChunk, task.target - tick))
      BY <2>3 DEF runAdvanceTaskStep
    <3> QED BY <3>1, <3>2, <1>0, <2>1, OpFields
  <2> QED BY <1>4, <2>2, <2>3
<1>5. ASSUME ensurePeriodicSnapshot
      PROVE  Still
  <2>1. op'.pc \in {"backup", "loop"}
    BY <1>5, <1>0 DEF ensurePeriodicSnapshot, buildSnapshotPlan, OpType
  <2> QED BY <1>5, <1>h, <2>1 DEF ensurePeriodicSnapshot, durable, Standing
<1>6. ASSUME applySnapshotPlan
      PROVE  Still
  <2>1. op'.pc = "loop"
    BY <1>6, <1>0 DEF applySnapshotPlan, OpType
  <2> QED BY <1>6, <1>h, <2>1 DEF applySnapshotPlan, Standing
<1>7. ASSUME NEW b \in BOOLEAN, beginPreparation(b)
      PROVE  Still
  <2>1. op'.pc = "await"
    BY <1>7, <1>0 DEF beginPreparation, OpType
  <2> QED BY <1>7, <1>h, <2>1 DEF beginPreparation, durable, Standing
<1>8. ASSUME NEW b \in BOOLEAN, recordUsage(b)
      PROVE  Still
  BY <1>8 DEF recordUsage, volatile
<1>9. ASSUME restoreLoop
      PROVE  Still
  <2>1. op'.pc = "tick"
    BY <1>9, <1>0 DEF restoreLoop, OpType
  <2> QED BY <1>9, <1>h, <2>1 DEF restoreLoop, durable, Standing
<1>10. ASSUME commitTick
       PROVE  Still
  <2>1. op'.pc \in {"tick", "ensure", "loop"}
    BY <1>10, <1>0 DEF commitTick, OpType
  <2> QED BY <1>10, <1>h, <2>1 DEF commitTick, Standing
<1>11. ASSUME finishSupervise \/ finishAdvance \/ failAdvance \/ markTaskCompleted \/ loseExportFailure
              \/ close \/ crash \/ UNCHANGED vars
       PROVE  Still
  BY <1>11, <1>0 DEF finishSupervise, finishAdvance, failAdvance, markTaskCompleted,
                     loseExportFailure, close, crash, vars, durable, volatile
<1>12. ASSUME finishTaskStep
       PROVE  Still
  <2>1. op' = NoOp \/ op'.pc = "mark"
    BY <1>12, <1>0 DEF finishTaskStep, OpType
  <2> QED BY <1>12, <1>0, <1>h, <2>1 DEF finishTaskStep, Standing
<1>13. ASSUME NEW j \in BOOLEAN, failRun(j) \/ failAdvanceTask(j)
       PROVE  Still
  BY <1>13, <1>0 DEF failRun, failAdvanceTask
<1> QED
  BY <1>1, <1>2, <1>3, <1>4, <1>5, <1>6, <1>7, <1>8, <1>9, <1>10, <1>11, <1>12, <1>13
  DEF Next, Requests, Work, Faults

(* How each of them leaves the jobs. *)
LEMMA ExportRows ==
  ASSUME TypeInv, NEW e \in ExportIds
  PROVE  /\ createExport(e) =>
              /\ exports[e].status = "none"
              /\ exports'[e].status = "queued" /\ exports'[e].tick = tick
              /\ \A f \in ExportIds : f # e => exports'[f] = exports[f]
         /\ runExport(e) =>
              /\ exports'[e].status = IF exports[e].status = "queued" THEN "running"
                                       ELSE exports[e].status
              /\ exports'[e].tick = exports[e].tick /\ exports'[e].seq = exports[e].seq
              /\ exports'[e].content = exports[e].content
              /\ \A f \in ExportIds : f # e => exports'[f] = exports[f]
         /\ \A ok \in BOOLEAN : settleExport(e, ok) =>
              /\ \/ /\ exports'[e].status = "completed" /\ exports'[e].content = Len(log)
                    /\ exportSourceUnchanged(e)
                 \/ /\ exports'[e].status = "failed" /\ exports'[e].content = exports[e].content
              /\ exports'[e].tick = exports[e].tick /\ exports'[e].seq = exports[e].seq
              /\ \A f \in ExportIds : f # e => exports'[f] = exports[f]
<1>0. exports \in [ExportIds -> JobType] /\ exports[e] \in JobType
  BY DEF TypeInv, TypeOK, DurableTypes
<1>1. ASSUME createExport(e)
      PROVE  /\ exports[e].status = "none"
             /\ exports'[e].status = "queued" /\ exports'[e].tick = tick
             /\ \A f \in ExportIds : f # e => exports'[f] = exports[f]
  <2>1. queuedJob.status = "queued" /\ queuedJob.tick = tick
    BY DEF queuedJob, NoJob
  <2> QED BY <1>0, <1>1, <2>1 DEF createExport
<1>2. ASSUME runExport(e)
      PROVE  /\ exports'[e].status = IF exports[e].status = "queued" THEN "running"
                                      ELSE exports[e].status
             /\ exports'[e].tick = exports[e].tick /\ exports'[e].seq = exports[e].seq
             /\ exports'[e].content = exports[e].content
             /\ \A f \in ExportIds : f # e => exports'[f] = exports[f]
  <2>1. CASE exports[e].status \in {"queued", "running"}
    BY <1>0, <1>2, <2>1 DEF runExport, JobType
  <2>2. CASE exports[e].status \notin {"queued", "running"}
    BY <1>0, <1>2, <2>2 DEF runExport
  <2> QED BY <2>1, <2>2
<1>3. ASSUME NEW ok \in BOOLEAN, settleExport(e, ok)
      PROVE  /\ \/ /\ exports'[e].status = "completed" /\ exports'[e].content = Len(log)
                   /\ exportSourceUnchanged(e)
                \/ /\ exports'[e].status = "failed" /\ exports'[e].content = exports[e].content
             /\ exports'[e].tick = exports[e].tick /\ exports'[e].seq = exports[e].seq
             /\ \A f \in ExportIds : f # e => exports'[f] = exports[f]
  <2>1. CASE ok /\ exportSourceUnchanged(e)
    <3>1. exports' = [exports EXCEPT ![e].status = "completed", ![e].content = Len(log)]
      BY <1>3, <2>1 DEF settleExport
    <3> QED BY <1>0, <2>1, <3>1 DEF JobType
  <2>2. CASE ~(ok /\ exportSourceUnchanged(e))
    <3>1. exports' = [exports EXCEPT ![e].status = "failed"]
      BY <1>3, <2>2 DEF settleExport
    <3> QED BY <1>0, <3>1 DEF JobType
  <2> QED BY <2>1, <2>2
<1> QED BY <1>1, <1>2, <1>3

(* Jobs with a timer wait, the job under way runs, and a completed job holds
   a prefix of the journal that ends at rest. *)
LEMMA JobStep ==
  ASSUME TypeInv, HandlerInv, StatusFollowsJournal, JobInv, ExportFaithful, [Next]_vars
  PROVE  JobInv' /\ ExportFaithful'
<1> USE DEF JobInv
<1>0. /\ exports \in [ExportIds -> JobType] /\ exportTimers \subseteq ExportIds
      /\ op \in OpType /\ op.job \subseteq ExportIds
      /\ \A e \in ExportIds : exports[e].content \in Nat /\ exports[e].seq \in Nat
  BY DEF TypeInv, TypeOK, DurableTypes, VolatileTypes, OpType, JobType
<1>g. /\ Len(log) \in Nat /\ Len(log') \in Nat /\ Len(log) <= Len(log')
      /\ \A i \in 1..Len(log) : log'[i] = log[i]
  BY JournalStep, JournalGrows
<1>h. Standing /\ Standing'
  BY HandlerStep DEF HandlerInv
<1> DEFINE Faithful(e) ==
      /\ exports[e].content = exports[e].seq
      /\ \A i \in 1..exports[e].content :
           factStatus(log[i].type) = "running" => \E j \in (i + 1)..exports[e].content : isFact(j)
(* A job that stays as it is keeps what it holds. *)
<1>1. ASSUME NEW e \in ExportIds, exports'[e] = exports[e], exports[e].status = "completed"
      PROVE  exports'[e].content <= Len(log') /\ Faithful(e)'
  <2>1. exports[e].content \in Nat /\ exports[e].content <= Len(log)
    BY <1>0, <1>1
  <2>2. \A i \in 1..exports[e].content : i \in 1..Len(log) /\ log'[i] = log[i]
    BY <1>g, <2>1
  <2>3. \A i \in 1..exports[e].content : \A j \in (i + 1)..exports[e].content : j \in 1..exports[e].content
    BY <2>1
  <2>4. \A i \in 1..exports[e].content : isFact(i) => isFact(i)'
    BY <2>2 DEF isFact
  <2>5. Faithful(e)
    BY <1>1 DEF ExportFaithful
  <2>6. ASSUME NEW i \in 1..exports[e].content, factStatus(log'[i].type) = "running"
        PROVE  \E j \in (i + 1)..exports[e].content : isFact(j)'
    <3>1. PICK j \in (i + 1)..exports[e].content : isFact(j)
      BY <2>2, <2>5, <2>6
    <3> QED BY <2>3, <2>4, <3>1
  <2> QED BY <1>1, <1>g, <2>1, <2>5, <2>6
<1> HIDE DEF Faithful
<1>2. ASSUME \A e \in ExportIds : exports'[e].status = "completed" =>
               exports'[e].content <= Len(log') /\ Faithful(e)'
      PROVE  /\ ExportFaithful'
             /\ \A e \in ExportIds : exports'[e].status = "completed" => exports'[e].content <= Len(log')
  BY <1>2 DEF ExportFaithful, Faithful
<1>3. ASSUME NEW e \in ExportIds, createExport(e)
      PROVE  JobInv' /\ ExportFaithful'
  <2>1. /\ exports'[e].status = "queued"
        /\ \A f \in ExportIds : f # e => exports'[f] = exports[f]
    BY <1>3, ExportRows
  <2>2. op.kind # "export" /\ op' = op /\ exportTimers' = exportTimers \cup {e}
    BY <1>3 DEF createExport, Unlocked
  <2>3. \A f \in ExportIds : exports'[f].status = "completed" =>
           exports'[f].content <= Len(log') /\ Faithful(f)'
    BY <1>1, <2>1
  <2> QED BY <1>0, <1>2, <2>1, <2>2, <2>3
<1>4. ASSUME NEW e \in ExportIds, runExport(e)
      PROVE  JobInv' /\ ExportFaithful'
  <2>0. exports[e].status \in {"queued", "running"}
    BY <1>4 DEF runExport, JobInv
  <2>1. /\ exports'[e].status = "running"
        /\ \A f \in ExportIds : f # e => exports'[f] = exports[f]
    BY <1>4, <2>0, ExportRows
  <2>2. op'.job = {e} /\ exportTimers' = exportTimers \ {e}
    BY <1>4, <2>0 DEF runExport, NoOp
  <2>3. \A f \in ExportIds : exports'[f].status = "completed" =>
           exports'[f].content <= Len(log') /\ Faithful(f)'
    BY <1>1, <2>1
  <2> QED BY <1>0, <1>2, <2>1, <2>2, <2>3
<1>5. ASSUME NEW e \in ExportIds, NEW ok \in BOOLEAN, settleExport(e, ok)
      PROVE  JobInv' /\ ExportFaithful'
  <2>1. /\ \A f \in ExportIds : f # e => exports'[f] = exports[f]
        /\ \/ exports'[e].status = "completed" /\ exports'[e].content = Len(log) /\ exportSourceUnchanged(e)
           \/ exports'[e].status = "failed"
        /\ exports'[e].seq = exports[e].seq
    BY <1>5, ExportRows
  <2>2. /\ op.pc = "materialize" /\ e \in op.job /\ op'.kind = "none"
        /\ UNCHANGED <<log, exportTimers>>
    BY <1>5, OpFields DEF settleExport
  <2>3. e \notin exportTimers
    BY <1>h, <2>2 DEF Standing
  <2>4. exports'[e].status = "completed" => exports'[e].content <= Len(log') /\ Faithful(e)'
    <3> SUFFICES ASSUME exports'[e].status = "completed"
                 PROVE  exports'[e].content <= Len(log') /\ Faithful(e)'
      OBVIOUS
    <3>1. exports'[e].content = Len(log) /\ exports'[e].seq = Len(log) /\ status # "running"
      BY <2>1 DEF exportSourceUnchanged, LogicalState
    <3>2. \A i \in 1..Len(log) :
             factStatus(log[i].type) = "running" => \E j \in (i + 1)..Len(log) : isFact(j)
      BY <3>1 DEF StatusFollowsJournal, isFact
    <3>3. log' = log
      BY <2>2
    <3>4. \A i \in 1..Len(log) :
             factStatus(log'[i].type) = "running" => \E j \in (i + 1)..Len(log) : isFact(j)'
      BY <3>2, <3>3 DEF isFact
    <3> QED BY <1>g, <3>1, <3>3, <3>4 DEF Faithful
  <2>5. \A f \in ExportIds : exports'[f].status = "completed" =>
           exports'[f].content <= Len(log') /\ Faithful(f)'
    BY <1>1, <2>1, <2>4
  <2> QED BY <1>0, <1>2, <2>1, <2>2, <2>3, <2>5
<1>6. ASSUME recover
      PROVE  JobInv' /\ ExportFaithful'
  <2>1. op.kind # "export" /\ op' = op /\ exports' = exports /\ exportTimers' = listActive
    BY <1>6, <1>h DEF recover, Standing
  <2>2. \A f \in ExportIds : exports'[f].status = "completed" =>
           exports'[f].content <= Len(log') /\ Faithful(f)'
    BY <1>1, <2>1
  <2> QED BY <1>2, <2>1, <2>2 DEF listActive
<1>7. ASSUME exports' = exports, exportTimers' \subseteq exportTimers,
             op' = op \/ op'.kind # "export"
      PROVE  JobInv' /\ ExportFaithful'
  <2>1. \A f \in ExportIds : exports'[f].status = "completed" =>
           exports'[f].content <= Len(log') /\ Faithful(f)'
    BY <1>1, <1>7
  <2> QED BY <1>0, <1>2, <1>7, <2>1
<1> QED BY <1>3, <1>4, <1>5, <1>6, <1>7, ExportsMove

-----------------------------------------------------------------------------
(* The handler's place and the run's owners hold initially and by each step. *)
LEMMA RunInvariant == Spec => [](TypeInv /\ HandlerInv /\ OwnerInv)
<1>1. Init => TypeInv /\ HandlerInv /\ OwnerInv
  <2> SUFFICES ASSUME Init PROVE HandlerInv /\ OwnerInv
    BY InitType
  <2>1. op.kind = "none" /\ op.pc = "idle" /\ loop = NoLoop
    BY OpFields DEF Init
  <2>2. task.status = "none"
    BY DEF Init, NoTask
  <2>3. HandlerInv
    BY <2>1 DEF Init, HandlerInv, Standing, LoopFresh, CheckpointFresh
  <2>4. OwnerInv
    BY <2>1, <2>2
    DEF Init, LifecycleInit, OwnerInv, TaskInv, TimerInv, TaskHandlerInv, TaskOwnsRun,
        RunningIsDriven, taskActive
  <2> QED BY <2>3, <2>4
<1>2. TypeInv /\ HandlerInv /\ OwnerInv /\ [Next]_vars => (TypeInv /\ HandlerInv /\ OwnerInv)'
  BY TypeStep, HandlerStep, OwnerStep
<1> QED BY <1>1, <1>2, PTL DEF Spec

(* Where a transaction takes its identifiers from: the row, also when it is a
   tick, whose cached factory is the row's. *)
LEMMA IdsMove ==
  ASSUME TypeInv, HandlerInv, [Next]_vars
  PROVE  /\ ids'.evt - ids.evt = Len(log') - Len(log)
         /\ \/ issued' = issued /\ ids'.row = ids.row
            \/ issued' = issued \o issuedBy(ids, 1) /\ ids'.row = ids.row + 1
<1>0. ids \in IdState /\ ids.evt \in Nat /\ ids.row \in Nat /\ issued \in Seq(Nat)
      /\ log \in Seq(Event) /\ Len(log) \in Nat
  BY DEF TypeInv, TypeOK, DurableTypes, IdState
<1>1. CASE UNCHANGED <<log, ids, issued>>
  BY <1>0, <1>1
<1>2. ASSUME NEW ty \in Seq(EventType), NEW r \in {0, 1}, appendBatch(ty, r)
      PROVE  /\ ids'.evt - ids.evt = Len(log') - Len(log)
             /\ \/ issued' = issued /\ ids'.row = ids.row
                \/ issued' = issued \o issuedBy(ids, 1) /\ ids'.row = ids.row + 1
  <2>1. Len(ty) \in Nat /\ Len(log') = Len(log) + Len(ty)
    BY <1>2, BatchEvents
  <2>2. ids' = serialize(ids, Len(ty), r) /\ issued' = issued \o issuedBy(ids, r)
    BY <1>2 DEF appendBatch
  <2>3. ids'.evt = ids.evt + Len(ty) /\ ids'.row = ids.row + r
    BY <1>0, <2>1, <2>2, SerializeType
  <2>4. r = 0 => issued \o issuedBy(ids, r) = issued
    <3>1. issuedBy(ids, 0) = <<>>
      BY DEF issuedBy
    <3>2. \A q \in Seq(Nat) : q \o <<>> = q
      OBVIOUS
    <3> QED BY <1>0, <3>1, <3>2
  <2>5. ids'.evt - ids.evt = Len(log') - Len(log)
    BY <1>0, <2>1, <2>3
  <2>6. CASE r = 0
    <3>1. issued' = issued
      BY <2>2, <2>4, <2>6
    <3>2. ids'.row = ids.row
      BY <1>0, <2>3, <2>6
    <3> QED BY <2>5, <3>1, <3>2
  <2>7. CASE r = 1
    BY <2>2, <2>3, <2>5, <2>7
  <2> QED BY <2>6, <2>7
<1>3. CASE commitTick
  <2>1. loop = readRunCheckpoint
    BY <1>3 DEF commitTick, HandlerInv, CheckpointFresh
  <2>2. loop.ids = ids
    BY <2>1 DEF readRunCheckpoint
  <2>3. stagedEvents \in Seq(Event) /\ Len(stagedEvents) = 2
    BY <1>3, StagedType
  <2>4. /\ log' = log \o stagedEvents
        /\ ids' = serialize(ids, 2, 1)
        /\ issued' = issued \o issuedBy(ids, 1)
    BY <1>3, <2>2, <2>3 DEF commitTick
  <2>5. Len(log') = Len(log) + 2
    <3>1. Len(log \o stagedEvents) = Len(log) + Len(stagedEvents)
      BY <1>0, <2>3, ConcatFacts
    <3> QED BY <2>3, <2>4, <3>1
  <2>6. ids'.evt = ids.evt + 2 /\ ids'.row = ids.row + 1
    BY <1>0, <2>4, SerializeType
  <2> QED BY <1>0, <2>4, <2>5, <2>6
<1> QED BY <1>1, <1>2, <1>3, JournalStep DEF JournalEffect, PlainBatch, FactBatch

(* The saved event counter is the length of the journal in every durable
   state, so the run can be loaded again, and no identifier is given to two
   rows, although a tick takes its own from the factory of the cached loop:
   whatever is journaled beside a pass, the loop is built anew before the
   next tick. *)
THEOREM IdCheckpointHolds == Spec => []IdCheckpoint
<1>1. Init => IdCheckpoint
  <2> SUFFICES ASSUME Init PROVE IdCheckpoint
    OBVIOUS
  <2>1. DOMAIN issued = {}
    BY DEF Init
  <2> QED BY <2>1 DEF Init, IdCheckpoint
<1>2. TypeInv /\ HandlerInv /\ IdCheckpoint /\ [Next]_vars => IdCheckpoint'
  <2> SUFFICES ASSUME TypeInv, HandlerInv, IdCheckpoint, [Next]_vars PROVE IdCheckpoint'
    OBVIOUS
  <2>0. /\ ids \in IdState /\ ids.evt \in Nat /\ ids.row \in Nat /\ issued \in Seq(Nat)
        /\ ids'.evt \in Nat /\ Len(log) \in Nat /\ Len(log') \in Nat
    BY TypeStep DEF TypeInv, TypeOK, DurableTypes, IdState
  <2>1. ids'.evt = Len(log')
    BY <2>0, IdsMove DEF IdCheckpoint
  <2>2. CASE issued' = issued /\ ids'.row = ids.row
    BY <2>1, <2>2 DEF IdCheckpoint
  <2>3. CASE issued' = issued \o issuedBy(ids, 1) /\ ids'.row = ids.row + 1
    <3> DEFINE n == Len(issued)
    <3>1. /\ issuedBy(ids, 1) \in Seq(Nat) /\ Len(issuedBy(ids, 1)) = 1
          /\ issuedBy(ids, 1)[1] = ids.row + 1
      BY <2>0, SerializeType
    <3>2. /\ n \in Nat /\ DOMAIN issued = 1..n /\ DOMAIN issued' = 1..(n + 1)
          /\ \A i \in 1..n : issued'[i] = issued[i]
          /\ issued'[n + 1] = ids.row + 1
      <4> DEFINE one == issuedBy(ids, 1)
      <4>1. n \in Nat /\ DOMAIN issued = 1..n
        BY <2>0
      <4>2. one \in Seq(Nat) /\ Len(one) = 1 /\ one[1] = ids.row + 1 /\ issued' = issued \o one
        BY <2>3, <3>1
      <4> HIDE DEF one
      <4>3. /\ issued \o one \in Seq(Nat) /\ Len(issued \o one) = n + 1
            /\ \A i \in 1..n : (issued \o one)[i] = issued[i]
            /\ \A i \in (n + 1)..(n + 1) : (issued \o one)[i] = one[i - n]
        <5>1. /\ issued \o one \in Seq(Nat) /\ Len(issued \o one) = Len(issued) + Len(one)
              /\ \A i \in 1..Len(issued) : (issued \o one)[i] = issued[i]
              /\ \A i \in (Len(issued) + 1)..(Len(issued) + Len(one)) :
                   (issued \o one)[i] = one[i - Len(issued)]
          <6>1. issued \in Seq(Nat) /\ one \in Seq(Nat)
            BY <2>0, <4>2
          <6> QED BY <6>1, ConcatFacts
        <5> QED BY <4>2, <5>1
      <4>4. (n + 1) - n = 1 /\ n + 1 \in (n + 1)..(n + 1)
        BY <4>1
      <4> QED BY <4>1, <4>2, <4>3, <4>4
    <3>3. \A i \in 1..n : issued[i] \in Nat /\ issued[i] <= ids.row
      BY <2>0, <3>2 DEF IdCheckpoint
    <3>4. \A i, j \in 1..n : issued[j] = issued[i] => j = i
      BY <3>2 DEF IdCheckpoint
    <3> HIDE DEF n
    <3>5. \A i \in 1..(n + 1) : i \in 1..n \/ i = n + 1
      BY <3>2
    <3>m. \A i \in 1..n : issued'[i] \in Nat /\ issued'[i] <= ids.row
      BY <3>2, <3>3
    <3>6. \A i \in 1..(n + 1) : issued'[i] <= ids'.row
      <4> SUFFICES ASSUME NEW i \in 1..(n + 1) PROVE issued'[i] <= ids.row + 1
        BY <2>3
      <4>1. CASE i \in 1..n
        BY <2>0, <3>m, <4>1
      <4>2. CASE i = n + 1
        BY <2>0, <3>2, <4>2
      <4> QED BY <3>5, <4>1, <4>2
    <3>7. \A i, j \in 1..(n + 1) : issued'[j] = issued'[i] => j = i
      <4> SUFFICES ASSUME NEW i \in 1..(n + 1), NEW j \in 1..(n + 1), issued'[j] = issued'[i]
                   PROVE  j = i
        OBVIOUS
      <4>1. CASE i \in 1..n /\ j \in 1..n
        BY <3>2, <3>4, <4>1
      <4>2. \A k \in 1..n : issued'[k] # issued'[n + 1]
        BY <2>0, <3>2, <3>m
      <4> QED BY <3>5, <4>1, <4>2
    <3> QED BY <2>1, <3>2, <3>6, <3>7 DEF IdCheckpoint
  <2> QED BY <2>2, <2>3, IdsMove
<1> QED BY <1>1, <1>2, RunInvariant, PTL DEF Spec

(* What a handler read before an await is still true when it uses it, and a
   running run always has something that will go on with it: no request,
   budget pause, failure or restart slips in between. *)
THEOREM RunSoundHolds == Spec => []RunSound
<1>1. TypeInv /\ HandlerInv /\ OwnerInv => RunSound
  BY DEF TypeInv, HandlerInv, OwnerInv, RunSound
<1> QED BY <1>1, RunInvariant, PTL

(* The snapshots and the journal, on top of it. *)
LEMMA RowsInvariant == Spec => [](GapInv /\ JournalInv)
<1>1. Init => GapInv /\ JournalInv
  <2> SUFFICES ASSUME Init PROVE GapInv /\ JournalInv
    OBVIOUS
  <2>1. op.pc = "idle" /\ tick = 0 /\ snaps = {}
    BY OpFields DEF Init, LifecycleInit
  <2>2. Len(log) = 1 /\ log[1].type = "simulation.created" /\ log[1].tick = 0
    BY DEF Init
  <2>3. \A t \in 1..0 : FALSE
    OBVIOUS
  <2>4. \A i \in 1..Len(log) : i = 1
    BY <2>2
  <2>5. GapInv
    <3>1. 1..(tick - 1) = {}
      BY <2>1
    <3> QED BY <2>1, <3>1 DEF GapInv, PassInv, NoSnapshotGap
  <2>6. JournaledOnce
    BY <2>1, <2>2, <2>3, <2>4 DEF JournaledOnce
  <2> QED BY <2>1, <2>2, <2>4, <2>5, <2>6 DEF JournalInv
<1>2. TypeInv /\ HandlerInv /\ GapInv /\ JournalInv /\ [Next]_vars => (GapInv /\ JournalInv)'
  BY GapStep, JournalInvStep
<1> QED BY <1>1, <1>2, RunInvariant, PTL DEF Spec

(* The rows of a run agree in every durable state: each tick is journaled
   exactly once and in order, each snapshot is announced where it was taken,
   no due one is left behind, and an active task is within its range on a
   run that nothing else moves. *)
THEOREM RowsAgreeHolds == Spec => []RowsAgree
<1>1. OwnerInv /\ GapInv /\ JournalInv => RowsAgree
  BY DEF OwnerInv, TaskInv, GapInv, JournalInv, RowsAgree
<1> QED BY <1>1, RunInvariant, RowsInvariant, PTL

LEMMA JobsInvariant == Spec => [](JobInv /\ ExportFaithful)
<1>1. Init => JobInv /\ ExportFaithful
  <2> SUFFICES ASSUME Init PROVE JobInv /\ ExportFaithful
    OBVIOUS
  <2>1. \A e \in ExportIds : exports[e].status = "none"
    BY DEF Init, NoJob
  <2>2. op.kind = "none" /\ exportTimers = {}
    BY OpFields DEF Init
  <2> QED BY <2>1, <2>2 DEF JobInv, ExportFaithful
<1>2. TypeInv /\ HandlerInv /\ StatusFollowsJournal /\ JobInv /\ ExportFaithful /\ [Next]_vars
        => (JobInv /\ ExportFaithful)'
  BY JobStep
<1> QED BY <1>1, <1>2, RunInvariant, StatusFollowsJournalHolds, PTL DEF Spec

(* A completed export holds exactly the journal its manifest pins, and that
   journal is of a run at rest, although the run is free to go on between the
   request, the materialization and its second check. *)
THEOREM ExportFaithfulHolds == Spec => []ExportFaithful
BY JobsInvariant, PTL

(* Which steps write the latest task row. *)
LEMMA TaskMoves ==
  ASSUME [Next]_vars
  PROVE  \/ \E n \in 1..EndTick : enqueueAdvanceTask(n)
         \/ runAdvanceTaskStep
         \/ markTaskCompleted
         \/ \E j \in BOOLEAN : failAdvanceTask(j)
         \/ UNCHANGED task
<1>1. ASSUME NEW n \in 1..EndTick, advanceSync(n) PROVE UNCHANGED task
  BY <1>1 DEF advanceSync
<1>2. ASSUME NEW c \in {"start", "pause", "resume", "stop"}, controlSimulation(c)
      PROVE  UNCHANGED task
  BY <1>2 DEF controlSimulation
<1>3. ASSUME setLlmControl \/ injectWorldEvent \/ superviseRun \/ ensurePeriodicSnapshot
             \/ applySnapshotPlan \/ restoreLoop \/ commitTick
      PROVE  UNCHANGED task
  BY <1>3 DEF setLlmControl, injectWorldEvent, superviseRun, ensurePeriodicSnapshot,
              applySnapshotPlan, restoreLoop, commitTick, durable
<1>4. ASSUME NEW e \in ExportIds, NEW ok \in BOOLEAN,
             createExport(e) \/ runExport(e) \/ settleExport(e, ok)
      PROVE  UNCHANGED task
  BY <1>4 DEF createExport, runExport, settleExport
<1>5. ASSUME NEW b \in BOOLEAN, beginPreparation(b) \/ recordUsage(b) \/ failRun(b)
      PROVE  UNCHANGED task
  BY <1>5 DEF beginPreparation, recordUsage, failRun, durable
<1>6. ASSUME finishSupervise \/ finishAdvance \/ finishTaskStep \/ failAdvance \/ loseExportFailure
             \/ close \/ crash \/ recover \/ UNCHANGED vars
      PROVE  UNCHANGED task
  BY <1>6
  DEF finishSupervise, finishAdvance, finishTaskStep, failAdvance, loseExportFailure,
              close, crash, recover, vars, durable
<1> QED BY <1>1, <1>2, <1>3, <1>4, <1>5, <1>6 DEF Next, Requests, Work, Faults

(* The triggers on api_tasks accept each of them. *)
LEMMA TaskWrites ==
  ASSUME TypeInv, HandlerInv, OwnerInv, [Next]_vars, task' # task
  PROVE  api_tasks_accept
<1> USE DEF api_tasks_accept, api_tasks_inserted, api_tasks_one_active_per_run,
            api_tasks_valid_run_checkpoint, api_tasks_identity_immutable,
            api_tasks_status_transition, api_tasks_complete_at_target
<1>0. /\ task \in TaskType /\ task.start \in 0..EndTick /\ task.target \in 0..EndTick
      /\ tick \in 0..EndTick /\ EndTick \in Nat /\ TaskOwnsRun
      /\ op.pc = "mark" => op.kind = "task"
      /\ op.kind = "task" => task.status = "running"
      /\ taskTimer => taskActive
  BY EndTickAssumption
  DEF TypeInv, TypeOK, DurableTypes, TaskType, HandlerInv, Standing, OwnerInv, TaskInv,
      TimerInv, TaskHandlerInv
<1>1. ASSUME NEW n \in 1..EndTick, enqueueAdvanceTask(n)
      PROVE  api_tasks_accept
  <2>1. n \in Nat \ {0} /\ n <= EndTick - tick /\ ~taskActive
    BY <1>0, <1>1 DEF enqueueAdvanceTask
  <2>2. task'.status = "pending" /\ task'.start = tick /\ task'.target = tick + n
    BY <1>1 DEF enqueueAdvanceTask, createAdvanceTask
  <2> QED BY <1>0, <2>1, <2>2
<1>2. CASE runAdvanceTaskStep
  <2> DEFINE refused == tick > task.target \/ (tick < task.target /\ status # "paused")
  <2>1. taskActive /\ ~refused
    BY <1>0, <1>2 DEF runAdvanceTaskStep, TaskOwnsRun
  <2>2. task' = IF refused THEN markFailed(task) ELSE markRunning(task)
    BY <1>2 DEF runAdvanceTaskStep
  <2> HIDE DEF refused
  <2>3. task' = [task EXCEPT !.status = "running"]
    BY <2>1, <2>2 DEF markRunning
  <2>4. task'.status = "running" /\ task'.start = task.start /\ task'.target = task.target
    BY <1>0, <2>3 DEF TaskType
  <2>5. task.status \in {"pending", "running"}
    BY <2>1 DEF taskActive
  <2> QED BY <2>4, <2>5
<1>3. CASE markTaskCompleted
  <2>1. task.status = "running" /\ tick' = tick
    BY <1>0, <1>3 DEF markTaskCompleted
  <2>2. task' = [task EXCEPT !.status = IF task.target = tick THEN "completed" ELSE @]
    BY <1>3, <2>1 DEF markTaskCompleted, markCompleted
  <2>3. /\ task'.start = task.start /\ task'.target = task.target
        /\ task'.status = IF task.target = tick THEN "completed" ELSE "running"
    BY <1>0, <2>1, <2>2 DEF TaskType
  <2> QED BY <2>1, <2>3
<1>4. ASSUME NEW j \in BOOLEAN, failAdvanceTask(j)
      PROVE  api_tasks_accept
  <2>1. task.status = "running"
    BY <1>0, <1>4 DEF failAdvanceTask, throwing
  <2>2. /\ task'.start = task.start /\ task'.target = task.target
        /\ task'.status \in {"running", "failed"}
    BY <1>0, <1>4, <2>1 DEF failAdvanceTask, markFailed, TaskType
  <2> QED BY <2>1, <2>2
<1> QED BY <1>1, <1>2, <1>3, <1>4, TaskMoves

(* And those on export_jobs and export_files each write of a job. *)
LEMMA ExportWrites ==
  ASSUME TypeInv, HandlerInv, JobInv, [Next]_vars, NEW e \in ExportIds, exports'[e] # exports[e]
  PROVE  export_jobs_accept(e)
<1> USE DEF export_jobs_accept, export_jobs_run_identity, export_jobs_identity_immutable,
            export_jobs_status_transition, export_files_parent_running
<1>1. CASE createExport(e)
  BY <1>1, ExportRows
<1>2. CASE runExport(e)
  <2>1. exports[e].status \in {"queued", "running"}
    BY <1>2 DEF runExport, JobInv
  <2> QED BY <1>2, <2>1, ExportRows
<1>3. ASSUME NEW ok \in BOOLEAN, settleExport(e, ok)
      PROVE  export_jobs_accept(e)
  <2>1. exports[e].status = "running"
    BY <1>3 DEF settleExport, JobInv, HandlerInv, Standing
  <2> QED BY <1>3, <2>1, ExportRows
<1>4. ASSUME NEW f \in ExportIds, f # e,
             createExport(f) \/ runExport(f) \/ \E ok \in BOOLEAN : settleExport(f, ok)
      PROVE  FALSE
  BY <1>4, ExportRows
<1>5. recover => exports' = exports
  BY DEF recover
<1> QED BY <1>1, <1>2, <1>3, <1>4, <1>5, ExportsMove

(* No step of the supervisor makes a write that a constraint or trigger of
   these tables would abort. *)
THEOREM TablesAcceptHolds == Spec => TablesAccept
<1> DEFINE Inv == TypeInv /\ HandlerInv /\ OwnerInv /\ JournalInv /\ JobInv
<1>1. Inv /\ [Next]_vars /\ JournalInv' =>
        [/\ events_no_update
         /\ snapshots_no_update
         /\ task' # task => api_tasks_accept
         /\ \A e \in ExportIds : exports'[e] # exports[e] => export_jobs_accept(e)]_vars
  <2> SUFFICES ASSUME Inv, [Next]_vars, JournalInv'
               PROVE  /\ events_no_update
                      /\ snapshots_no_update
                      /\ task' # task => api_tasks_accept
                      /\ \A e \in ExportIds : exports'[e] # exports[e] => export_jobs_accept(e)
    OBVIOUS
  <2>1. events_no_update
    BY JournalStep, JournalGrows DEF events_no_update
  <2>2. snapshots_no_update
    <3>1. snaps \subseteq snaps'
      BY RowsMove DEF commitTick, applySnapshotPlan
    <3> QED BY <3>1 DEF snapshots_no_update, JournalInv, JournaledOnce
  <2> QED BY <2>1, <2>2, TaskWrites, ExportWrites
<1> HIDE DEF Inv
<1>2. Spec => []Inv
  BY RunInvariant, RowsInvariant, JobsInvariant, PTL DEF Inv
<1>3. Spec => []JournalInv
  BY RowsInvariant, PTL
<1> QED BY <1>1, <1>2, <1>3, PTL DEF Spec, TablesAccept

=============================================================================
