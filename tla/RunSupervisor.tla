---------------------------- MODULE RunSupervisor ----------------------------
(***************************************************************************)
(* One simulation run under the server's supervision                       *)
(* (apps/server/src/simulation-service.ts with the run repository, event   *)
(* store, tick committer, API task store, export store and the snapshot    *)
(* calls it makes).                                                        *)
(*                                                                         *)
(* The run's SQLite file survives a crash; timers, the per-run operation   *)
(* lock and the cached SimLoop do not.  Node runs one handler at a time,   *)
(* so handlers interleave only where the code awaits, but a crash can fall *)
(* between any two transactions: every action below is one transaction     *)
(* (with the bookkeeping that follows it), and `op` is the handler that    *)
(* holds the lock between two of them.  A request that the lock, the       *)
(* status or an active task refuses changes nothing and is not an action.  *)
(***************************************************************************)
EXTENDS Integers, Sequences, RunLifecycle

CONSTANTS
  SnapshotInterval,   \* snapshotIntervalTicks
  MaxSyncAdvance,     \* MAX_SYNC_ADVANCE_TICKS
  AsyncChunk,         \* ASYNC_ADVANCE_CHUNK_TICKS
  Provider,           \* does the run have a Tier-2 provider (llmMode # "off")?
  ExportIds,          \* the export jobs a client may create
  MaxLog              \* bound: requests and provider work stop journaling here

ASSUME SupervisorAssumption ==
  /\ SnapshotInterval \in Nat \ {0}
  /\ MaxSyncAdvance \in Nat \ {0}
  /\ AsyncChunk \in Nat \ {0}
  /\ Provider \in BOOLEAN
  /\ MaxLog \in Nat

VARIABLES
  \* status and tick (RunLifecycle) are columns of simulation_runs
  simActive,    \* simulations.status = 'active'
  log,          \* the events table, in seq order
  ids,          \* id_state_canonical: how many "evt", and how many for rows
  issued,       \* history: the identifiers rows were committed with, in order
  task,         \* the latest row of api_tasks
  exports,      \* export_jobs
  snaps,        \* the snapshots table: [tick, seq at which it was taken]
  svc,          \* the process: "up", "closed" (close() was called), "down"
  op,           \* the handler that holds the run's lock
  loop,         \* executeTicks' cached SimLoop: its own tick and nextSeq
  runTimer, taskTimer, exportTimers,
  lost          \* history: failures whose own journaling did not commit

durable  == <<status, tick, simActive, log, ids, issued, task, exports, snaps>>
volatile == <<svc, op, loop, runTimer, taskTimer, exportTimers>>
vars     == <<durable, volatile, lost>>

(* The events of this part of the journal; llm.control.changed stands for
   the facts of the LLM controls. *)
EventType ==
  {"simulation.created", "simulation.started", "simulation.paused",
   "simulation.resumed", "simulation.stopped", "simulation.completed",
   "simulation.tick.started", "simulation.tick.completed",
   "simulation.statehash.computed", "simulation.snapshot.created",
   "admin.command.received", "system.error.raised", "world.event.injected",
   "llm.control.changed", "llm.usage.recorded", "llm.budget.threshold"}

Event == [type : EventType, tick : 0..EndTick]

(* IdFactory: a counter for each prefix.  "row" stands for every prefix but
   "evt": tasks, world events and whatever a tick inserts. *)
IdState == [evt : Nat, row : Nat]
NoIds   == [evt |-> 0, row |-> 0]
serialize(from, events, rows) == [evt |-> from.evt + events, row |-> from.row + rows]
issuedBy(from, rows) == [i \in 1..rows |-> from.row + i]

NoTask == [status |-> "none", start |-> 0, target |-> 0]
NoJob  == [status |-> "none", tick |-> 0, seq |-> 0, content |-> 0]
NoOp   == [kind |-> "none", pc |-> "idle", remaining |-> 0, pass |-> 0,
           batch |-> FALSE, at |-> 0, seq |-> 0, ids |-> NoIds, job |-> {}]
NoLoop == [tick |-> -1, seq |-> -1, ids |-> NoIds]

(* The logical state hash covers the tick, the ID checkpoint (hence the
   event counter) and the domain tables, which change only with events. *)
LogicalState == <<tick, Len(log)>>

(* Mutant: ticks without the repair of a missing snapshot. *)
enterTicksUnrepaired(kind, n) ==
  [NoOp EXCEPT !.kind = kind, !.pc = "loop", !.remaining = n]

(* A handler that takes the lock to execute n ticks: executeTicks begins
   with ensurePeriodicSnapshot, which repairs a missing snapshot. *)
enterTicks(kind, n) ==
  [NoOp EXCEPT !.kind = kind, !.pc = "ensure", !.remaining = n]

Least(a, b) == IF a <= b THEN a ELSE b

taskActive == task.status \in {"pending", "running"}

(* assertRunOperationAvailable / enterRunOperation *)
Unlocked == op.kind = "none"

(* A request reaches a run only while the process serves. *)
Serving == svc = "up" /\ Len(log) < MaxLog

(* The checkpoint a handler restores its ID factory or SimLoop from. *)
readRunCheckpoint == [tick |-> tick, seq |-> Len(log), ids |-> ids]

(* appendBatch and the ID-state update of the same transaction: the ID
   factory is restored from the row and issues identifiers for events of the
   given types at the current tick, and for as many rows. *)
appendBatch(types, rows) ==
  /\ log' = log \o [i \in 1..Len(types) |-> [type |-> types[i], tick |-> tick]]
  /\ ids' = serialize(ids, Len(types), rows)
  /\ issued' = issued \o issuedBy(ids, rows)

(* Mutant: the hook journals the command but not the fact. *)
transitionRunWithoutFact(c, types) ==
  /\ status' \in transitionRunStatus(status, c)
  /\ appendBatch(<<types[1]>>, 0)

(* SqliteRunRepository.transitionRun: the table decides, and the status, the
   journal hook's events and the ID state are one guarded transaction. *)
transitionRun(c, types) ==
  /\ status' \in transitionRunStatus(status, c)
  /\ appendBatch(types, 0)

(* SqliteApiTaskStore *)
createAdvanceTask(n) == [status |-> "pending", start |-> tick, target |-> tick + n]
markRunning(t) == [t EXCEPT !.status = "running"]
markCompleted(t) ==
  [t EXCEPT !.status = IF @ = "running" /\ t.target = tick THEN "completed" ELSE @]
markFailed(t) == [t EXCEPT !.status = IF taskActive THEN "failed" ELSE @]

-----------------------------------------------------------------------------
(* API requests, each synchronous up to its end or its first await. *)

lifecycleType(c) ==
  CASE c = "start"  -> "simulation.started"
    [] c = "pause"  -> "simulation.paused"
    [] c = "resume" -> "simulation.resumed"
    [] c = "stop"   -> "simulation.stopped"

(* scheduleRun (idempotent, refused once closed) when the run is running,
   cancelRun otherwise. *)
controlSimulation(c) ==
  /\ Serving /\ Unlocked /\ ~taskActive
  /\ transitionRun(c, <<"admin.command.received", lifecycleType(c)>>)
  /\ c = "start" => ~simActive
  /\ simActive' = (simActive \/ c = "start")
  /\ runTimer' = (status' = "running")
  /\ UNCHANGED <<tick, task, exports, snaps, svc, op, loop, taskTimer,
                 exportTimers, lost>>

(* setLlmControl asks only for the lock: any status, even a terminal one. *)
setLlmControl ==
  /\ Serving /\ Unlocked
  /\ appendBatch(<<"admin.command.received", "llm.control.changed">>, 0)
  /\ UNCHANGED <<status, tick, simActive, task, exports, snaps, volatile, lost>>

injectWorldEvent ==
  /\ Serving /\ Unlocked /\ ~taskActive
  /\ status \in {"created", "paused"}
  /\ tick < EndTick
  /\ appendBatch(<<"admin.command.received", "world.event.injected">>, 1)
  /\ UNCHANGED <<status, tick, simActive, task, exports, snaps, volatile, lost>>

(* advanceSimulation, at most MAX_SYNC_ADVANCE_TICKS: the command is
   journaled and the handler keeps the lock while it ticks. *)
advanceSync(n) ==
  /\ Serving /\ Unlocked /\ ~taskActive
  /\ assertCanAdvance(status)
  /\ n <= MaxSyncAdvance /\ n <= EndTick - tick
  /\ appendBatch(<<"admin.command.received">>, 0)
  /\ op' = enterTicks("advance", n)
  /\ UNCHANGED <<status, tick, simActive, task, exports, snaps, svc, loop,
                 runTimer, taskTimer, exportTimers, lost>>

(* Mutant: asks for the lock only, and a task waits without holding it. *)
enqueueAdvanceTaskAnyway(n) ==
  /\ Serving /\ Unlocked
  /\ assertCanAdvance(status)
  /\ n > MaxSyncAdvance /\ n <= EndTick - tick
  /\ appendBatch(<<"admin.command.received">>, 1)
  /\ task' = createAdvanceTask(n)
  /\ taskTimer' = TRUE
  /\ UNCHANGED <<status, tick, simActive, exports, snaps, svc, op, loop,
                 runTimer, exportTimers, lost>>

(* enqueueAdvanceTask and scheduleAdvanceTask *)
enqueueAdvanceTask(n) ==
  /\ Serving /\ Unlocked /\ ~taskActive
  /\ assertCanAdvance(status)
  /\ n > MaxSyncAdvance /\ n <= EndTick - tick
  /\ appendBatch(<<"admin.command.received">>, 1)
  /\ task' = createAdvanceTask(n)
  /\ taskTimer' = TRUE
  /\ UNCHANGED <<status, tick, simActive, exports, snaps, svc, op, loop,
                 runTimer, exportTimers, lost>>

(* SqliteExportStore.create: the job pins the state it will export. *)
queuedJob == [NoJob EXCEPT !.status = "queued", !.tick = tick, !.seq = Len(log)]

createExport(e) ==
  /\ svc = "up" /\ Unlocked /\ ~taskActive
  /\ status # "running"
  /\ exports[e].status = "none"
  /\ exports' = [exports EXCEPT ![e] = queuedJob]
  /\ exportTimers' = exportTimers \cup {e}
  /\ UNCHANGED <<status, tick, simActive, log, ids, issued, task, snaps, svc, op,
                 loop, runTimer, taskTimer, lost>>

-----------------------------------------------------------------------------
(* completeRun, when the run has reached its end tick *)

(* Mutant: completes wherever the run stands. *)
completeAnywhere ==
  IF status \in {"running", "paused"}
  THEN transitionRun("complete", <<"simulation.completed">>)
  ELSE UNCHANGED <<status, log, ids, issued>>

completeAtEnd ==
  IF tick = EndTick /\ status # "completed"
  THEN transitionRun("complete", <<"simulation.completed">>)
  ELSE UNCHANGED <<status, log, ids, issued>>

(* superviseRun: the timer fires.  (With the lock taken it is set again.) *)
superviseRun ==
  /\ svc = "up" /\ runTimer /\ Unlocked
  /\ runTimer' = FALSE
  /\ completeAtEnd
  /\ op' = IF status = "running" /\ tick # EndTick
           THEN enterTicks("supervise", 1)
           ELSE NoOp
  /\ UNCHANGED <<tick, simActive, task, exports, snaps, svc, loop, taskTimer,
                 exportTimers, lost>>

(* runAdvanceTaskStep up to executeTicks: a settled task is left alone, a
   pending one is marked running; a task already at its target goes straight
   to its completion (a crash fell between the last tick and markCompleted);
   one the run has overtaken, or whose run is no longer paused, fails. *)
runAdvanceTaskStep ==
  /\ svc = "up" /\ taskTimer /\ Unlocked
  /\ taskTimer' = FALSE
  /\ LET refused == tick > task.target \/ (tick < task.target /\ status # "paused")
     IN  IF ~taskActive THEN UNCHANGED <<task, op>>
         ELSE /\ task' = IF refused THEN markFailed(task) ELSE markRunning(task)
              /\ op' = IF refused THEN NoOp
                       ELSE IF tick = task.target
                       THEN [NoOp EXCEPT !.kind = "task", !.pc = "loop"]
                       ELSE enterTicks("task", Least(AsyncChunk, task.target - tick))
  /\ UNCHANGED <<status, tick, simActive, log, ids, issued, exports, snaps, svc, loop,
                 runTimer, exportTimers, lost>>

(* runExport up to materializeExport: a queued job is marked running, and a
   settled one is left alone. *)
runExport(e) ==
  /\ svc = "up" /\ e \in exportTimers /\ Unlocked
  /\ exportTimers' = exportTimers \ {e}
  /\ IF exports[e].status \in {"queued", "running"}
     THEN /\ exports' = [exports EXCEPT ![e].status = "running"]
          /\ op' = [NoOp EXCEPT !.kind = "export", !.pc = "materialize", !.job = {e}]
     ELSE UNCHANGED <<exports, op>>
  /\ UNCHANGED <<status, tick, simActive, log, ids, issued, task, snaps, svc, loop,
                 runTimer, taskTimer, lost>>

(* Mutant: the source's hash is not compared again. *)
exportSourceSameTick(e) ==
  /\ status # "running"
  /\ tick = exports[e].tick

exportSourceUnchanged(e) ==
  /\ status # "running"
  /\ LogicalState = <<exports[e].tick, exports[e].seq>>

(* The second half of runExport: complete the job, or fail it when the
   source moved on or (ok is FALSE) materialization threw. *)
settleExport(e, ok) ==
  /\ op.pc = "materialize" /\ e \in op.job
  /\ exports' = IF ok /\ exportSourceUnchanged(e)
                THEN [exports EXCEPT ![e].status = "completed", ![e].content = Len(log)]
                ELSE [exports EXCEPT ![e].status = "failed"]
  /\ op' = NoOp
  /\ UNCHANGED <<status, tick, simActive, log, ids, issued, task, snaps, svc, loop,
                 runTimer, taskTimer, exportTimers, lost>>

-----------------------------------------------------------------------------
(* executeTicks *)

snapshotDue(t) == t > 0 /\ t % SnapshotInterval = 0

hasSnapshot(t) == \E s \in snaps : s.tick = t

(* SqliteSnapshotStore.create up to the await of the backup: the plan holds
   the checkpoint read now, and the identifiers of its two events. *)
buildSnapshotPlan ==
  [op EXCEPT !.pc = "backup", !.at = tick, !.seq = Len(log), !.ids = ids]

ensurePeriodicSnapshot ==
  /\ op.pc = "ensure"
  /\ op' = IF snapshotDue(tick) /\ ~hasSnapshot(tick)
           THEN buildSnapshotPlan
           ELSE [op EXCEPT !.pc = "loop"]
  /\ UNCHANGED <<durable, svc, loop, runTimer, taskTimer, exportTimers, lost>>

(* applySnapshotPlan: the row and its two events, refused unless the
   checkpoint is still the planned one. *)
applySnapshotPlan ==
  /\ op.pc = "backup"
  /\ LogicalState = <<op.at, op.seq>> /\ ids = op.ids
  /\ appendBatch(<<"simulation.statehash.computed", "simulation.snapshot.created">>, 0)
  /\ snaps' = snaps \cup {[tick |-> tick, seq |-> Len(log)]}
  /\ op' = [op EXCEPT !.pc = "loop"]
  /\ UNCHANGED <<status, tick, simActive, task, exports, svc, loop, runTimer,
                 taskTimer, exportTimers, lost>>

(* The provider barrier of one pass: what there is to prepare is discovered
   for the next tick, and the batches are awaited. *)
beginPreparation(batch) ==
  /\ op.pc = "loop" /\ op.remaining > 0
  /\ op' = [op EXCEPT !.pc = "await", !.at = tick, !.batch = batch]
  /\ UNCHANGED <<durable, svc, loop, runTimer, taskTimer, exportTimers, lost>>

(* recordUsageTransaction of one provider call: the usage is journaled and a
   running run that reaches its cost ceiling is paused. *)
recordUsage(exhausted) ==
  /\ op.pc = "await" /\ op.batch /\ Provider
  /\ Len(log) < MaxLog
  /\ LET autoPause == exhausted /\ status = "running"
     IN  /\ status' = IF autoPause THEN "paused" ELSE status
         /\ appendBatch(IF autoPause
                    THEN <<"llm.usage.recorded", "llm.budget.threshold", "simulation.paused">>
                    ELSE <<"llm.usage.recorded">>, 0)
  /\ UNCHANGED <<tick, simActive, task, exports, snaps, volatile, lost>>

(* Mutant: keeps the cached loop across a batch. *)
restoreLoopStale ==
  /\ op.pc = "await" /\ tick = op.at
  /\ loop' = IF loop = NoLoop THEN readRunCheckpoint ELSE loop
  /\ op' = [op EXCEPT !.pc = "tick", !.pass = 1]
  /\ UNCHANGED <<durable, svc, runTimer, taskTimer, exportTimers, lost>>

(* Mutant: the new loop is not given the ID factory of the checkpoint, and
   its constructor makes one of the event number alone. *)
restoreLoopWithoutIds ==
  /\ op.pc = "await" /\ tick = op.at
  /\ loop' = IF op.batch \/ loop = NoLoop
             THEN [readRunCheckpoint EXCEPT !.ids.row = 0] ELSE loop
  /\ op' = [op EXCEPT !.pc = "tick",
              !.pass = IF Provider \/ op.batch THEN 1
                       ELSE Least(op.remaining,
                                  SnapshotInterval - (tick % SnapshotInterval))]
  /\ UNCHANGED <<durable, svc, runTimer, taskTimer, exportTimers, lost>>

(* After the barrier: a batch drops the cached loop, the checkpoint is read
   again (the tick must not have moved) and a missing loop is built from it.
   Only a pass without provider and batch may run several ticks. *)
restoreLoop ==
  /\ op.pc = "await" /\ tick = op.at
  /\ loop' = IF op.batch \/ loop = NoLoop
             THEN readRunCheckpoint ELSE loop
  /\ op' = [op EXCEPT !.pc = "tick",
              !.pass = IF Provider \/ op.batch THEN 1
                       ELSE Least(op.remaining,
                                  SnapshotInterval - (tick % SnapshotInterval))]
  /\ UNCHANGED <<durable, svc, runTimer, taskTimer, exportTimers, lost>>

(* SimLoop.tick: the events of a whole tick are staged and handed over at
   its end; a phase that throws discards them. *)
stagedEvents == << [type |-> "simulation.tick.started", tick |-> tick + 1],
                   [type |-> "simulation.tick.completed", tick |-> tick + 1] >>

(* One tick of loop.advance: the SimLoop numbers its events from its own
   counter and takes all identifiers (one row stands for those of a tick)
   from its own factory.  commitTick accepts the events only where they
   extend the journal and the factory agrees with them, and saves the
   factory's state.  The last tick of a pass decides what becomes of the
   loop. *)
commitTick ==
  /\ op.pc = "tick"
  /\ loop.tick = tick /\ loop.seq = Len(log) /\ loop.ids.evt = loop.seq
  /\ status \in {"running", "paused"}
  /\ tick' = tick + 1
  /\ log' = log \o stagedEvents
  /\ ids' = serialize(loop.ids, Len(stagedEvents), 1)
  /\ issued' = issued \o issuedBy(loop.ids, 1)
  /\ LET boundary == (tick + 1) % SnapshotInterval = 0
         passDone == op.pass = 1
     IN  /\ loop' = IF passDone /\ (op.batch \/ boundary) THEN NoLoop
                    ELSE [tick |-> tick + 1, seq |-> loop.seq + 2, ids |-> ids']
         /\ op' = [op EXCEPT !.remaining = @ - 1, !.pass = @ - 1,
                     !.pc = CASE ~passDone -> "tick"
                              [] passDone /\ boundary -> "ensure"
                              [] OTHER -> "loop"]
  /\ UNCHANGED <<status, simActive, task, exports, snaps, svc, runTimer,
                 taskTimer, exportTimers, lost>>

ticksDone == op.pc = "loop" /\ op.remaining = 0

shouldContinue == svc = "up" /\ tick # EndTick /\ status = "running"

(* The rest of superviseRun: complete the run or set its timer again. *)
finishSupervise ==
  /\ op.kind = "supervise" /\ ticksDone
  /\ completeAtEnd
  /\ op' = NoOp /\ loop' = NoLoop
  /\ runTimer' = shouldContinue
  /\ UNCHANGED <<tick, simActive, task, exports, snaps, svc, taskTimer,
                 exportTimers, lost>>

finishAdvance ==
  /\ op.kind = "advance" /\ ticksDone
  /\ completeAtEnd
  /\ op' = NoOp /\ loop' = NoLoop
  /\ UNCHANGED <<tick, simActive, task, exports, snaps, svc, runTimer, taskTimer,
                 exportTimers, lost>>

(* The rest of runAdvanceTaskStep: at the target the run may complete and
   then, in a transaction of its own, the task; otherwise the next chunk is
   scheduled. *)
finishTaskStep ==
  /\ op.kind = "task" /\ ticksDone
  /\ IF tick = task.target
     THEN /\ completeAtEnd
          /\ op' = [op EXCEPT !.pc = "mark"]
          /\ UNCHANGED taskTimer
     ELSE /\ op' = NoOp
          /\ taskTimer' = (svc = "up")
          /\ UNCHANGED <<status, log, ids, issued>>
  /\ loop' = NoLoop
  /\ UNCHANGED <<tick, simActive, task, exports, snaps, svc, runTimer,
                 exportTimers, lost>>

markTaskCompleted ==
  /\ op.pc = "mark"
  /\ task' = markCompleted(task)
  /\ op' = NoOp
  /\ UNCHANGED <<status, tick, simActive, log, ids, issued, exports, snaps, svc, loop,
                 runTimer, taskTimer, exportTimers, lost>>

-----------------------------------------------------------------------------
(* Failures: an exception in executeTicks (a phase handler, the provider,
   the backup, the disk) after the transaction in hand rolled back, then the
   handler's catch.  `journaled` is FALSE when the catch cannot commit
   either. *)

throwing(kind) == op.kind = kind /\ op.pc \in {"ensure", "backup", "loop", "await", "tick"}

(* Mutant: the failure is logged but the run is not paused. *)
failRunSilently(journaled) ==
  /\ throwing("supervise")
  /\ op' = NoOp /\ loop' = NoLoop
  /\ UNCHANGED <<durable, svc, runTimer, taskTimer, exportTimers, lost>>

(* failRun *)
failRun(journaled) ==
  /\ throwing("supervise")
  /\ IF status = "running" /\ journaled
     THEN transitionRun("pause", <<"system.error.raised">>)
     ELSE UNCHANGED <<status, log, ids, issued>>
  /\ lost' = IF journaled THEN lost ELSE lost \cup {"run"}
  /\ op' = NoOp /\ loop' = NoLoop
  /\ UNCHANGED <<tick, simActive, task, exports, snaps, svc, runTimer, taskTimer,
                 exportTimers>>

(* advanceSimulation rethrows to the client; the ticks committed stay. *)
failAdvance ==
  /\ throwing("advance")
  /\ op' = NoOp /\ loop' = NoLoop
  /\ UNCHANGED <<durable, svc, runTimer, taskTimer, exportTimers, lost>>

(* failAdvanceTask *)
failAdvanceTask(journaled) ==
  /\ throwing("task") \/ op.pc = "mark"
  /\ task' = IF journaled THEN markFailed(task) ELSE task
  /\ lost' = IF journaled THEN lost ELSE lost \cup {"task"}
  /\ op' = NoOp /\ loop' = NoLoop
  /\ UNCHANGED <<status, tick, simActive, log, ids, issued, exports, snaps, svc,
                 runTimer, taskTimer, exportTimers>>

(* runExport's catch could not record the failure. *)
loseExportFailure ==
  /\ op.pc = "materialize"
  /\ lost' = lost \cup {"export"}
  /\ op' = NoOp
  /\ UNCHANGED <<durable, svc, loop, runTimer, taskTimer, exportTimers>>

-----------------------------------------------------------------------------
(* The process *)

close ==
  /\ svc = "up"
  /\ svc' = "closed"
  /\ runTimer' = FALSE /\ taskTimer' = FALSE /\ exportTimers' = {}
  /\ UNCHANGED <<durable, op, loop, lost>>

(* Process exit: a crash, or the end of a closed service. *)
crash ==
  /\ svc # "down"
  /\ svc' = "down"
  /\ op' = NoOp /\ loop' = NoLoop
  /\ runTimer' = FALSE /\ taskTimer' = FALSE /\ exportTimers' = {}
  /\ lost' = {}
  /\ UNCHANGED durable

(* SqliteExportStore.listActive, the jobs recoverExportJobs schedules. *)
listActive == {e \in ExportIds : exports[e].status \in {"queued", "running"}}

(* Mutant: tasks cut off while running are not taken up again. *)
recoverPendingTasks == task.status = "pending"

recoverAdvanceTasks == taskActive

(* The constructor: recoverRunningRuns (which first completes a run that
   stopped between its last tick and its completion), recoverAdvanceTasks,
   recoverExportJobs. *)
recover ==
  /\ svc = "down"
  /\ svc' = "up"
  /\ IF status \in {"running", "paused"} THEN completeAtEnd
     ELSE UNCHANGED <<status, log, ids, issued>>
  /\ runTimer' = (status' = "running")
  /\ taskTimer' = recoverAdvanceTasks
  /\ exportTimers' = listActive
  /\ UNCHANGED <<tick, simActive, task, exports, snaps, op, loop, lost>>

-----------------------------------------------------------------------------

Init ==
  /\ LifecycleInit
  /\ simActive = FALSE
  /\ log = <<[type |-> "simulation.created", tick |-> 0]>>
  /\ ids = [evt |-> 1, row |-> 0] /\ issued = <<>>
  /\ task = NoTask
  /\ exports = [e \in ExportIds |-> NoJob]
  /\ snaps = {}
  /\ svc = "up"
  /\ op = NoOp /\ loop = NoLoop
  /\ runTimer = FALSE /\ taskTimer = FALSE /\ exportTimers = {}
  /\ lost = {}

Requests ==
  \/ \E c \in {"start", "pause", "resume", "stop"} : controlSimulation(c)
  \/ setLlmControl
  \/ injectWorldEvent
  \/ \E n \in 1..EndTick : advanceSync(n) \/ enqueueAdvanceTask(n)
  \/ \E e \in ExportIds : createExport(e)

(* What the event loop does on its own: timers that are due, and the rest of
   the handler that holds the lock. *)
Work ==
  \/ superviseRun \/ runAdvanceTaskStep
  \/ \E e \in ExportIds : runExport(e) \/ settleExport(e, TRUE)
  \/ ensurePeriodicSnapshot \/ applySnapshotPlan
  \/ \E b \in BOOLEAN : beginPreparation(b) \/ recordUsage(b)
  \/ restoreLoop \/ commitTick
  \/ finishSupervise \/ finishAdvance \/ finishTaskStep \/ markTaskCompleted

Faults ==
  \/ \E journaled \in BOOLEAN : failRun(journaled) \/ failAdvanceTask(journaled)
  \/ failAdvance
  \/ \E e \in ExportIds : settleExport(e, FALSE)
  \/ loseExportFailure

Next == Requests \/ Work \/ Faults \/ close \/ crash \/ recover

Spec == Init /\ [][Next]_vars

(* The event loop runs due timers and settles what is awaited; nothing
   obliges a client to send a request or an operator to restart. *)
FairSpec == Spec /\ WF_vars(Work)

-----------------------------------------------------------------------------
(* Properties *)

OpKind == {"none", "supervise", "advance", "task", "export"}
OpPc == {"idle", "ensure", "backup", "loop", "await", "tick", "mark", "materialize"}

OpType == [kind : OpKind, pc : OpPc, remaining : 0..EndTick, pass : 0..EndTick,
           batch : BOOLEAN, at : 0..EndTick, seq : Nat, ids : IdState,
           job : SUBSET ExportIds]

TaskType == [status : {"none", "pending", "running", "completed", "failed"},
             start : 0..EndTick, target : 0..EndTick]

JobType == [status : {"none", "queued", "running", "completed", "failed"},
            tick : 0..EndTick, seq : Nat, content : Nat]

DurableTypes ==
  /\ status \in RunStatus
  /\ tick \in 0..EndTick
  /\ simActive \in BOOLEAN
  /\ log \in Seq(Event)
  /\ ids \in IdState
  /\ issued \in Seq(Nat)
  /\ task \in TaskType
  /\ exports \in [ExportIds -> JobType]
  /\ snaps \subseteq [tick : 0..EndTick, seq : Nat]

VolatileTypes ==
  /\ svc \in {"up", "closed", "down"}
  /\ loop \in [tick : -1..EndTick, seq : Int, ids : IdState]
  /\ runTimer \in BOOLEAN /\ taskTimer \in BOOLEAN
  /\ exportTimers \subseteq ExportIds
  /\ lost \subseteq {"run", "task", "export"}

(* The types of the state; the clock stays within the end tick whichever
   handlers, failures and restarts move it. *)
TypeOK == DurableTypes /\ VolatileTypes /\ op \in OpType

(* Requests, recovery and snapshots take their identifiers from the row, the
   ticks of a pass from the factory the cached SimLoop was given: the saved
   counter of events is nevertheless the next sequence number (else the run
   is unreadable, simulation.ts), and no row is given an identifier that an
   earlier one has. *)
IdCheckpoint ==
  /\ ids.evt = Len(log)
  /\ \A i \in DOMAIN issued :
       /\ issued[i] <= ids.row
       /\ \A j \in DOMAIN issued : issued[j] = issued[i] => j = i

(* The status a lifecycle fact of the journal announces. *)
factStatus(type) ==
  CASE type \in {"simulation.started", "simulation.resumed"} -> "running"
    [] type \in {"simulation.paused", "system.error.raised"} -> "paused"
    [] type = "simulation.stopped"   -> "stopped"
    [] type = "simulation.completed" -> "completed"
    [] OTHER -> "none"

isFact(i) == factStatus(log[i].type) # "none"

(* The audit trail explains the status: it is the one the last lifecycle
   fact announces, and "created" exactly when there is none, whichever of
   the API, the supervisor, the budget or recovery changed it. *)
StatusFollowsJournal ==
  /\ status = "created" <=> \A i \in 1..Len(log) : ~isFact(i)
  /\ \A i \in 1..Len(log) :
       isFact(i) /\ (\A j \in (i + 1)..Len(log) : ~isFact(j))
         => status = factStatus(log[i].type)

completesTick(i, t) == log[i] = [type |-> "simulation.tick.completed", tick |-> t]

(* The journal's clock never runs backwards and holds each tick exactly
   once, up to the current one, and each snapshot row is announced
   where it was taken, at most one per tick: no tick or snapshot is lost or
   repeated by a failed pass, a crash or a restart. *)
JournaledOnce ==
  /\ \A i, j \in 1..Len(log) : i <= j => log[i].tick <= log[j].tick
  /\ \A t \in 1..tick : \E i \in 1..Len(log) : completesTick(i, t)
  /\ \A i \in 1..Len(log) :
       log[i].type = "simulation.tick.completed" =>
         /\ log[i].tick \in 1..tick
         /\ \A j \in 1..Len(log) : completesTick(j, log[i].tick) => j = i
  /\ \A s \in snaps :
       /\ s.seq + 2 <= Len(log)
       /\ log[s.seq + 1] = [type |-> "simulation.statehash.computed", tick |-> s.tick]
       /\ log[s.seq + 2] = [type |-> "simulation.snapshot.created", tick |-> s.tick]
  /\ \A s, u \in snaps : s.tick = u.tick => s = u

(* What a handler read before an await is still true when it uses it: the
   cached SimLoop continues the journal where it ends, the tick prepared for
   is the next one, the snapshot plan describes the present state.  Hence
   none of the CONFLICT checks on these can fire. *)
CheckpointFresh ==
  /\ loop # NoLoop /\ op.pc \in {"loop", "tick"} => loop = readRunCheckpoint
  /\ op.pc = "tick" => loop # NoLoop
  /\ op.pc = "await" => op.at = tick
  /\ op.pc = "backup" => LogicalState = <<op.at, op.seq>> /\ ids = op.ids

(* While the process serves, a running run has a timer or a handler that
   will go on with it, unless recording its failure failed (failRun leaves
   it to a restart then). *)
RunningIsDriven ==
  svc = "up" /\ status = "running" =>
    runTimer \/ op.kind = "supervise" \/ "run" \in lost

(* An advance task owns its run: while it is active the run is paused (or
   has just completed at the task's target) and stays within the task's
   range, and nothing but the task ticks; a completed task left the run at
   its target or beyond. *)
TaskOwnsRun ==
  /\ taskActive =>
       /\ task.start <= tick /\ tick <= task.target
       /\ status = "paused" \/ (status = "completed" /\ tick = task.target)
       /\ op.kind \in {"none", "task", "export"}
       /\ ~runTimer
  /\ task.status = "completed" => tick >= task.target

(* A completed export holds exactly the state its manifest pins, although
   the run may have moved on and been paused again in between, and that
   state is of a run at rest: the last lifecycle fact in it does not say
   "running". *)
ExportFaithful ==
  \A e \in ExportIds :
    exports[e].status = "completed" =>
      /\ exports[e].content = exports[e].seq
      /\ \A i \in 1..exports[e].content :
           factStatus(log[i].type) = "running"
             => \E j \in (i + 1)..exports[e].content : isFact(j)

(* No due tick is left behind without its snapshot: executeTicks repairs a
   snapshot that failed or was cut off by a crash before it ticks again. *)
NoSnapshotGap == \A t \in 1..(tick - 1) : snapshotDue(t) => hasSnapshot(t)

(* The journal only grows, whatever happens to the process. *)
JournalAppendOnly ==
  [][Len(log) <= Len(log') /\ \A i \in 1..Len(log) : log'[i] = log[i]]_vars

(* What a handler reads stays true until it uses it, a running run keeps its
   driver, and every variable keeps its type. *)
RunSound == TypeOK /\ CheckpointFresh /\ RunningIsDriven

(* The rows of one run agree: the journal with the clock and the snapshots,
   the advance task with the run it owns, each due tick with its snapshot. *)
RowsAgree == JournaledOnce /\ TaskOwnsRun /\ NoSnapshotGap

(* The constraints and triggers of database.ts on these tables, as what a
   step may do to the rows. *)
events_no_update ==
  Len(log) <= Len(log') /\ \A i \in 1..Len(log) : log'[i] = log[i]

snapshots_no_update ==
  /\ snaps \subseteq snaps'
  /\ \A s, u \in snaps' : s.tick = u.tick => s = u

(* An insertion into api_tasks; `task` is the latest row. *)
api_tasks_inserted == task' # task /\ task'.status = "pending"

api_tasks_one_active_per_run == ~taskActive

api_tasks_valid_run_checkpoint ==
  task'.start = tick /\ task'.target > task'.start /\ task'.target <= EndTick

api_tasks_identity_immutable ==
  task'.start = task.start /\ task'.target = task.target

api_tasks_status_transition ==
  \/ task.status = "pending" /\ task'.status \in {"running", "failed"}
  \/ task.status = "running" /\ task'.status \in {"completed", "failed"}

api_tasks_complete_at_target == task'.status = "completed" => tick' = task.target

api_tasks_accept ==
  IF api_tasks_inserted
  THEN api_tasks_one_active_per_run /\ api_tasks_valid_run_checkpoint
  ELSE /\ api_tasks_identity_immutable
       /\ task'.status # task.status
            => api_tasks_status_transition /\ api_tasks_complete_at_target

export_jobs_run_identity(e) ==
  exports'[e].status = "queued" /\ exports'[e].tick = tick

export_jobs_identity_immutable(e) ==
  exports'[e].tick = exports[e].tick /\ exports'[e].seq = exports[e].seq

export_jobs_status_transition(e) ==
  \/ exports[e].status = "queued" /\ exports'[e].status \in {"running", "failed"}
  \/ exports[e].status = "running" /\ exports'[e].status \in {"completed", "failed"}

(* The files are inserted with the completion, while the job still runs. *)
export_files_parent_running(e) ==
  exports'[e].content # exports[e].content => exports[e].status = "running"

export_jobs_accept(e) ==
  IF exports[e].status = "none"
  THEN export_jobs_run_identity(e)
  ELSE /\ export_jobs_identity_immutable(e)
       /\ exports'[e].status # exports[e].status => export_jobs_status_transition(e)
       /\ export_files_parent_running(e)

(* No handler, in whatever order timers, crashes and restarts run them, makes
   a write that the schema aborts: a run is only advanced by one task at a
   time, from the checkpoint the task names to exactly its target, and jobs
   and tasks never leave a settled state. *)
TablesAccept ==
  [][/\ events_no_update
     /\ snapshots_no_update
     /\ task' # task => api_tasks_accept
     /\ \A e \in ExportIds : exports'[e] # exports[e] => export_jobs_accept(e)]_vars

(* A running run does not stay running for ever: it completes, or is paused,
   stopped or cut off. *)
RunSettles ==
  (svc = "up" /\ status = "running")
    ~> (status # "running" \/ svc # "up" \/ "run" \in lost)

(* An advance task is eventually settled, also one recovered after a crash. *)
TaskSettles ==
  (svc = "up" /\ taskActive) ~> (~taskActive \/ svc # "up" \/ "task" \in lost)

(* An export job is eventually settled, however long the run keeps the lock. *)
ExportsSettle ==
  \A e \in ExportIds :
    (svc = "up" /\ exports[e].status \in {"queued", "running"})
      ~> (exports[e].status \in {"completed", "failed"} \/ svc # "up" \/ "export" \in lost)

(* Whatever waits for a timer is settled, also after a restart. *)
TimersSettle == TaskSettles /\ ExportsSettle

=============================================================================
