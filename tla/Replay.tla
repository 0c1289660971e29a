------------------------------- MODULE Replay -------------------------------
(***************************************************************************)
(* Replay of a finished run (replaySimulation, executeReplay and what they *)
(* call in apps/server/src/simulation-service.ts, replay-store.ts,         *)
(* replay-llm-provider.ts and replay-executor.ts).                         *)
(*                                                                         *)
(* A source run is written first: commands, ticks with their provider      *)
(* calls and snapshots, failures and crashes.  Once it is terminal, a      *)
(* replay re-executes it into a target run: it applies the journaled       *)
(* commands at their tick, executes the ticks between them from the        *)
(* recorded provider answers, and compares every event it makes with the   *)
(* source's event of the same sequence number.  Each worker action is one  *)
(* transaction; a crash may fall between any two of them, and recovery     *)
(* starts the worker over from the rows.                                   *)
(*                                                                         *)
(* Events keep the operational identity out (replayEventProjection): what  *)
(* is left of an event is its type, its tick, its payload v and, as its    *)
(* position in the log, its sequence number and IDs.  A tick's events are  *)
(* one entry "tick" whose payload tells how its provider call was          *)
(* answered; a snapshot's two events are one entry that carries the state  *)
(* hash.  An engine that does not reproduce a tick is a nondeterministic   *)
(* outcome of that tick.                                                   *)
(***************************************************************************)
EXTENDS Integers, Sequences, FiniteSets, FiniteSetsExt, SequencesExt

CONSTANTS
  EndTick,            \* run.endTick, the same in both manifests
  SnapshotInterval,   \* snapshotIntervalTicks
  CallTicks,          \* the ticks that make a provider call
  Outcomes,           \* how a replayed tick may come out, a subset of Outcome
  MaxCommands,        \* bound: requests to the source after its creation
  MaxFaults           \* bound: crashes and foreign commands during the replay

(* A replayed tick comes out as recorded, differs in state only, or in the
   events it makes and their number. *)
Outcome == {"same", "hidden", "visible"}

ASSUME ReplayAssumption ==
  /\ EndTick \in Nat \ {0}
  /\ SnapshotInterval \in Nat \ {0}
  /\ CallTicks \subseteq 1..EndTick
  /\ Outcomes \subseteq Outcome /\ "same" \in Outcomes
  /\ MaxCommands \in Nat /\ MaxFaults \in Nat

VARIABLES
  src,       \* the source run's database
  tgt,       \* the target run's database
  rep,       \* the replay_runs row and its divergences
  job,       \* the worker that holds the target's lock, in memory
  faults,    \* crashes and foreign commands so far
  harmed     \* history: an interruption fell between two effects of a tick

vars == <<src, tgt, rep, job, faults, harmed>>

S == INSTANCE RunLifecycle WITH status <- src.status, tick <- src.tick
T == INSTANCE RunLifecycle WITH status <- tgt.status, tick <- tgt.tick

-----------------------------------------------------------------------------
(* Journals *)

Lifecycle == {"start", "pause", "resume", "stop"}
Command   == {"create", "advance", "inject", "llm", "foreign"} \cup Lifecycle
Answer    == {"none", "charged", "cached", "miss"}

Event ==
  [type : {"command", "fact"}, v : Command, tick : 0..EndTick]
    \cup [type : {"tick"}, v : Answer, tick : 1..EndTick]
    \cup [type : {"snapshot"}, v : {"same", "drift"}, tick : 1..EndTick]
    \cup [type : {"usage", "error", "work", "completed"}, v : {"none"}, tick : 0..EndTick]

event(type, v, t) == [type |-> type, v |-> v, tick |-> t]

(* admin.command.received and the fact it causes, in one transaction; an
   advance journals the command only. *)
commandEvents(c, t) ==
  IF c = "advance" THEN <<event("command", c, t)>>
  ELSE <<event("command", c, t), event("fact", c, t)>>

Genesis == commandEvents("create", 0)

(* What replayJournalDigest digests: the commands with their places. *)
commands(log) == {<<i, log[i]>> : i \in {j \in 1..Len(log) : log[j].type = "command"}}

(* computeLogicalStateHash: the tick, the ID checkpoint and the domain
   tables, which the recorded inputs, calls and ticks determine unless the
   engine drifted.  Lifecycle status is left out. *)
logicalStateHash(t, log, drift) ==
  <<t, Len(log), drift,
    SelectSeq(log, LAMBDA e : e.type \in {"tick", "usage", "work"}
                                \/ e.v \in {"inject", "llm"})>>

NoHash == <<>>

hashOf(run) == logicalStateHash(run.tick, run.log, run.drift)

snapshotDue(t) == t > 0 /\ t % SnapshotInterval = 0

hasSnapshot(log, t) == \E i \in 1..Len(log) : log[i].type = "snapshot" /\ log[i].tick = t

snapshotMissing(run) == snapshotDue(run.tick) /\ ~hasSnapshot(run.log, run.tick)

snapshotEvent(run) == event("snapshot", IF run.drift THEN "drift" ELSE "same", run.tick)

-----------------------------------------------------------------------------
(* The source run, as its supervisor writes it (module RunSupervisor).  Its
   lock is held from a tick's first provider call to its snapshot. *)

NoRun == [status |-> "created", tick |-> 0, log |-> Genesis, drift |-> FALSE]

NoSource ==
  [status |-> "created", tick |-> 0, log |-> Genesis, drift |-> FALSE,
   lock |-> FALSE, owed |-> FALSE, call |-> "none", cached |-> FALSE,
   sent |-> 0, clean |-> TRUE]

sourceTerminal == S!isTerminalRunStatus(src.status)

replayUntouched == UNCHANGED <<tgt, rep, job, faults, harmed>>

(* Requests are served while the worker awaits, or does not run. *)
Yielding == job.pc \in {"idle", "lost", "prepare", "seal"} \cup Answer

(* controlSimulation, advanceSimulation, injectWorldEvent, setLlmControl.
   Only the last asks for no status: it reaches a terminal run too. *)
request(c) ==
  /\ Yielding
  /\ ~src.lock /\ src.sent < MaxCommands
  /\ CASE c \in Lifecycle -> src' \in {[src EXCEPT !.status = s, !.log = @ \o commandEvents(c, src.tick),
                                                   !.sent = @ + 1] :
                                         s \in S!transitionRunStatus(src.status, c)}
       [] c = "advance"   -> /\ S!assertCanAdvance(src.status) /\ src.tick < EndTick
                             /\ src' = [src EXCEPT !.log = @ \o commandEvents(c, src.tick),
                                                   !.sent = @ + 1, !.lock = TRUE, !.owed = TRUE]
       [] c = "inject"    -> /\ src.status \in {"created", "paused"} /\ src.tick < EndTick
                             /\ src' = [src EXCEPT !.log = @ \o commandEvents(c, src.tick),
                                                   !.sent = @ + 1]
       [] c = "llm"       -> src' = [src EXCEPT !.log = @ \o commandEvents(c, src.tick),
                                                !.sent = @ + 1]
  /\ replayUntouched

sourceTicks ==
  /\ src.tick < EndTick
  /\ src.status = "running" \/ (src.status = "paused" /\ src.owed)

(* The provider call of the next tick's preparation: answered upstream and
   stored in the response cache, or found there. *)
sourceCall ==
  /\ sourceTicks /\ ~snapshotMissing(src)
  /\ src.tick + 1 \in CallTicks /\ src.call = "none"
  /\ src' = [src EXCEPT !.lock = TRUE, !.cached = TRUE,
                        !.call = IF src.cached THEN "cached" ELSE "answered"]
  /\ replayUntouched

(* BudgetedLlmProvider charges an answer that did not come from the cache:
   llm.usage.recorded, in a transaction before the tick's. *)
sourceCharge ==
  /\ src.call = "answered"
  /\ src' = [src EXCEPT !.call = "charged",
                        !.log = Append(@, event("usage", "none", src.tick))]
  /\ replayUntouched

sourceCommit ==
  /\ sourceTicks /\ ~snapshotMissing(src)
  /\ src.tick + 1 \in CallTicks => src.call \in {"charged", "cached"}
  /\ src' = [src EXCEPT !.tick = @ + 1, !.call = "none", !.cached = FALSE, !.owed = FALSE,
                        !.log = Append(@, event("tick", src.call, src.tick + 1)),
                        !.lock = snapshotDue(src.tick + 1)]
  /\ replayUntouched

(* ensurePeriodicSnapshot, after the tick or before the next one *)
sourceSnapshot ==
  /\ snapshotMissing(src) /\ (src.lock \/ sourceTicks)
  /\ src' = [src EXCEPT !.log = Append(@, snapshotEvent(src)), !.lock = FALSE]
  /\ replayUntouched

(* completeRun at the end tick, or its repair at startup *)
sourceComplete ==
  /\ ~src.lock /\ src.tick = EndTick
  /\ src.status \in {"running", "paused"}
  /\ src' = [src EXCEPT !.status = "completed",
                        !.log = Append(@, event("completed", "none", src.tick))]
  /\ replayUntouched

(* A crash during a tick: what the preparation and the commit left behind
   stays, the rest is done again or not at all. *)
sourceCrash ==
  /\ src.lock
  /\ src' = [src EXCEPT !.lock = FALSE, !.owed = FALSE, !.call = "none",
                        !.clean = @ /\ src.call # "charged" /\ ~snapshotMissing(src)]
  /\ replayUntouched

(* failRun: the error is journaled and the run paused. *)
sourceFail ==
  /\ sourceTicks /\ src.status = "running" /\ src.sent < MaxCommands
  /\ src' = [src EXCEPT !.status = "paused", !.lock = FALSE, !.owed = FALSE, !.call = "none",
                        !.sent = @ + 1, !.clean = FALSE,
                        !.log = Append(@, event("error", "none", src.tick))]
  /\ replayUntouched

SourceNext ==
  \/ \E c \in Command \ {"create", "foreign"} : request(c)
  \/ sourceCall \/ sourceCharge \/ sourceCommit \/ sourceSnapshot
  \/ sourceComplete \/ sourceCrash \/ sourceFail

-----------------------------------------------------------------------------
(* Creating the replay *)

(* The kinds of divergence; the last one is never found (see below). *)
replay_divergences ==
  {"cache_incomplete", "event_mismatch", "state_hash_mismatch", "unsupported_journal_command"}

NoReplay ==
  [status |-> "none", mode |-> "strict", toTick |-> 0, tick |-> 0, compared |-> 0,
   divs |-> {}, stateHash |-> NoHash, journal |-> {}, cacheOk |-> TRUE]

Idle == [pc |-> "idle", from |-> 0, source |-> <<>>, final |-> FALSE, compare |-> FALSE]

(* The places of calls whose recorded answer is a success; their responses
   must be in the source's cache. *)
successfulCalls(log) == {i \in 1..Len(log) : log[i].type = "tick" /\ log[i].v # "none"}

(* replaySimulation: the target is created from the manifest and the first
   comparisons are made in the transaction that records the replay.  The
   cache may have lost entries (cacheOk); genesis may not come out as it
   did. *)
replaySimulation(mode, toTick, cacheOk, sameGenesis) ==
  /\ rep.status = "none"
  /\ sourceTerminal /\ ~src.lock
  /\ toTick <= src.tick
  /\ cacheOk \/ successfulCalls(src.log) # {}
  /\ tgt' = [NoRun EXCEPT !.log = IF sameGenesis THEN Genesis
                                  ELSE <<Genesis[1], event("work", "none", 0)>>,
                          !.drift = ~sameGenesis]
  /\ rep' = [NoReplay EXCEPT
               !.status = "running", !.mode = mode, !.toTick = toTick,
               !.compared = Len(Genesis), !.journal = commands(src.log), !.cacheOk = cacheOk,
               !.divs = (IF sameGenesis THEN {} ELSE {"event_mismatch"})
                          \cup (IF cacheOk THEN {} ELSE {"cache_incomplete"})]
  /\ UNCHANGED <<src, job, faults, harmed>>

-----------------------------------------------------------------------------
(* The worker (runReplay, executeReplay).  job.pc names the next
   transaction. *)

at(pc) == rep.status = "running" /\ job.pc = pc

goto(pc) == job' = [job EXCEPT !.pc = pc]

replayQuiet == UNCHANGED <<src, faults, harmed>>

(* The worker stands between a charge and its tick, or between a tick and
   its snapshot: a worker that starts over charges again, or reaches the
   commands of the boundary before the snapshot. *)
betweenEffects == job.pc = "charged" \/ (job.pc = "seal" /\ snapshotMissing(tgt))

(* runReplay's catch: the replay fails, or its failure could not be written
   either and the row stays running with no timer; the lock is released. *)
fail ==
  /\ \/ /\ rep' = [rep EXCEPT !.status = "failed", !.tick = tgt.tick,
                               !.compared = Max({@, Len(tgt.log)})]
        /\ job' = Idle
     \/ /\ UNCHANGED rep
        /\ job' = [Idle EXCEPT !.pc = "lost"]
  /\ harmed' = (harmed \/ betweenEffects)
  /\ UNCHANGED <<src, tgt, faults>>

(* Mutant: a changed source journal is tried again and again. *)
beginReplayRetrying ==
  /\ at("idle")
  /\ IF rep.journal # commands(src.log)
     THEN UNCHANGED <<tgt, rep, job>> /\ replayQuiet
     ELSE /\ job' = [Idle EXCEPT !.source = src.log, !.from = rep.compared,
                                !.pc = IF rep.compared < Len(tgt.log) THEN "compare" ELSE "boundary"]
          /\ UNCHANGED <<tgt, rep>> /\ replayQuiet

(* executeReplay reads the source's journal once and checks its digest; what
   the target has beyond the last comparison, after a restart, is compared
   first. *)
beginReplay ==
  /\ at("idle")
  /\ IF rep.journal # commands(src.log)
     THEN fail
     ELSE /\ job' = [Idle EXCEPT !.source = src.log, !.from = rep.compared,
                                !.pc = IF rep.compared < Len(tgt.log) THEN "compare" ELSE "boundary"]
          /\ UNCHANGED <<tgt, rep>> /\ replayQuiet

(* firstReplayEventMismatch over the sequence numbers after job.from *)
reproduced ==
  \A i \in job.from + 1 .. Len(tgt.log) :
     i <= Len(job.source) /\ job.source[i] = tgt.log[i]

compareReplayRange ==
  /\ at("compare")
  /\ rep' = [rep EXCEPT !.divs = IF reproduced THEN @ ELSE @ \cup {"event_mismatch"}]
  /\ goto("progress")
  /\ UNCHANGED tgt /\ replayQuiet

(* Progress may not go back. *)
updateProgress ==
  /\ at("progress")
  /\ IF rep.tick <= tgt.tick /\ rep.compared <= Len(tgt.log)
     THEN /\ rep' = [rep EXCEPT !.tick = tgt.tick, !.compared = Len(tgt.log)]
          /\ goto("boundary")
          /\ UNCHANGED tgt /\ replayQuiet
     ELSE fail

(* Mutant: strict mode minds the state hash only. *)
strictlyDivergedState == rep.mode = "strict" /\ "state_hash_mismatch" \in rep.divs

strictlyDiverged == rep.mode = "strict" /\ rep.divs # {}

(* The event the source has where the target's journal ends, if it belongs
   to the tick the target stands at. *)
expected ==
  {e \in {job.source[i] : i \in (1..Len(job.source)) \cap {Len(tgt.log) + 1}} :
     e.tick = tgt.tick}

expectsCommand == \E e \in expected : e.type = "command"

expectsCompletion == \E e \in expected : e.type = "completed"

(* Mutant: the boundary of the last tick is never applied. *)
boundaryAppliesBefore == tgt.tick < rep.toTick

(* The boundary of the last tick is applied only for a whole replay. *)
boundaryApplies == tgt.tick < rep.toTick \/ rep.toTick = src.tick

finalBoundary == tgt.tick >= rep.toTick

haltStrict ==
  /\ at("boundary") /\ strictlyDiverged
  /\ job' = [job EXCEPT !.pc = "finish", !.compare = job.final]
  /\ UNCHANGED <<tgt, rep>> /\ replayQuiet

applied(run) ==
  /\ tgt' = run
  /\ job' = [job EXCEPT !.pc = "compare", !.from = Len(tgt.log), !.final = finalBoundary]
  /\ UNCHANGED rep /\ replayQuiet

(* applyReplayCommand; a command the target's status refuses is an error.
   Every command a source journals is one it supports, so the branch that
   records an unsupported one is not taken. *)
applyReplayCommand ==
  /\ at("boundary") /\ ~strictlyDiverged
  /\ boundaryApplies /\ expectsCommand
  /\ \E e \in expected :
       LET logged == [tgt EXCEPT !.log = @ \o commandEvents(e.v, tgt.tick)]
           to == T!transitionRunStatus(tgt.status, e.v)
       IN  CASE e.v \in Lifecycle /\ to # {} ->
                  \E s \in to : applied([logged EXCEPT !.status = s])
             [] e.v \in {"inject", "llm"} \/ (e.v = "advance" /\ T!assertCanAdvance(tgt.status)) ->
                  applied(logged)
             [] OTHER -> fail

(* completeRun, for the source's terminal fact *)
applyCompletion ==
  /\ at("boundary") /\ ~strictlyDiverged
  /\ boundaryApplies /\ finalBoundary /\ expectsCompletion
  /\ IF tgt.tick = EndTick /\ tgt.status \in {"running", "paused"}
     THEN applied([tgt EXCEPT !.status = "completed",
                              !.log = Append(@, event("completed", "none", tgt.tick))])
     ELSE fail

(* executeTicks begins with ensurePeriodicSnapshot. *)
snapshot(run) ==
  IF snapshotMissing(run) THEN [run EXCEPT !.log = Append(@, snapshotEvent(run))] ELSE run

(* Nothing (more) to apply: finish, or begin to execute a tick. *)
leaveBoundary ==
  /\ at("boundary") /\ ~strictlyDiverged
  /\ ~(boundaryApplies /\ (expectsCommand \/ (finalBoundary /\ expectsCompletion)))
  /\ IF finalBoundary
     THEN job' = [job EXCEPT !.pc = "finish", !.compare = TRUE] /\ UNCHANGED tgt
     ELSE job' = [job EXCEPT !.pc = "prepare", !.from = Len(tgt.log)] /\ tgt' = snapshot(tgt)
  /\ UNCHANGED rep /\ replayQuiet

(* The answers recorded with an ordinal *)
replay_llm_expectations(ordinal) ==
  LET calls == successfulCalls(job.source)
  IN  {job.source[i].v : i \in {j \in calls : Cardinality(calls \cap 1..j) = ordinal}}

(* The recorded call with the ordinal of the target's next call *)
expectation == replay_llm_expectations(Cardinality(successfulCalls(tgt.log)) + 1)

(* ReplayEvidenceLlmProvider: the recorded answer, or a cache miss when the
   cache lost it or, once the engine drifted, the request differs. *)
answers ==
  IF tgt.tick + 1 \notin CallTicks THEN {"none"}
  ELSE (IF rep.cacheOk THEN expectation ELSE {})
         \cup (IF tgt.drift \/ ~rep.cacheOk \/ expectation = {} THEN {"miss"} ELSE {})

(* The preparation charges an answer recorded as charged. *)
prepare(answer) ==
  /\ at("prepare") /\ answer \in answers
  /\ tgt' = IF answer = "charged"
            THEN [tgt EXCEPT !.log = Append(@, event("usage", "none", tgt.tick))] ELSE tgt
  /\ job' = [job EXCEPT !.pc = answer]
  /\ UNCHANGED rep /\ replayQuiet

outcomeEvents(outcome, answer) ==
  (IF outcome = "visible" THEN <<event("work", "none", tgt.tick)>> ELSE <<>>)
    \o <<event("tick", answer, tgt.tick + 1)>>

(* The tick commits if the target is running or paused. *)
executeTick(outcome) ==
  /\ rep.status = "running" /\ job.pc \in Answer
  /\ IF tgt.status \in {"running", "paused"} /\ tgt.tick < EndTick
     THEN /\ tgt' = [tgt EXCEPT !.tick = @ + 1, !.drift = @ \/ outcome # "same",
                                !.log = @ \o outcomeEvents(outcome, job.pc)]
          /\ goto("seal")
          /\ UNCHANGED rep /\ replayQuiet
     ELSE fail

sealTick ==
  /\ at("seal")
  /\ tgt' = snapshot(tgt)
  /\ goto("compare")
  /\ UNCHANGED rep /\ replayQuiet

(* A tick or a snapshot may throw whatever the engine does. *)
executionFails ==
  /\ rep.status = "running" /\ job.pc \in {"prepare", "seal"} \cup Answer
  /\ fail

(* finishReplay's source hash: the live state at the source's tick, or the
   snapshot of an earlier tick if there is one. *)
snapshotHash(t) ==
  IF hasSnapshot(src.log, t)
  THEN LET i == CHOOSE i \in 1..Len(src.log) :
                  src.log[i].type = "snapshot" /\ src.log[i].tick = t
       IN  logicalStateHash(t, SubSeq(src.log, 1, i), src.log[i].v = "drift")
  ELSE NoHash

(* Mutant: compares with recorded snapshots only. *)
sourceHashRecorded == IF job.compare THEN snapshotHash(tgt.tick) ELSE NoHash

sourceHash ==
  CASE ~job.compare          -> NoHash
    [] tgt.tick = src.tick   -> hashOf(src)
    [] OTHER                 -> snapshotHash(tgt.tick)

compareState ==
  /\ at("finish")
  /\ rep' = [rep EXCEPT !.divs = IF sourceHash \in {NoHash, hashOf(tgt)} THEN @
                                 ELSE @ \cup {"state_hash_mismatch"}]
  /\ goto("conclude")
  /\ UNCHANGED tgt /\ replayQuiet

finish ==
  /\ at("conclude")
  /\ rep' = [rep EXCEPT !.status = IF rep.divs = {} THEN "completed" ELSE "diverged",
                        !.tick = tgt.tick, !.compared = Len(tgt.log), !.stateHash = sourceHash]
  /\ job' = Idle
  /\ UNCHANGED tgt /\ replayQuiet

-----------------------------------------------------------------------------
(* A lifecycle command of a client reaches the target while the worker does
   not hold its lock: nothing asks whether the run is being replayed.  (Once
   the replay is over the target is a run like any other.) *)
controlTarget ==
  /\ rep.status = "running" /\ job.pc \in {"idle", "lost"}
  /\ faults < MaxFaults /\ faults' = faults + 1
  /\ \E c \in Lifecycle : \E s \in T!transitionRunStatus(tgt.status, c) :
       tgt' = [tgt EXCEPT !.status = s, !.log = @ \o commandEvents("foreign", tgt.tick)]
  /\ UNCHANGED <<src, rep, job, harmed>>

(* A crash, and recoverRunningRuns, which schedules a running replay again. *)
crash ==
  /\ rep.status = "running" /\ faults < MaxFaults
  /\ faults' = faults + 1
  /\ harmed' = (harmed \/ betweenEffects)
  /\ job' = Idle
  /\ UNCHANGED <<src, tgt, rep>>

WorkerNext ==
  \/ beginReplay \/ compareReplayRange \/ updateProgress
  \/ haltStrict \/ applyReplayCommand \/ applyCompletion \/ leaveBoundary
  \/ \E a \in Answer : prepare(a)
  \/ \E o \in Outcomes : executeTick(o)
  \/ sealTick \/ executionFails
  \/ compareState \/ finish

Init ==
  /\ src = NoSource
  /\ tgt = NoRun
  /\ rep = NoReplay
  /\ job = Idle
  /\ faults = 0
  /\ harmed = FALSE

Next ==
  \/ SourceNext
  \/ \E mode \in {"strict", "observe"}, toTick \in 0..EndTick, cacheOk \in BOOLEAN :
       \E sameGenesis \in BOOLEAN : replaySimulation(mode, toTick, cacheOk, sameGenesis)
  \/ WorkerNext
  \/ controlTarget
  \/ crash

Spec == Init /\ [][Next]_vars

(* The replay timer fires and the event loop carries the worker on. *)
FairSpec == Spec /\ WF_vars(WorkerNext)

-----------------------------------------------------------------------------
(* Properties *)

RunRow ==
  [status : S!RunStatus, tick : 0..EndTick, log : Seq(Event), drift : BOOLEAN]

(* What the tables of a replay accept: its row, with a hash only once it is
   over and progress within its range, and the divergences they know. *)
replay_runs ==
  {r \in [status : {"running", "completed", "diverged", "failed"},
          mode : {"strict", "observe"}, toTick : 0..EndTick, tick : 0..EndTick,
          compared : Nat, divs : SUBSET replay_divergences, stateHash : {rep.stateHash},
          journal : {rep.journal}, cacheOk : BOOLEAN] :
     /\ r.tick <= r.toTick
     /\ r.stateHash # NoHash => r.status \in {"completed", "diverged"}}

replay_runs_identity_immutable ==
  UNCHANGED <<rep.mode, rep.toTick, rep.journal, rep.cacheOk>>

replay_runs_status_transition ==
  rep.status # "running" => UNCHANGED <<rep.status, rep.tick, rep.compared, rep.stateHash>>

replay_divergences_no_update == rep.divs \subseteq rep.divs'

TypeOK ==
  /\ tgt \in RunRow
  /\ rep.status # "none" => rep \in replay_runs
  /\ rep.compared <= Len(tgt.log)
  /\ job.pc \in {"idle", "lost", "compare", "progress", "boundary", "prepare",
                 "seal", "finish", "conclude"} \cup Answer
  /\ faults \in 0..MaxFaults

(* Divergence is detected, never silent: a completed replay stands at its
   target tick, its journal is the source's up to there (to the terminal
   fact, if it is the whole run), and where the source has a state hash the
   states agree.  Without one the row says so. *)
CompletedMeansReproduced ==
  rep.status = "completed" =>
    /\ tgt.tick = rep.toTick
    /\ IsPrefix(tgt.log, src.log)
    /\ \A i \in 1..Len(src.log) :
         \/ src.log[i].tick < rep.toTick
         \/ rep.toTick = src.tick /\ (src.log[i].v = "stop" \/ src.log[i].type = "completed")
         => i <= Len(tgt.log)
    /\ tgt.drift => rep.stateHash = NoHash /\ rep.toTick < src.tick

(* No event escapes comparison, whatever the worker was doing when it was
   interrupted: if one below the progress mark differs from the source's,
   a divergence is on record. *)
ComparedEventsMatch ==
  rep.status \in {"running", "completed", "diverged"} /\ rep.divs = {} =>
    /\ rep.compared <= Len(src.log)
    /\ SubSeq(tgt.log, 1, rep.compared) = SubSeq(src.log, 1, rep.compared)

(* A strict replay executes no tick once a divergence is recorded, also
   when the worker was restarted in between. *)
StrictHalts == rep.mode = "strict" /\ rep.divs # {} => tgt.tick' = tgt.tick

(* Every write of the worker, of recovery and of a client is one the tables'
   triggers accept: what is replayed stays what was asked, a verdict is
   final and a divergence stays on record; and a strict replay halts. *)
StepsAccepted ==
  [][/\ StrictHalts
     /\ rep.status # "none" => /\ replay_runs_identity_immutable
                               /\ replay_runs_status_transition
                               /\ replay_divergences_no_update]_vars

(* A source that no failure touched is reproduced exactly by an engine that
   behaves, from a complete cache: whatever its commands, pauses, advances
   and snapshots were, and wherever (but between two effects of a tick) the
   replay was interrupted, it does not diverge. *)
Undisturbed ==
  /\ src.clean /\ rep.cacheOk /\ ~tgt.drift
  /\ rep.journal = commands(src.log)
  /\ ~\E i \in 1..Len(tgt.log) : tgt.log[i].v = "foreign"

ExactReplay ==
  Undisturbed /\ ~harmed => rep.divs = {}

(* What a replay has on record is true, whatever interrupted its worker: the
   progress mark, the verdict, and the absence of a divergence. *)
RecordIsTrue == TypeOK /\ ComparedEventsMatch /\ CompletedMeansReproduced

(* Every replay ends, unless the write of its failure was itself lost. *)
ReplayEnds ==
  rep.status = "running" ~> (rep.status # "running" \/ job.pc = "lost")

=============================================================================
