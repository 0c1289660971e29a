---------------------------- MODULE RunLifecycle ----------------------------
(***************************************************************************)
(* What the run lifecycle promises its clients, with everything that       *)
(* carries it out (timers, locks, tasks, crashes, snapshots) left out: the *)
(* transition table of packages/engine/src/run-lifecycle.ts and the clock. *)
(* The clock moves one tick at a time, only while the run is running or    *)
(* paused, and a run completes only at its end tick.                       *)
(***************************************************************************)
EXTENDS Naturals

CONSTANT EndTick      \* run.endTick

ASSUME EndTickAssumption == EndTick \in Nat \ {0}

VARIABLES status, tick

lifecycleVars == <<status, tick>>

RunStatus == {"created", "running", "paused", "completed", "failed", "stopped"}

RunCommand == {"start", "pause", "resume", "stop", "complete", "fail"}

(* transitionRunStatus: the statuses a command leads to, none when the
   table has no entry (the CONFLICT of the code). *)
transitionRunStatus(s, c) ==
  CASE s = "created" /\ c = "start"                 -> {"running"}
    [] s = "running" /\ c = "pause"                 -> {"paused"}
    [] s = "paused" /\ c = "resume"                 -> {"running"}
    [] s \in {"running", "paused"} /\ c = "stop"     -> {"stopped"}
    [] s \in {"running", "paused"} /\ c = "complete" -> {"completed"}
    [] s = "running" /\ c = "fail"                  -> {"failed"}
    [] OTHER                                        -> {}

assertCanAdvance(s) == s = "paused"

isTerminalRunStatus(s) == s \in {"completed", "failed", "stopped"}

-----------------------------------------------------------------------------

LifecycleInit ==
  /\ status = "created"
  /\ tick = 0

(* A command of the table; completion waits for the end tick. *)
Obey(c) ==
  /\ status' \in transitionRunStatus(status, c)
  /\ c = "complete" => tick = EndTick
  /\ UNCHANGED tick

(* SqliteTickCommitter accepts a tick while the run is running or paused. *)
CommitTick ==
  /\ status \in {"running", "paused"}
  /\ tick < EndTick
  /\ tick' = tick + 1
  /\ UNCHANGED status

LifecycleNext ==
  \/ \E c \in RunCommand : Obey(c)
  \/ CommitTick

LifecycleSpec == LifecycleInit /\ [][LifecycleNext]_lifecycleVars

=============================================================================
