------------------------- MODULE DecisionQuarantine --------------------------
(***************************************************************************)
(* RuleDecisionEngine within the agent decision phase: the actions an      *)
(* agent may start in a tick, and the quarantine of an agent whose         *)
(* decisions keep failing.  A phase loads what the agents' rows say of     *)
(* their quarantine, takes the decisions of the woken agents one at a time *)
(* and writes the new quarantines back.  Between two phases an operator    *)
(* may quarantine or release an agent.                                     *)
(*                                                                         *)
(* One engine serves all ticks, as in the engine's own tests, or the phase *)
(* makes a new one for every tick, as the server does.  NewsRoom puts the  *)
(* phases into the ticks of a run.                                         *)
(***************************************************************************)
EXTENDS Integers, FiniteSets, FiniteSetsExt

CONSTANTS
  Agent,
  ActionCap,      \* actions of an agent per tick
  DecisionCap,    \* decisions of an agent per tick
  Threshold,      \* consecutive failures before quarantine
  Cooldown,       \* ticks a quarantine lasts
  MaxTick         \* bound

ASSUME QuarantineAssumption ==
  /\ ActionCap \in Nat \ {0} /\ DecisionCap \in Nat \ {0}
  /\ Threshold \in Nat \ {0} /\ Cooldown \in Nat \ {0} /\ MaxTick \in Nat

VARIABLES
  keepsEngine, \* one engine serves all ticks
  tick,
  deciding,    \* a decision phase is running
  failures,    \* the engine's memory: [count, until] by agent, until -1 for none
  row,         \* agents.quarantine_canonical: [count, until], until -1 for mode none
  imposed,     \* the phase's new quarantines
  decided,     \* decisions of the phase, by agent
  started,     \* actions of the tick, by agent, reservations included
  streak       \* history: failed decisions since the last success or quarantine

quarantineVars == <<keepsEngine, tick, deciding, failures, row, imposed, decided, started, streak>>

none == [count |-> 0, until |-> -1]

(* The quarantine that stands now: in the rows the next phase will load, and,
   while the engine lives, in its memory. *)
standing(a) == row[a].until >= tick \/ (keepsEngine /\ failures[a].until >= tick)

-----------------------------------------------------------------------------
larger(x, y) == [count |-> Max({x.count, y.count}), until |-> Max({x.until, y.until})]

(* runTick first takes over the quarantines of the agents it is given. *)
loaded(memory, a) == IF row[a].until = -1 THEN memory ELSE larger(memory, row[a])

(* The phase starts; taken are the actions of the tick, by agent, that other
   modules have written or reserved. *)
beginPhase(taken) ==
  /\ ~deciding /\ tick < MaxTick
  /\ deciding' = TRUE
  /\ tick' = tick + 1
  /\ failures' = [a \in Agent |-> loaded(IF keepsEngine THEN failures[a] ELSE none, a)]
  /\ started' = taken
  /\ decided' = [a \in Agent |-> 0] /\ imposed' = {}
  /\ streak' = [a \in Agent |-> IF standing(a) THEN 0 ELSE streak[a]]
  /\ UNCHANGED <<keepsEngine, row>>

expired(f) == IF f.until # -1 /\ tick > f.until THEN none ELSE f

(* recordAgentFailure *)
recordAgentFailure(a) ==
  LET f     == expired(failures[a])
      count == f.count + 1
      trips == f.until = -1 /\ count >= Threshold
      next  == [count |-> count, until |-> IF trips THEN tick + Cooldown ELSE f.until]
  IN  /\ failures' = [failures EXCEPT ![a] = next]
      /\ imposed' = IF trips THEN imposed \cup {[agent |-> a, quarantine |-> next]} ELSE imposed
      /\ streak' = [streak EXCEPT ![a] = IF f.until # -1 THEN 0 ELSE @ + 1]

(* Mutant: a success does not clear the count. *)
recordAgentSuccessForgotten(a) ==
  /\ streak' = [streak EXCEPT ![a] = 0]
  /\ UNCHANGED <<failures, imposed>>

recordAgentSuccess(a) ==
  /\ failures' = [failures EXCEPT ![a].count = 0]
  /\ streak' = [streak EXCEPT ![a] = 0]
  /\ UNCHANGED imposed

capReached(a) == started[a] >= ActionCap

decides(a) ==
  /\ deciding /\ decided[a] < DecisionCap
  /\ decided' = [decided EXCEPT ![a] = @ + 1]

(* The action applies and the rule itself did not fail. *)
applied(a) ==
  /\ decides(a) /\ ~capReached(a)
  /\ started' = [started EXCEPT ![a] = @ + 1]
  /\ recordAgentSuccess(a)
  /\ UNCHANGED <<keepsEngine, tick, deciding, row>>

(* A rule that threw, whose no-op was started instead, or an action that
   failed after it was started. *)
startedAndFailed(a) ==
  /\ decides(a) /\ ~capReached(a)
  /\ started' = [started EXCEPT ![a] = @ + 1]
  /\ recordAgentFailure(a)
  /\ UNCHANGED <<keepsEngine, tick, deciding, row>>

(* Refused before it started: by the cap, or by the registry. *)
rejected(a) ==
  /\ decides(a)
  /\ recordAgentFailure(a)
  /\ UNCHANGED <<keepsEngine, tick, deciding, row, started>>

imposedOn(a) == {q.quarantine : q \in {x \in imposed : x.agent = a}}

(* The phase writes the new quarantines, one per agent at most, to the
   agents' rows. *)
endPhase ==
  /\ deciding
  /\ deciding' = FALSE
  /\ row' = [a \in Agent |-> IF imposedOn(a) = {} THEN row[a] ELSE CHOOSE q \in imposedOn(a) : TRUE]
  /\ imposed' = {} /\ decided' = [a \in Agent |-> 0]
  /\ UNCHANGED <<keepsEngine, tick, failures, started, streak>>

(* The operator's quarantine or release, between ticks. *)
setAgentQuarantine(a) ==
  /\ ~deciding
  /\ \E until \in {-1} \cup (tick..MaxTick) :
       LET next == IF until = -1 THEN none ELSE [count |-> 1, until |-> until]
       IN  row[a] # next /\ row' = [row EXCEPT ![a] = next]
  /\ UNCHANGED <<keepsEngine, tick, deciding, failures, imposed, decided, started, streak>>

QuarantineInit ==
  /\ keepsEngine \in BOOLEAN
  /\ tick = 0 /\ deciding = FALSE
  /\ failures = [a \in Agent |-> none] /\ row = [a \in Agent |-> none]
  /\ imposed = {}
  /\ decided = [a \in Agent |-> 0] /\ started = [a \in Agent |-> 0]
  /\ streak = [a \in Agent |-> 0]

-----------------------------------------------------------------------------
(* Every variable holds what the engine and the rows may hold; no agent starts
   more than its cap of actions in a tick, those reserved for other modules
   included. *)
QuarantineTypeOK ==
  /\ keepsEngine \in BOOLEAN /\ tick \in 0..MaxTick /\ deciding \in BOOLEAN
  /\ \A a \in Agent :
       /\ failures[a] \in [count : Nat, until : -1..(MaxTick + Cooldown)]
       /\ row[a] \in [count : Nat, until : -1..(MaxTick + Cooldown)]
       /\ decided[a] \in 0..DecisionCap /\ started[a] \in 0..ActionCap /\ streak[a] \in Nat
  /\ imposed \subseteq [agent : Agent, quarantine : [count : Nat, until : Int]]

(* The engine quarantines an agent only after Threshold failures without a
   success between them; the count it took over from a row does not help. *)
QuarantineEarned ==
  [][\A q \in imposed' \ imposed : streak'[q.agent] >= Threshold]_quarantineVars

(* The phase never shortens or lifts a quarantine that stands, the operator's
   longer one included. *)
StandingNotShortened ==
  [][endPhase => \A a \in Agent : row[a].until >= tick => row'[a].until >= row[a].until]_quarantineVars
=============================================================================
