----------------------------- MODULE LlmGateway ------------------------------
(***************************************************************************)
(* The path of a model proposal from the discovery of an opportunity to    *)
(* the tick that applies it: BudgetedLlmProvider around CachedLlmProvider  *)
(* around a provider, with SqliteLlmControlStore keeping the budget.       *)
(*                                                                         *)
(* Calls are made one after the other, before the tick they are for, while *)
(* the handler holds the run's operation lock.  A call is three separate   *)
(* moments: the budget is read, the provider is awaited, the answer is     *)
(* cached in one transaction and charged in the next.  The process may     *)
(* die, or the tick fail, between any two of them; what was prepared is    *)
(* then gone and the tick is prepared again.                               *)
(***************************************************************************)
EXTENDS Integers, Sequences, FiniteSets

CONSTANTS
  Agent, Module,
  Schedule,     \* what a tick asks, in order: [agent, module, tier, after]
  Usages,       \* what an answer may use: [cost, tokens]
  Ceiling,      \* the run's cost ceiling
  Allowance,    \* an agent's tokens per simulated day
  MaxCost, MaxTokens,   \* the most one answer uses
  MaxTick,      \* bound: ticks of the run
  MaxControls   \* bound: LLM control commands

Tier == {2, 3}
Slot == DOMAIN Schedule

ASSUME LlmAssumption ==
  /\ Schedule \in Seq([agent : Agent, module : Module, tier : Tier, after : Nat])
  /\ Usages \subseteq [cost : Nat, tokens : Nat]
  /\ Ceiling \in Nat \ {0} /\ Allowance \in Nat \ {0}
  /\ MaxCost \in Nat /\ MaxTokens \in Nat
  /\ \A u \in Usages : u.cost <= MaxCost /\ u.tokens <= MaxTokens
  /\ MaxTick \in Nat /\ MaxControls \in Nat

VARIABLES
  run,          \* [tick, status], simulation_runs
  budget,       \* llm_runtime_budgets
  daily,        \* llm_agent_daily_usage, by agent and day
  frozen,       \* llm_module_controls
  quarantine,   \* the tick through which an agent is quarantined, -1 for none
  controls,     \* how many control commands were accepted
  cache,        \* llm_response_cache, immutable
  journal,      \* the events the gateway appends
  work,         \* the batch being prepared, in memory
  answers,      \* history: how many answers the provider gave
  applied       \* history: proposals that entered a tick

vars == <<run, budget, daily, frozen, quarantine, controls, cache, journal, work, answers, applied>>

policy  == <<frozen, quarantine, controls>>
spend   == <<budget, daily, journal>>
history == <<answers, applied>>

Day  == 1..MaxTick
Key  == Slot \X Day \X Tier
NoCall == [slot |-> 0, tier |-> 2, value |-> 0, usage |-> [cost |-> 0, tokens |-> 0]]
Idle == [pc |-> "idle", todo |-> {}, entries |-> {}, call |-> NoCall]

target == run.tick + 1
NoUsage == [tokens |-> 0, warned |-> FALSE, exhausted |-> FALSE]

(* llmRequestHash: purpose, tier and observation, which names the slot and
   the tick. *)
requestKey(i, tier) == <<i, target, tier>>

reached(n, limit, percent) == n * 100 >= limit * percent

-----------------------------------------------------------------------------
(* SqliteLlmControlStore *)

(* Mutant: the ceiling blocks only once it is exceeded. *)
isBlockedAbove(s) ==
  \/ ~budget.enabled
  \/ s.module \in frozen
  \/ quarantine[s.agent] >= target
  \/ budget.cost > Ceiling
  \/ daily[s.agent][target].tokens >= Allowance

isBlocked(s) ==
  \/ ~budget.enabled
  \/ s.module \in frozen
  \/ quarantine[s.agent] >= target
  \/ reached(budget.cost, Ceiling, 100)
  \/ daily[s.agent][target].tokens >= Allowance

isDegraded(s) ==
  /\ s.tier = 3
  /\ \/ reached(budget.cost, Ceiling, 80)
     \/ reached(daily[s.agent][target].tokens, Allowance, 80)

effectiveTier(s) == IF isDegraded(s) THEN 2 ELSE s.tier

(* Mutant: the warning flag is that of this charge alone. *)
chargeBudgetForgetful(cost, pause) ==
  [cost       |-> cost,
   warned     |-> ~budget.warned /\ reached(cost, Ceiling, 80),
   exhausted  |-> budget.exhausted \/ reached(cost, Ceiling, 100),
   autoPaused |-> budget.autoPaused \/ pause,
   enabled    |-> budget.enabled]

chargeBudget(cost, pause) ==
  [cost       |-> cost,
   warned     |-> budget.warned \/ reached(cost, Ceiling, 80),
   exhausted  |-> budget.exhausted \/ reached(cost, Ceiling, 100),
   autoPaused |-> budget.autoPaused \/ pause,
   enabled    |-> budget.enabled]

chargeDay(row, tokens) ==
  [tokens    |-> tokens,
   warned    |-> row.warned \/ reached(tokens, Allowance, 80),
   exhausted |-> row.exhausted \/ reached(tokens, Allowance, 100)]

event(type, key, u) == [type |-> type, key |-> key, usage |-> u]

eventIf(cond, type, key, u) == IF cond THEN << event(type, key, u) >> ELSE << >>

(* recordUsageTransaction: counters, one-shot threshold events, the pause of
   a running run, all in one commit. *)
recordUsage(key, u) ==
  LET a      == Schedule[key[1]].agent
      row    == daily[a][target]
      tokens == row.tokens + u.tokens
      cost   == budget.cost + u.cost
      out    == ~budget.exhausted /\ reached(cost, Ceiling, 100)
      pause  == out /\ run.status = "running"
      notices ==
        eventIf(~row.warned /\ reached(tokens, Allowance, 80), "llm.agent_budget.warning", key, u)
        \o eventIf(~row.exhausted /\ reached(tokens, Allowance, 100), "llm.agent_budget.exhausted", key, u)
        \o eventIf(~budget.warned /\ reached(cost, Ceiling, 80), "llm.budget.threshold.warn", key, u)
        \o eventIf(out, "llm.budget.threshold.auto_pause", key, u)
        \o eventIf(pause, "simulation.paused", key, u)
  IN  /\ journal' = Append(journal, event("llm.usage.recorded", key, u)) \o notices
      /\ budget' = chargeBudget(cost, pause)
      /\ daily' = [daily EXCEPT ![a][target] = chargeDay(row, tokens)]
      /\ run' = [tick |-> run.tick, status |-> IF pause THEN "paused" ELSE run.status]

(* Mutant: controls are accepted while a handler is at work on the run. *)
controllableAnytime == controls < MaxControls

(* setLlmControl refuses while the run's operation lock is held. *)
controllable == controls < MaxControls /\ work.pc = "idle"

setLlmEnabled ==
  /\ controllable
  /\ budget' = [budget EXCEPT !.enabled = ~@]
  /\ controls' = controls + 1
  /\ UNCHANGED <<run, daily, frozen, quarantine, cache, journal, work, history>>

setModuleFrozen ==
  /\ controllable
  /\ \E m \in Module : frozen' = (frozen \ {m}) \cup ({m} \ frozen)
  /\ controls' = controls + 1
  /\ UNCHANGED <<run, spend, quarantine, cache, work, history>>

setAgentQuarantine ==
  /\ controllable
  /\ \E a \in Agent : \E until \in {-1} \cup (run.tick..MaxTick) :
       /\ quarantine[a] # until
       /\ quarantine' = [quarantine EXCEPT ![a] = until]
  /\ controls' = controls + 1
  /\ UNCHANGED <<run, spend, frozen, cache, work, history>>

-----------------------------------------------------------------------------
(* Preparation, under the lock: discover, then one call at a time. *)

prepare ==
  /\ work.pc = "idle" /\ run.tick < MaxTick
  /\ \E due \in SUBSET Slot : work' = [Idle EXCEPT !.pc = "call", !.todo = due]
  /\ UNCHANGED <<run, spend, policy, cache, history>>

(* The first opportunity that is still to be asked. *)
turn(i) == work.pc = "call" /\ \A j \in work.todo : i <= j

(* The terminal outcome of a conversation is asked for only once its last
   message was accepted. *)
isDue(i) ==
  LET s == Schedule[i]
  IN  s.after = 0 \/ \E e \in work.entries : e.slot = s.after /\ e.outcome = "proposal"

entry(i, tier, outcome, value) ==
  [slot |-> i, tier |-> tier, outcome |-> outcome, value |-> value]

proceed(i, tier, outcome, value) ==
  work' = [work EXCEPT !.pc = "call", !.call = NoCall,
                       !.todo = @ \ {i},
                       !.entries = @ \cup {entry(i, tier, outcome, value)}]

(* The caller compares the request hash of the result with that of the
   request it made. *)
accept(i, tier, value) ==
  IF requestKey(i, tier) = requestKey(i, Schedule[i].tier)
  THEN proceed(i, tier, "proposal", value)
  ELSE proceed(i, tier, "hash_mismatch", 0)

skip ==
  /\ \E i \in work.todo :
       /\ turn(i) /\ ~isDue(i)
       /\ work' = [work EXCEPT !.todo = @ \ {i}]
  /\ UNCHANGED <<run, spend, policy, cache, history>>

block ==
  /\ \E i \in work.todo :
       /\ turn(i) /\ isDue(i) /\ isBlocked(Schedule[i])
       /\ proceed(i, 2, "fallback", 0)
  /\ UNCHANGED <<run, spend, policy, cache, history>>

cached(key) == {r \in cache : r.key = key}

authorized(i) == turn(i) /\ isDue(i) /\ ~isBlocked(Schedule[i])

(* A cache hit is free. *)
hit ==
  \E i \in work.todo :
    LET tier == effectiveTier(Schedule[i])
    IN  /\ authorized(i)
        /\ \E r \in cached(requestKey(i, tier)) : accept(i, tier, r.value)
        /\ UNCHANGED <<run, spend, policy, cache, history>>

asking(i, tier) == [slot |-> i, tier |-> tier, value |-> 0, usage |-> [cost |-> 0, tokens |-> 0]]

miss ==
  \E i \in work.todo :
    LET tier == effectiveTier(Schedule[i])
    IN  /\ authorized(i)
        /\ cached(requestKey(i, tier)) = {}
        /\ work' = [work EXCEPT !.pc = "await", !.call = asking(i, tier)]
        /\ UNCHANGED <<run, spend, policy, cache, history>>

calledKey == requestKey(work.call.slot, work.call.tier)

(* Mutant: the answer is not stored. *)
answerUncached(u) ==
  /\ work' = [work EXCEPT !.pc = "record", !.call.value = answers + 1, !.call.usage = u]
  /\ cache' = cache

(* CachedLlmProvider stores the answer before it returns it. *)
store(u) ==
  /\ work' = [work EXCEPT !.pc = "record", !.call.value = answers + 1, !.call.usage = u]
  /\ cache' = cache \cup {[key |-> calledKey, value |-> answers + 1]}

answer ==
  /\ work.pc = "await"
  /\ \E u \in Usages : store(u)
  /\ answers' = answers + 1
  /\ UNCHANGED <<run, spend, policy, applied>>

(* A transport error, an invalid answer after its repair, or a cache that
   cannot be written: nothing is stored and nothing charged. *)
providerFails ==
  /\ work.pc = "await"
  /\ proceed(work.call.slot, 2, "fallback", 0)
  /\ UNCHANGED <<run, spend, policy, cache, history>>

recordSuccess ==
  /\ work.pc = "record"
  /\ recordUsage(calledKey, work.call.usage)
  /\ accept(work.call.slot, work.call.tier, work.call.value)
  /\ UNCHANGED <<policy, cache, history>>

(* An unpriced model or a failed commit: the caller gets provider_error. *)
recordFails ==
  /\ work.pc = "record"
  /\ proceed(work.call.slot, 2, "fallback", 0)
  /\ UNCHANGED <<run, spend, policy, cache, history>>

proposals == {e \in work.entries : e.outcome = "proposal"}

(* The tick applies the batch, all of it or nothing. *)
commitTick ==
  /\ work.pc = "call" /\ work.todo = {}
  /\ applied' = applied \cup {[key |-> requestKey(e.slot, e.tier), value |-> e.value] : e \in proposals}
  /\ run' = [run EXCEPT !.tick = @ + 1]
  /\ work' = Idle
  /\ UNCHANGED <<spend, policy, cache, answers>>

(* The process dies or the tick fails. *)
abandon ==
  /\ work.pc # "idle"
  /\ work' = Idle
  /\ UNCHANGED <<run, spend, policy, cache, history>>

(* start, resume and pause, between handlers. *)
controlSimulation ==
  /\ work.pc = "idle"
  /\ run' = [run EXCEPT !.status = IF @ = "running" THEN "paused" ELSE "running"]
  /\ UNCHANGED <<spend, policy, cache, work, history>>

-----------------------------------------------------------------------------
Init ==
  /\ run = [tick |-> 0, status |-> "running"]
  /\ budget = [cost |-> 0, warned |-> FALSE, exhausted |-> FALSE, autoPaused |-> FALSE, enabled |-> TRUE]
  /\ daily = [a \in Agent |-> [d \in Day |-> NoUsage]]
  /\ frozen = {} /\ quarantine = [a \in Agent |-> -1] /\ controls = 0
  /\ cache = {} /\ journal = << >>
  /\ work = Idle
  /\ answers = 0 /\ applied = {}

Calls == skip \/ block \/ hit \/ miss \/ answer \/ providerFails \/ recordSuccess \/ recordFails

Next ==
  \/ prepare \/ Calls \/ commitTick \/ abandon \/ controlSimulation
  \/ setLlmEnabled \/ setModuleFrozen \/ setAgentQuarantine

Spec == Init /\ [][Next]_vars

-----------------------------------------------------------------------------
(* Every variable holds what the tables and the batch may hold. *)
Outcome == {"proposal", "fallback", "hash_mismatch"}

WorkType == [pc : {"idle", "call", "await", "record"}, todo : SUBSET Slot,
             entries : SUBSET [slot : Slot, tier : Tier, outcome : Outcome, value : Nat],
             call : [slot : Slot \cup {0}, tier : Tier, value : Nat,
                     usage : [cost : 0..MaxCost, tokens : 0..MaxTokens]]]

EventType == {"llm.usage.recorded", "llm.agent_budget.warning", "llm.agent_budget.exhausted",
              "llm.budget.threshold.warn", "llm.budget.threshold.auto_pause", "simulation.paused"}

TypeOK ==
  /\ run \in [tick : 0..MaxTick, status : {"running", "paused"}]
  /\ budget \in [cost : Nat, warned : BOOLEAN, exhausted : BOOLEAN, autoPaused : BOOLEAN, enabled : BOOLEAN]
  /\ daily \in [Agent -> [Day -> [tokens : Nat, warned : BOOLEAN, exhausted : BOOLEAN]]]
  /\ frozen \subseteq Module
  /\ quarantine \in [Agent -> -1..MaxTick]
  /\ controls \in 0..MaxControls
  /\ cache \subseteq [key : Key, value : Nat]
  /\ journal \in Seq([type : EventType, key : Key, usage : [cost : 0..MaxCost, tokens : 0..MaxTokens]])
  /\ work \in WorkType
  /\ (work.pc # "idle" => run.tick < MaxTick)
  /\ (work.pc \in {"await", "record"} => work.call.slot \in work.todo)
  /\ answers \in Nat
  /\ applied \subseteq [key : Key, value : Nat]

(* The ceiling and the daily allowance are overrun by less than one answer,
   whatever was retried, crashed or resumed: every call sees the charge of the
   call before it (docs/WS_603, "no later request can call the provider"). *)
OverspendBounded ==
  /\ budget.cost < Ceiling + MaxCost
  /\ \A a \in Agent : \A d \in Day : daily[a][d].tokens < Allowance + MaxTokens

(* The switches: what is being asked, and every proposal waiting for the tick,
   is allowed by the switches as they are now, not as they were when the call
   was authorized; they cannot be thrown under a batch. *)
switchedOff(s) ==
  \/ ~budget.enabled
  \/ s.module \in frozen
  \/ quarantine[s.agent] >= target

SwitchesHold ==
  /\ \A e \in proposals : ~switchedOff(Schedule[e.slot])
  /\ work.pc \in {"await", "record"} => ~switchedOff(Schedule[work.call.slot])

(* The answer that is awaited or about to be charged was asked for below the
   ceilings, at the tier the budget allows. *)
InFlightWithinBudget ==
  work.pc \in {"await", "record"} =>
    LET s == Schedule[work.call.slot]
    IN  /\ budget.cost < Ceiling
        /\ daily[s.agent][target].tokens < Allowance
        /\ work.call.tier = 3 =>
             /\ ~reached(budget.cost, Ceiling, 80)
             /\ ~reached(daily[s.agent][target].tokens, Allowance, 80)

(* An answer is charged once, however often its tick is prepared again: the
   retry finds it in the cache and hits are free. *)
ofType(type) == {n \in DOMAIN journal : journal[n].type = type}

ChargedOnce ==
  \A m, n \in ofType("llm.usage.recorded") : journal[m].key = journal[n].key => m = n

(* The counters are the journal's: the sums of the usage events, and one
   threshold event for each flag that is set. *)
Once(events, flag) == Cardinality(events) = IF flag THEN 1 ELSE 0

SumOf(w) ==
  LET upTo[n \in 0..Len(w)] == IF n = 0 THEN 0 ELSE upTo[n - 1] + w[n]
  IN  upTo[Len(w)]

Total(events, field) ==
  SumOf([n \in DOMAIN journal |-> IF n \in events THEN journal[n].usage[field] ELSE 0])

ofAgent(type, a, d) == {n \in ofType(type) : journal[n].key[2] = d /\ Schedule[journal[n].key[1]].agent = a}

JournalReconciles ==
  /\ budget.cost = Total(ofType("llm.usage.recorded"), "cost")
  /\ Once(ofType("llm.budget.threshold.warn"), budget.warned)
  /\ Once(ofType("llm.budget.threshold.auto_pause"), budget.exhausted)
  /\ Once(ofType("simulation.paused"), budget.autoPaused)
  /\ \A a \in Agent : \A d \in Day :
       /\ daily[a][d].tokens = Total(ofAgent("llm.usage.recorded", a, d), "tokens")
       /\ Once(ofAgent("llm.agent_budget.warning", a, d), daily[a][d].warned)
       /\ Once(ofAgent("llm.agent_budget.exhausted", a, d), daily[a][d].exhausted)

(* What a tick applied can be found again: the cache maps the request to the
   very answer that was applied, and a request has one answer. *)
AppliedIsCached ==
  /\ applied \subseteq cache
  /\ \A r, s \in cache : r.key = s.key => r = s

(* No call is begun beyond the budget, and none overruns it by more than its
   own answer. *)
BudgetKept == OverspendBounded /\ InFlightWithinBudget

(* A request has one answer, which is applied as it was cached and charged
   once. *)
AnsweredOnce == ChargedOnce /\ AppliedIsCached

(* The rows have their types and add up to the journal. *)
CountersAgree == TypeOK /\ JournalReconciles
=============================================================================
