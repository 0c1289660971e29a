-------------------------- MODULE LlmGateway_proofs --------------------------
(***************************************************************************)
(* Theorems about LlmGateway for every schedule, price, ceiling, allowance *)
(* and bound: types, the budget, the cache and the charges, the switches,  *)
(* and that the counters are the sums over the journal.                    *)
(***************************************************************************)
EXTENDS LlmGateway, FiniteSetTheorems, WellFoundedInduction, TLAPS

-----------------------------------------------------------------------------
(* Induction over the naturals, stated with a set instead of an operator,   *)
(* and what it gives: a function defined by recursion up to a bound exists. *)

(* A set of numbers with 0 and every successor has them all: else its
   complement would have a least element. *)
LEMMA NatSetInduction ==
  ASSUME NEW S, 0 \in S, \A n \in Nat : n \in S => n + 1 \in S
  PROVE  Nat \subseteq S
<1> DEFINE R == OpToRel(<, Nat)
           T == Nat \ S
<1> SUFFICES ASSUME T # {}
             PROVE  FALSE
  OBVIOUS
<1>1. IsWellFoundedOn(R, Nat)
  BY Zenon, NatLessThanWellFounded
<1>2. PICK x \in T : \A y \in T : ~(<<y, x>> \in R)
  <2> HIDE DEF R
  <2> QED BY <1>1, WFMin
<1>3. x \in Nat /\ x # 0 /\ x - 1 \in Nat
  OBVIOUS
<1>4. <<x - 1, x>> \in R
  BY <1>3 DEF OpToRel
<1>5. x - 1 \in T
  <2>1. x - 1 \in S => (x - 1) + 1 \in S
    BY <1>3
  <2>2. (x - 1) + 1 = x
    BY <1>3
  <2> QED BY <1>3, <2>1, <2>2
<1> HIDE DEF R, T
<1> QED BY <1>2, <1>4, <1>5

(* Functions that take a value of V to a value of V, one for each step, ... *)
Steps(N, V) == [1..N -> [V -> V]]
(* ... and a function that starts at base and follows them. *)
Follows(f, N, V, base, step) ==
  f \in [0..N -> V] /\ f[0] = base /\ \A k \in 1..N : f[k] = step[k][f[k - 1]]

(* By induction on n there is such a function up to n. *)
LEMMA BoundedRecursion ==
  ASSUME NEW N \in Nat, NEW V, NEW base \in V, NEW step \in Steps(N, V)
  PROVE  \E f : Follows(f, N, V, base, step)
<1> DEFINE Upto(n, f) == f[0] = base /\ \A k \in 1..n : f[k] = step[k][f[k - 1]]
           S == {n \in Nat : n <= N => \E f \in [0..n -> V] : Upto(n, f)}
<1>1. 0 \in S
  <2> DEFINE f == [k \in 0..0 |-> base]
  <2>1. f \in [0..0 -> V] /\ f[0] = base
    OBVIOUS
  <2>2. Upto(0, f)
    BY <2>1
  <2> QED BY <2>1, <2>2
<1>2. ASSUME NEW n \in Nat, n \in S
      PROVE  n + 1 \in S
  <2> HIDE DEF Upto
  <2> SUFFICES ASSUME n + 1 <= N
               PROVE  \E g \in [0..(n + 1) -> V] : Upto(n + 1, g)
    OBVIOUS
  <2> USE DEF Upto
  <2>1. PICK f \in [0..n -> V] : Upto(n, f)
    BY <1>2
  <2>2. step[n + 1] \in [V -> V] /\ f[n] \in V
    BY DEF Steps
  <2> DEFINE g == [k \in 0..(n + 1) |-> IF k <= n THEN f[k] ELSE step[n + 1][f[n]]]
  <2>3. g \in [0..(n + 1) -> V] /\ g[0] = base
    BY <2>1, <2>2
  <2>4. ASSUME NEW k \in 1..(n + 1)
        PROVE  g[k] = step[k][g[k - 1]]
    <3>1. CASE k <= n
      BY <2>1, <3>1
    <3>2. CASE k = n + 1
      BY <3>2
    <3> QED BY <3>1, <3>2
  <2> QED BY <2>3, <2>4
<1> HIDE DEF S
<1>3. Nat \subseteq S
  BY <1>1, <1>2, NatSetInduction
<1> QED BY <1>3 DEF S, Follows

-----------------------------------------------------------------------------
(* The invariant *)

UsageRange == [cost : 0..MaxCost, tokens : 0..MaxTokens]
JournalEvent == [type : EventType, key : Key, usage : UsageRange]
Entry == [slot : Slot, tier : Tier, outcome : Outcome, value : Nat]
Call == [slot : Slot \cup {0}, tier : Tier, value : Nat, usage : UsageRange]

(* No batch survives the lock. *)
IdleInv == work.pc = "idle" => work = Idle

TypeInv == TypeOK /\ IdleInv

LEMMA ConstantFacts ==
  /\ Slot \subseteq Nat \ {0}
  /\ \A i \in Slot : Schedule[i] \in [agent : Agent, module : Module, tier : Tier, after : Nat]
  /\ Usages \subseteq UsageRange
  /\ Ceiling \in Nat \ {0} /\ Allowance \in Nat \ {0} /\ MaxCost \in Nat /\ MaxTokens \in Nat
  /\ MaxTick \in Nat /\ MaxControls \in Nat
<1>1. Slot = 1..Len(Schedule) /\ Len(Schedule) \in Nat
  BY LlmAssumption DEF Slot
<1>2. Slot \subseteq Nat \ {0}
  BY <1>1
<1>3. \A i \in Slot : Schedule[i] \in [agent : Agent, module : Module, tier : Tier, after : Nat]
  <2> DEFINE S == [agent : Agent, module : Module, tier : Tier, after : Nat]
  <2>1. Schedule \in Seq(S)
    BY LlmAssumption
  <2> HIDE DEF S
  <2>2. \A i \in 1..Len(Schedule) : Schedule[i] \in S
    BY <2>1
  <2> QED BY <1>1, <2>2 DEF S
<1>4. Usages \subseteq UsageRange
  BY LlmAssumption DEF UsageRange
<1> QED BY <1>2, <1>3, <1>4, LlmAssumption

LEMMA InitType == Init => TypeInv
<1> SUFFICES ASSUME Init PROVE TypeInv
  OBVIOUS
<1>1. Idle \in WorkType
  BY ConstantFacts DEF Idle, NoCall, WorkType, Tier, UsageRange
<1>2. daily \in [Agent -> [Day -> [tokens : Nat, warned : BOOLEAN, exhausted : BOOLEAN]]]
  BY DEF Init, NoUsage
<1>3. quarantine \in [Agent -> -1..MaxTick]
  BY ConstantFacts DEF Init
<1>4. run \in [tick : 0..MaxTick, status : {"running", "paused"}]
  BY ConstantFacts DEF Init
<1>5. journal \in Seq(JournalEvent)
  BY DEF Init
<1> QED BY <1>1, <1>2, <1>3, <1>4, <1>5, ConstantFacts
        DEF Init, TypeInv, TypeOK, IdleInv, Idle, JournalEvent, UsageRange

(* The events of a charge other than the charge itself. *)
NoticeType == EventType \ {"llm.usage.recorded"}
Notice == [type : NoticeType, key : Key, usage : UsageRange]

LEMMA EventIfType ==
  ASSUME NEW type \in NoticeType, NEW key \in Key, NEW u \in UsageRange, NEW e,
         e = << event(type, key, u) >> \/ e = << >>
  PROVE  e \in Seq(Notice)
<1>1. event(type, key, u) \in Notice
  BY DEF event, Notice
<1>2. << event(type, key, u) >> \in Seq(Notice)
  BY <1>1
<1>3. << >> \in Seq(Notice)
  OBVIOUS
<1>4. CASE e = << event(type, key, u) >>
  BY <1>2, <1>4, Zenon
<1>5. CASE e = << >>
  BY <1>3, <1>5, Zenon
<1> QED BY <1>4, <1>5

LEMMA NoticeIsEvent == Notice \subseteq JournalEvent
BY DEF Notice, JournalEvent, NoticeType

(* What a charge leaves in the tables. *)
LEMMA RecordUsageType ==
  ASSUME TypeOK, run.tick < MaxTick,
         NEW i \in Slot, NEW tier \in Tier, NEW u \in UsageRange,
         recordUsage(requestKey(i, tier), u)
  PROVE  /\ \E rest \in Seq(Notice) :
              journal' = Append(journal, event("llm.usage.recorded", requestKey(i, tier), u)) \o rest
         /\ budget' \in [cost : Nat, warned : BOOLEAN, exhausted : BOOLEAN, autoPaused : BOOLEAN, enabled : BOOLEAN]
         /\ daily' \in [Agent -> [Day -> [tokens : Nat, warned : BOOLEAN, exhausted : BOOLEAN]]]
         /\ run' \in [tick : 0..MaxTick, status : {"running", "paused"}]
         /\ run'.tick = run.tick
<1> DEFINE key == requestKey(i, tier)
           a   == Schedule[i].agent
           row == daily[a][target]
           cost == budget.cost + u.cost
           tokens == row.tokens + u.tokens
           out == ~budget.exhausted /\ reached(cost, Ceiling, 100)
           pause == out /\ run.status = "running"
<1>0. /\ run \in [tick : 0..MaxTick, status : {"running", "paused"}]
      /\ budget \in [cost : Nat, warned : BOOLEAN, exhausted : BOOLEAN, autoPaused : BOOLEAN, enabled : BOOLEAN]
      /\ daily \in [Agent -> [Day -> [tokens : Nat, warned : BOOLEAN, exhausted : BOOLEAN]]]
      /\ journal \in Seq(JournalEvent)
  BY DEF TypeOK, JournalEvent, UsageRange
<1>1. target \in Day
  BY <1>0, ConstantFacts DEF target, Day
<1>2. key \in Key /\ key[1] = i
  BY <1>1 DEF requestKey, Key
<1>3. a \in Agent /\ row \in [tokens : Nat, warned : BOOLEAN, exhausted : BOOLEAN]
  <2>1. a \in Agent
    BY ConstantFacts
  <2> QED BY <2>1, <1>0, <1>1
<1>5. \E rest \in Seq(Notice) : journal' = Append(journal, event("llm.usage.recorded", key, u)) \o rest
  <2> DEFINE e1 == eventIf(~row.warned /\ reached(tokens, Allowance, 80), "llm.agent_budget.warning", key, u)
             e2 == eventIf(~row.exhausted /\ reached(tokens, Allowance, 100), "llm.agent_budget.exhausted", key, u)
             e3 == eventIf(~budget.warned /\ reached(cost, Ceiling, 80), "llm.budget.threshold.warn", key, u)
             e4 == eventIf(out, "llm.budget.threshold.auto_pause", key, u)
             e5 == eventIf(pause, "simulation.paused", key, u)
             j  == Append(journal, event("llm.usage.recorded", key, u))
  <2>1. journal' = j \o (e1 \o e2 \o e3 \o e4 \o e5)
    BY <1>2 DEF recordUsage
  <2>2. e1 \in Seq(Notice) /\ e2 \in Seq(Notice) /\ e3 \in Seq(Notice) /\ e4 \in Seq(Notice) /\ e5 \in Seq(Notice)
    <3>1. /\ "llm.agent_budget.warning" \in NoticeType /\ "llm.agent_budget.exhausted" \in NoticeType
          /\ "llm.budget.threshold.warn" \in NoticeType /\ "llm.budget.threshold.auto_pause" \in NoticeType
          /\ "simulation.paused" \in NoticeType
      BY DEF NoticeType, EventType
    <3>2. e1 = << event("llm.agent_budget.warning", key, u) >> \/ e1 = << >>
      BY DEF eventIf
    <3>3. e2 = << event("llm.agent_budget.exhausted", key, u) >> \/ e2 = << >>
      BY DEF eventIf
    <3>4. e3 = << event("llm.budget.threshold.warn", key, u) >> \/ e3 = << >>
      BY DEF eventIf
    <3>5. e4 = << event("llm.budget.threshold.auto_pause", key, u) >> \/ e4 = << >>
      BY DEF eventIf
    <3>6. e5 = << event("simulation.paused", key, u) >> \/ e5 = << >>
      BY DEF eventIf
    <3> HIDE DEF e1, e2, e3, e4, e5, key
    <3> QED BY <1>2, <3>1, <3>2, <3>3, <3>4, <3>5, <3>6, EventIfType
  <2> HIDE DEF e1, e2, e3, e4, e5, j
  <2>3. e1 \o e2 \o e3 \o e4 \o e5 \in Seq(Notice)
    BY <2>2
  <2> QED BY <2>1, <2>3 DEF j
<1>6. cost \in Nat /\ tokens \in Nat
  <2>1. u.cost \in Nat /\ u.tokens \in Nat
    BY ConstantFacts DEF UsageRange
  <2>2. budget.cost \in Nat /\ row.tokens \in Nat
    BY <1>0, <1>3
  <2> QED BY <2>1, <2>2
<1>7. budget' \in [cost : Nat, warned : BOOLEAN, exhausted : BOOLEAN, autoPaused : BOOLEAN, enabled : BOOLEAN]
  <2>1. budget' = chargeBudget(cost, pause)
    BY <1>2 DEF recordUsage
  <2> QED BY <2>1, <1>6, <1>0 DEF chargeBudget, reached
<1>8. daily' \in [Agent -> [Day -> [tokens : Nat, warned : BOOLEAN, exhausted : BOOLEAN]]]
  <2>1. daily' = [daily EXCEPT ![a][target] = chargeDay(row, tokens)]
    BY <1>2 DEF recordUsage
  <2>2. chargeDay(row, tokens) \in [tokens : Nat, warned : BOOLEAN, exhausted : BOOLEAN]
    BY <1>3, <1>6 DEF chargeDay, reached
  <2> QED BY <2>1, <2>2, <1>0, <1>1, <1>3
<1>9. run' \in [tick : 0..MaxTick, status : {"running", "paused"}] /\ run'.tick = run.tick
  BY <1>0 DEF recordUsage
<1> QED BY <1>5, <1>7, <1>8, <1>9

(* The journal stays a sequence of events. *)
LEMMA JournalType ==
  ASSUME journal \in Seq(JournalEvent), NEW key \in Key, NEW u \in UsageRange,
         NEW rest \in Seq(Notice),
         journal' = Append(journal, event("llm.usage.recorded", key, u)) \o rest
  PROVE  journal' \in Seq(JournalEvent)
<1>1. event("llm.usage.recorded", key, u) \in JournalEvent
  BY DEF event, JournalEvent, EventType
<1>2. Append(journal, event("llm.usage.recorded", key, u)) \in Seq(JournalEvent)
  BY <1>1
<1>3. rest \in Seq(JournalEvent)
  BY NoticeIsEvent
<1> QED BY <1>2, <1>3

(* The batch. *)
LEMMA WorkFacts ==
  ASSUME TypeOK
  PROVE  /\ work \in WorkType
         /\ work.pc # "idle" => run.tick < MaxTick /\ target \in Day /\ target \in Nat
         /\ work.pc \in {"await", "record"} => work.call.slot \in work.todo
         /\ work.todo \subseteq Slot
         /\ work.call \in Call
         /\ run.tick \in Nat
<1>1. work \in WorkType /\ run.tick \in 0..MaxTick
  BY DEF TypeOK
<1>2. work.todo \subseteq Slot /\ work.call \in Call
  BY <1>1 DEF WorkType, Call, UsageRange
<1>3. work.pc # "idle" => run.tick < MaxTick
  BY DEF TypeOK
<1>4. work.pc \in {"await", "record"} => work.call.slot \in work.todo
  BY DEF TypeOK
<1> QED BY <1>1, <1>2, <1>3, <1>4, ConstantFacts DEF target, Day

LEMMA ProceedType ==
  ASSUME work \in WorkType, NEW i \in Slot, NEW tier \in Tier, NEW outcome \in Outcome, NEW value \in Nat,
         proceed(i, tier, outcome, value)
  PROVE  /\ work' \in WorkType
         /\ work'.pc = "call"
         /\ work'.entries = work.entries \cup {entry(i, tier, outcome, value)}
<1>1. entry(i, tier, outcome, value) \in Entry
  BY DEF entry, Entry
<1>2. NoCall \in Call
  BY ConstantFacts DEF NoCall, Call, Tier, UsageRange
<1>3. work \in [pc : {"idle", "call", "await", "record"}, todo : SUBSET Slot, entries : SUBSET Entry, call : Call]
  BY DEF WorkType, Entry, Call, UsageRange
<1>4. work' = [work EXCEPT !.pc = "call", !.call = NoCall, !.todo = @ \ {i},
                           !.entries = @ \cup {entry(i, tier, outcome, value)}]
  BY DEF proceed
<1>5. work' \in [pc : {"idle", "call", "await", "record"}, todo : SUBSET Slot, entries : SUBSET Entry, call : Call]
  BY <1>1, <1>2, <1>3, <1>4
<1>6. work'.pc = "call" /\ work'.entries = work.entries \cup {entry(i, tier, outcome, value)}
  BY <1>3, <1>4
<1> QED BY <1>5, <1>6 DEF WorkType, Entry, Call, UsageRange

(* What the caller makes of an answer. *)
LEMMA AcceptType ==
  ASSUME work \in WorkType, NEW i \in Slot, NEW tier \in Tier, NEW value \in Nat,
         accept(i, tier, value)
  PROVE  /\ work' \in WorkType
         /\ work'.pc = "call"
         /\ \/ work'.entries = work.entries \cup {entry(i, tier, "proposal", value)}
            \/ work'.entries = work.entries \cup {entry(i, tier, "hash_mismatch", 0)}
<1>1. CASE proceed(i, tier, "proposal", value)
  BY <1>1, ProceedType DEF Outcome
<1>2. CASE proceed(i, tier, "hash_mismatch", 0)
  BY <1>2, ProceedType DEF Outcome
<1> QED BY <1>1, <1>2 DEF accept

LEMMA EffectiveTierType ==
  ASSUME NEW i \in Slot
  PROVE  effectiveTier(Schedule[i]) \in Tier
BY ConstantFacts DEF effectiveTier, Tier

(* TypeOK in two parts: the tables and histories, and the batch. *)
TablesOK ==
  /\ run \in [tick : 0..MaxTick, status : {"running", "paused"}]
  /\ budget \in [cost : Nat, warned : BOOLEAN, exhausted : BOOLEAN, autoPaused : BOOLEAN, enabled : BOOLEAN]
  /\ daily \in [Agent -> [Day -> [tokens : Nat, warned : BOOLEAN, exhausted : BOOLEAN]]]
  /\ frozen \subseteq Module
  /\ quarantine \in [Agent -> -1..MaxTick]
  /\ controls \in 0..MaxControls
  /\ cache \subseteq [key : Key, value : Nat]
  /\ journal \in Seq(JournalEvent)
  /\ answers \in Nat
  /\ applied \subseteq [key : Key, value : Nat]

BatchOK ==
  /\ work \in WorkType
  /\ work.pc # "idle" => run.tick < MaxTick
  /\ work.pc \in {"await", "record"} => work.call.slot \in work.todo
  /\ IdleInv

LEMMA TypeParts == TypeInv <=> TablesOK /\ BatchOK
BY DEF TypeInv, TypeOK, TablesOK, BatchOK, JournalEvent, UsageRange

LEMMA StepType == TypeInv /\ [Next]_vars => TypeInv'
<1> SUFFICES ASSUME TypeInv, [Next]_vars PROVE TablesOK' /\ BatchOK'
  BY TypeParts, PTL
<1> USE DEF policy, spend, history
<1>0. TypeOK /\ TablesOK /\ BatchOK
  BY TypeParts DEF TypeInv
<1>1. CASE prepare
  <2>1. TablesOK'
    BY <1>0, <1>1 DEF prepare, TablesOK
  <2>2. PICK due \in SUBSET Slot : work' = [Idle EXCEPT !.pc = "call", !.todo = due]
    BY <1>1 DEF prepare
  <2>3. Idle \in WorkType
    BY ConstantFacts DEF Idle, NoCall, WorkType, Tier
  <2>4. work' \in WorkType /\ work'.pc = "call"
    BY <2>2, <2>3 DEF WorkType
  <2>5. run'.tick < MaxTick
    BY <1>0, <1>1, ConstantFacts DEF prepare, TablesOK
  <2> QED BY <2>1, <2>4, <2>5 DEF BatchOK, IdleInv
<1>2. CASE skip
  <2>1. TablesOK'
    BY <1>0, <1>2 DEF skip, TablesOK
  <2>2. PICK i \in work.todo : work' = [work EXCEPT !.todo = @ \ {i}] /\ work.pc = "call"
    BY <1>2 DEF skip, turn
  <2>3. work' \in WorkType /\ work'.pc = "call"
    BY <1>0, <2>2 DEF WorkType, BatchOK
  <2>4. run'.tick < MaxTick
    BY <1>0, <1>2, <2>2, WorkFacts DEF skip
  <2> QED BY <2>1, <2>3, <2>4 DEF BatchOK, IdleInv
<1>3. CASE block
  <2>1. TablesOK'
    BY <1>0, <1>3 DEF block, TablesOK
  <2>2. PICK i \in work.todo : proceed(i, 2, "fallback", 0) /\ work.pc = "call"
    BY <1>3 DEF block, turn
  <2>3. work' \in WorkType /\ work'.pc = "call"
    BY <1>0, <2>2, ProceedType, WorkFacts DEF Tier, Outcome
  <2>4. run'.tick < MaxTick
    BY <1>0, <1>3, <2>2, WorkFacts DEF block
  <2> QED BY <2>1, <2>3, <2>4 DEF BatchOK, IdleInv
<1>4. CASE hit
  <2>1. TablesOK'
    BY <1>0, <1>4 DEF hit, TablesOK
  <2>2. PICK i \in work.todo : /\ authorized(i)
                              /\ \E r \in cached(requestKey(i, effectiveTier(Schedule[i]))) :
                                   accept(i, effectiveTier(Schedule[i]), r.value)
    BY <1>4 DEF hit
  <2>3. PICK r \in cache : accept(i, effectiveTier(Schedule[i]), r.value)
    BY <2>2 DEF cached
  <2>4. i \in Slot /\ r.value \in Nat /\ effectiveTier(Schedule[i]) \in Tier
    BY <1>0, <2>2, <2>3, WorkFacts, EffectiveTierType DEF TablesOK
  <2>5. work' \in WorkType /\ work'.pc = "call"
    BY <1>0, <2>3, <2>4, AcceptType, WorkFacts
  <2>6. run'.tick < MaxTick
    BY <1>0, <1>4, <2>2, WorkFacts DEF hit, authorized, turn
  <2> QED BY <2>1, <2>5, <2>6 DEF BatchOK, IdleInv
<1>5. CASE miss
  <2>1. TablesOK'
    BY <1>0, <1>5 DEF miss, TablesOK
  <2>2. PICK i \in work.todo : /\ authorized(i)
                              /\ work' = [work EXCEPT !.pc = "await",
                                                      !.call = asking(i, effectiveTier(Schedule[i]))]
    BY <1>5 DEF miss
  <2>3. i \in Slot /\ effectiveTier(Schedule[i]) \in Tier
    BY <1>0, <2>2, WorkFacts, EffectiveTierType
  <2>4. asking(i, effectiveTier(Schedule[i])) \in Call /\ asking(i, effectiveTier(Schedule[i])).slot = i
    BY <2>3, ConstantFacts DEF asking, Call, UsageRange
  <2>5. work' \in WorkType /\ work'.pc = "await" /\ work'.call.slot = i /\ work'.todo = work.todo
    BY <1>0, <2>2, <2>4 DEF WorkType, BatchOK, Call, UsageRange
  <2>6. run'.tick < MaxTick
    BY <1>0, <1>5, <2>2, WorkFacts DEF miss, authorized, turn
  <2> QED BY <2>1, <2>2, <2>5, <2>6 DEF BatchOK, IdleInv
<1>6. CASE answer
  <2>1. PICK u \in Usages : store(u)
    BY <1>6 DEF answer
  <2>2. work.pc = "await" /\ work.call.slot \in Slot /\ work.call.tier \in Tier /\ target \in Day
    BY <1>0, <1>6, WorkFacts DEF answer, Call
  <2>3. calledKey \in Key
    BY <2>2 DEF calledKey, requestKey, Key
  <2>4. cache' \subseteq [key : Key, value : Nat] /\ answers' \in Nat
    BY <1>0, <1>6, <2>1, <2>3 DEF answer, store, TablesOK
  <2>5. TablesOK'
    BY <1>0, <1>6, <2>4 DEF answer, TablesOK
  <2>6. work' \in WorkType /\ work'.pc = "record" /\ work'.call.slot = work.call.slot /\ work'.todo = work.todo
    <3>1. u \in UsageRange /\ answers + 1 \in Nat
      BY <1>0, ConstantFacts DEF TablesOK
    <3>2. work' = [work EXCEPT !.pc = "record", !.call = [work.call EXCEPT !.value = answers + 1, !.usage = u]]
      BY <1>0, <2>1 DEF store, BatchOK, WorkType
    <3>3. [work.call EXCEPT !.value = answers + 1, !.usage = u] \in Call
      BY <1>0, <3>1, WorkFacts DEF Call
    <3>4. [work.call EXCEPT !.value = answers + 1, !.usage = u].slot = work.call.slot
      BY <1>0, WorkFacts DEF Call
    <3> QED BY <1>0, <3>2, <3>3, <3>4 DEF WorkType, BatchOK, Call, UsageRange
  <2>7. run'.tick < MaxTick
    BY <1>0, <1>6, <2>2, WorkFacts DEF answer
  <2> QED BY <1>0, <2>2, <2>5, <2>6, <2>7 DEF BatchOK, IdleInv
<1>7. CASE providerFails
  <2>1. TablesOK'
    BY <1>0, <1>7 DEF providerFails, TablesOK
  <2>2. work.pc = "await" /\ work.call.slot \in Slot /\ proceed(work.call.slot, 2, "fallback", 0)
    BY <1>0, <1>7, WorkFacts DEF providerFails
  <2>3. work' \in WorkType /\ work'.pc = "call"
    BY <1>0, <2>2, ProceedType, WorkFacts DEF Tier, Outcome
  <2>4. run'.tick < MaxTick
    BY <1>0, <1>7, <2>2, WorkFacts DEF providerFails
  <2> QED BY <2>1, <2>3, <2>4 DEF BatchOK, IdleInv
<1>8. CASE recordSuccess
  <2>1. /\ work.pc = "record" /\ work.call.slot \in Slot /\ work.call.tier \in Tier
        /\ work.call.value \in Nat /\ work.call.usage \in UsageRange /\ run.tick < MaxTick /\ target \in Day
    BY <1>0, <1>8, WorkFacts DEF recordSuccess, Call
  <2>2. recordUsage(requestKey(work.call.slot, work.call.tier), work.call.usage)
    BY <1>8 DEF recordSuccess, calledKey
  <2>3. requestKey(work.call.slot, work.call.tier) \in Key
    BY <2>1 DEF requestKey, Key
  <2>4. PICK rest \in Seq(Notice) :
          journal' = Append(journal, event("llm.usage.recorded", requestKey(work.call.slot, work.call.tier),
                                           work.call.usage)) \o rest
    BY <1>0, <2>1, <2>2, RecordUsageType
  <2>5. journal' \in Seq(JournalEvent)
    BY <1>0, <2>1, <2>3, <2>4, JournalType DEF TablesOK
  <2>6. TablesOK' /\ run'.tick = run.tick
    BY <1>0, <1>8, <2>1, <2>2, <2>5, RecordUsageType DEF recordSuccess, TablesOK
  <2>7. work' \in WorkType /\ work'.pc = "call"
    BY <1>0, <1>8, <2>1, AcceptType, WorkFacts DEF recordSuccess
  <2> QED BY <2>1, <2>6, <2>7 DEF BatchOK, IdleInv
<1>9. CASE recordFails
  <2>1. TablesOK'
    BY <1>0, <1>9 DEF recordFails, TablesOK
  <2>2. work.pc = "record" /\ work.call.slot \in Slot /\ proceed(work.call.slot, 2, "fallback", 0)
    BY <1>0, <1>9, WorkFacts DEF recordFails
  <2>3. work' \in WorkType /\ work'.pc = "call"
    BY <1>0, <2>2, ProceedType, WorkFacts DEF Tier, Outcome
  <2>4. run'.tick < MaxTick
    BY <1>0, <1>9, <2>2, WorkFacts DEF recordFails
  <2> QED BY <2>1, <2>3, <2>4 DEF BatchOK, IdleInv
<1>10. ASSUME work' = Idle PROVE BatchOK'
  <2>1. Idle \in WorkType /\ Idle.pc = "idle"
    BY ConstantFacts DEF Idle, NoCall, WorkType, Tier
  <2> QED BY <1>10, <2>1 DEF BatchOK, IdleInv
<1>11. CASE commitTick
  <2>1. target \in Day /\ run.tick < MaxTick
    BY <1>0, <1>11, WorkFacts DEF commitTick
  <2>2. \A e \in work.entries : requestKey(e.slot, e.tier) \in Key /\ e.value \in Nat
    BY <1>0, <2>1 DEF BatchOK, WorkType, requestKey, Key
  <2>3. applied' \subseteq [key : Key, value : Nat]
    BY <1>0, <1>11, <2>2 DEF commitTick, proposals, TablesOK
  <2>4. run' \in [tick : 0..MaxTick, status : {"running", "paused"}]
    <3>1. run \in [tick : 0..MaxTick, status : {"running", "paused"}] /\ run' = [run EXCEPT !.tick = run.tick + 1]
      BY <1>0, <1>11 DEF commitTick, TablesOK
    <3>2. run.tick \in 0..MaxTick /\ run.tick + 1 \in 0..MaxTick
      BY <2>1, <3>1, ConstantFacts
    <3> QED BY <3>1, <3>2
  <2>5. TablesOK'
    BY <1>0, <1>11, <2>3, <2>4 DEF commitTick, TablesOK
  <2> QED BY <1>10, <1>11, <2>5 DEF commitTick
<1>12. CASE abandon
  <2>1. TablesOK'
    BY <1>0, <1>12 DEF abandon, TablesOK
  <2> QED BY <1>10, <1>12, <2>1 DEF abandon
<1>13. CASE controlSimulation
  <2>1. run' \in [tick : 0..MaxTick, status : {"running", "paused"}]
    BY <1>0, <1>13 DEF controlSimulation, TablesOK
  <2>2. TablesOK'
    BY <1>0, <1>13, <2>1 DEF controlSimulation, TablesOK
  <2> QED BY <1>0, <1>10, <1>13, <2>2 DEF controlSimulation, BatchOK, IdleInv
<1>14. CASE setLlmEnabled
  <2>1. budget' \in [cost : Nat, warned : BOOLEAN, exhausted : BOOLEAN, autoPaused : BOOLEAN, enabled : BOOLEAN]
    BY <1>0, <1>14 DEF setLlmEnabled, TablesOK
  <2>2. controls' \in 0..MaxControls
    BY <1>0, <1>14, ConstantFacts DEF setLlmEnabled, controllable, TablesOK
  <2>3. TablesOK'
    BY <1>0, <1>14, <2>1, <2>2 DEF setLlmEnabled, TablesOK
  <2> QED BY <1>0, <1>10, <1>14, <2>3 DEF setLlmEnabled, controllable, BatchOK, IdleInv
<1>15. CASE setModuleFrozen
  <2>1. controls' \in 0..MaxControls
    BY <1>0, <1>15, ConstantFacts DEF setModuleFrozen, controllable, TablesOK
  <2>2. frozen' \subseteq Module
    BY <1>0, <1>15 DEF setModuleFrozen, TablesOK
  <2>3. TablesOK'
    BY <1>0, <1>15, <2>1, <2>2 DEF setModuleFrozen, TablesOK
  <2> QED BY <1>0, <1>10, <1>15, <2>3 DEF setModuleFrozen, controllable, BatchOK, IdleInv
<1>16. CASE setAgentQuarantine
  <2>1. controls' \in 0..MaxControls
    BY <1>0, <1>16, ConstantFacts DEF setAgentQuarantine, controllable, TablesOK
  <2>2. {-1} \cup (run.tick..MaxTick) \subseteq -1..MaxTick
    BY <1>0, ConstantFacts DEF TablesOK
  <2>3. quarantine' \in [Agent -> -1..MaxTick]
    BY <1>0, <1>16, <2>2 DEF setAgentQuarantine, TablesOK
  <2>4. TablesOK'
    BY <1>0, <1>16, <2>1, <2>3 DEF setAgentQuarantine, TablesOK
  <2> QED BY <1>0, <1>10, <1>16, <2>4 DEF setAgentQuarantine, controllable, BatchOK, IdleInv
<1>17. CASE UNCHANGED vars
  BY <1>0, <1>17 DEF vars, TablesOK, BatchOK, IdleInv
<1> QED BY <1>1, <1>2, <1>3, <1>4, <1>5, <1>6, <1>7, <1>8, <1>9, <1>11, <1>12, <1>13, <1>14, <1>15, <1>16, <1>17
        DEF Next, Calls

(* Every variable keeps its type. *)
THEOREM TypeCorrect == Spec => []TypeOK
<1>1. TypeInv => TypeOK
  BY DEF TypeInv
<1> QED BY <1>1, InitType, StepType, PTL DEF Spec

-----------------------------------------------------------------------------
(* What the moves of a batch do to its proposals. *)
LEMMA ProceedProposals ==
  ASSUME work \in WorkType, NEW i \in Slot, NEW tier \in Tier, NEW outcome \in Outcome, NEW value \in Nat,
         proceed(i, tier, outcome, value)
  PROVE  /\ work'.pc = "call"
         /\ \A e \in proposals' :
              e \in proposals \/ (outcome = "proposal" /\ e = entry(i, tier, outcome, value))
<1>1. work'.pc = "call" /\ work'.entries = work.entries \cup {entry(i, tier, outcome, value)}
  BY ProceedType
<1> QED BY <1>1 DEF proposals, entry

LEMMA AcceptProposals ==
  ASSUME work \in WorkType, NEW i \in Slot, NEW tier \in Tier, NEW value \in Nat,
         accept(i, tier, value)
  PROVE  /\ work'.pc = "call"
         /\ \A e \in proposals' : e \in proposals \/ e = entry(i, tier, "proposal", value)
<1>1. CASE proceed(i, tier, "proposal", value)
  BY <1>1, ProceedProposals DEF Outcome
<1>2. CASE proceed(i, tier, "hash_mismatch", 0)
  BY <1>2, ProceedProposals DEF Outcome
<1> QED BY <1>1, <1>2 DEF accept

(* A batch that is over has no proposals. *)
LEMMA IdleProposals == work = Idle => work.pc = "idle" /\ proposals = {}
BY DEF Idle, proposals

(* The charge of an answer. *)
LEMMA ChargeFacts ==
  ASSUME TypeOK, work.pc = "record", recordUsage(calledKey, work.call.usage)
  PROVE  /\ budget'.cost = budget.cost + work.call.usage.cost
         /\ budget'.enabled = budget.enabled
         /\ target' = target
         /\ daily' = [daily EXCEPT ![Schedule[work.call.slot].agent][target] =
                        chargeDay(daily[Schedule[work.call.slot].agent][target],
                                  daily[Schedule[work.call.slot].agent][target].tokens + work.call.usage.tokens)]
<1>1. calledKey[1] = work.call.slot
  BY DEF calledKey, requestKey
<1>2. run \in [tick : 0..MaxTick, status : {"running", "paused"}]
  BY DEF TypeOK
<1> QED BY <1>1, <1>2 DEF recordUsage, chargeBudget, target

-----------------------------------------------------------------------------
(* The budget: what is in flight was asked for below the ceilings, so a charge
   exceeds them by less than one answer. *)
BudgetInv == OverspendBounded /\ InFlightWithinBudget

LEMMA InitBudget == Init => BudgetInv
BY ConstantFacts DEF Init, BudgetInv, OverspendBounded, InFlightWithinBudget, Idle, NoUsage

LEMMA StepBudget == TypeInv /\ BudgetInv /\ [Next]_vars => BudgetInv'
<1> SUFFICES ASSUME TypeInv, BudgetInv, [Next]_vars PROVE BudgetInv'
  OBVIOUS
<1> USE DEF policy, spend, history
<1>0. TypeOK /\ TablesOK /\ BatchOK
  BY TypeParts DEF TypeInv
<1>1. ASSUME budget'.cost = budget.cost, daily' = daily, work'.pc \notin {"await", "record"}
      PROVE  BudgetInv'
  BY <1>1 DEF BudgetInv, OverspendBounded, InFlightWithinBudget
<1>2. ASSUME work' = Idle, budget'.cost = budget.cost, daily' = daily PROVE BudgetInv'
  BY <1>1, <1>2 DEF Idle
<1>3. ASSUME work.pc = "idle", work' = work, budget'.cost = budget.cost, daily' = daily PROVE BudgetInv'
  BY <1>1, <1>3
<1>4. CASE prepare
  BY <1>1, <1>4 DEF prepare, Idle
<1>5. CASE skip
  <2>1. work'.pc = "call"
    BY <1>0, <1>5 DEF skip, turn, BatchOK, WorkType
  <2> QED BY <1>1, <1>5, <2>1 DEF skip
<1>6. CASE block
  <2>1. PICK i \in work.todo : proceed(i, 2, "fallback", 0)
    BY <1>6 DEF block
  <2>2. work'.pc = "call"
    BY <1>0, <2>1, ProceedType, WorkFacts DEF Tier, Outcome
  <2> QED BY <1>1, <1>6, <2>2 DEF block
<1>7. CASE hit
  <2>1. PICK i \in work.todo, r \in cache : accept(i, effectiveTier(Schedule[i]), r.value)
    BY <1>7 DEF hit, cached
  <2>2. i \in Slot /\ r.value \in Nat /\ effectiveTier(Schedule[i]) \in Tier
    BY <1>0, <2>1, WorkFacts, EffectiveTierType DEF TablesOK
  <2>3. work'.pc = "call"
    BY <1>0, <2>1, <2>2, AcceptType, WorkFacts
  <2> QED BY <1>1, <1>7, <2>3 DEF hit
<1>8. CASE miss
  <2> DEFINE s(i) == Schedule[i]
  <2>1. PICK i \in work.todo :
          /\ work.pc = "call" /\ ~isBlocked(s(i))
          /\ work' = [work EXCEPT !.pc = "await", !.call = asking(i, effectiveTier(s(i)))]
    BY <1>8 DEF miss, authorized, turn
  <2>2. work'.call.slot = i /\ work'.call.tier = effectiveTier(s(i))
    BY <1>0, <2>1 DEF asking, BatchOK, WorkType
  <2>3. UNCHANGED <<run, budget, daily>> /\ target' = target
    BY <1>8 DEF miss, target
  <2>4. i \in Slot /\ s(i) \in [agent : Agent, module : Module, tier : Tier, after : Nat] /\ target \in Day
    BY <1>0, <2>1, WorkFacts, ConstantFacts
  <2>5. budget.cost \in Nat /\ daily[s(i).agent][target].tokens \in Nat
    BY <1>0, <2>4 DEF TablesOK
  <2> HIDE DEF s
  <2>6. budget.cost < Ceiling /\ daily[s(i).agent][target].tokens < Allowance
    BY <2>1, <2>5, ConstantFacts DEF isBlocked, reached
  <2>7. effectiveTier(s(i)) = 3 => ~reached(budget.cost, Ceiling, 80)
                                   /\ ~reached(daily[s(i).agent][target].tokens, Allowance, 80)
    BY DEF effectiveTier, isDegraded
  <2>8. InFlightWithinBudget'
    BY <2>2, <2>3, <2>6, <2>7 DEF InFlightWithinBudget, reached, s
  <2> QED BY <2>3, <2>8 DEF BudgetInv, OverspendBounded
<1>9. CASE answer
  <2>1. PICK u \in Usages : work' = [work EXCEPT !.pc = "record", !.call.value = answers + 1, !.call.usage = u]
    BY <1>9 DEF answer, store
  <2>2. work.call \in Call
    BY <1>0, WorkFacts
  <2>3. work'.call.slot = work.call.slot /\ work'.call.tier = work.call.tier /\ work'.pc = "record"
    BY <1>0, <2>1, <2>2 DEF BatchOK, WorkType, Call
  <2>4. UNCHANGED <<run, budget, daily>> /\ target' = target /\ work.pc = "await"
    BY <1>9 DEF answer, target
  <2>5. InFlightWithinBudget'
    BY <2>3, <2>4 DEF BudgetInv, InFlightWithinBudget, reached
  <2> QED BY <2>4, <2>5 DEF BudgetInv, OverspendBounded
<1>10. CASE providerFails
  <2>1. work'.pc = "call"
    BY <1>0, <1>10, ProceedType, WorkFacts DEF providerFails, Tier, Outcome
  <2> QED BY <1>1, <1>10, <2>1 DEF providerFails
<1>11. CASE recordSuccess
  <2> DEFINE a == Schedule[work.call.slot].agent
             u == work.call.usage
             row == chargeDay(daily[a][target], daily[a][target].tokens + u.tokens)
  <2>1. /\ work.call.slot \in Slot /\ work.call.tier \in Tier /\ work.call.value \in Nat
        /\ u \in UsageRange /\ target \in Day /\ work.pc = "record"
    BY <1>0, <1>11, WorkFacts DEF recordSuccess, Call
  <2>2. work'.pc = "call"
    BY <1>0, <1>11, <2>1, AcceptType, WorkFacts DEF recordSuccess
  <2>3. budget'.cost = budget.cost + u.cost /\ daily' = [daily EXCEPT ![a][target] = row]
    BY <1>0, <1>11, <2>1, ChargeFacts DEF recordSuccess
  <2>4. /\ budget.cost \in Nat /\ a \in Agent /\ daily[a][target].tokens \in Nat
        /\ u.cost \in 0..MaxCost /\ u.tokens \in 0..MaxTokens
    <3>1. a \in Agent
      BY <2>1, ConstantFacts
    <3>2. u.cost \in 0..MaxCost /\ u.tokens \in 0..MaxTokens
      BY <2>1 DEF UsageRange
    <3>3. budget.cost \in Nat
      BY <1>0 DEF TablesOK
    <3> HIDE DEF a
    <3>4. daily[a][target].tokens \in Nat
      BY <1>0, <2>1, <3>1 DEF TablesOK
    <3> QED BY <3>1, <3>2, <3>3, <3>4
  <2>5. budget.cost < Ceiling /\ daily[a][target].tokens < Allowance
    BY <2>1 DEF BudgetInv, InFlightWithinBudget
  <2>6. row.tokens = daily[a][target].tokens + u.tokens
    BY DEF chargeDay
  <2>7. daily \in [Agent -> [Day -> [tokens : Nat, warned : BOOLEAN, exhausted : BOOLEAN]]]
    BY <1>0 DEF TablesOK
  <2> HIDE DEF a, u, row
  <2>8. budget'.cost < Ceiling + MaxCost
    BY <2>3, <2>4, <2>5, ConstantFacts
  <2>9. row.tokens < Allowance + MaxTokens
    BY <2>4, <2>5, <2>6, ConstantFacts
  <2>10. ASSUME NEW b \in Agent, NEW d \in Day PROVE daily'[b][d].tokens < Allowance + MaxTokens
    <3>1. CASE b = a /\ d = target
      BY <2>1, <2>3, <2>4, <2>7, <2>9, <3>1
    <3>2. CASE ~(b = a /\ d = target)
      <4>1. daily'[b][d] = daily[b][d]
        BY <2>1, <2>3, <2>4, <2>7, <3>2
      <4> QED BY <4>1 DEF BudgetInv, OverspendBounded
    <3> QED BY <3>1, <3>2
  <2> QED BY <2>2, <2>8, <2>10 DEF BudgetInv, OverspendBounded, InFlightWithinBudget
<1>12. CASE recordFails
  <2>1. work'.pc = "call"
    BY <1>0, <1>12, ProceedType, WorkFacts DEF recordFails, Tier, Outcome
  <2> QED BY <1>1, <1>12, <2>1 DEF recordFails
<1>13. CASE commitTick
  BY <1>2, <1>13 DEF commitTick
<1>14. CASE abandon
  BY <1>2, <1>14 DEF abandon
<1>15. CASE controlSimulation
  BY <1>3, <1>15 DEF controlSimulation
<1>16. CASE setLlmEnabled
  <2>1. budget'.cost = budget.cost
    BY <1>0, <1>16 DEF setLlmEnabled, TablesOK
  <2> QED BY <1>3, <1>16, <2>1 DEF setLlmEnabled, controllable
<1>17. CASE setModuleFrozen
  BY <1>3, <1>17 DEF setModuleFrozen, controllable
<1>18. CASE setAgentQuarantine
  BY <1>3, <1>18 DEF setAgentQuarantine, controllable
<1>19. CASE UNCHANGED vars
  BY <1>19 DEF vars, BudgetInv, OverspendBounded, InFlightWithinBudget, target, reached
<1> QED BY <1>4, <1>5, <1>6, <1>7, <1>8, <1>9, <1>10, <1>11, <1>12, <1>13, <1>14, <1>15, <1>16, <1>17, <1>18, <1>19
        DEF Next, Calls

(* Whatever was retried, crashed or resumed, the ceiling and the allowance are
   overrun by less than one answer. *)
THEOREM OverspendBoundedHolds == Spec => []OverspendBounded
<1>1. BudgetInv => OverspendBounded
  BY DEF BudgetInv
<1> QED BY <1>1, InitType, StepType, InitBudget, StepBudget, PTL DEF Spec

(* The answer that is awaited or about to be charged was asked for within the
   budget as it still is. *)
THEOREM InFlightWithinBudgetHolds == Spec => []InFlightWithinBudget
<1>1. BudgetInv => InFlightWithinBudget
  BY DEF BudgetInv
<1> QED BY <1>1, InitType, StepType, InitBudget, StepBudget, PTL DEF Spec

(* The budget is kept: no call begins beyond a ceiling or an allowance, and
   none is overrun by more than one answer. *)
THEOREM BudgetKeptHolds == Spec => []BudgetKept
BY OverspendBoundedHolds, InFlightWithinBudgetHolds, PTL DEF BudgetKept

-----------------------------------------------------------------------------
(* The switches cannot be thrown under a batch. *)
LEMMA InitSwitches == Init => SwitchesHold
BY DEF Init, SwitchesHold, Idle, proposals

LEMMA StepSwitches == TypeInv /\ SwitchesHold /\ [Next]_vars => SwitchesHold'
<1> SUFFICES ASSUME TypeInv, SwitchesHold, [Next]_vars PROVE SwitchesHold'
  OBVIOUS
<1> USE DEF policy, spend, history
<1>0. TypeOK /\ TablesOK /\ BatchOK
  BY TypeParts DEF TypeInv
<1>1. ASSUME work'.pc \notin {"await", "record"}, proposals' = {} PROVE SwitchesHold'
  BY <1>1 DEF SwitchesHold
<1>2. ASSUME work' = Idle PROVE SwitchesHold'
  BY <1>1, <1>2 DEF Idle, proposals
<1>3. ASSUME work.pc = "idle", work' = work PROVE SwitchesHold'
  BY <1>0, <1>2, <1>3 DEF BatchOK, IdleInv
<1>4. ASSUME target' = target, budget'.enabled = budget.enabled, UNCHANGED <<frozen, quarantine>>
      PROVE  \A s : switchedOff(s)' = switchedOff(s)
  BY <1>4 DEF switchedOff
<1>5. ASSUME target' = target, budget'.enabled = budget.enabled, UNCHANGED <<frozen, quarantine>>,
             work'.pc = "call",
             NEW i \in Slot, ~switchedOff(Schedule[i]),
             \A e \in proposals' : e \in proposals \/ e.slot = i
      PROVE  SwitchesHold'
  <2>1. \A e \in proposals' : ~switchedOff(Schedule[e.slot])
    BY <1>5 DEF SwitchesHold
  <2> QED BY <1>4, <1>5, <2>1 DEF SwitchesHold, switchedOff
<1>6. ASSUME target' = target, budget'.enabled = budget.enabled, UNCHANGED <<frozen, quarantine>>,
             proposals' \subseteq proposals,
             work'.pc \in {"await", "record"} => ~switchedOff(Schedule[work'.call.slot])
      PROVE  SwitchesHold'
  BY <1>4, <1>6 DEF SwitchesHold, switchedOff
<1>7. ASSUME NEW s, ~isBlocked(s) PROVE ~switchedOff(s)
  BY <1>7 DEF isBlocked, switchedOff
<1>8. CASE prepare
  <2>1. proposals' = {} /\ work'.pc = "call"
    BY <1>8 DEF prepare, Idle, proposals
  <2> QED BY <1>1, <2>1
<1>9. CASE skip
  <2>1. work'.pc = "call" /\ work'.entries = work.entries
    BY <1>0, <1>9 DEF skip, turn, BatchOK, WorkType
  <2> QED BY <1>6, <1>9, <2>1 DEF skip, target, proposals
<1>10. CASE block
  <2>1. PICK i \in work.todo : proceed(i, 2, "fallback", 0)
    BY <1>10 DEF block
  <2>2. work'.pc = "call" /\ proposals' \subseteq proposals
    BY <1>0, <2>1, ProceedProposals, WorkFacts DEF Tier, Outcome
  <2> QED BY <1>6, <1>10, <2>2 DEF block, target
<1>11. CASE hit
  <2>1. PICK i \in work.todo, r \in cache : ~isBlocked(Schedule[i]) /\ accept(i, effectiveTier(Schedule[i]), r.value)
    BY <1>11 DEF hit, cached, authorized
  <2>2. i \in Slot /\ r.value \in Nat /\ effectiveTier(Schedule[i]) \in Tier
    BY <1>0, <2>1, WorkFacts, EffectiveTierType DEF TablesOK
  <2>3. work'.pc = "call" /\ \A e \in proposals' : e \in proposals \/ e.slot = i
    BY <1>0, <2>1, <2>2, AcceptProposals, WorkFacts DEF entry
  <2>4. ~switchedOff(Schedule[i])
    BY <1>7, <2>1
  <2> QED BY <1>5, <1>11, <2>2, <2>3, <2>4 DEF hit, target
<1>12. CASE miss
  <2>1. PICK i \in work.todo :
          /\ ~isBlocked(Schedule[i])
          /\ work' = [work EXCEPT !.pc = "await", !.call = asking(i, effectiveTier(Schedule[i]))]
    BY <1>12 DEF miss, authorized
  <2>2. work'.call.slot = i /\ work'.entries = work.entries
    BY <1>0, <2>1 DEF asking, BatchOK, WorkType
  <2>3. ~switchedOff(Schedule[work'.call.slot])
    BY <1>7, <2>1, <2>2
  <2> QED BY <1>6, <1>12, <2>2, <2>3 DEF miss, target, proposals
<1>13. CASE answer
  <2>1. PICK u \in Usages : work' = [work EXCEPT !.pc = "record", !.call.value = answers + 1, !.call.usage = u]
    BY <1>13 DEF answer, store
  <2>2. work'.call.slot = work.call.slot /\ work'.entries = work.entries /\ work.pc = "await"
    BY <1>0, <1>13, <2>1, WorkFacts DEF answer, BatchOK, WorkType, Call
  <2>3. ~switchedOff(Schedule[work'.call.slot])
    BY <2>2 DEF SwitchesHold
  <2> QED BY <1>6, <1>13, <2>2, <2>3 DEF answer, target, proposals
<1>14. CASE providerFails
  <2>1. work'.pc = "call" /\ proposals' \subseteq proposals
    BY <1>0, <1>14, ProceedProposals, WorkFacts DEF providerFails, Tier, Outcome
  <2> QED BY <1>6, <1>14, <2>1 DEF providerFails, target
<1>15. CASE recordSuccess
  <2>1. work.call.slot \in Slot /\ work.call.tier \in Tier /\ work.call.value \in Nat /\ work.pc = "record"
    BY <1>0, <1>15, WorkFacts DEF recordSuccess, Call
  <2>2. work'.pc = "call" /\ \A e \in proposals' : e \in proposals \/ e.slot = work.call.slot
    BY <1>0, <1>15, <2>1, AcceptProposals, WorkFacts DEF recordSuccess, entry
  <2>3. target' = target /\ budget'.enabled = budget.enabled
    BY <1>0, <1>15, <2>1, ChargeFacts DEF recordSuccess
  <2>4. ~switchedOff(Schedule[work.call.slot])
    BY <2>1 DEF SwitchesHold
  <2> QED BY <1>5, <1>15, <2>1, <2>2, <2>3, <2>4 DEF recordSuccess
<1>16. CASE recordFails
  <2>1. work'.pc = "call" /\ proposals' \subseteq proposals
    BY <1>0, <1>16, ProceedProposals, WorkFacts DEF recordFails, Tier, Outcome
  <2> QED BY <1>6, <1>16, <2>1 DEF recordFails, target
<1>17. CASE UNCHANGED vars
  BY <1>17 DEF vars, SwitchesHold, switchedOff, target, proposals
<1> QED BY <1>2, <1>3, <1>8, <1>9, <1>10, <1>11, <1>12, <1>13, <1>14, <1>15, <1>16, <1>17
        DEF Next, Calls, commitTick, abandon, controlSimulation, setLlmEnabled, setModuleFrozen,
            setAgentQuarantine, controllable

(* What is being asked, and every proposal waiting for its tick, is allowed by
   the switches as they are now. *)
THEOREM SwitchesHoldAlways == Spec => []SwitchesHold
BY InitType, StepType, InitSwitches, StepSwitches, PTL DEF Spec

-----------------------------------------------------------------------------
(* The cache: a key is written once, by the call that found it free, and every
   proposal of the batch is the answer its key has. *)
CacheInv ==
  /\ AppliedIsCached
  /\ \A e \in proposals : [key |-> requestKey(e.slot, e.tier), value |-> e.value] \in cache
  /\ work.pc = "await" => \A r \in cache : r.key # calledKey
  /\ work.pc = "record" => [key |-> calledKey, value |-> work.call.value] \in cache

LEMMA InitCache == Init => CacheInv
BY DEF Init, CacheInv, AppliedIsCached, Idle, proposals

LEMMA StepCache == TypeInv /\ CacheInv /\ [Next]_vars => CacheInv'
<1> SUFFICES ASSUME TypeInv, CacheInv, [Next]_vars PROVE CacheInv'
  OBVIOUS
<1> USE DEF policy, spend, history
<1>0. TypeOK /\ TablesOK /\ BatchOK
  BY TypeParts DEF TypeInv
<1>1. ASSUME cache' = cache, applied' = applied, work'.pc \notin {"await", "record"}, proposals' = {}
      PROVE  CacheInv'
  BY <1>1 DEF CacheInv, AppliedIsCached
<1>2. ASSUME cache' = cache, applied' = applied, work' = Idle PROVE CacheInv'
  BY <1>1, <1>2 DEF Idle, proposals
<1>3. ASSUME cache' = cache, applied' = applied, work.pc = "idle", work' = work PROVE CacheInv'
  BY <1>0, <1>2, <1>3 DEF BatchOK, IdleInv
<1>4. ASSUME target' = target, cache' = cache, applied' = applied, work'.pc = "call",
             \A e \in proposals' : e \in proposals \/ [key |-> requestKey(e.slot, e.tier), value |-> e.value] \in cache
      PROVE  CacheInv'
  <2>1. \A e \in proposals' : [key |-> requestKey(e.slot, e.tier), value |-> e.value] \in cache
    BY <1>4 DEF CacheInv
  <2> QED BY <1>4, <2>1 DEF CacheInv, AppliedIsCached, requestKey
<1>5. ASSUME NEW i \in Slot, NEW tier \in Tier, NEW value, NEW e, e = entry(i, tier, "proposal", value)
      PROVE  e.slot = i /\ e.tier = tier /\ e.value = value
  BY <1>5 DEF entry
<1>6. CASE prepare
  <2>1. proposals' = {} /\ work'.pc = "call"
    BY <1>6 DEF prepare, Idle, proposals
  <2> QED BY <1>1, <1>6, <2>1 DEF prepare
<1>7. CASE skip
  <2>1. work'.pc = "call" /\ work'.entries = work.entries
    BY <1>0, <1>7 DEF skip, turn, BatchOK, WorkType
  <2> QED BY <1>4, <1>7, <2>1 DEF skip, target, proposals
<1>8. CASE block
  <2>1. PICK i \in work.todo : proceed(i, 2, "fallback", 0)
    BY <1>8 DEF block
  <2>2. work'.pc = "call" /\ proposals' \subseteq proposals
    BY <1>0, <2>1, ProceedProposals, WorkFacts DEF Tier, Outcome
  <2> QED BY <1>4, <1>8, <2>2 DEF block, target
<1>9. CASE hit
  <2> DEFINE tier(i) == effectiveTier(Schedule[i])
  <2>1. PICK i \in work.todo : \E r \in cached(requestKey(i, tier(i))) : accept(i, tier(i), r.value)
    BY <1>9 DEF hit
  <2>2. PICK r \in cache : r.key = requestKey(i, tier(i)) /\ accept(i, tier(i), r.value)
    BY <2>1 DEF cached
  <2>3. i \in Slot /\ r.value \in Nat /\ tier(i) \in Tier
    BY <1>0, <2>1, <2>2, WorkFacts, EffectiveTierType DEF TablesOK
  <2>4. r = [key |-> requestKey(i, tier(i)), value |-> r.value]
    BY <1>0, <2>2 DEF TablesOK
  <2> HIDE DEF tier
  <2>5. work'.pc = "call" /\ \A e \in proposals' : e \in proposals \/ e = entry(i, tier(i), "proposal", r.value)
    BY <1>0, <2>2, <2>3, AcceptProposals, WorkFacts
  <2>6. \A e \in proposals' : e \in proposals \/ [key |-> requestKey(e.slot, e.tier), value |-> e.value] \in cache
    BY <1>5, <2>3, <2>4, <2>5
  <2> QED BY <1>4, <1>9, <2>5, <2>6 DEF hit, target
<1>10. CASE miss
  <2> DEFINE tier(i) == effectiveTier(Schedule[i])
  <2>1. PICK i \in work.todo : /\ cached(requestKey(i, tier(i))) = {}
                               /\ work' = [work EXCEPT !.pc = "await", !.call = asking(i, tier(i))]
    BY <1>10 DEF miss
  <2>2. work'.call = asking(i, tier(i)) /\ work'.entries = work.entries /\ work'.pc = "await"
    BY <1>0, <2>1 DEF BatchOK, WorkType
  <2>3. UNCHANGED <<cache, applied>> /\ target' = target
    BY <1>10 DEF miss, target
  <2>4. calledKey' = requestKey(i, tier(i))
    BY <2>2, <2>3 DEF calledKey, requestKey, asking
  <2>5. proposals' = proposals
    BY <2>2 DEF proposals
  <2>6. \A r \in cache' : r.key # calledKey'
    BY <2>1, <2>3, <2>4 DEF cached
  <2>7. \A e \in proposals' : [key |-> requestKey(e.slot, e.tier)', value |-> e.value] \in cache'
    BY <2>3, <2>5 DEF CacheInv, requestKey
  <2>8. AppliedIsCached'
    BY <2>3 DEF CacheInv, AppliedIsCached
  <2> QED BY <2>2, <2>6, <2>7, <2>8 DEF CacheInv
<1>11. CASE answer
  <2>1. PICK u \in Usages : store(u)
    BY <1>11 DEF answer
  <2>2. work' = [work EXCEPT !.pc = "record", !.call.value = answers + 1, !.call.usage = u]
    BY <2>1 DEF store
  <2>3. /\ work'.call.slot = work.call.slot /\ work'.call.tier = work.call.tier
        /\ work'.call.value = answers + 1 /\ work'.entries = work.entries /\ work'.pc = "record"
    BY <1>0, <2>2, WorkFacts DEF BatchOK, WorkType, Call
  <2>4. UNCHANGED applied /\ target' = target /\ work.pc = "await"
    BY <1>11 DEF answer, target
  <2>5. calledKey' = calledKey /\ proposals' = proposals
    BY <2>3, <2>4 DEF calledKey, requestKey, proposals
  <2>6. cache' = cache \cup {[key |-> calledKey, value |-> answers + 1]}
    BY <2>1 DEF store
  <2>7. [key |-> calledKey', value |-> work'.call.value] \in cache'
    BY <2>3, <2>5, <2>6
  <2>8. \A e \in proposals' : [key |-> requestKey(e.slot, e.tier)', value |-> e.value] \in cache'
    BY <2>4, <2>5, <2>6 DEF CacheInv, requestKey
  <2>9. applied' \subseteq cache'
    BY <2>4, <2>6 DEF CacheInv, AppliedIsCached
  <2>10. \A r, s \in cache' : r.key = s.key => r = s
    BY <2>4, <2>6 DEF CacheInv, AppliedIsCached
  <2> QED BY <2>3, <2>7, <2>8, <2>9, <2>10 DEF CacheInv, AppliedIsCached
<1>12. CASE providerFails
  <2>1. work'.pc = "call" /\ proposals' \subseteq proposals
    BY <1>0, <1>12, ProceedProposals, WorkFacts DEF providerFails, Tier, Outcome
  <2> QED BY <1>4, <1>12, <2>1 DEF providerFails, target
<1>13. CASE recordSuccess
  <2>1. work.call.slot \in Slot /\ work.call.tier \in Tier /\ work.call.value \in Nat /\ work.pc = "record"
    BY <1>0, <1>13, WorkFacts DEF recordSuccess, Call
  <2>2. work'.pc = "call" /\ \A e \in proposals' :
          e \in proposals \/ e = entry(work.call.slot, work.call.tier, "proposal", work.call.value)
    BY <1>0, <1>13, <2>1, AcceptProposals, WorkFacts DEF recordSuccess
  <2>3. [key |-> requestKey(work.call.slot, work.call.tier), value |-> work.call.value] \in cache
    BY <2>1 DEF CacheInv, calledKey
  <2>4. \A e \in proposals' : e \in proposals \/ [key |-> requestKey(e.slot, e.tier), value |-> e.value] \in cache
    BY <1>5, <2>1, <2>2, <2>3
  <2>5. target' = target
    BY <1>0, <1>13, <2>1, ChargeFacts DEF recordSuccess
  <2> QED BY <1>4, <1>13, <2>2, <2>4, <2>5 DEF recordSuccess
<1>14. CASE recordFails
  <2>1. work'.pc = "call" /\ proposals' \subseteq proposals
    BY <1>0, <1>14, ProceedProposals, WorkFacts DEF recordFails, Tier, Outcome
  <2> QED BY <1>4, <1>14, <2>1 DEF recordFails, target
<1>15. CASE commitTick
  <2>1. applied' \subseteq cache' /\ cache' = cache
    BY <1>15 DEF commitTick, CacheInv, AppliedIsCached
  <2>2. work' = Idle
    BY <1>15 DEF commitTick
  <2>3. AppliedIsCached'
    BY <2>1 DEF CacheInv, AppliedIsCached
  <2> QED BY <2>2, <2>3 DEF CacheInv, Idle, proposals
<1>16. CASE UNCHANGED vars
  BY <1>16 DEF vars, CacheInv, AppliedIsCached, calledKey, requestKey, target, proposals
<1> QED BY <1>2, <1>3, <1>6, <1>7, <1>8, <1>9, <1>10, <1>11, <1>12, <1>13, <1>14, <1>15, <1>16
        DEF Next, Calls, abandon, controlSimulation, setLlmEnabled, setModuleFrozen,
            setAgentQuarantine, controllable

(* What a tick applied can be found again, and a request has one answer. *)
THEOREM AppliedIsCachedHolds == Spec => []AppliedIsCached
<1>1. CacheInv => AppliedIsCached
  BY DEF CacheInv
<1> QED BY <1>1, InitType, StepType, InitCache, StepCache, PTL DEF Spec

-----------------------------------------------------------------------------
(* The charges: whatever was charged is in the cache, so a request that finds
   no answer there, and only that one, is new to the journal. *)
Charge == "llm.usage.recorded"

ChargeInv ==
  /\ ChargedOnce
  /\ \A n \in ofType(Charge) : \E r \in cache : r.key = journal[n].key
  /\ work.pc = "record" => \A n \in ofType(Charge) : journal[n].key # calledKey

LEMMA InitCharge == Init => ChargeInv
BY DEF Init, ChargeInv, ChargedOnce, ofType, Idle

(* One charge more, at the end of what was there. *)
LEMMA AppendCharge ==
  ASSUME journal \in Seq(JournalEvent), NEW key \in Key, NEW u \in UsageRange, NEW rest \in Seq(Notice),
         journal' = Append(journal, event(Charge, key, u)) \o rest
  PROVE  \A n \in ofType(Charge)' :
           \/ n \in ofType(Charge) /\ journal'[n] = journal[n]
           \/ n = Len(journal) + 1 /\ journal'[n].key = key
<1> DEFINE j == Append(journal, event(Charge, key, u))
<1>0. event(Charge, key, u) \in JournalEvent
  BY DEF event, JournalEvent, EventType, Charge
<1>1. /\ Len(journal) \in Nat /\ Len(rest) \in Nat /\ j \in Seq(JournalEvent)
      /\ Len(j) = Len(journal) + 1 /\ j[Len(journal) + 1] = event(Charge, key, u)
      /\ \A n \in 1..Len(journal) : j[n] = journal[n]
  BY <1>0
<1>2. rest \in Seq(JournalEvent)
  BY NoticeIsEvent
<1> HIDE DEF j
<1>3. /\ DOMAIN journal' = 1..(Len(j) + Len(rest))
      /\ \A n \in 1..(Len(j) + Len(rest)) : journal'[n] = IF n <= Len(j) THEN j[n] ELSE rest[n - Len(j)]
  BY <1>1, <1>2 DEF j
<1>4. TAKE n \in ofType(Charge)'
<1>5. n \in 1..(Len(j) + Len(rest)) /\ journal'[n].type = Charge
  BY <1>3 DEF ofType
<1>6. CASE n <= Len(journal)
  <2>1. n \in DOMAIN journal /\ journal'[n] = journal[n]
    BY <1>1, <1>3, <1>5, <1>6
  <2> QED BY <1>5, <2>1 DEF ofType
<1>7. CASE n = Len(journal) + 1
  BY <1>1, <1>3, <1>5, <1>7 DEF event
<1>8. CASE n > Len(journal) + 1
  <2>1. n - Len(j) \in 1..Len(rest) /\ journal'[n] = rest[n - Len(j)]
    BY <1>1, <1>3, <1>5, <1>8
  <2>2. rest[n - Len(j)] \in Notice
    BY <2>1
  <2> QED BY <1>5, <2>1, <2>2 DEF Notice, NoticeType, Charge
<1> QED BY <1>1, <1>5, <1>6, <1>7, <1>8

LEMMA StepCharge == TypeInv /\ CacheInv /\ ChargeInv /\ [Next]_vars => ChargeInv'
<1> SUFFICES ASSUME TypeInv, CacheInv, ChargeInv, [Next]_vars PROVE ChargeInv'
  OBVIOUS
<1> USE DEF policy, spend, history
<1>0. TypeOK /\ TablesOK /\ BatchOK
  BY TypeParts DEF TypeInv
<1>1. ASSUME journal' = journal, cache \subseteq cache', work'.pc # "record" PROVE ChargeInv'
  BY <1>1 DEF ChargeInv, ChargedOnce, ofType
<1>2. ASSUME journal' = journal, cache \subseteq cache', work' = Idle PROVE ChargeInv'
  BY <1>1, <1>2 DEF Idle
<1>3. ASSUME journal' = journal, cache \subseteq cache', work.pc = "idle", work' = work PROVE ChargeInv'
  BY <1>1, <1>3
<1>4. CASE prepare
  BY <1>1, <1>4 DEF prepare, Idle
<1>5. CASE skip
  <2>1. work'.pc = "call"
    BY <1>0, <1>5 DEF skip, turn, BatchOK, WorkType
  <2> QED BY <1>1, <1>5, <2>1 DEF skip
<1>6. CASE block
  <2>1. PICK i \in work.todo : proceed(i, 2, "fallback", 0)
    BY <1>6 DEF block
  <2>2. work'.pc = "call"
    BY <1>0, <2>1, ProceedType, WorkFacts DEF Tier, Outcome
  <2> QED BY <1>1, <1>6, <2>2 DEF block
<1>7. CASE hit
  <2>1. PICK i \in work.todo, r \in cache : accept(i, effectiveTier(Schedule[i]), r.value)
    BY <1>7 DEF hit, cached
  <2>2. i \in Slot /\ r.value \in Nat /\ effectiveTier(Schedule[i]) \in Tier
    BY <1>0, <2>1, WorkFacts, EffectiveTierType DEF TablesOK
  <2>3. work'.pc = "call"
    BY <1>0, <2>1, <2>2, AcceptType, WorkFacts
  <2> QED BY <1>1, <1>7, <2>3 DEF hit
<1>8. CASE miss
  <2>1. PICK i \in work.todo : work' = [work EXCEPT !.pc = "await", !.call = asking(i, effectiveTier(Schedule[i]))]
    BY <1>8 DEF miss
  <2>2. work'.pc = "await"
    BY <1>0, <2>1 DEF BatchOK, WorkType
  <2> QED BY <1>1, <1>8, <2>2 DEF miss
<1>9. CASE answer
  <2>1. PICK u \in Usages : store(u)
    BY <1>9 DEF answer
  <2>2. work' = [work EXCEPT !.pc = "record", !.call.value = answers + 1, !.call.usage = u]
    BY <2>1 DEF store
  <2>3. work'.call.slot = work.call.slot /\ work'.call.tier = work.call.tier
    BY <1>0, <2>2, WorkFacts DEF BatchOK, WorkType, Call
  <2>4. UNCHANGED <<journal, run>> /\ work.pc = "await" /\ cache \subseteq cache'
    BY <1>9, <2>1 DEF answer, store
  <2>5. calledKey' = calledKey
    BY <2>3, <2>4 DEF calledKey, requestKey, target
  <2>6. \A n \in ofType(Charge) : journal[n].key # calledKey
    BY <2>4 DEF CacheInv, ChargeInv
  <2> QED BY <2>4, <2>5, <2>6 DEF ChargeInv, ChargedOnce, ofType
<1>10. CASE providerFails
  <2>1. work'.pc = "call"
    BY <1>0, <1>10, ProceedType, WorkFacts DEF providerFails, Tier, Outcome
  <2> QED BY <1>1, <1>10, <2>1 DEF providerFails
<1>11. CASE recordSuccess
  <2>1. /\ work.pc = "record" /\ work.call.slot \in Slot /\ work.call.tier \in Tier
        /\ work.call.value \in Nat /\ work.call.usage \in UsageRange /\ run.tick < MaxTick /\ target \in Day
    BY <1>0, <1>11, WorkFacts DEF recordSuccess, Call
  <2>2. calledKey \in Key
    BY <2>1 DEF calledKey, requestKey, Key
  <2>3. PICK rest \in Seq(Notice) : journal' = Append(journal, event(Charge, calledKey, work.call.usage)) \o rest
    BY <1>0, <1>11, <2>1, RecordUsageType DEF recordSuccess, calledKey, Charge
  <2>4. \A n \in ofType(Charge)' :
           \/ n \in ofType(Charge) /\ journal'[n] = journal[n]
           \/ n = Len(journal) + 1 /\ journal'[n].key = calledKey
    BY <1>0, <2>1, <2>2, <2>3, AppendCharge DEF TablesOK
  <2>5. work'.pc = "call" /\ cache' = cache
    BY <1>0, <1>11, <2>1, AcceptType, WorkFacts DEF recordSuccess
  <2>6. \A n \in ofType(Charge) : journal[n].key # calledKey
    BY <2>1 DEF ChargeInv
  <2>7. [key |-> calledKey, value |-> work.call.value] \in cache
    BY <2>1 DEF CacheInv
  <2>8. \A n \in ofType(Charge)' : \E r \in cache : r.key = journal'[n].key
    BY <2>4, <2>7 DEF ChargeInv
  <2>9. ASSUME NEW k \in ofType(Charge)', NEW n \in ofType(Charge)', journal'[k].key = journal'[n].key
        PROVE  k = n
    BY <2>4, <2>6, <2>9 DEF ChargeInv, ChargedOnce, Charge
  <2>10. ChargedOnce'
    BY <2>9 DEF ChargedOnce, Charge
  <2> QED BY <2>5, <2>8, <2>10 DEF ChargeInv
<1>12. CASE recordFails
  <2>1. work'.pc = "call"
    BY <1>0, <1>12, ProceedType, WorkFacts DEF recordFails, Tier, Outcome
  <2> QED BY <1>1, <1>12, <2>1 DEF recordFails
<1>13. CASE commitTick
  BY <1>2, <1>13 DEF commitTick
<1>14. CASE UNCHANGED vars
  BY <1>14 DEF vars, ChargeInv, ChargedOnce, ofType, calledKey, requestKey, target
<1> QED BY <1>2, <1>3, <1>4, <1>5, <1>6, <1>7, <1>8, <1>9, <1>10, <1>11, <1>12, <1>13, <1>14
        DEF Next, Calls, abandon, controlSimulation, setLlmEnabled, setModuleFrozen,
            setAgentQuarantine, controllable

(* A request is charged once, however often its tick is prepared again. *)
THEOREM ChargedOnceHolds == Spec => []ChargedOnce
<1>1. ChargeInv => ChargedOnce
  BY DEF ChargeInv
<1> QED BY <1>1, InitType, StepType, InitCache, StepCache, InitCharge, StepCharge, PTL DEF Spec

(* A request is answered once: what was applied is what was cached, and it was
   charged at most once. *)
THEOREM AnsweredOnceHolds == Spec => []AnsweredOnce
BY ChargedOnceHolds, AppliedIsCachedHolds, PTL DEF AnsweredOnce
-----------------------------------------------------------------------------
(* The counters: the rows are the sums of the charges in the journal, and each
   flag has its notice there. First, what a sum over a sequence is. *)

(* The function that sums a sequence from the front *)
Sums(f, w) ==
  f \in [0..Len(w) -> Nat] /\ f[0] = 0 /\ \A n \in 1..Len(w) : f[n] = f[n - 1] + w[n]
Recursive(f, w) == f = [n \in 0..Len(w) |-> IF n = 0 THEN 0 ELSE f[n - 1] + w[n]]

LEMMA SumExists ==
  ASSUME NEW w \in Seq(Nat)
  PROVE  \E f : Sums(f, w) /\ Recursive(f, w)
<1> DEFINE N == Len(w)
           step == [k \in 1..N |-> [v \in Nat |-> v + w[k]]]
<1>1. N \in Nat /\ \A k \in 1..N : w[k] \in Nat
  OBVIOUS
<1>2. step \in Steps(N, Nat)
  BY <1>1 DEF Steps
<1> HIDE DEF step
<1>3. PICK f : Follows(f, N, Nat, 0, step)
  BY <1>1, <1>2, BoundedRecursion
<1>4. f \in [0..N -> Nat] /\ f[0] = 0 /\ \A k \in 1..N : f[k] = step[k][f[k - 1]]
  BY <1>3 DEF Follows
<1> HIDE DEF N
<1>5. ASSUME NEW k \in 1..N
      PROVE  f[k] = f[k - 1] + w[k]
  <2>1. k - 1 \in 0..N
    BY <1>1
  <2>2. f[k - 1] \in Nat
    BY <1>4, <2>1
  <2>3. step[k][f[k - 1]] = f[k - 1] + w[k]
    BY <2>2 DEF step
  <2> QED BY <1>4, <2>3
<1>6. f = [n \in 0..N |-> IF n = 0 THEN 0 ELSE f[n - 1] + w[n]]
  BY <1>1, <1>4, <1>5
<1> QED BY <1>4, <1>5, <1>6 DEF Sums, Recursive, N

AddsUp(f, w) == Sums(f, w) /\ SumOf(w) = f[Len(w)]

LEMMA FrontSum ==
  ASSUME NEW w \in Seq(Nat)
  PROVE  \E f : AddsUp(f, w)
<1> DEFINE g == CHOOSE f : Recursive(f, w)
<1>1. Recursive(g, w)
  BY SumExists
<1>2. SumOf(w) = g[Len(w)]
  BY DEF SumOf, Recursive
<1>3. PICK f : Sums(f, w)
  BY SumExists
<1> HIDE DEF g
<1> DEFINE N == Len(w)
           S == {n \in Nat : n <= N => g[n] = f[n]}
<1>4. N \in Nat
  OBVIOUS
<1>5. g[0] = 0 /\ \A n \in 1..N : g[n] = g[n - 1] + w[n]
  BY <1>1 DEF Recursive
<1>6. f[0] = 0 /\ \A n \in 1..N : f[n] = f[n - 1] + w[n]
  BY <1>3 DEF Sums
<1> HIDE DEF N
<1>7. 0 \in S
  BY <1>5, <1>6
<1>8. ASSUME NEW n \in Nat, n \in S
      PROVE  n + 1 \in S
  <2> SUFFICES ASSUME n + 1 <= N
               PROVE  g[n + 1] = f[n + 1]
    OBVIOUS
  <2>1. n <= N /\ n + 1 \in 1..N /\ (n + 1) - 1 = n
    BY <1>4
  <2> QED BY <1>5, <1>6, <1>8, <2>1
<1> HIDE DEF S
<1>9. Nat \subseteq S
  BY <1>7, <1>8, NatSetInduction
<1>10. g[N] = f[N]
  BY <1>4, <1>9 DEF S
<1>11. AddsUp(f, w)
  BY <1>2, <1>3, <1>10 DEF N, AddsUp
<1> QED BY <1>11

(* One number more, and zeros behind it. *)
LEMMA SumGrows ==
  ASSUME NEW w \in Seq(Nat), NEW v \in Seq(Nat), Len(v) > Len(w),
         \A n \in 1..Len(w) : v[n] = w[n],
         \A n \in (Len(w) + 2)..Len(v) : v[n] = 0
  PROVE  SumOf(v) = SumOf(w) + v[Len(w) + 1]
<1> DEFINE N == Len(w)
           M == Len(v)
<1>1. N \in Nat /\ M \in Nat /\ N + 1 <= M
  OBVIOUS
<1>2. PICK f : AddsUp(f, w)
  BY FrontSum
<1>3. PICK g : AddsUp(g, v)
  BY FrontSum
<1>4. f[0] = 0 /\ SumOf(w) = f[N] /\ \A n \in 1..N : f[n] = f[n - 1] + w[n]
  BY <1>2 DEF Sums, AddsUp
<1>5. g[0] = 0 /\ SumOf(v) = g[M] /\ g \in [0..M -> Nat] /\ \A n \in 1..M : g[n] = g[n - 1] + v[n]
  BY <1>3 DEF Sums, AddsUp
<1> DEFINE S == {n \in Nat : (n <= N => g[n] = f[n]) /\ (N < n /\ n <= M => g[n] = f[N] + v[N + 1])}
<1> HIDE DEF N, M
<1>6. 0 \in S
  BY <1>1, <1>4, <1>5
<1>7. ASSUME NEW n \in Nat, n \in S
      PROVE  n + 1 \in S
  <2>1. CASE n + 1 <= N
    <3>1. n + 1 \in 1..N /\ n + 1 \in 1..M /\ (n + 1) - 1 = n
      BY <1>1, <2>1
    <3>2. v[n + 1] = w[n + 1]
      BY <3>1 DEF N
    <3>3. g[n + 1] = g[n] + v[n + 1] /\ f[n + 1] = f[n] + w[n + 1] /\ g[n] = f[n]
      BY <1>1, <1>4, <1>5, <1>7, <2>1, <3>1
    <3> QED BY <1>1, <2>1, <3>2, <3>3
  <2>2. CASE n = N
    <3>1. n + 1 \in 1..M /\ (n + 1) - 1 = n
      BY <1>1, <2>2
    <3>2. g[n + 1] = g[n] + v[n + 1] /\ g[n] = f[n]
      BY <1>1, <1>5, <1>7, <2>2, <3>1
    <3> QED BY <1>1, <2>2, <3>2
  <2>3. CASE N < n
    <3>1. CASE n + 1 <= M
      <4>1. n + 1 \in 1..M /\ (n + 1) - 1 = n /\ n + 1 \in (N + 2)..M
        BY <1>1, <2>3, <3>1
      <4>2. v[n + 1] = 0
        BY <4>1 DEF N, M
      <4>3. g[n + 1] = g[n] + v[n + 1]
        BY <1>5, <4>1
      <4>4. g[n] = f[N] + v[N + 1] /\ g[n] \in Nat
        BY <1>1, <1>5, <1>7, <2>3, <3>1
      <4> QED BY <1>1, <2>3, <4>2, <4>3, <4>4
    <3>2. CASE ~(n + 1 <= M)
      BY <1>1, <2>3, <3>2
    <3> QED BY <3>1, <3>2
  <2> QED BY <1>1, <2>1, <2>2, <2>3
<1> HIDE DEF S
<1>8. Nat \subseteq S
  BY <1>6, <1>7, NatSetInduction
<1>9. g[M] = f[N] + v[N + 1]
  BY <1>1, <1>8 DEF S
<1> QED BY <1>4, <1>5, <1>9 DEF N

-----------------------------------------------------------------------------
(* The places of a sequence whose element is in K, and a set with one element
   or none. *)
Places(s, K) == {n \in 1..Len(s) : s[n] \in K}
One(S, flag) == (flag => \E x : S = {x}) /\ (~flag => S = {})

LEMMA OneConcat ==
  ASSUME NEW s \in Seq(JournalEvent), NEW t \in Seq(JournalEvent), NEW K,
         NEW a \in BOOLEAN, NEW b \in BOOLEAN, One(Places(s, K), a), One(Places(t, K), b), ~(a /\ b)
  PROVE  One(Places(s \o t, K), a \/ b)
<1>1. Len(s) \in Nat /\ Len(t) \in Nat /\ Len(s \o t) = Len(s) + Len(t)
  OBVIOUS
<1>2. \A n \in 1..Len(s) : (s \o t)[n] = s[n]
  BY <1>1
<1>3. \A n \in 1..Len(t) : (s \o t)[Len(s) + n] = t[n]
  <2> SUFFICES ASSUME NEW n \in 1..Len(t)
               PROVE  (s \o t)[Len(s) + n] = t[n]
    OBVIOUS
  <2>1. Len(s) + n \in 1..(Len(s) + Len(t)) /\ ~(Len(s) + n <= Len(s)) /\ (Len(s) + n) - Len(s) = n
    BY <1>1
  <2> QED BY <1>1, <2>1
<1>4. \A n \in Places(s \o t, K) :
        n \in Places(s, K) \/ \E k \in Places(t, K) : n = Len(s) + k
  <2> SUFFICES ASSUME NEW n \in Places(s \o t, K)
               PROVE  n \in Places(s, K) \/ \E k \in Places(t, K) : n = Len(s) + k
    OBVIOUS
  <2>1. n \in 1..(Len(s) + Len(t)) /\ (s \o t)[n] \in K
    BY <1>1 DEF Places
  <2>2. CASE n <= Len(s)
    BY <1>1, <1>2, <2>1, <2>2 DEF Places
  <2>3. CASE ~(n <= Len(s))
    <3>1. n - Len(s) \in 1..Len(t) /\ n = Len(s) + (n - Len(s))
      BY <1>1, <2>1, <2>3
    <3>2. t[n - Len(s)] \in K
      BY <1>3, <2>1, <3>1
    <3> QED BY <3>1, <3>2 DEF Places
  <2> QED BY <2>2, <2>3
<1>5. \A n \in Places(s, K) : n \in Places(s \o t, K)
  BY <1>1, <1>2 DEF Places
<1>6. \A k \in Places(t, K) : Len(s) + k \in Places(s \o t, K)
  <2> SUFFICES ASSUME NEW k \in Places(t, K)
               PROVE  Len(s) + k \in Places(s \o t, K)
    OBVIOUS
  <2>1. k \in 1..Len(t) /\ t[k] \in K
    BY DEF Places
  <2>2. Len(s) + k \in 1..(Len(s) + Len(t)) /\ (s \o t)[Len(s) + k] \in K
    BY <1>1, <1>3, <2>1
  <2> QED BY <1>1, <2>2 DEF Places
<1>7. CASE a
  <2>1. PICK x : Places(s, K) = {x}
    BY <1>7 DEF One
  <2>2. Places(t, K) = {}
    BY <1>7 DEF One
  <2>3. Places(s \o t, K) = {x}
    BY <1>4, <1>5, <2>1, <2>2
  <2> QED BY <1>7, <2>3 DEF One
<1>8. CASE b
  <2>1. PICK y : Places(t, K) = {y}
    BY <1>8 DEF One
  <2>2. Places(s, K) = {}
    BY <1>8 DEF One
  <2>3. Places(s \o t, K) = {Len(s) + y}
    BY <1>4, <1>6, <2>1, <2>2
  <2> QED BY <1>8, <2>3 DEF One
<1>9. CASE ~a /\ ~b
  <2>1. Places(s, K) = {} /\ Places(t, K) = {}
    BY <1>9 DEF One
  <2>2. Places(s \o t, K) = {}
    BY <1>4, <2>1
  <2> QED BY <1>9, <2>2 DEF One
<1> QED BY <1>7, <1>8, <1>9

(* A threshold event, written or not *)
LEMMA OneNotice ==
  ASSUME NEW cond \in BOOLEAN, NEW type \in EventType, NEW key \in Key, NEW u \in UsageRange, NEW K
  PROVE  /\ eventIf(cond, type, key, u) \in Seq(JournalEvent)
         /\ One(Places(eventIf(cond, type, key, u), K), cond /\ event(type, key, u) \in K)
<1> DEFINE e == event(type, key, u)
<1>1. e \in JournalEvent
  BY DEF event, JournalEvent
<1> HIDE DEF e
<1>2. CASE cond
  <2>1. eventIf(cond, type, key, u) = <<e>>
    BY <1>2 DEF eventIf, e
  <2>2. <<e>> \in Seq(JournalEvent) /\ Len(<<e>>) = 1 /\ <<e>>[1] = e
    BY <1>1
  <2>3. CASE e \in K
    <3>1. Places(<<e>>, K) = {1}
      BY <2>2, <2>3 DEF Places
    <3> QED BY <1>2, <2>1, <2>2, <2>3, <3>1 DEF One, e
  <2>4. CASE e \notin K
    <3>1. Places(<<e>>, K) = {}
      BY <2>2, <2>4 DEF Places
    <3> QED BY <1>2, <2>1, <2>2, <2>4, <3>1 DEF One, e
  <2> QED BY <2>3, <2>4
<1>3. CASE ~cond
  <2>1. eventIf(cond, type, key, u) = << >> /\ << >> \in Seq(JournalEvent)
    BY <1>3 DEF eventIf
  <2>2. Places(<< >>, K) = {}
    BY DEF Places
  <2> QED BY <1>3, <2>1, <2>2 DEF One
<1> QED BY <1>2, <1>3

(* What a charge appends: the charge and the notices of the thresholds
   in `up'. *)
usageEvent(key, u) == event("llm.usage.recorded", key, u)
noticesOf(up, key, u) ==
  eventIf("llm.agent_budget.warning" \in up, "llm.agent_budget.warning", key, u)
  \o eventIf("llm.agent_budget.exhausted" \in up, "llm.agent_budget.exhausted", key, u)
  \o eventIf("llm.budget.threshold.warn" \in up, "llm.budget.threshold.warn", key, u)
  \o eventIf("llm.budget.threshold.auto_pause" \in up, "llm.budget.threshold.auto_pause", key, u)
  \o eventIf("simulation.paused" \in up, "simulation.paused", key, u)

(* Among events K of one type, a charge adds the one it gives notice of. *)
LEMMA ChargePlaces ==
  ASSUME NEW s \in Seq(JournalEvent), NEW key \in Key, NEW u \in UsageRange,
         NEW up, NEW T \in NoticeType, NEW K, \A e \in K : e.type = T,
         NEW flag \in BOOLEAN, One(Places(s, K), flag),
         NEW hits \in BOOLEAN,
         hits <=> T \in up /\ event(T, key, u) \in K,
         ~(flag /\ hits)
  PROVE  One(Places(Append(s, usageEvent(key, u)) \o noticesOf(up, key, u), K),
             flag \/ hits)
<1> DEFINE e0 == eventIf(TRUE, "llm.usage.recorded", key, u)
           e1 == eventIf("llm.agent_budget.warning" \in up, "llm.agent_budget.warning", key, u)
           e2 == eventIf("llm.agent_budget.exhausted" \in up, "llm.agent_budget.exhausted", key, u)
           e3 == eventIf("llm.budget.threshold.warn" \in up, "llm.budget.threshold.warn", key, u)
           e4 == eventIf("llm.budget.threshold.auto_pause" \in up, "llm.budget.threshold.auto_pause", key, u)
           e5 == eventIf("simulation.paused" \in up, "simulation.paused", key, u)
           b1 == "llm.agent_budget.warning" \in up /\ event("llm.agent_budget.warning", key, u) \in K
           b2 == "llm.agent_budget.exhausted" \in up /\ event("llm.agent_budget.exhausted", key, u) \in K
           b3 == "llm.budget.threshold.warn" \in up /\ event("llm.budget.threshold.warn", key, u) \in K
           b4 == "llm.budget.threshold.auto_pause" \in up /\ event("llm.budget.threshold.auto_pause", key, u) \in K
           b5 == "simulation.paused" \in up /\ event("simulation.paused", key, u) \in K
<1>1. \A type : event(type, key, u) \in K => type = T
  BY DEF event
<1>2. e0 = << usageEvent(key, u) >>
  BY DEF eventIf, usageEvent
<1> DEFINE one(type) ==
             /\ eventIf(type \in up, type, key, u) \in Seq(JournalEvent)
             /\ One(Places(eventIf(type \in up, type, key, u), K),
                    type \in up /\ event(type, key, u) \in K)
<1>2a. ASSUME NEW type \in EventType
       PROVE  one(type)
  <2> DEFINE cond == type \in up
  <2>1. cond \in BOOLEAN
    OBVIOUS
  <2> HIDE DEF cond
  <2>2. /\ eventIf(cond, type, key, u) \in Seq(JournalEvent)
        /\ One(Places(eventIf(cond, type, key, u), K), cond /\ event(type, key, u) \in K)
    BY <2>1, OneNotice
  <2> QED BY <2>2 DEF cond
<1>2b. /\ one("llm.agent_budget.warning") /\ one("llm.agent_budget.exhausted")
       /\ one("llm.budget.threshold.warn") /\ one("llm.budget.threshold.auto_pause")
       /\ one("simulation.paused")
  <2> HIDE DEF one
  <2> QED BY <1>2a DEF EventType
<1>3. /\ e0 \in Seq(JournalEvent) /\ e1 \in Seq(JournalEvent) /\ e2 \in Seq(JournalEvent)
      /\ e3 \in Seq(JournalEvent) /\ e4 \in Seq(JournalEvent) /\ e5 \in Seq(JournalEvent)
  <2>1. e0 \in Seq(JournalEvent)
    BY OneNotice DEF EventType
  <2> QED BY <1>2b, <2>1
<1>4. /\ One(Places(e1, K), b1) /\ One(Places(e2, K), b2) /\ One(Places(e3, K), b3)
      /\ One(Places(e4, K), b4) /\ One(Places(e5, K), b5)
  BY <1>2b
<1>5. One(Places(e0, K), FALSE)
  <2>1. event("llm.usage.recorded", key, u) \notin K
    BY <1>1 DEF NoticeType
  <2>2. One(Places(e0, K), TRUE /\ event("llm.usage.recorded", key, u) \in K)
    BY OneNotice DEF EventType
  <2> QED BY <2>1, <2>2 DEF One
<1>6. /\ b1 => T = "llm.agent_budget.warning"
      /\ b2 => T = "llm.agent_budget.exhausted"
      /\ b3 => T = "llm.budget.threshold.warn"
      /\ b4 => T = "llm.budget.threshold.auto_pause"
      /\ b5 => T = "simulation.paused"
  BY <1>1
<1>7. hits <=> b1 \/ b2 \/ b3 \/ b4 \/ b5
  <2>1. \/ T = "llm.agent_budget.warning" \/ T = "llm.agent_budget.exhausted"
        \/ T = "llm.budget.threshold.warn" \/ T = "llm.budget.threshold.auto_pause"
        \/ T = "simulation.paused"
    BY DEF NoticeType, EventType
  <2> QED BY <1>6, <2>1
<1>8. b1 \in BOOLEAN /\ b2 \in BOOLEAN /\ b3 \in BOOLEAN /\ b4 \in BOOLEAN /\ b5 \in BOOLEAN
  OBVIOUS
<1>9. Append(s, usageEvent(key, u)) = s \o e0
  <2>1. usageEvent(key, u) \in JournalEvent
    BY DEF usageEvent, event, JournalEvent, EventType
  <2> HIDE DEF e0
  <2> QED BY <1>2, <2>1
<1> HIDE DEF e0, e1, e2, e3, e4, e5, b1, b2, b3, b4, b5
<1>11. One(Places(s \o e0, K), flag \/ FALSE)
  BY <1>3, <1>5, OneConcat
<1> DEFINE t2 == e1 \o e2
           t3 == t2 \o e3
           t4 == t3 \o e4
           t5 == t4 \o e5
           a2 == b1 \/ b2
           a3 == a2 \/ b3
           a4 == a3 \/ b4
           a5 == a4 \/ b5
<1>10. noticesOf(up, key, u) = t5
  BY DEF noticesOf, e1, e2, e3, e4, e5
<1>12. /\ a2 \in BOOLEAN /\ a3 \in BOOLEAN /\ a4 \in BOOLEAN /\ a5 \in BOOLEAN
       /\ ~(b1 /\ b2) /\ ~(a2 /\ b3) /\ ~(a3 /\ b4) /\ ~(a4 /\ b5)
       /\ hits <=> a5
  BY <1>6, <1>7
<1>13. t2 \in Seq(JournalEvent) /\ t3 \in Seq(JournalEvent) /\ t4 \in Seq(JournalEvent)
       /\ t5 \in Seq(JournalEvent) /\ s \o e0 \in Seq(JournalEvent)
  BY <1>3
<1> HIDE DEF a2
<1>14. One(Places(t2, K), a2)
  BY <1>3, <1>4, <1>8, <1>12, OneConcat DEF a2
<1> HIDE DEF t2, a3
<1>15. One(Places(t3, K), a3)
  BY <1>3, <1>4, <1>8, <1>12, <1>13, <1>14, OneConcat DEF a3
<1> HIDE DEF t3, a4
<1>16. One(Places(t4, K), a4)
  BY <1>3, <1>4, <1>8, <1>12, <1>13, <1>15, OneConcat DEF a4
<1> HIDE DEF t4, a5
<1>17. One(Places(t5, K), a5)
  BY <1>3, <1>4, <1>8, <1>12, <1>13, <1>16, OneConcat DEF a5
<1> HIDE DEF t5
<1>18. One(Places(t5, K), hits)
  BY <1>12, <1>17 DEF One
<1>19. One(Places(s \o e0, K), flag)
  BY <1>11 DEF One
<1> DEFINE s0 == s \o e0
<1> HIDE DEF s0
<1>20. One(Places(s0 \o t5, K), flag \/ hits)
  <2>1. s0 \in Seq(JournalEvent) /\ t5 \in Seq(JournalEvent) /\ One(Places(s0, K), flag)
    BY <1>13, <1>19 DEF s0
  <2> QED BY <1>18, <2>1, OneConcat
<1>21. Append(s, usageEvent(key, u)) \o noticesOf(up, key, u) = (s \o e0) \o t5
  BY <1>9, <1>10, Zenon
<1> QED BY <1>20, <1>21, Zenon DEF s0

(* What the places of a sequence whose event is in K add to a field's sum *)
Weights(s, K, field) == [n \in 1..Len(s) |-> IF s[n] \in K THEN s[n].usage[field] ELSE 0]

LEMMA WeightsType ==
  ASSUME NEW s \in Seq(JournalEvent), NEW K, NEW field \in {"cost", "tokens"}
  PROVE  /\ Weights(s, K, field) \in Seq(Nat) /\ Len(Weights(s, K, field)) = Len(s)
         /\ \A n \in 1..Len(s) :
              Weights(s, K, field)[n] = IF s[n] \in K THEN s[n].usage[field] ELSE 0
<1> DEFINE e(n) == IF s[n] \in K THEN s[n].usage[field] ELSE 0
           w == Weights(s, K, field)
<1>1. Len(s) \in Nat /\ w = [n \in 1..Len(s) |-> e(n)]
  BY DEF Weights
<1>2. ASSUME NEW n \in 1..Len(s)
      PROVE  e(n) \in Nat
  <2>1. s[n] \in JournalEvent
    OBVIOUS
  <2>2. s[n].usage \in UsageRange
    BY <2>1 DEF JournalEvent
  <2>3. s[n].usage.cost \in Nat /\ s[n].usage.tokens \in Nat
    BY <2>2, ConstantFacts DEF UsageRange
  <2> QED BY <2>3
<1> HIDE DEF w, e
<1>3. w \in [1..Len(s) -> Nat]
  BY <1>1, <1>2
<1>4. w \in Seq(Nat) /\ Len(w) = Len(s)
  BY <1>1, <1>3
<1>5. \A n \in 1..Len(s) : w[n] = e(n)
  BY <1>1
<1> QED BY <1>4, <1>5 DEF w, e

(* A charge adds what it used to the sums it counts in, its notices nothing. *)
LEMMA ChargeSums ==
  ASSUME NEW s \in Seq(JournalEvent), NEW e \in JournalEvent, NEW rest \in Seq(Notice),
         NEW field \in {"cost", "tokens"}, NEW K, \A x \in K : x.type = Charge
  PROVE  SumOf(Weights(Append(s, e) \o rest, K, field)) =
           SumOf(Weights(s, K, field)) + IF e \in K THEN e.usage[field] ELSE 0
<1> DEFINE t == Append(s, e) \o rest
           w == Weights(s, K, field)
           v == Weights(t, K, field)
<1>1. Len(s) \in Nat /\ Len(rest) \in Nat /\ rest \in Seq(JournalEvent)
  BY NoticeIsEvent
<1> DEFINE j == Append(s, e)
<1>2. /\ j \in Seq(JournalEvent) /\ Len(j) = Len(s) + 1
      /\ j[Len(s) + 1] = e /\ \A n \in 1..Len(s) : j[n] = s[n]
  OBVIOUS
<1> HIDE DEF j
<1>3. /\ j \o rest \in Seq(JournalEvent) /\ Len(j \o rest) = Len(s) + 1 + Len(rest)
      /\ \A n \in 1..Len(j \o rest) : (j \o rest)[n] = IF n <= Len(j) THEN j[n] ELSE rest[n - Len(j)]
  BY <1>1, <1>2
<1>4. t = j \o rest
  BY DEF j
<1> HIDE DEF t
<1>5. /\ t \in Seq(JournalEvent) /\ Len(t) = Len(s) + 1 + Len(rest) /\ t[Len(s) + 1] = e
      /\ \A n \in 1..Len(s) : t[n] = s[n]
  BY <1>1, <1>2, <1>3, <1>4
<1>6. \A n \in (Len(s) + 2)..Len(t) : t[n] \notin K
  <2> SUFFICES ASSUME NEW n \in (Len(s) + 2)..Len(t)
               PROVE  t[n] \notin K
    OBVIOUS
  <2>1. n \in 1..Len(t) /\ ~(n <= Len(j)) /\ n - Len(j) \in 1..Len(rest)
    BY <1>1, <1>2, <1>5
  <2>2. t[n] \in Notice
    BY <1>3, <1>4, <2>1
  <2> QED BY <2>2 DEF Notice, NoticeType, Charge
<1>7. w \in Seq(Nat) /\ Len(w) = Len(s) /\ v \in Seq(Nat) /\ Len(v) = Len(t)
  BY <1>5, WeightsType
<1>8. \A n \in 1..Len(s) : w[n] = IF s[n] \in K THEN s[n].usage[field] ELSE 0
  BY WeightsType
<1>9. \A n \in 1..Len(t) : v[n] = IF t[n] \in K THEN t[n].usage[field] ELSE 0
  <2> HIDE DEF v
  <2>1. t \in Seq(JournalEvent)
    BY <1>5
  <2> QED BY <2>1, WeightsType DEF v
<1> HIDE DEF w, v
<1>10. \A n \in 1..Len(w) : v[n] = w[n]
  <2> SUFFICES ASSUME NEW n \in 1..Len(w)
               PROVE  v[n] = w[n]
    OBVIOUS
  <2>1. n \in 1..Len(s) /\ n \in 1..Len(t)
    BY <1>1, <1>5, <1>7
  <2> QED BY <1>5, <1>8, <1>9, <2>1
<1>11. \A n \in (Len(w) + 2)..Len(v) : v[n] = 0
  BY <1>1, <1>5, <1>6, <1>7, <1>9
<1>12. v[Len(w) + 1] = IF e \in K THEN e.usage[field] ELSE 0
  BY <1>1, <1>5, <1>7, <1>9
<1>13. Len(v) > Len(w)
  BY <1>1, <1>5, <1>7
<1>14. SumOf(v) = SumOf(w) + v[Len(w) + 1]
  BY <1>7, <1>10, <1>11, <1>13, SumGrows
<1> QED BY <1>12, <1>14 DEF v, w, t

ofKind(T) == {e \in JournalEvent : e.type = T}
ofAgentKind(T, a, d) == {e \in JournalEvent : e.type = T /\ e.key[2] = d /\ Schedule[e.key[1]].agent = a}

(* The rows add up to the journal. *)
RunCounts ==
  /\ budget.cost = SumOf(Weights(journal, ofKind(Charge), "cost"))
  /\ One(Places(journal, ofKind("llm.budget.threshold.warn")), budget.warned)
  /\ One(Places(journal, ofKind("llm.budget.threshold.auto_pause")), budget.exhausted)
  /\ One(Places(journal, ofKind("simulation.paused")), budget.autoPaused)
  /\ budget.autoPaused => budget.exhausted
DayCounts(a, d) ==
  /\ daily[a][d].tokens = SumOf(Weights(journal, ofAgentKind(Charge, a, d), "tokens"))
  /\ One(Places(journal, ofAgentKind("llm.agent_budget.warning", a, d)), daily[a][d].warned)
  /\ One(Places(journal, ofAgentKind("llm.agent_budget.exhausted", a, d)), daily[a][d].exhausted)
CountInv == RunCounts /\ \A a \in Agent : \A d \in Day : DayCounts(a, d)

LEMMA EmptyCounts ==
  ASSUME NEW K, NEW field \in {"cost", "tokens"}
  PROVE  SumOf(Weights(<< >>, K, field)) = 0 /\ One(Places(<< >>, K), FALSE)
<1>1. << >> \in Seq(JournalEvent) /\ Len(<< >>) = 0
  OBVIOUS
<1> DEFINE w == Weights(<< >>, K, field)
<1>2. w \in Seq(Nat) /\ Len(w) = 0
  BY <1>1, WeightsType
<1> HIDE DEF w
<1>3. PICK f : AddsUp(f, w)
  BY <1>2, FrontSum
<1>4. SumOf(w) = 0
  BY <1>2, <1>3 DEF AddsUp, Sums
<1>5. One(Places(<< >>, K), FALSE)
  BY DEF Places, One
<1> QED BY <1>4, <1>5 DEF w

LEMMA InitCount == Init => CountInv
<1> SUFFICES ASSUME Init PROVE CountInv
  OBVIOUS
<1>1. /\ journal = << >> /\ budget.cost = 0 /\ budget.warned = FALSE /\ budget.exhausted = FALSE
      /\ budget.autoPaused = FALSE
  BY DEF Init
<1>2. RunCounts
  BY <1>1, EmptyCounts DEF RunCounts
<1>3. ASSUME NEW a \in Agent, NEW d \in Day PROVE DayCounts(a, d)
  <2>1. daily[a][d].tokens = 0 /\ daily[a][d].warned = FALSE /\ daily[a][d].exhausted = FALSE
    BY DEF Init, NoUsage
  <2> QED BY <1>1, <2>1, EmptyCounts DEF DayCounts
<1> QED BY <1>2, <1>3 DEF CountInv

(* The rows after a charge: each counter took what the answer used, each flag
   that rose has its notice in the journal. *)
LEMMA ChargeCounts ==
  ASSUME TypeInv, CountInv, recordSuccess
  PROVE  CountInv'
<1> DEFINE u == work.call.usage
           key == calledKey
           ag == Schedule[key[1]].agent
           row == daily[ag][target]
           tokens == row.tokens + u.tokens
           cost == budget.cost + u.cost
           out == ~budget.exhausted /\ reached(cost, Ceiling, 100)
           pause == out /\ run.status = "running"
           c1 == ~row.warned /\ reached(tokens, Allowance, 80)
           c2 == ~row.exhausted /\ reached(tokens, Allowance, 100)
           c3 == ~budget.warned /\ reached(cost, Ceiling, 80)
           up == {T \in NoticeType :
                    /\ T = "llm.agent_budget.warning" => c1
                    /\ T = "llm.agent_budget.exhausted" => c2
                    /\ T = "llm.budget.threshold.warn" => c3
                    /\ T = "llm.budget.threshold.auto_pause" => out
                    /\ T = "simulation.paused" => pause}
           notices == noticesOf(up, key, u)
<1>1. TypeOK /\ TablesOK /\ BatchOK
  BY TypeParts DEF TypeInv
<1>2. /\ work.pc = "record" /\ work.call.slot \in Slot /\ work.call.tier \in Tier
      /\ u \in UsageRange /\ run.tick < MaxTick /\ target \in Day
  BY <1>1, WorkFacts DEF recordSuccess, Call
<1>3. key \in Key /\ key[2] = target /\ ag \in Agent
  <2>1. key = <<work.call.slot, target, work.call.tier>>
    BY DEF calledKey, requestKey
  <2> QED BY <1>2, <2>1, ConstantFacts DEF Key
<1>4. /\ journal \in Seq(JournalEvent)
      /\ budget \in [cost : Nat, warned : BOOLEAN, exhausted : BOOLEAN, autoPaused : BOOLEAN, enabled : BOOLEAN]
      /\ daily \in [Agent -> [Day -> [tokens : Nat, warned : BOOLEAN, exhausted : BOOLEAN]]]
      /\ run \in [tick : 0..MaxTick, status : {"running", "paused"}]
  BY <1>1 DEF TablesOK
<1>5. row \in [tokens : Nat, warned : BOOLEAN, exhausted : BOOLEAN]
  <2> HIDE DEF ag
  <2>1. daily[ag] \in [Day -> [tokens : Nat, warned : BOOLEAN, exhausted : BOOLEAN]]
    BY <1>3, <1>4
  <2> QED BY <1>2, <2>1
<1>5a. /\ "llm.agent_budget.warning" \in up <=> c1
       /\ "llm.agent_budget.exhausted" \in up <=> c2
       /\ "llm.budget.threshold.warn" \in up <=> c3
       /\ "llm.budget.threshold.auto_pause" \in up <=> out
       /\ "simulation.paused" \in up <=> pause
  <2> HIDE DEF c1, c2, c3, out, pause
  <2> QED BY DEF NoticeType, EventType
<1>6. /\ journal' = Append(journal, usageEvent(key, u)) \o notices
      /\ budget' = chargeBudget(cost, pause)
      /\ daily' = [daily EXCEPT ![ag][target] = chargeDay(row, tokens)]
  <2>1. /\ eventIf(c1, "llm.agent_budget.warning", key, u) =
             eventIf("llm.agent_budget.warning" \in up, "llm.agent_budget.warning", key, u)
        /\ eventIf(c2, "llm.agent_budget.exhausted", key, u) =
             eventIf("llm.agent_budget.exhausted" \in up, "llm.agent_budget.exhausted", key, u)
        /\ eventIf(c3, "llm.budget.threshold.warn", key, u) =
             eventIf("llm.budget.threshold.warn" \in up, "llm.budget.threshold.warn", key, u)
        /\ eventIf(out, "llm.budget.threshold.auto_pause", key, u) =
             eventIf("llm.budget.threshold.auto_pause" \in up, "llm.budget.threshold.auto_pause", key, u)
        /\ eventIf(pause, "simulation.paused", key, u) =
             eventIf("simulation.paused" \in up, "simulation.paused", key, u)
    <3> HIDE DEF up
    <3> QED BY <1>5a DEF eventIf
  <2> HIDE DEF up
  <2> QED BY <2>1 DEF recordSuccess, recordUsage, noticesOf, usageEvent
<1>7. notices \in Seq(Notice)
  <2>1. \A type \in NoticeType : \A cond : eventIf(cond, type, key, u) \in Seq(Notice)
    BY <1>2, <1>3, EventIfType DEF eventIf
  <2> HIDE DEF up, key, u
  <2> QED BY <2>1 DEF noticesOf, NoticeType, EventType
<1>8. /\ budget'.cost = cost /\ budget'.warned = (budget.warned \/ reached(cost, Ceiling, 80))
      /\ budget'.exhausted = (budget.exhausted \/ reached(cost, Ceiling, 100))
      /\ budget'.autoPaused = (budget.autoPaused \/ pause)
  BY <1>6 DEF chargeBudget
<1>9. ASSUME NEW a \in Agent, NEW d \in Day
      PROVE  daily'[a][d] = IF a = ag /\ d = target THEN chargeDay(row, tokens) ELSE daily[a][d]
  BY <1>2, <1>3, <1>4, <1>6
<1>10. usageEvent(key, u) \in JournalEvent
  BY <1>2, <1>3 DEF usageEvent, event, JournalEvent, EventType
<1> HIDE DEF notices, up, key, u, ag, row, tokens, cost
<1>11. ASSUME NEW K, NEW field \in {"cost", "tokens"}, \A x \in K : x.type = Charge
       PROVE  SumOf(Weights(journal', K, field)) =
                SumOf(Weights(journal, K, field)) + IF usageEvent(key, u) \in K THEN u[field] ELSE 0
  <2>1. usageEvent(key, u).usage = u
    BY DEF usageEvent, event
  <2> QED BY <1>4, <1>6, <1>7, <1>10, <1>11, <2>1, ChargeSums
<1>12. c1 \in BOOLEAN /\ c2 \in BOOLEAN /\ c3 \in BOOLEAN /\ out \in BOOLEAN /\ pause \in BOOLEAN
  BY DEF reached
<1> HIDE DEF c1, c2, c3, out, pause
<1>13. ASSUME NEW T \in NoticeType, NEW K, \A e \in K : e.type = T, NEW flag \in BOOLEAN,
              One(Places(journal, K), flag), NEW hits \in BOOLEAN,
              hits <=> T \in up /\ event(T, key, u) \in K,
              ~(flag /\ hits)
       PROVE  One(Places(journal', K), flag \/ hits)
  <2>1. One(Places(Append(journal, usageEvent(key, u)) \o noticesOf(up, key, u), K), flag \/ hits)
    BY <1>2, <1>3, <1>4, <1>13, ChargePlaces
  <2> QED BY <1>6, <2>1, Zenon DEF notices
<1>14. \A T \in EventType : event(T, key, u) \in ofKind(T)
  BY <1>2, <1>3 DEF ofKind, event, JournalEvent, u
<1> DEFINE mine(a, d) == a = ag /\ d = target
<1>15. ASSUME NEW a \in Agent, NEW d \in Day, NEW T \in EventType
       PROVE  event(T, key, u) \in ofAgentKind(T, a, d) <=> mine(a, d)
  <2>1. /\ event(T, key, u) \in JournalEvent /\ event(T, key, u).type = T
        /\ event(T, key, u).key = key
    BY <1>2, <1>3 DEF event, JournalEvent, u
  <2> QED BY <1>3, <2>1 DEF ofAgentKind, ag
<1>16. RunCounts'
  <2>1. budget'.cost = SumOf(Weights(journal', ofKind(Charge), "cost"))
    <3>1. usageEvent(key, u) \in ofKind(Charge)
      BY <1>14 DEF usageEvent, Charge, EventType
    <3>2. \A x \in ofKind(Charge) : x.type = Charge
      BY DEF ofKind
    <3>3. SumOf(Weights(journal', ofKind(Charge), "cost")) =
            SumOf(Weights(journal, ofKind(Charge), "cost")) + u["cost"]
      BY <1>11, <3>1, <3>2
    <3> QED BY <1>8, <3>3 DEF CountInv, RunCounts, cost
  <2>2. One(Places(journal', ofKind("llm.budget.threshold.warn")), budget'.warned)
    <3> DEFINE T == "llm.budget.threshold.warn"
    <3>1. /\ T \in NoticeType /\ \A e \in ofKind(T) : e.type = T
          /\ T \in up <=> c3
          /\ event(T, key, u) \in ofKind(T)
      BY <1>14, <1>5a DEF NoticeType, EventType, ofKind
    <3>2. One(Places(journal, ofKind(T)), budget.warned) /\ budget.warned \in BOOLEAN
      BY <1>4 DEF CountInv, RunCounts
    <3>3. ~(budget.warned /\ c3) /\ ((budget.warned \/ c3) <=> budget'.warned)
      BY <1>8 DEF c3
    <3> HIDE DEF T
    <3>4. One(Places(journal', ofKind(T)), budget.warned \/ c3)
      BY <1>12, <1>13, <3>1, <3>2, <3>3
    <3> QED BY <3>3, <3>4 DEF One, T
  <2>3. One(Places(journal', ofKind("llm.budget.threshold.auto_pause")), budget'.exhausted)
    <3> DEFINE T == "llm.budget.threshold.auto_pause"
    <3>1. /\ T \in NoticeType /\ \A e \in ofKind(T) : e.type = T
          /\ T \in up <=> out
          /\ event(T, key, u) \in ofKind(T)
      BY <1>14, <1>5a DEF NoticeType, EventType, ofKind
    <3>2. One(Places(journal, ofKind(T)), budget.exhausted) /\ budget.exhausted \in BOOLEAN
      BY <1>4 DEF CountInv, RunCounts
    <3>3. ~(budget.exhausted /\ out) /\ ((budget.exhausted \/ out) <=> budget'.exhausted)
      BY <1>8 DEF out
    <3> HIDE DEF T
    <3>4. One(Places(journal', ofKind(T)), budget.exhausted \/ out)
      BY <1>12, <1>13, <3>1, <3>2, <3>3
    <3> QED BY <3>3, <3>4 DEF One, T
  <2>4. One(Places(journal', ofKind("simulation.paused")), budget'.autoPaused)
    <3> DEFINE T == "simulation.paused"
    <3>1. /\ T \in NoticeType /\ \A e \in ofKind(T) : e.type = T
          /\ T \in up <=> pause
          /\ event(T, key, u) \in ofKind(T)
      BY <1>14, <1>5a DEF NoticeType, EventType, ofKind
    <3>2. One(Places(journal, ofKind(T)), budget.autoPaused) /\ budget.autoPaused \in BOOLEAN
      BY <1>4 DEF CountInv, RunCounts
    <3>3. ~(budget.autoPaused /\ pause) /\ ((budget.autoPaused \/ pause) <=> budget'.autoPaused)
      BY <1>8 DEF CountInv, RunCounts, pause, out
    <3> HIDE DEF T
    <3>4. One(Places(journal', ofKind(T)), budget.autoPaused \/ pause)
      BY <1>12, <1>13, <3>1, <3>2, <3>3
    <3> QED BY <3>3, <3>4 DEF One, T
  <2>5. budget'.autoPaused => budget'.exhausted
    BY <1>8 DEF CountInv, RunCounts, pause, out
  <2> QED BY <2>1, <2>2, <2>3, <2>4, <2>5 DEF RunCounts
<1>17. ASSUME NEW a \in Agent, NEW d \in Day
       PROVE  DayCounts(a, d)'
  <2>1. DayCounts(a, d) /\ daily[a][d] \in [tokens : Nat, warned : BOOLEAN, exhausted : BOOLEAN]
    BY <1>4 DEF CountInv
  <2>2. /\ daily'[a][d].tokens = daily[a][d].tokens + IF mine(a, d) THEN u.tokens ELSE 0
        /\ daily'[a][d].warned <=> daily[a][d].warned \/ (mine(a, d) /\ c1)
        /\ daily'[a][d].exhausted <=> daily[a][d].exhausted \/ (mine(a, d) /\ c2)
        /\ ~(daily[a][d].warned /\ mine(a, d) /\ c1)
        /\ ~(daily[a][d].exhausted /\ mine(a, d) /\ c2)
    <3>1. CASE mine(a, d)
      <4>1. daily'[a][d] = chargeDay(row, tokens) /\ daily[a][d] = row
        BY <1>9, <3>1 DEF row
      <4>2. /\ daily'[a][d].tokens = tokens
            /\ daily'[a][d].warned = (row.warned \/ reached(tokens, Allowance, 80))
            /\ daily'[a][d].exhausted = (row.exhausted \/ reached(tokens, Allowance, 100))
        BY <4>1 DEF chargeDay
      <4> QED BY <3>1, <4>1, <4>2 DEF tokens, c1, c2
    <3>2. CASE ~mine(a, d)
      <4>1. daily'[a][d] = daily[a][d]
        BY <1>9, <3>2
      <4> QED BY <2>1, <3>2, <4>1
    <3> QED BY <3>1, <3>2
  <2>3. daily'[a][d].tokens = SumOf(Weights(journal', ofAgentKind(Charge, a, d), "tokens"))
    <3>1. usageEvent(key, u) \in ofAgentKind(Charge, a, d) <=> mine(a, d)
      BY <1>15 DEF usageEvent, Charge, EventType
    <3>2. \A x \in ofAgentKind(Charge, a, d) : x.type = Charge
      BY DEF ofAgentKind
    <3>3. SumOf(Weights(journal', ofAgentKind(Charge, a, d), "tokens")) =
            SumOf(Weights(journal, ofAgentKind(Charge, a, d), "tokens"))
              + IF mine(a, d) THEN u["tokens"] ELSE 0
      BY <1>11, <3>1, <3>2
    <3> QED BY <2>1, <2>2, <3>3 DEF DayCounts
  <2>4. One(Places(journal', ofAgentKind("llm.agent_budget.warning", a, d)), daily'[a][d].warned)
    <3> DEFINE T == "llm.agent_budget.warning"
               flag == daily[a][d].warned
               hits == mine(a, d) /\ c1
    <3>1. /\ T \in NoticeType /\ \A e \in ofAgentKind(T, a, d) : e.type = T
          /\ T \in up <=> c1
          /\ event(T, key, u) \in ofAgentKind(T, a, d) <=> mine(a, d)
      BY <1>15, <1>5a DEF NoticeType, EventType, ofAgentKind
    <3>2. One(Places(journal, ofAgentKind(T, a, d)), flag) /\ flag \in BOOLEAN /\ hits \in BOOLEAN
      BY <1>12, <2>1 DEF DayCounts
    <3>3. ~(flag /\ hits) /\ ((flag \/ hits) <=> daily'[a][d].warned)
      BY <2>2
    <3>4. hits <=> T \in up /\ event(T, key, u) \in ofAgentKind(T, a, d)
      BY <3>1
    <3> HIDE DEF T, flag, hits
    <3>5. One(Places(journal', ofAgentKind(T, a, d)), flag \/ hits)
      BY <1>13, <3>1, <3>2, <3>3, <3>4
    <3> QED BY <3>3, <3>5 DEF One, T
  <2>5. One(Places(journal', ofAgentKind("llm.agent_budget.exhausted", a, d)), daily'[a][d].exhausted)
    <3> DEFINE T == "llm.agent_budget.exhausted"
               flag == daily[a][d].exhausted
               hits == mine(a, d) /\ c2
    <3>1. /\ T \in NoticeType /\ \A e \in ofAgentKind(T, a, d) : e.type = T
          /\ T \in up <=> c2
          /\ event(T, key, u) \in ofAgentKind(T, a, d) <=> mine(a, d)
      BY <1>15, <1>5a DEF NoticeType, EventType, ofAgentKind
    <3>2. One(Places(journal, ofAgentKind(T, a, d)), flag) /\ flag \in BOOLEAN /\ hits \in BOOLEAN
      BY <1>12, <2>1 DEF DayCounts
    <3>3. ~(flag /\ hits) /\ ((flag \/ hits) <=> daily'[a][d].exhausted)
      BY <2>2
    <3>4. hits <=> T \in up /\ event(T, key, u) \in ofAgentKind(T, a, d)
      BY <3>1
    <3> HIDE DEF T, flag, hits
    <3>5. One(Places(journal', ofAgentKind(T, a, d)), flag \/ hits)
      BY <1>13, <3>1, <3>2, <3>3, <3>4
    <3> QED BY <3>3, <3>5 DEF One, T
  <2> QED BY <2>3, <2>4, <2>5 DEF DayCounts
<1> QED BY <1>16, <1>17 DEF CountInv

LEMMA StepCount == TypeInv /\ CountInv /\ [Next]_vars => CountInv'
<1> SUFFICES ASSUME TypeInv, CountInv, [Next]_vars PROVE CountInv'
  OBVIOUS
<1>1. ASSUME UNCHANGED <<journal, daily>>, budget'.cost = budget.cost, budget'.warned = budget.warned,
             budget'.exhausted = budget.exhausted, budget'.autoPaused = budget.autoPaused
      PROVE  CountInv'
  BY <1>1 DEF CountInv, RunCounts, DayCounts
<1>2. CASE recordSuccess
  BY <1>2, ChargeCounts
<1>3. CASE setLlmEnabled
  <2>1. budget' = [budget EXCEPT !.enabled = ~@] /\ UNCHANGED <<journal, daily>>
    BY <1>3 DEF setLlmEnabled
  <2>2. budget \in [cost : Nat, warned : BOOLEAN, exhausted : BOOLEAN, autoPaused : BOOLEAN, enabled : BOOLEAN]
    BY DEF TypeInv, TypeOK
  <2> QED BY <1>1, <2>1, <2>2
<1>4. ASSUME UNCHANGED spend
      PROVE  CountInv'
  BY <1>1, <1>4 DEF spend
<1>5. CASE skip \/ block \/ hit \/ miss \/ answer \/ providerFails \/ recordFails
  BY <1>4, <1>5 DEF skip, block, hit, miss, answer, providerFails, recordFails
<1>6. CASE prepare \/ commitTick \/ abandon \/ controlSimulation \/ setModuleFrozen \/ setAgentQuarantine
  BY <1>4, <1>6 DEF prepare, commitTick, abandon, controlSimulation, setModuleFrozen, setAgentQuarantine
<1>7. CASE UNCHANGED vars
  BY <1>4, <1>7 DEF vars, spend
<1> QED BY <1>2, <1>3, <1>5, <1>6, <1>7 DEF Next, Calls

LEMMA CountsReconcile == TypeInv /\ CountInv => JournalReconciles
<1> SUFFICES ASSUME TypeInv, CountInv PROVE JournalReconciles
  OBVIOUS
<1>1. journal \in Seq(JournalEvent) /\ DOMAIN journal = 1..Len(journal) /\ Len(journal) \in Nat
  BY DEF TypeInv, TypeOK, JournalEvent, UsageRange
<1>2. \A n \in 1..Len(journal) : journal[n] \in JournalEvent
  BY <1>1
<1>3. ASSUME NEW T
      PROVE  ofType(T) = Places(journal, ofKind(T))
  BY <1>1, <1>2 DEF ofType, Places, ofKind
<1>4. ASSUME NEW T, NEW a, NEW d
      PROVE  ofAgent(T, a, d) = Places(journal, ofAgentKind(T, a, d))
  BY <1>1, <1>2 DEF ofAgent, ofType, Places, ofAgentKind
<1>5. ASSUME NEW K, NEW field
      PROVE  Total(Places(journal, K), field) = SumOf(Weights(journal, K, field))
  <2>1. \A n \in 1..Len(journal) : n \in Places(journal, K) <=> journal[n] \in K
    BY DEF Places
  <2>2. [n \in DOMAIN journal |-> IF n \in Places(journal, K) THEN journal[n].usage[field] ELSE 0] =
          Weights(journal, K, field)
    BY <1>1, <2>1 DEF Weights
  <2> QED BY <2>2 DEF Total
<1>6. ASSUME NEW K, NEW flag \in BOOLEAN, One(Places(journal, K), flag)
      PROVE  Once(Places(journal, K), flag)
  <2>1. CASE flag
    <3>1. PICK x : Places(journal, K) = {x}
      BY <1>6, <2>1 DEF One
    <3>2. Cardinality({x}) = 1
      BY FS_Singleton
    <3> QED BY <2>1, <3>1, <3>2 DEF Once
  <2>2. CASE ~flag
    <3>1. Places(journal, K) = {} /\ Cardinality({}) = 0
      BY <1>6, <2>2, FS_EmptySet DEF One
    <3> QED BY <2>2, <3>1 DEF Once
  <2> QED BY <2>1, <2>2
<1>7. /\ budget \in [cost : Nat, warned : BOOLEAN, exhausted : BOOLEAN, autoPaused : BOOLEAN, enabled : BOOLEAN]
      /\ daily \in [Agent -> [Day -> [tokens : Nat, warned : BOOLEAN, exhausted : BOOLEAN]]]
  BY DEF TypeInv, TypeOK
<1>8. /\ budget.cost = Total(ofType("llm.usage.recorded"), "cost")
      /\ Once(ofType("llm.budget.threshold.warn"), budget.warned)
      /\ Once(ofType("llm.budget.threshold.auto_pause"), budget.exhausted)
      /\ Once(ofType("simulation.paused"), budget.autoPaused)
  BY <1>3, <1>5, <1>6, <1>7 DEF CountInv, RunCounts, Charge
<1>9. ASSUME NEW a \in Agent, NEW d \in Day
      PROVE  /\ daily[a][d].tokens = Total(ofAgent("llm.usage.recorded", a, d), "tokens")
             /\ Once(ofAgent("llm.agent_budget.warning", a, d), daily[a][d].warned)
             /\ Once(ofAgent("llm.agent_budget.exhausted", a, d), daily[a][d].exhausted)
  <2>1. DayCounts(a, d) /\ daily[a][d].warned \in BOOLEAN /\ daily[a][d].exhausted \in BOOLEAN
    BY <1>7 DEF CountInv
  <2> QED BY <1>4, <1>5, <1>6, <2>1 DEF DayCounts, Charge
<1> QED BY <1>8, <1>9 DEF JournalReconciles

(* The rows have their types and add up to the journal: the run's cost and
   every agent's daily tokens are the sums of the charges on record, and each
   threshold that was passed has exactly one notice, however calls, crashes,
   pauses and switches interleave. *)
THEOREM CountersAgreeHolds == Spec => []CountersAgree
<1>1. TypeInv /\ CountInv => CountersAgree
  BY CountsReconcile DEF TypeInv, CountersAgree
<1> QED BY <1>1, InitType, StepType, InitCount, StepCount, PTL DEF Spec
=============================================================================
