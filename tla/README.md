# A verification project for worldsimulator

worldsimulator runs a simulated town.  A *run* advances in ticks of one day;
every tick is one SQLite transaction over the run's own database file, in which
about thirty handlers move money, employ agents, trade, lend, write news and
append to an event journal.  A server supervises many runs, lets operators
control them, asks language models for proposals between ticks, takes
snapshots, exports and replays.

This directory holds TLA+ modules that model that program, TLC configurations
that check them on small instances, and proofs that TLAPS checks for every value
of the constants.  `PROJECT.json` is the index: components, runs, the source
lines each definition stands for (`map`), the hazards with the properties that
watch them, plausible bugs that each property is known to catch (`mutants`),
and the theorems.

To repeat a check: `tlc -config <run's cfg> <run's module>`; a proof:
`tlapm <module>_proofs.tla`.

## 1. Inventory

### 1.1 The server around a run

| Part | State it keeps | Operations | Interacts with |
|---|---|---|---|
| Run supervision (`simulation-service.ts`, `run-repository.ts`, `tick-committer.ts`, `sim-loop.ts`, `api-task-store.ts`, `export-store.ts`) | run row (status, tick, next event number, ID counters), advance tasks, export jobs; in memory: timers, a lock per run, a cached `SimLoop` | control, advance (sync and as a task), inject, export, recover, close | every other part: it opens their transactions |
| Event journal (`event-store.ts`) | append-only events, gap-free `seq` | append, append batch | all handlers |
| Snapshot store (`snapshot-store.ts`) | `snapshots` rows, files | create (awaits a backup), restore | supervision, the file system |
| Replay (`replay-store.ts`, `replay-executor.ts`, `replay-llm-provider.ts`) | replay rows, a target run | create, run tick by tick, compare, finish, recover | supervision, LLM cache |
| LLM gateway (`llm-budget.ts`, `llm-cache.ts`, `llm-control-store.ts`, `llm-cache-store.ts`, `openai-compatible-provider.ts`) | budgets, daily usage, module freezes, quarantines, response cache | authorize, lookup, call, store, charge; operator switches | decision, conversation, news phases |
| Agent Lab (`agent-lab-*.ts`) | cohort and credentials, turns with deadlines, submissions, receipts; in memory: shadow timers | open a turn, poll, submit, expire, revoke, settle, seal | LLM gateway, decision phase |
| Event stream (`event-stream.ts`, the web client's stream hook) | per connection: the last sequence read, a buffer with a mark; in the browser: the last sequence seen | poll the log, write, block and drain, heartbeat, end, reconnect | journal |
| Run catalogue (`run-locator.ts`, creation in `simulation-service.ts`) | a directory and a database per run | create, locate | file system |

### 1.2 Inside a tick

The phases run in one order: obligations, perception, decisions, collect,
execute, clearing, settlement, news, metrics, commit.

| Part | State it keeps | Operations |
|---|---|---|
| Decision engine (`decision-engine.ts`, `agent-phase.ts`, `tier2-decision-phase.ts`) | failure counters and quarantine, decision records, agents' activities | select an option, cap actions, quarantine, apply a prepared proposal |
| Conversations (`conversation-store.ts`, `conversation-phase.ts`) | conversations, turns, outcomes | open, turn, close, apply outcome |
| Ledger (`ledger.ts`, `finance-store.ts`, `finance-phase.ts`) | accounts, transactions and legs, payroll obligations, policy | post, payroll, benefits, tax, household settlement |
| Credit (`credit-store.ts`, `loan-collection-store.ts`, `bank-circuit-store.ts`, `founder-venture-store.ts`) | applications, reviews, decisions, loans, installments, defaults, bank status | submit, review, decide, disburse, collect, default, halt |
| Companies and labor (`phase4-store.ts`) | companies, jobs, applications, offers, employment, contracts, goals | form, hire, pay, breach, dissolve |
| Insolvency (`insolvency-store.ts`) | assessments, claims, recoveries, wind-downs | assess, wind down, distribute, close |
| Goods market (`market-store.ts`) | products, inventory, offerings, orders | produce, order, settle, reprice |
| Energy (`energy-store.ts`) | tariffs, bills, fuel | cycle tariffs, bill, refuel |
| Securities (`investment-*.ts`, `negotiation-*.ts`, `securities-store.ts`) | proposals, sessions, agreements, holdings, distributions | propose, counter, accept, issue, distribute |
| World events, scheduler (`world-event-store.ts`, `scheduler.ts`) | scheduled events and jobs | inject, activate, expire, claim |
| News, sentiment (`news-store.ts`, `sentiment-store.ts`) | stories, index | select, publish, update |

### 1.3 What is hard, and what makes each part correct

* **One process, many handlers.** Node runs one handler at a time; handlers
  interleave where the code awaits (a provider, a backup, an export), and the
  process can die between any two transactions.  What a handler read before an
  await must still be true when it uses it; the ID counters saved with the run
  must always be ahead of every row written; a run that says `running` must have
  something that drives it.
* **Files.** A snapshot row must never name a file that cannot be restored,
  also after a power failure, and residue must not block a retry.
* **Paid calls.** A call costs money at the provider when it is made and in the
  database when its usage commits.  The ceiling may be overrun by one answer at
  most; nothing is charged twice when a tick is prepared again; a kill switch is
  not thrown under a batch.
* **Money.** All accounts sum to zero, a loan and its accounts agree, floors
  hold; long legal sequences (a borrower wound down, a bank halted) must not
  reach a tick that cannot be executed: a tick that throws is rolled back and
  retried for ever.
* **Relationships.** A company that fails takes its workers, contracts, claims,
  offers, shares and open negotiations with it, whatever was half done; a closing
  round writes into six tables or none; a negotiation is agreed only on what the
  other party offered last.
* **Outsiders.** A citizen controlled from outside may answer late or never, lose
  its credential, or be polled when the server dies; the tick must not wait for
  ever, and a receipt must tell what the world did.
* **Slow readers.** A dashboard that reads slowly, or loses its connection, must
  neither grow the server's buffer nor miss an event it subscribed to.
* **Determinism.** A replay must reproduce the journal or say where it does not.

`PROJECT.json` lists these, line by line, under `hazards`.

## 2. Plan

In the order of importance; every step is done but the last:

| Step | Modules | Abstract specification | State |
|---|---|---|---|
| A | `RunLifecycle`, `RunSupervisor`, proofs | `RunLifecycle`: the transition table and the clock | checked, proved |
| B | `SnapshotCatalog`, `SnapshotStore`, proofs | `SnapshotCatalog`: a snapshot becomes restorable in one step | checked, proved |
| C | `LlmGateway`, proofs | | checked, proved |
| D | `LoanContract`, `CreditLifecycle`, `CreditSchema`, proofs | `LoanContract`: one loan; the schema's triggers as a second reference | checked, proved |
| E | `Replay`, proofs | the source journal | checked, proved |
| F | `TownLedger`, `EnergyUtility`, `GoodsMarket`, `WorldEvents`, `Town` | what each household could have bought instead | checked |
| G | `LegalContract`, `CompanyLife`, `VentureRound`, proofs | | checked, proved |
| H | `TalkProtocol`, `Conversations`, proofs | `TalkProtocol`: alternating offers | checked, proved |
| I | `TurnContract`, `AgentLab`, proofs | `TurnContract`: one turn offered, answered once, ended once | checked, proved |
| J | `EventStream`, proofs | the log itself | checked, proved |
| K | `DecisionQuarantine`, `NewsRoom`, proofs | the index reckoned every day | checked, proved |
| L | proofs for `Town` | | open |

`TownLedger`, `EnergyUtility`, `GoodsMarket` and `WorldEvents` hold the handlers as
functions of the town's rows; `Town` composes them into days.  `VentureRound` adds
the investment handlers to the ticks of `CompanyLife`; `NewsRoom` puts the phases of
`DecisionQuarantine` into a tick; `CreditSchema` adds the tables' triggers to
`CreditLifecycle`.

Step L is what no theorem states yet: `BooksSound` and `DaysAsPlanned` of the
town.

## 3. The modules

### 3.1 `RunLifecycle` and `RunSupervisor`

`RunLifecycle` is the promise: the status of a run moves only by the commands of
`transitionRunStatus`, and its tick by one, only while it may advance.

`RunSupervisor` is one run under the server.  Durable variables are the columns
and tables of the run's SQLite file (`status`, `tick`, `simActive`, `log`,
`ids`, `task`, `exports`, `snaps`); volatile ones are what a crash forgets
(`svc`, the handler `op` that holds the lock, the cached `loop`, the timers).
`ids` is the saved state of the run's ID factory, and `loop.ids` that of the cached
loop, which a tick takes its identifiers from and saves; `issued` is a history
variable of the identifiers that rows have.  An action is one transaction with the
bookkeeping that follows it.  `op.pc` says at which await the lock holder stands.
Every request that writes needs the lock and due timers wait for it, so what falls in
there is the budget's pause inside a provider call, `close` and a crash.  Failures of a tick, of a snapshot, of a provider batch, of the
journaling of a failure, `close`, `crash` and the recovery of runs, tasks and
export jobs are actions of their own.

### 3.2 `SnapshotCatalog` and `SnapshotStore`

`SnapshotStore` goes step by step through `create()` (plan, backup awaited,
metadata written into the copy, verification, flush, rename, flush of the
directory, row) and `restoreTo()`, over a file system that loses what is not
flushed.  Other handlers may tick and journal during the backup.  Failures,
cleanup that fails too, crashes and power failures fall between any two steps.
It is shown to implement `SnapshotCatalog`, in which a snapshot becomes
restorable in a single step.

### 3.3 `LlmGateway`

The path of a model proposal: authorize, look up the cache, await the provider,
cache, charge, hand the batch to the tick, apply.  `Schedule` says which calls a
tick makes and which depends on the answer of which.  Budget degradation (Tier 3
to 2 at 80%), exhaustion, freezes, quarantines, the operator's switches, crashes
and failing ticks are actions.  `answers` and `applied` are history variables.

### 3.4 `DecisionQuarantine` and `NewsRoom`

`DecisionQuarantine` has the decisions of one phase: the caps on an agent's actions
and decisions, and the failure counter that quarantines it.  `keepsEngine`
distinguishes the engine as its own tests use it (one object over the ticks) from
the server's use (a new one every tick).

`NewsRoom` puts such phases into the ticks of a run with a newspaper.  Every tick
digests the events of the tick before; every `Cadence`-th one writes stories, whose
wording a provider chooses before the tick or a template in it.  The authors' actions
for them are reserved by the decision phase and spent two phases later.  Published
stories move the sentiment index of their topic and the opinions of those they
reach.  `index` is a history variable that is reckoned every day; the rows are
written only when a story moves them.

The code sorts the candidates of a digest and walks the sorted list; here `place` counts
how many of the chosen come before an event, and an edition is a function on those
places.  `AuthorsAssumption` says that the stories of an edition leave each author an
action of its own: the town has two journalists (`riverbend-spec.ts:36`), an edition
at most three stories, an agent three actions (`decision-engine.ts:182`).

### 3.5 `LoanContract`, `CreditLifecycle` and `CreditSchema`

`LoanContract` is what one loan promises: installments settle in order, a payment
takes all that is owed so far, the third miss in a row is the default, what has
ended never changes.

`CreditLifecycle` is a run of several founder companies with a working-capital
loan each.  `stage` and `turn` walk through the handlers of a tick in their order
and through the companies in theirs: collection (obligations), one step of the
credit lifecycle (execute), settlement (external: balances move between a few
levels, the rest-of-world account balances them), solvency (metrics), commit.
`committed` is the world of the last commit, to which a handler that throws rolls
back; the run is then paused until `resume`.  The variables are rows and
balances: `loan` with its installments, `asset` (the loan's asset account),
`bank.source` (the loan source liability, which mirrors a loan twice: once for
the asset, once for the deposit it created), `bank.income`, `bank.loss`.
Interest is by 30/360, half to even, and the last row takes the residue.  An
applicant's score, income and term, and whether a company has a shortfall, are
external choices.  Sums over rows and companies are recursive functions, so that the
proofs can follow them.

`CreditSchema` translates the CHECKs and triggers of the credit tables from the SQL
and asks that no write of the handlers is one they refuse: a refusal fails the tick,
and a resumed run tries the same tick again.

### 3.6 `Replay`

First a source run is written (`src`): requests, ticks with their provider call
and its charge, periodic snapshots, failures and crashes, as its supervisor would
write them.  The transition table is `RunLifecycle`'s, instantiated for the source
and for the target.  Once the source is terminal, `replaySimulation` creates the
target (`tgt`) and the replay's row (`rep`), in either mode and to any tick.  The
worker's actions are its transactions: read and check the source's journal, apply a
boundary's command or terminal fact, take a due snapshot, prepare the tick from the
recorded answers, commit it, snapshot, compare, move the progress mark, compare the
state, finish.  Between any two of them the process may crash, and a client may
control the target while no worker holds its lock.  A replayed tick comes out as it
was recorded, differs in its state only (`hidden`), or in its events (`visible`);
genesis, too, may differ, and the copied cache may have lost responses.

A tick's events are one entry of the journal, and so are a snapshot's two.  The
events of a command are in the same transaction as its effect, in the code and
here.  Not modelled: a crash between the creation of the target and the replay's
row (the target then is an ordinary run), an unsupported command (every command
that is journaled is supported), and a target that is resumed after its replay.

### 3.7 `Town` and the handlers it composes

The ledger (`TownLedger`), the utility (`EnergyUtility`), the goods market
(`GoodsMarket`) and the injected events (`WorldEvents`) are functions from the town's
rows to the rows a handler leaves; a handler that throws leaves a `fault`, after which
nothing is executed and the tick is rolled back.  `Town` runs them in the order of a
tick: due tasks, tariffs on their day, payroll on its day, founders' price overrides,
production, households (food, utilities, rent, then what is discretionary, local shops
before the rest of the world), energy bills, the weekly review of prices,
metrics.  Between two ticks events are injected, and a company may cease.  The log of
the day (`town.posted` and its companions) is what the properties compare.

### 3.8 `LegalContract`, `CompanyLife` and `VentureRound`

`CompanyLife` follows a founder's company from the achieved goal through the stages of
its formation (drafted, fee paid, registered, capitalised), the launch with its first
hire, employment with notice, the daily solvency assessment and the wind-down with its
claims, salvage, waterfall and teardown.  `phase` is the handler that runs next;
`failed` is a tick that threw.  `LegalContract` is a contract as the engine's functions
make it.  Launches and closings go through the companies that are due one by one, as the
handlers do: each is the world the one before has left.  `VentureRound` adds pitch,
negotiation (as an external course; its turns are `Conversations`), the atomic closing, the cap table and a dividend.

### 3.9 `TalkProtocol` and `Conversations`

`Conversations` is the negotiation turn by turn: before a tick the service prepares one
response per due talk over awaited calls, and the tick delivers, reads, applies, expires,
settles and opens, in one transaction.  A preparation may be thrown away and made again;
a pass of several ticks prepares only its first.  The provider's answer may be refused,
invalid, too long or any entry of the menu.  It is shown to implement `TalkProtocol`,
in which two parties alternate and agree only on what the other side offered last.

### 3.10 `TurnContract` and `AgentLab`

`AgentLab` is the Tier 2 decision phase with citizens that somebody outside controls.
One proposal is asked per opportunity, in key order: from the native provider, or
through a turn that is opened, polled and submitted to.  Clients, the wall clock,
revocations, shadow timers and crashes come between any two awaits.  The tick then
resolves every proposal, falls back where it has to and settles turns and receipts.

The store has no transaction of its own: outside the tick each of its statements commits
by itself.  An expiry writes the receipt and then the turn; a revocation is written before
the turns it expires, one by one in the order of their identifiers; an offer is inserted
before it is expired for want of a credential; the sealing goes through receipts.  The
service is one thread and none of these awaits, so only a crash can come in between:
`crashInExpiry`, `crashInRevocation`, `crashInOffer` and `crashInSealing` are the states
it leaves.  An expiry that meets a receipt which is there already throws (`stuck`), out of
the loop it stands in and out of the tick (`tickThrows`).  The
journal of a run is also read as a strict replay reads it.  It is shown to implement
`TurnContract`.

### 3.11 `EventStream`

One log, one connection of the server and one browser: append, bootstrap by the status
route, connection with the last sequence seen, polls in batches, a buffer with a mark,
drain, heartbeats, a broken connection, reconnection with a limit, and stops and crashes
of the server.  Event k of the log is the one the code numbers k - 1.

## 4. Runs

| Run | Question | Bounds and why they are enough |
|---|---|---|
| `supervisor_llm` | Is what a handler read before an await still true when it is used (`RunSound`, `IdCheckpoint`), does the journal explain the status, is the lifecycle implemented? | 2 ticks, a snapshot at the second, 10 events: enough for a two-tick pass, a batch with usage, a pause inside it, a control between two passes, and a restart |
| `supervisor_offline` | Are ticks and snapshots journaled once, do tasks own the run, is no snapshot missing before a later tick (`RowsAgree`), are exports faithful, does the schema accept every write?  Do runs, tasks and exports settle? | 3 ticks, chunks of 2: a task of two steps, a tick with and one without a snapshot, one export |
| `snapshot_store` | Is a row always backed by a whole file, is residue harmless, is a restore whole (`SnapshotsSound`), is the catalogue implemented? | a tick and its successor, so that other work may tick during a backup; 5 events let it invalidate a plan too |
| `llm_gateway` | Called within the budget and overrun by less than one answer, charged once and applied as cached, counters as the journal has them, no switch thrown under a batch? | one conversing agent, 2 days, 2 dependent calls a day; answers that are dear or long; a ceiling and an allowance that two answers exhaust; 2 operator commands |
| `quarantine_engine` | Are caps and quarantines kept with the stories counted, is an edition consistent, is the sparse index the daily one? | 1 agent who is also the author (agents share nothing), 4 ticks with 2 editions and 2 decisions a phase: a quarantine that ends before the next phase, where it is earned again, an operator's that stands, an index that decays over a tick without a row; kinds that tie, that compete for a topic, and one with no story |
| `credit_books` | Books and schedules, no refused write, the loan contract; are applications decided? | 2 companies (one's default or halt reaches the other only through the bank), 4 rows: a default of three misses after a payment, a cure of two, a residue in the last row; ratios that one loan or one default can breach; balances that cannot pay, and that just can |
| `replay_worker` | Is what completes the source, does nothing escape comparison, does strict halt, is an undisturbed source reproduced, does every replay end? | 2 ticks, the second with a provider call and a snapshot; 3 requests: start, pause and advance, or start, change and stop; one fault |
| `company_life` | What a failure leaves behind, who works where, the close, fees and waterfall to the cent; do formations and pitches settle? | 2 founders, so that their pipelines compete for one worker and one fund that can pay one round; a wallet that cannot pay the fee and one that can; a wind-down with two classes of claims and a pool too small for both |
| `town_days` | Conservation and floors, no handler throws, wages whole; local before foreign and essentials first; events in force on their days and no others | 3 days around a month's end, so that payday, billing day, the tariff cycle and a weekly review fall in; 2 households, 2 shops, an empty shelf and a dear one; 2 overlapping events |
| `talk` | Every answer after reading, no tick fails, no starving, relationships as talks ended, the protocol implemented? | 1 founder with 2 companies and 2 partners, so that talks share the founder; 4 turns, 8 ticks, answers that are short or exhaust the token budget |
| `agent_lab` | Receipts true, external turns with their verdict when their tick is over, the journal replays, nothing of a revoked controller is applied; the turn contract; does preparation end? | 1 external and 1 native citizen, 2 ticks with recurring opportunities, a deadline that passes at the next beat of the clock, one crash between any two statements; loops of expiries over several turns of one controller are left to the proofs |
| `event_stream` | Nothing lost or sent twice, gaps earned, buffer bounded; does the page catch up or say that it is offline? | 5 events in batches longer than a poll reads, a buffer of 2, 2 reconnections |

Deadlock is checked in `supervisor_llm`, `supervisor_offline`, `snapshot_store`,
`llm_gateway` and `credit_books`.  The others stop of their own: the newspaper, the
town, the companies, the talks and the lab at their last tick or on a failed one, a
replay when it is over and its source has no requests left, a stream when its page is
offline or has everything.

## 5. Fairness

* `RunSupervisor!FairSpec`: weak fairness of `Work`, the due timers and awaited
  results of a live process.  Node's event loop runs due timers and settled
  promises; nothing obliges a client to call, an operator to restart, or a fault
  to happen, so requests, crashes and faults are not fair.
* `CreditLifecycle!LiveSpec`: weak fairness of the steps of a tick.  A running run
  ticks on by its timer and a transaction either commits or throws; `resume` is an
  operator's and is not fair.
* `Replay!FairSpec`: weak fairness of the worker.  Its timer fires and its awaited
  results arrive; requests, crashes and the source's steps are not fair.
  `ReplayEnds` exempts the one way a row stays `running` without a timer: the write
  of the replay's failure failed as well (`job.pc = "lost"`), which only a restart
  repairs.
* `VentureRound!Spec`: weak fairness of `Next`, written out (some handler is enabled
  in every state that is not stopped): the run ticks on.
* `AgentLab!Spec`: weak fairness of the preparation and of the clock.  The polling loop
  sleeps and looks again, and wall time passes; clients owe nothing.
* `EventStream!Spec`: weak fairness of the timers, of the socket and of the
  browser's loop, strong fairness of the status query, which a server that keeps
  crashing could otherwise always miss; the server is restarted.  Events, cuts and
  crashes are not fair.

The other specifications state safety only.

## 6. Proofs

TLAPS checks, for every value of the constants allowed by the `ASSUME`s:

* `RunSupervisor_proofs`: `TypeCorrect`; `IdCheckpointHolds` (the saved event
  counter is the length of the journal and no identifier has two rows, which needs that the
  cached loop's factory is the saved one at every use); `JournalAppendOnlyHolds` (of which no run is
  spent); `StatusFollowsJournalHolds`; `RunSoundHolds`, `RowsAgreeHolds`,
  `ExportFaithfulHolds`, `TablesAcceptHolds`; `ImplementsLifecycle` (initial states and
  every step map to `RunLifecycle`).  Each property needs where handlers stand.
  `HandlerInv`: a handler's kind and its place go together, and the cached loop is what
  the row says whenever its holder is about to use it (it numbers events from its own
  counter).  `OwnerInv`: timer, handler, advance task and status fit each other, so a
  running run is driven.  `GapInv`: a pass begins with its due snapshot there and none
  falls due inside it.  `JournalInv`: no event is later than the clock, so a tick is
  journaled once.  `JobInv`: an export that is waited for is not under way.  The
  proofs have one step per action and lemmas for actions that touch only some of this.
* `RunRecord_proofs`, the replay: `RecordIsTrueHolds`, `StepsAcceptedHolds` and `ExactReplayHolds`.
  `SourceInv` orders the source's journal by tick and closes it once a replay exists;
  `WorkerInv` is what the job in memory knows at each of its transactions; `TargetInv` holds
  the target between the progress mark and the last tick of the replay; `Matched` and
  `Verdict` restate the record event by event.  That a completed replay misses no event of
  the source follows from that order and from the tick event that source and target share.
  For exact replay, the journal of a source no failure touched is a chain (`Clean`): each
  event says what the next can be, and what the last one owes (a snapshot, the tick of a
  charge) the row remembers.  The target's journal begins that chain, and `Position` says
  which event of it is next at each transaction: a command brings its fact, a charge its
  tick, a due tick its snapshot, and the recorded call with the next ordinal is the call of
  the next tick, because a later call has a greater ordinal (`OrdinalsGrow`).
* `LlmGateway_proofs`: `TypeCorrect`, `OverspendBoundedHolds` and
  `InFlightWithinBudgetHolds` (together `BudgetKeptHolds`), `SwitchesHoldAlways`,
  `AppliedIsCachedHolds` and `ChargedOnceHolds` (together `AnsweredOnceHolds`), and
  `CountersAgreeHolds`.  The chain is type invariant, then the budget invariant (the
  counters only move when a call in flight is charged, and the call was authorized
  below the ceiling), then the cache invariant (one answer per request) and the
  charge invariant (what the journal charged is in the cache, so a retry is a hit,
  and a hit is not charged).  For the counters, a sum over the journal is a recursive
  function, and appending events adds their weights (`SumGrows`); that a notice was
  given once needs that a budget that paused the run is an exhausted one.
* `RunRecord_proofs`, the snapshots: `StoreTypeCorrect`, `SnapshotsSoundHolds`,
  `ImplementsCatalogHolds`.  The inductive invariant `StoreInv` joins to what the rows promise how far the file of the
  attempt under way has come (each step of `create()` relies on the one before), that its
  tick has no row yet and its recorded hash is that of the planned state with the
  snapshot's two events, that a damaged file has a row (so no attempt writes it again),
  and what a restore has verified so far.  A row is then only
  committed over a file and a directory that were flushed, which a power failure cannot
  undo; that commit is the catalogue's `Take`, ticks and other journaled work its
  `Proceed`, and every other step stutters.
* `CreditSchema_proofs`: `BooksKeptHolds`, `LoanContractsHolds` (every commit maps each
  loan to a step of `LoanContract` or a stutter) and `SchemaAcceptsHolds`.  The sums come
  first: the rows of a schedule repay the principal, whatever the residue, and one changed
  summand changes a sum by as much.  Then one loan by itself: it stands behind some number
  of completed rows, then its misses, then the rows still due (`StandsAt`), what it owes is
  the principal of the rest, and a collection or a miss leads to such a place again.  Then
  the run: `WorldInv` is the ledger against the loans in the world in hand, and
  `CommittedInv` the same of the committed one, because a rollback returns there; `LoanInv`
  says that no due day has gone by and that a loan is at most one contract step beyond the
  commit.  The trigger that recomputes what is owed is met because of `StandsAt`, the one
  that recomputes the legs because of the ledger.
* `AgentLab_proofs`: `ImplementsTurnHolds`, `RevokedNeverAppliedHolds` and `LabSoundHolds`.
  For the contract, each row is consistent (`RowSound`: no answer before a submission,
  `queued` only while one waits, a final receipt once ended) unless a crash has left its
  expiry half-written (`Excused`), and each step keeps every row, opens one, answers one, or
  ends a group of them; the four cases are a lemma each.  `LabInv` adds the phase: an entry
  taken from outside is the submission its turn holds for this tick (`EntryInv`), what is
  pending is for the coming tick and will be settled by it (`PendingInv`), and the journal is in order of tick, so that strict replay finds an entry
  by how many come before it.  `TickRows` says what a tick leaves of every turn.  For
  revocation, `RevokedInv`: an action that is still queued after the credential of its citizen
  was revoked is not among the proposals of the coming tick and is not waited for, unless a
  half-written turn lets no tick be applied (`Blocked`).
* `Publishing_proofs`, the event stream: `StreamSoundHolds`.  Relative to what the browser has, the frames on
  the wire are in order and without holes, and what an open connection has put behind it is
  among them (`ConnSound`).  A response that fills up in the middle of a page stands where
  its last frame ends, which is an induction over the page (`DeliverEachSound`).

* `Publishing_proofs`, the newspaper: `NewsSoundHolds` and `AgentsKeptHolds`.  `NewsInv`
  joins three accounts.  `QuarantineInv`: a failure count that may decide was earned by
  failures in a row, and a phase knows every quarantine that stands, so none acts inside
  one.  `PaperInv`: the edition in hand is of the source tick, has one story a topic, and
  its authors' actions are set aside in the phase that spends them later.  The ranking of
  events is a strict order (`Outranking`), so that no two share a place (`PlacesDiffer`) and
  the best of each topic are `StoryCap` events at most.  `MoodInv`: the row of the last
  story, decayed up to the last tick, is the index reckoned daily.  That holds because decay
  over n + 1 ticks, rounded every tick, is one more tick of the decay over n
  (`DecayGoesOn`), and because a topic without a story keeps its row (`TopicKept`).
* `Conversations_proofs`: `TalksSoundHolds`, `WaitsOnlyForATurnTakenHolds`,
  `TiesFollowTalksHolds` and `ImplementsTalkHolds`.  `IInv` joins what the rows of a commit
  say together (`Rows`: an open talk has as many messages as turns, from its parties, and
  room for one more), what a prepared response knows of its talk (`BatchInv`), and how many
  turns a talk has had whose founder is not crowded (`CrowdInv`).  A tick applies the batch
  and settles the proposals one by one, so inside it `Midway` relates the world in hand to
  the committed one, given the set of talks that have had their turn; each response
  (`ApplySound`) and each proposal (`SettleSound`) keeps it, by induction over both.  For the
  protocol, each talk of the tick is looked at alone: kept as it was (`KeptRemains`), one
  turn further (`SpokeSpeaks`), ended (`SettledEnds`) or opened (`FreshBegins`), each a step
  of `TalkProtocol` or a stutter.
* `VentureRound_proofs`: `RoundInvariant`, `CompaniesConsistentHolds` and `MoneyExactHolds`.
  The properties look at what handlers leave behind; `IInv` adds what one handler relies on
  that others have written.  `StageInv` and `IdleInv`: a company has the status its stage
  says, and until it is active nothing but its capital.  `FilingInv`: where the incorporation
  contract stands in the tick, so that its fee is paid on the day it falls due and never
  breaches.  `WorkInv`: a job that is not filled has no row, so that a launch hires no one
  twice.  `RoundInv`: a settled proposal keeps the terms its talk ended with, which no later
  talk can change, and its shares are those of the terms; so what the fund has deployed
  (`DeployedInv`) is a sum over the settled proposals.  `IssuedInv`: whatever has been active
  has its founder's shares.  `MoneyInv` and `CounselInv` are the books.  Launches, closings
  and the creditors of a failed company each go through a list in one transaction; for each
  a set of worlds is kept by one step, and so by all, by induction over the list.  The
  waterfall pays the claims or the pool, whichever is less, and nothing behind a claim it
  could not pay in full (`Waterfall`).

The library states induction for an operator, which none of the installed provers can
instantiate; the modules that need induction derive it for a set (`NatSetInduction`) from
the well-foundedness of the naturals, and that the function a recursive definition speaks
of exists (`BoundedRecursion`).  The stream and the newspaper share no state and are in one
module because they share these lemmas; the replay and the snapshots, which share no state
either, are both about what is kept of a run.

The assumptions are the `ASSUME`s of the modelled modules (counts and prices are natural
numbers, a term is not longer than the principal has cents, the rows of a schedule are
typed, two journalists share three stories); no proof adds one.

Only model-checked: what is live (`RunSettles`, `TimersSettle`, `ApplicationsDecided`,
`ReplayEnds`, `FormationSettles`, `PreparationEnds`, `CatchesUp`), which TLAPS cannot prove
for want of ENABLED; and the town's `BooksSound` and `DaysAsPlanned`.
The town's handlers are folds from the community modules over sorted lists of rows, which
take an operator as a parameter and choose a sorting permutation, so the provers need an
induction and an existence proof for each; and that no handler throws, which is part of
`BooksSound`, depends on the events: it holds for those of the run, and not for a disaster
that takes all capacity (section 7).

## 7. Known limits of the code

Met while modelling.  Each is in the model as the code has it, or kept out of an
instance by its choice of events, and the properties say what is true beside it.

* **A closing that cannot be done fails the tick.** If the company can no longer issue
  shares, or the fund is spent, when a negotiation is agreed, `investment-store.ts:106-153`
  rejects what concerns the terms and rethrows this conflict (625-639), and the run stops.
  The wind-down looks for `active` contracts only, so one signed on the tick of the failure makes
  its post-condition throw (`insolvency-store.ts:1262-1323`, `phase4-store.ts:1264-1293`).
* **A disaster may take all capacity,** and production refuses a capacity of nothing by
  throwing (`market-rules.ts:49-69`); docs/WS_408_WORLD_EVENTS.md:12 speaks of
  reductions down to zero.  `town_days` injects reductions that leave capacity.
* **A talk opened inside a pass of several ticks without a provider** gets no turn before
  the next pass (`simulation-service.ts:3092-3098`) and may expire; docs/PRD.md:112
  promises the rule-based answer.
* **External proposals replay only alone.** Recorded submissions are looked up by a count
  taken at the start of the batch (`agent-lab-provider.ts:190`), and each provider counts
  its own calls (`replay-llm-provider.ts:13-33`): two in a tick, or native and external
  mixed, are not found again, where docs/PHASE_12_AGENT_LAB.md:57 promises a
  reconstruction.  `ReplayReproduces` speaks of the other ticks (`soloTicks`).
* **A half-written expiry halts the run.** After a crash between the receipt and the turn
  (`agent-lab-store.ts:1092-1097`, 1116-1121) an open turn has its fallback receipt; every
  later expiry of it throws on the primary key, in the tick too (765), so the run cannot
  pass that tick, where docs/PHASE_12_AGENT_LAB.md:50 promises the Tier 1 fallback.  In the
  model `settles` fails and only `tickThrows` remains.  A submitted turn whose receipt
  already says `fallback` is returned by `finalizeTurn` as it is (781) and stays
  `submitted`; its verdict stands.  A turn of a citizen whose revocation was cut short
  stays open or queued until its tick, and its action is not applied
  (`RevokedNeverApplied`).
* **A replay worker restarted between two effects of one tick** reports a divergence of an
  engine that reproduced every event: the source's next events are those of a snapshot,
  `applyReplayBoundary` takes the boundary for complete (`simulation-service.ts:3443`), and
  the commands behind them are left out.  docs/IMPLEMENTATION_PLAN.md:399 calls the worker
  restart-safe; `ExactReplay` exempts it (`harmed`).
* **A conversation message degraded to a cheaper tier is paid for and discarded**
  (`llm-budget.ts:234`, `conversation-phase.ts:235`; docs/WS_603_LLM_BUDGETS_CONTROLS.md:27).
  An answer cached before a crash, or before a usage commit that fails
  (`llm-budget.ts:280`), is applied later without a charge.  A provider's fetch has no
  timeout of its own (`openai-compatible-provider.ts:215`).
* **The server quarantines nobody:** it makes a new engine for each tick
  (`agent-phase.ts:177`), and the caps keep the count below the threshold
  (docs/IMPLEMENTATION_PLAN.md:75).
* **A borrower wound down with a live loan** fails the tick of its next due date, for good
  (`loan-collection-store.ts:222`); **a bank that is halted** fails the tick on which the
  next founder applies (`founder-venture-store.ts:267`).  A loan whose last installment is
  missed ends neither repaid nor in default (`loan-collection-store.ts:180`).
* **A snapshot of the last tick that fails** is never made up for
  (`simulation-service.ts:3797`).  If `failRun` itself cannot commit, the run stays
  `running` without a timer until a restart (3931); `RunningIsDriven` and `RunSettles`
  except it.  A client may control the target of a replay before the worker takes its lock
  (1281).
* **Receipts of a tick committed just before a crash** are never sealed
  (`agent-lab-store.ts:798`), and an opportunity key names no tick, so that the attempt
  after a crash finds the turn of the first and falls back (468-482).
* **A payroll that is missed, a rejected energy bill and a rejected fuel purchase are not
  tried again** (`finance-phase.ts:119`, `energy-store.ts:604`).
* **The page counts reconnections for its whole life:** five ended streams over any length
  of time leave it offline (`use-simulation-stream.ts:98`).

## 8. Not modelled

Whole parts, each with its reason in `PROJECT.json`: world generation and run creation
(one request, before the first tick), digests and parity reports, read models and routes,
codecs and random draws, the harness and the pages of the web UI.  Share listings, and
negotiations and job offers between strangers, are code that nothing outside the tests
calls.

In the modelled parts these are abstracted: the content of events (only their kinds, order
and numbering), prompts and texts, IDs, wall-clock times; the score, income and term of an
applicant; personal loans and the opening portfolio; government policy and the wage and
inequality series; the choice of a founder's product; memories beyond their number; the Agent
Lab's tool-call budget and artifacts; and the scores of news payloads, which are given
numbers.  A crash between the creation of a replay's target and the replay's row (the
target then is an ordinary run) and a target that is resumed after its replay are left out.
Further: the directory of the snapshots, which the first snapshot may create
(`snapshot-store.ts:1260`) and whose own entry in its parent is never flushed, is taken to
exist; the payment claims of legal obligations against a failed company
(`insolvency-store.ts:614-643`; its other claims are modelled); the news phase's second
search for its opportunities with the LLM off (`news-phase.ts:757`), which reads only events
of earlier ticks and the organization, as the first does, and is taken to find the same;
statements of the Agent Lab's store that fail without a crash; and credentials that are
issued after the start.
