------------------------------ MODULE AgentLab ------------------------------
(***************************************************************************)
(* Decisions of citizens that somebody outside the simulation controls     *)
(* (agent-lab-store.ts, agent-lab-gateway.ts, agent-lab-provider.ts) and   *)
(* the Tier 2 decision phase that consumes them (tier2-decision-phase.ts). *)
(* Before a tick the service asks one proposal per due opportunity, in key *)
(* order, each behind an await: a native citizen's provider answers; for a *)
(* shadow citizen a turn is opened on the side and the native provider     *)
(* still decides; for an external citizen a turn is opened and polled until*)
(* its controller has submitted an action or its deadline is over.  The    *)
(* tick then resolves every proposal and settles the turns in one          *)
(* transaction; the hash of the new state is stamped on them afterwards.   *)
(* Clients, the wall clock and revocations come in between, and so does a  *)
(* crash, which may part what the store writes in several statements: only *)
(* the tick and a submission run inside a transaction.                     *)
(*                                                                         *)
(* Abstracted: hashes and digests (a turn is fresh or it is not), prompts, *)
(* idempotent repetition of a submission, the MCP tool-call budget, taint. *)
(***************************************************************************)
EXTENDS Integers, Sequences, FiniteSets, SequencesExt

CONSTANTS
  Keys,        \* the opportunity keys, in their canonical order
  AgentOf,     \* the citizen each opportunity belongs to
  Cohort,      \* the citizens the trial assigns to its mode; the others are native
  Options,     \* the actions of a menu
  Answers,     \* bound: what the native provider answers in this instance
  Default,     \* the option deterministic Tier 1 falls back to
  Deadline,    \* bound: units of wall time a controller has to answer
  Crashes,     \* bound: crashes of the server
  LastTick     \* bound: the run stops here

ASSUME TrialAssumption ==
  /\ Default \in Options /\ Answers \subseteq Options \cup {"refused"}
  /\ Deadline \in Nat /\ Crashes \in Nat /\ LastTick \in Nat
  /\ Keys \in Seq(Range(Keys)) /\ IsInjective(Keys)
  /\ DOMAIN AgentOf = Range(Keys) /\ Cohort \subseteq Range(AgentOf)

VARIABLES
  mode,         \* of the trial, one for the whole cohort
  tick,         \* the last committed tick
  due,          \* the opportunities of the next tick, in key order
  entries,      \* the proposals obtained so far for it, in key order
  waiting,      \* the service polls the turn of the next proposal
  turns,        \* agent_lab_turns with the accepted submission and its receipt
  credentials,  \* the citizens with an active credential
  timers,       \* shadow turns whose expiry timer is set, in memory
  unsealed,     \* a tick is committed whose receipts lack the state hash
  journal,      \* the committed calls, decisions and submission events
  crashes,      \* crashes so far
  halted        \* a tick threw: the run has failed

vars == <<mode, tick, due, entries, waiting, turns, credentials, timers, unsealed, journal,
          crashes, halted>>

Refused == "refused"
NoAction == "no_action"
KeySet == Range(Keys)
controllerForAgent(k) == IF AgentOf[k] \in Cohort THEN mode ELSE "native"

TrialRow == [mode : {"native", "shadow", "external"}, tick : 0 .. LastTick, crashes : 0 .. Crashes, halted : BOOLEAN, unsealed : BOOLEAN]
CredentialRows == IF mode = "native" THEN {} ELSE Cohort
SubmissionRows == Options \cup {NoAction}
FinalReceipts == {"shadowed", "applied", "rejected", "fallback"}
LlmCallRecords == [tick : 1 .. LastTick, key : KeySet, result : Options \cup {Refused},
                   choice : Options, live : BOOLEAN, applied : BOOLEAN]
TurnRow(status, target, action, receipt, sealed) ==
  [status : status, target : target, left : -1 .. Deadline, action : action,
   receipt : receipt, sealed : sealed]
TurnRows ==
  TurnRow({"none"}, {0}, {NoAction}, {"none"}, {FALSE})
    \cup TurnRow({"open"}, 1 .. LastTick, {NoAction}, {"none", "fallback"}, {FALSE})
    \cup TurnRow({"submitted"}, 1 .. LastTick, Options, {"queued", "fallback"}, {FALSE})
    \cup TurnRow({"terminal"}, 1 .. LastTick, SubmissionRows, FinalReceipts, BOOLEAN)

offeredOptions(k) == Options
unanswered == [status |-> "none", target |-> 0, left |-> 0, action |-> NoAction,
               receipt |-> "none", sealed |-> FALSE]

-----------------------------------------------------------------------------
(* The turn store.                                                          *)

pending(t) == t.status \in {"open", "submitted"}
overdue(t) == pending(t) /\ t.left < 0
ended(t, receipt) == [t EXCEPT !.status = "terminal", !.left = 0, !.receipt = receipt]

authenticate(agent) == agent \in credentials

(* An expiry writes the receipt, then the turn, in two statements.  A crash *)
(* between them leaves an open turn whose receipt exists already: from then *)
(* on each expiry of it throws, for it inserts that receipt again.          *)
stuck(t) == t.status = "open" /\ t.receipt # "none"
expireTurn(t) == IF t.status = "terminal" \/ stuck(t) THEN t ELSE ended(t, "fallback")
halfExpired(t) == [t EXCEPT !.receipt = "fallback"]

(* A loop of expiries goes by target tick and ends at the first that throws.*)
expired(E) == [k \in KeySet |-> IF k \in E THEN expireTurn(turns[k]) ELSE turns[k]]
prefixes(D) ==
  {E \in SUBSET D : \A k \in E : /\ ~stuck(turns[k])
                                 /\ \A j \in D \ E : turns[k].target <= turns[j].target}
loopEnds(D) ==
  {E \in prefixes(D) : E = D \/ \E j \in D \ E : stuck(turns[j])
                                 /\ \A k \in D \ E : turns[j].target <= turns[k].target}
dueTurns == {k \in KeySet : overdue(turns[k])}
expireDueTurns == \E E \in loopEnds(dueTurns) : turns' = expired(E)

acceptedSubmission(t) == t.action # NoAction

envelopeFor(k) == [unanswered EXCEPT !.status = "open", !.target = tick + 1, !.left = Deadline]

openTurn(k) ==
  IF AgentOf[k] \in credentials THEN envelopeFor(k) ELSE expireTurn(envelopeFor(k))

(* An opportunity key names no tick: a turn of an earlier tick, or of an    *)
(* earlier attempt at this one, has another deadline in its envelope.       *)
conflictingTurn(k) == turns[k].status # "none"

OverwrittenReceipt(t, status) ==  \* mutant: the receipt is not checked for being queued
  IF t.status = "open" \/ ~acceptedSubmission(t) THEN expireTurn(t) ELSE ended(t, status)

finalizeTurn(t, status) ==
  IF t.status = "open" \/ ~acceptedSubmission(t) THEN expireTurn(t)
  ELSE IF t.receipt # "queued" THEN t
  ELSE ended(t, status)

-----------------------------------------------------------------------------
(* Preparing a tick.                                                        *)

before(j, k) == \E p, q \in DOMAIN Keys : p < q /\ Keys[p] = j /\ Keys[q] = k
discoverTier2DecisionOpportunities ==
  {s \in SeqOf(KeySet, Len(Keys)) : \A i, j \in DOMAIN s : i < j => before(s[i], s[j])}
prepared == Len(entries) = Len(due)
next == due[Len(entries) + 1]
running == ~halted /\ ~unsealed /\ tick < LastTick
asking == running /\ ~waiting /\ ~prepared

record(result) == entries' = Append(entries, result)

proposeNative ==
  /\ asking /\ controllerForAgent(next) = "native"
  /\ \E result \in Answers : record(result)
  /\ UNCHANGED <<mode, tick, due, waiting, turns, credentials, timers, unsealed, journal, crashes, halted>>

openShadowTurn(k) ==
  IF conflictingTurn(k) THEN UNCHANGED <<turns, timers>>
  ELSE turns' = [turns EXCEPT ![k] = openTurn(k)] /\ timers' = timers \cup {k}

proposeShadow ==
  /\ asking /\ controllerForAgent(next) = "shadow"
  /\ openShadowTurn(next) /\ \E result \in Answers : record(result)
  /\ UNCHANGED <<mode, tick, due, waiting, credentials, unsealed, journal, crashes, halted>>

TakesUpTheTurn ==  \* mutant: an earlier turn of the opportunity is taken up, not refused
  /\ asking /\ controllerForAgent(next) = "external" /\ waiting' = TRUE
  /\ turns' = [turns EXCEPT ![next] = IF conflictingTurn(next) THEN @ ELSE openTurn(next)]
  /\ UNCHANGED <<mode, tick, due, entries, credentials, timers, unsealed, journal, crashes, halted>>

proposeExternal ==
  /\ asking /\ controllerForAgent(next) = "external"
  /\ IF conflictingTurn(next) THEN record(Refused) /\ UNCHANGED <<turns, waiting>>
     ELSE /\ turns' = [turns EXCEPT ![next] = openTurn(next)] /\ waiting' = TRUE
          /\ UNCHANGED entries
  /\ UNCHANGED <<mode, tick, due, credentials, timers, unsealed, journal, crashes, halted>>

PollsForever ==  \* mutant: the wait for an answer looks at no deadline
  /\ waiting
  /\ LET t == turns[next]
     IN \/ acceptedSubmission(t) /\ record(t.action) /\ UNCHANGED turns
        \/ ~acceptedSubmission(t) /\ t.status = "terminal" /\ record(Refused) /\ UNCHANGED turns
  /\ waiting' = FALSE
  /\ UNCHANGED <<mode, tick, due, credentials, timers, unsealed, journal, crashes, halted>>

waitForAcceptedSubmission ==
  /\ waiting
  /\ LET t == turns[next]
     IN \/ acceptedSubmission(t) /\ record(t.action) /\ UNCHANGED turns
        \/ /\ ~acceptedSubmission(t) /\ t.status = "terminal"
           /\ record(Refused) /\ UNCHANGED turns
        \/ /\ ~acceptedSubmission(t) /\ overdue(t)
           /\ record(Refused) /\ turns' = [turns EXCEPT ![next] = expireTurn(t)]
  /\ waiting' = FALSE
  /\ UNCHANGED <<mode, tick, due, credentials, timers, unsealed, journal, crashes, halted>>

-----------------------------------------------------------------------------
(* Controllers, credentials, the wall clock, the shadow timers.             *)

sidecar == UNCHANGED <<mode, tick, due, entries, waiting, unsealed, journal, crashes, halted>>

turnForIdentity(agent) ==
  /\ authenticate(agent) /\ expireDueTurns
  /\ turns' # turns /\ UNCHANGED <<credentials, timers>> /\ sidecar

submit(k, action) ==
  /\ authenticate(AgentOf[k]) /\ action \in offeredOptions(k) /\ turns[k].status = "open"
  /\ turns' = [turns EXCEPT ![k] =
       IF overdue(@) THEN expireTurn(@)
       ELSE IF controllerForAgent(k) = "shadow" THEN ended([@ EXCEPT !.action = action], "shadowed")
       ELSE [@ EXCEPT !.status = "submitted", !.action = action, !.receipt = "queued"]]
  /\ UNCHANGED <<credentials, timers>> /\ sidecar

turnsOf(agent) == {k \in KeySet : AgentOf[k] = agent /\ pending(turns[k])}
expireOpenTurnsForAgent(agent) == \E E \in loopEnds(turnsOf(agent)) : turns' = expired(E)

revokeCredential(agent) ==
  /\ authenticate(agent) /\ credentials' = credentials \ {agent}
  /\ expireOpenTurnsForAgent(agent) /\ UNCHANGED timers /\ sidecar

passTime ==
  /\ \E k \in KeySet : pending(turns[k]) /\ turns[k].left >= 0
  /\ turns' = [k \in KeySet |-> [turns[k] EXCEPT !.left = IF pending(turns[k]) /\ @ >= 0 THEN @ - 1 ELSE @]]
  /\ UNCHANGED <<credentials, timers>> /\ sidecar

fireShadowTimer(k) ==
  /\ k \in timers /\ (pending(turns[k]) => overdue(turns[k]))
  /\ expireDueTurns /\ timers' = timers \ {k} /\ UNCHANGED credentials /\ sidecar

-----------------------------------------------------------------------------
(* The tick.                                                                *)

(* A proposal is live when it names an option whose action the registry     *)
(* still accepts; otherwise the first acceptable option of the menu is      *)
(* taken, and the action may still fail when it is carried out.             *)
resolveLiveDecision(result, live) == IF live THEN result ELSE Default
decision(k, result, live, applied) ==
  [tick |-> tick + 1, key |-> k, result |-> result, choice |-> resolveLiveDecision(result, live),
   live |-> live, applied |-> applied]

AppliedEitherWay(d) ==  \* mutant: the receipt reports that an action was applied, not whose
  IF d.applied THEN "applied" ELSE "rejected"

finalStatus(d) ==
  IF ~d.live THEN "fallback" ELSE IF d.applied THEN "applied" ELSE "rejected"

(* What the action registry says of each proposal: acceptable or not, and   *)
(* carried out or failed.                                                   *)
registryVerdicts ==
  {v \in [DOMAIN entries -> [live : BOOLEAN, applied : BOOLEAN]] :
     \A i \in DOMAIN entries : v[i].live => entries[i] # Refused}

decided(verdicts) ==
  [i \in DOMAIN entries |-> decision(due[i], entries[i], verdicts[i].live, verdicts[i].applied)]

finalizeTurns(decisions) ==
  [k \in KeySet |->
     IF k \in Range(due) /\ controllerForAgent(k) = "external"
       THEN finalizeTurn(turns[k], finalStatus(CHOOSE d \in Range(decisions) : d.key = k))
       ELSE turns[k]]

(* A tick that has to end a stuck turn throws with it.                      *)
settles == \A k \in Range(due) : controllerForAgent(k) = "external" => ~stuck(turns[k])

applyTick ==
  /\ running /\ ~waiting /\ prepared /\ settles
  /\ \E verdicts \in registryVerdicts :
       /\ turns' = finalizeTurns(decided(verdicts))
       /\ journal' = journal \o decided(verdicts)
  /\ tick' = tick + 1 /\ entries' = <<>> /\ unsealed' = TRUE
  /\ due' \in discoverTier2DecisionOpportunities
  /\ UNCHANGED <<mode, waiting, credentials, timers, crashes, halted>>

tickThrows ==
  /\ running /\ ~waiting /\ prepared /\ halted' = TRUE /\ entries' = <<>>
  /\ UNCHANGED <<mode, tick, due, waiting, turns, credentials, timers, unsealed, journal, crashes>>

sealedTurns(S) == [k \in KeySet |-> [turns[k] EXCEPT !.sealed = @ \/ k \in S]]
appliedNow == {k \in KeySet : turns[k].receipt = "applied" /\ turns[k].target = tick}

finalizePostTick ==
  /\ unsealed /\ unsealed' = FALSE /\ turns' = sealedTurns(appliedNow)
  /\ UNCHANGED <<mode, tick, due, entries, waiting, credentials, timers, journal, crashes, halted>>

-----------------------------------------------------------------------------
(* Crashes.  The proposals, the poll and the timers live in memory only,    *)
(* and nobody seals a tick that committed before the crash.                 *)
restart ==
  /\ crashes < Crashes /\ crashes' = crashes + 1
  /\ entries' = <<>> /\ waiting' = FALSE /\ timers' = {} /\ unsealed' = FALSE
  /\ UNCHANGED <<mode, tick, due, journal, halted>>

crash == restart /\ UNCHANGED <<turns, credentials>>

(* The process dies inside a loop of expiries: some are done, and of the    *)
(* next one the receipt may be written.                                     *)
interrupted(D) ==
  \E E \in prefixes(D) :
    turns' = expired(E) \/ \E k \in E : turns' = [expired(E \ {k}) EXCEPT ![k] = halfExpired(turns[k])]

(* The expiries of a client's poll, of a shadow timer, of the service's own *)
(* poll of the turn it waits for.                                           *)
crashInExpiry ==
  /\ \/ (credentials # {} \/ timers # {}) /\ interrupted(dueTurns)
     \/ waiting /\ ~acceptedSubmission(turns[next]) /\ overdue(turns[next]) /\ interrupted({next})
  /\ restart /\ UNCHANGED credentials

crashInRevocation(agent) ==
  /\ authenticate(agent) /\ credentials' = credentials \ {agent}
  /\ interrupted(turnsOf(agent)) /\ restart

crashInOffer ==
  /\ asking /\ controllerForAgent(next) # "native" /\ ~conflictingTurn(next)
  /\ AgentOf[next] \notin credentials
  /\ \E t \in {envelopeFor(next), halfExpired(envelopeFor(next))} : turns' = [turns EXCEPT ![next] = t]
  /\ restart /\ UNCHANGED credentials

crashInSealing ==
  /\ unsealed /\ \E S \in SUBSET appliedNow : turns' = sealedTurns(S)
  /\ restart /\ UNCHANGED credentials

-----------------------------------------------------------------------------
issuedCredentials == CredentialRows
initializeTrial == mode \in {"native", "shadow", "external"}

Init ==
  /\ initializeTrial /\ tick = 0 /\ due \in discoverTier2DecisionOpportunities /\ entries = <<>> /\ waiting = FALSE
  /\ turns = [k \in KeySet |-> unanswered] /\ credentials = issuedCredentials /\ timers = {}
  /\ unsealed = FALSE /\ journal = <<>> /\ crashes = 0 /\ halted = FALSE

prepare == proposeNative \/ proposeShadow \/ proposeExternal \/ waitForAcceptedSubmission
advance == prepare \/ applyTick \/ tickThrows \/ finalizePostTick

Next ==
  \/ advance \/ passTime \/ crash \/ crashInExpiry \/ crashInOffer \/ crashInSealing
  \/ \E k \in KeySet : fireShadowTimer(k) \/ \E action \in Options : submit(k, action)
  \/ \E agent \in Cohort : turnForIdentity(agent) \/ revokeCredential(agent) \/ crashInRevocation(agent)

(* The service goes on with its loop, and the wall clock with its time; no  *)
(* controller has to answer.                                                *)
Spec == Init /\ [][Next]_vars /\ WF_vars(advance) /\ WF_vars(passTime)

-----------------------------------------------------------------------------
TypeOK ==
  /\ [mode |-> mode, tick |-> tick, crashes |-> crashes, halted |-> halted, unsealed |-> unsealed] \in TrialRow
  /\ due \in discoverTier2DecisionOpportunities /\ entries \in Seq(Options \cup {Refused}) /\ waiting \in BOOLEAN
  /\ turns \in [KeySet -> TurnRows] /\ credentials \subseteq CredentialRows
  /\ timers \subseteq KeySet /\ Range(journal) \subseteq LlmCallRecords

(* A receipt says "applied" only when the committed decision of the turn's  *)
(* own tick took the very action its controller had submitted, and carried  *)
(* it out: not for a fallback, not for a decision of another tick           *)
(* (finalizeTurn and the receipts of tier2-decision-phase.ts).              *)
AppliedOnlyAsAccepted ==
  \A k \in KeySet : turns[k].receipt = "applied" =>
    \E i \in DOMAIN journal :
      /\ journal[i].key = k /\ journal[i].tick = turns[k].target
      /\ journal[i].applied /\ journal[i].choice = turns[k].action

(* Once a tick is committed no external turn for it, nor one a crash left   *)
(* behind or half-written, is still unanswered: the controller of a citizen *)
(* is never left with a receipt that says "queued" for a tick that has been.*)
TurnsEndWithTheirTick ==
  \A k \in KeySet :
    controllerForAgent(k) = "external" /\ turns[k].status # "none" /\ turns[k].target <= tick
      => turns[k].receipt \in FinalReceipts

(* From the statement that revokes a citizen's credential on, no action of  *)
(* its controller is applied any more: not one queued before, not one the   *)
(* service had taken already, not after a crash among the expiries the      *)
(* revocation entails (revokeCredential, openTurn, finalizeTurn).           *)
RevokedNeverApplied ==
  [][\A k \in KeySet : AgentOf[k] \notin credentials /\ turns[k].receipt # "applied"
       => turns'[k].receipt # "applied"]_vars

(* Whatever the controllers do, an answer the service waits for comes or    *)
(* is given up: no client can hold up the simulated world.                  *)
PreparationEnds == []<>(~waiting)

(* The receipt decides: a turn whose expiry is half-written has ended.      *)
stageOf(t) == CASE t.receipt \in FinalReceipts -> "ended"
                [] t.receipt = "queued" -> "queued"
                [] t.receipt = "none" -> IF t.status = "none" THEN "unoffered" ELSE "open"
verdictOf(t) == IF t.receipt \in FinalReceipts THEN t.receipt ELSE "none"
Stages == [k \in KeySet |-> stageOf(turns[k])]
Accepted == [k \in KeySet |-> turns[k].action]
Verdicts == [k \in KeySet |-> verdictOf(turns[k])]

Turn == INSTANCE TurnContract WITH
  Turns <- KeySet, Answers <- Options, NoAnswer <- NoAction,
  stage <- Stages, answer <- Accepted, verdict <- Verdicts

(* A turn is offered once, takes one answer and ends once, with a verdict   *)
(* that deadlines, polls, revocations, ticks and crashes never revise, even *)
(* when they find its expiry half-written.                                  *)
ImplementsTurn == Turn!Spec

-----------------------------------------------------------------------------
(* Strict replay of the committed run from its journal, tick by tick: both  *)
(* replay providers look up the next recorded call by its ordinal.  An      *)
(* instance of the evidence provider counts its own calls since the last    *)
(* commit; the submission provider counts the committed submissions.        *)
isExternal(call) == controllerForAgent(call.key) = "external"
callsBefore(i) == Cardinality({j \in DOMAIN journal : journal[j].tick < journal[i].tick})
nextLlmExpectationOrdinal(i) ==
  callsBefore(i) + Cardinality({j \in 1 .. i : /\ journal[j].tick = journal[i].tick
                                               /\ isExternal(journal[j]) = isExternal(journal[i])})
submissions == {j \in DOMAIN journal : isExternal(journal[j]) /\ journal[j].result # Refused}
submissionAt(n) == CHOOSE j \in submissions : Cardinality({h \in submissions : h < j}) = n - 1
submissionOrdinal(i) ==
  Cardinality({j \in submissions : journal[j].tick < journal[i].tick}) + 1
sameRequest(c, d) == c.tick = d.tick /\ c.key = d.key

replayed(i) ==
  LET expected == journal[nextLlmExpectationOrdinal(i)]
      submitted == journal[submissionAt(submissionOrdinal(i))]
  IN IF ~sameRequest(expected, journal[i]) THEN Refused
     ELSE IF isExternal(journal[i]) /\ expected.result # Refused
       THEN IF submissionOrdinal(i) <= Cardinality(submissions) /\ sameRequest(submitted, journal[i])
              THEN submitted.result ELSE Refused
     ELSE expected.result

(* The provider of each batch is one instance, and the submissions are      *)
(* counted per tick: two submissions, or a mix of native and external       *)
(* calls, in one tick are looked up at the wrong place.                     *)
soloTicks ==
  \A i, j \in DOMAIN journal :
    i # j /\ journal[i].tick = journal[j].tick => ~isExternal(journal[i]) /\ ~isExternal(journal[j])

(* Strict replay finds every committed proposal again, native or submitted  *)
(* from outside, across fallbacks, missed deadlines and crashes that made   *)
(* the run prepare a tick twice, as long as an external proposal is the     *)
(* only one of its tick (agent-lab-provider.ts, replay-llm-provider.ts).    *)
ReplayReproduces == soloTicks => \A i \in DOMAIN journal : replayed(i) = journal[i].result

(* What holds of turns, receipts and journal in every state.                *)
LabSound ==
  /\ TypeOK /\ AppliedOnlyAsAccepted /\ TurnsEndWithTheirTick /\ ReplayReproduces
=============================================================================
