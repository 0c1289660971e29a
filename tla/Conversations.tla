--------------------------- MODULE Conversations ---------------------------
(***************************************************************************)
(* Bounded conversations between a founder and a venture partner: the      *)
(* negotiation of an investment proposal, turn by turn.  Before a tick the *)
(* service asks the provider for one response per talk (conversation-      *)
(* phase.ts, prepareConversationBatch: an await per call); the tick then   *)
(* delivers the inbox, applies the prepared responses in id order, expires *)
(* overdue proposals, settles the ones whose talk has ended and opens at   *)
(* most one new talk, all in one transaction.                              *)
(*                                                                         *)
(* Abstracted: what is said (a message is its kind and its terms), the     *)
(* decision and call journals, and the bounds of the terms (Terms are the  *)
(* candidates that conversationTermCandidates derives from them).  A talk  *)
(* that has ended keeps its counters and its outcome; nothing reads its    *)
(* transcript again, which the model drops.                                *)
(***************************************************************************)
EXTENDS Integers, Sequences, FiniteSetsExt

CONSTANTS
  Companies,     \* the companies that may ask for an investment
  FounderOf,     \* the founder of each company
  Partners,      \* the partners of the venture firm, in the order of their ids
  Terms,         \* the candidate terms of every negotiation
  MaxTurns,      \* INVESTMENT_NEGOTIATION_MAX_TURNS (6)
  TokenBudget,   \* INVESTMENT_NEGOTIATION_OUTPUT_TOKEN_BUDGET (4096)
  Costs,         \* the output tokens a response may be charged
  Lifetime,      \* INVESTMENT_PROPOSAL_LIFETIME_TICKS (14)
  Cooldown,      \* CONVERSATION_TOPIC_COOLDOWN_TICKS (7)
  PassLength,    \* bound: the ticks an offline pass may cover (ASYNC_ADVANCE_CHUNK_TICKS,
                 \* the ticks of an advance request, or the snapshot interval)
  InitialTies,   \* the relationships of the generated world
  LastTick       \* bound: the run stops here

ASSUME LimitsAssumption ==
  /\ MaxTurns \in Nat \ {0} /\ TokenBudget \in Nat \ {0} /\ Costs \subseteq Nat
  /\ Lifetime \in Nat \ {0} /\ Cooldown \in Nat /\ LastTick \in Nat
  /\ MaxTurns < Lifetime /\ PassLength \in Nat
  /\ "no_terms" \notin Terms

VARIABLES
  offline,   \* llmMode is "off": there is no provider
  tick,      \* the last committed tick
  pass,      \* ticks left that run without preparation (0: the next one is prepared)
  batch,     \* the responses prepared for the next tick, in talk order
  talks,     \* the conversations with their proposals, in id order
  inbox,     \* the messages not yet read by their recipient
  ties,      \* relationships, one per ordered pair of agents
  memories,  \* how many conversations each agent remembers
  halted     \* a tick threw: the run stops

vars == <<offline, tick, pass, batch, talks, inbox, ties, memories, halted>>

NoTerms == "no_terms"
NoTie == [type |-> "none", strength |-> 0, last |-> 0]
Agents == {FounderOf[c] : c \in Companies} \cup Range(Partners)

\* No partner of the venture firm founds a company.
ASSUME PartiesAssumption ==
  /\ FounderOf \in [Companies -> Agents] /\ Partners \in Seq(Agents)
  /\ \A c \in Companies : FounderOf[c] \notin Range(Partners)
CloseReasons == {"agreement", "declined", "no_progress", "max_turns", "token_budget",
                 "provider_fallback", "invalid_proposal", "expired"}
MessageRows == [sender : Agents, kind : {"offer", "counter", "accept", "decline", "clarify"},
                terms : Terms \cup {NoTerms}]
Outcomes == [kind : {"none", "agreement", "no_agreement", "escalate"}, terms : Terms \cup {NoTerms}]
ProposalStatuses == {"negotiating", "agreed", "rejected", "expired"}
ConversationRows ==
  [company : Companies, first : Agents, second : Agents, start : 0 .. LastTick,
   status : {"active", "concluded", "force_closed", "expired"},
   reason : CloseReasons \cup {"none"}, outcome : Outcomes, tokens : 0 .. TokenBudget,
   turns : 0 .. MaxTurns, end : 0 .. LastTick, messages : Seq(MessageRows),
   proposal : ProposalStatuses]
InboxRows == [talk : Nat, turn : 1 .. MaxTurns, to : Agents, due : Nat, delivered : BOOLEAN]
RelationshipRows == [type : {"none", "business", "friend", "adversary"},
                     strength : -100 .. 100, last : 0 .. LastTick]
\* Nobody but an adversary is liked less than nothing.
RelationshipSound(tie) ==
  /\ tie.type = "adversary" <=> tie.strength < 0
  /\ tie.type = "none" => tie = NoTie

ASSUME TiesAssumption ==
  /\ InitialTies \in [Agents \X Agents -> RelationshipRows]
  /\ \A d \in Agents \X Agents : RelationshipSound(InitialTies[d]) /\ InitialTies[d].last = 0

-----------------------------------------------------------------------------
(* The menu of a turn and the rules that end a talk.                        *)

participants(t) == {t.first, t.second}
shares(t, u) == participants(t) \cap participants(u) # {}
nextConversationSpeaker(t) == IF t.turns % 2 = 0 THEN t.first ELSE t.second
recipient(t) == IF t.turns % 2 = 0 THEN t.second ELSE t.first
BudgetOfOneMessage(t) == TokenBudget  \* mutant: what earlier messages cost is forgotten
remainingTokens(t) == TokenBudget - t.tokens

conversationTermCandidates(t) == Terms
termsWithinConversationBounds(t, terms) == terms \in conversationTermCandidates(t)

latestTerms(t, turns) == IF turns = {} THEN NoTerms ELSE t.messages[Max(turns)].terms

LatestTermsOfAnyone(t, sender) ==  \* mutant: an agent may accept what it proposed itself
  latestTerms(t, {k \in DOMAIN t.messages : t.messages[k].terms # NoTerms})

lastTermsFromOther(t, sender) ==
  latestTerms(t, {k \in DOMAIN t.messages :
                    t.messages[k].sender # sender /\ t.messages[k].terms # NoTerms})

option(kind, terms) == [kind |-> kind, terms |-> terms]

conversationMessageOptions(t) ==
  LET proposing == IF t.messages = <<>> THEN "offer" ELSE "counter"
      offered == {lastTermsFromOther(t, nextConversationSpeaker(t))} \ {NoTerms}
  IN {option(proposing, x) : x \in conversationTermCandidates(t)}
       \cup {option("accept", x) : x \in offered}
       \cup {option("clarify", NoTerms), option("decline", NoTerms)}

conversationHasNoProgress(t, sender, terms) ==
  LET own == {k \in DOMAIN t.messages : t.messages[k].sender = sender}
  IN terms # NoTerms /\ own # {} /\ t.messages[Max(own)].terms = terms

plan(accepted, reason) == [accepted |-> accepted, reason |-> reason]

OneTurnLate(t, chosen, cost) ==  \* mutant: the turn limit is tested before the new message counts
  IF cost > remainingTokens(t) THEN plan(FALSE, "token_budget")
  ELSE IF chosen.kind = "accept" THEN plan(TRUE, "agreement")
  ELSE IF chosen.kind = "decline" THEN plan(TRUE, "declined")
  ELSE IF conversationHasNoProgress(t, nextConversationSpeaker(t), chosen.terms)
    THEN plan(TRUE, "no_progress")
  ELSE IF Len(t.messages) >= MaxTurns THEN plan(TRUE, "max_turns")
  ELSE IF t.tokens + cost >= TokenBudget THEN plan(TRUE, "token_budget")
  ELSE plan(TRUE, "none")

planConversationClose(t, chosen, cost) ==
  IF cost > remainingTokens(t) THEN plan(FALSE, "token_budget")
  ELSE IF chosen.kind = "accept" THEN plan(TRUE, "agreement")
  ELSE IF chosen.kind = "decline" THEN plan(TRUE, "declined")
  ELSE IF conversationHasNoProgress(t, nextConversationSpeaker(t), chosen.terms)
    THEN plan(TRUE, "no_progress")
  ELSE IF Len(t.messages) + 1 >= MaxTurns THEN plan(TRUE, "max_turns")
  ELSE IF t.tokens + cost >= TokenBudget THEN plan(TRUE, "token_budget")
  ELSE plan(TRUE, "none")

acceptedTerms(chosen, reason) == IF reason = "agreement" THEN chosen.terms ELSE NoTerms

deterministicConversationOutcome(reason, terms) ==
  IF reason = "agreement" /\ terms # NoTerms
    THEN [kind |-> "agreement", terms |-> terms]
    ELSE [kind |-> "no_agreement", terms |-> NoTerms]

conversationOutcomeOptions(reason, terms) ==
  IF reason = "agreement" /\ terms # NoTerms
    THEN {[kind |-> "agreement", terms |-> terms]}
    ELSE {[kind |-> "no_agreement", terms |-> NoTerms]}
           \cup {[kind |-> "escalate", terms |-> NoTerms] :
                   r \in {reason} \cap {"max_turns", "no_progress"}}

terminalStatus(reason) ==
  CASE reason \in {"agreement", "declined"} -> "concluded"
    [] reason \in {"provider_fallback", "invalid_proposal"} -> "force_closed"
    [] OTHER -> "expired"

conversationRelationshipStrength(tie, kind) ==
  LET delta == CASE kind = "agreement" -> 2 [] kind = "escalate" -> -2 [] OTHER -> -1
      low == IF tie.type = "adversary" THEN -100 ELSE 0
      high == IF tie.type = "adversary" THEN -1 ELSE 100
      moved == tie.strength + delta
  IN IF moved < low THEN low ELSE IF moved > high THEN high ELSE moved

-----------------------------------------------------------------------------
(* Preparing a tick: which talks get a turn, and what the provider says.    *)

DueTheDayAfter(i, now) ==  \* mutant: a message delivered today is answered tomorrow
  LET t == talks[i]
  IN t.status = "active" /\ t.start <= now
     /\ (t.turns = 0 \/ \E row \in inbox : row.talk = i /\ row.turn = t.turns /\ row.due < now)

isDue(i, now) ==
  LET t == talks[i]
  IN t.status = "active" /\ t.start <= now
     /\ (t.turns = 0 \/ \E row \in inbox : row.talk = i /\ row.turn = t.turns /\ row.due <= now)

NewestFirst(now) ==  \* mutant: a new talk gets its turn before the ones it interrupts
  LET opportunities[n \in 0 .. Len(talks)] ==
        IF n = 0 THEN {}
        ELSE LET i == Len(talks) + 1 - n
             IN opportunities[n - 1] \cup
                {k \in {i} : isDue(k, now) /\ \A j \in opportunities[n - 1] : ~shares(talks[k], talks[j])}
  IN opportunities[Len(talks)]

\* In id order, a due talk gets a turn unless one of its participants has one already.
discoverConversationTurnOpportunities(now) ==
  LET opportunities[i \in 0 .. Len(talks)] ==
        IF i = 0 THEN {}
        ELSE opportunities[i - 1] \cup
             {k \in {i} : isDue(k, now) /\ \A j \in opportunities[i - 1] : ~shares(talks[k], talks[j])}
  IN opportunities[Len(talks)]

fallbackMessageOption == option("decline", NoTerms)

entryOf(i, live, chosen, cost, close, outcome, outcomeCost) ==
  [talk |-> i, was |-> talks[i], live |-> live, chosen |-> chosen, cost |-> cost,
   close |-> close, outcome |-> outcome, outcomeCost |-> outcomeCost]

closedByRule(i, reason, accepted) ==
  entryOf(i, FALSE, fallbackMessageOption, 0, plan(accepted, reason),
          deterministicConversationOutcome(reason, NoTerms), 0)

OngoingOutcome == [kind |-> "none", terms |-> NoTerms]

prepareOutcomeCall(i, chosen, cost, close) ==
  LET left == remainingTokens(talks[i]) - cost
      terms == acceptedTerms(chosen, close.reason)
      byRule == entryOf(i, TRUE, chosen, cost, close,
                        deterministicConversationOutcome(close.reason, terms), 0)
  IN {byRule} \cup
     {entryOf(i, TRUE, chosen, cost, close, outcome, more) :
        outcome \in conversationOutcomeOptions(close.reason, terms),
        more \in {c \in Costs : left >= 1 /\ c <= left}}

respond(i, chosen, cost) ==
  LET close == planConversationClose(talks[i], chosen, cost)
  IN IF ~close.accepted THEN {closedByRule(i, close.reason, FALSE)}
     ELSE IF close.reason = "none" THEN {entryOf(i, TRUE, chosen, cost, close, OngoingOutcome, 0)}
     ELSE prepareOutcomeCall(i, chosen, cost, close)

fallbackEntries(i) ==
  {closedByRule(i, "provider_fallback", TRUE), closedByRule(i, "invalid_proposal", TRUE)}

entriesFor(i) ==
  IF offline THEN {closedByRule(i, "provider_fallback", TRUE)}
  ELSE IF remainingTokens(talks[i]) < 1 THEN {closedByRule(i, "token_budget", FALSE)}
  ELSE fallbackEntries(i)
         \cup UNION {respond(i, chosen, cost) :
                       chosen \in conversationMessageOptions(talks[i]), cost \in Costs}

\* The opportunities of the next tick that have no response yet.
opportunitiesLeft ==
  discoverConversationTurnOpportunities(tick + 1) \ {batch[k].talk : k \in DOMAIN batch}

prepareConversationBatch ==
  /\ ~halted /\ tick < LastTick /\ pass = 0
  /\ \E i \in opportunitiesLeft :
       /\ \A j \in opportunitiesLeft : i <= j
       /\ \E entry \in entriesFor(i) : batch' = Append(batch, entry)
  /\ UNCHANGED <<offline, tick, pass, talks, inbox, ties, memories, halted>>

(* A pause or a crash between two calls: the prepared responses live in     *)
(* memory only.                                                             *)
discardBatch ==
  /\ ~halted /\ batch # <<>> /\ batch' = <<>>
  /\ UNCHANGED <<offline, tick, pass, talks, inbox, ties, memories, halted>>

-----------------------------------------------------------------------------
(* The tick transaction.  A world is the state it works on; `failed' is the *)
(* exception that rolls all of it back.                                     *)

world == [talks |-> talks, inbox |-> inbox, ties |-> ties, memories |-> memories, failed |-> FALSE]
throwIf(w, condition) == [w EXCEPT !.failed = @ \/ condition]

DeliveredADayLate(w, now) ==  \* mutant: a message due today is still in transit
  [w EXCEPT !.inbox = {[row EXCEPT !.delivered = @ \/ row.due < now] : row \in @}]

deliverDue(w, now) ==
  [w EXCEPT !.inbox = {[row EXCEPT !.delivered = @ \/ row.due <= now] : row \in @}]

markReadForResponse(w, i, agent) ==
  [w EXCEPT !.inbox = {row \in @ : ~(row.talk = i /\ row.to = agent /\ row.delivered)}]

appendMessage(w, i, chosen, cost, now) ==
  LET t == w.talks[i]
      read == markReadForResponse(w, i, nextConversationSpeaker(t))
      message == [sender |-> nextConversationSpeaker(t), kind |-> chosen.kind, terms |-> chosen.terms]
      sent == [talk |-> i, turn |-> t.turns + 1, to |-> recipient(t), due |-> now + 1,
               delivered |-> FALSE]
      refused == t.status # "active" \/ t.turns >= MaxTurns \/ cost > remainingTokens(t)
  IN IF refused THEN throwIf(w, TRUE)
     ELSE [read EXCEPT !.talks[i] = [t EXCEPT !.messages = Append(@, message), !.turns = @ + 1,
                                              !.tokens = @ + cost],
                       !.inbox = @ \cup {sent}]

assertDecisionEvidence(w, i, agent) == agent \in participants(w.talks[i])
assertOutcomeEvidence(outcome) == outcome.kind # "none"

tieAfter(tie, kind, start, now) ==
  LET known == IF tie = NoTie THEN [type |-> "business", strength |-> 0, last |-> start] ELSE tie
  IN [known EXCEPT !.strength = conversationRelationshipStrength(known, kind), !.last = now]

OnlyTheFirstFeelsIt(w, t, outcome, now) ==  \* mutant: the relationship moves in one direction only
  [w EXCEPT !.ties[<<t.first, t.second>>] = tieAfter(@, outcome.kind, t.start, now)]

updateRelationships(w, t, outcome, now) ==
  LET directions == {<<t.first, t.second>>, <<t.second, t.first>>}
      ahead == \E d \in directions : w.ties[d] # NoTie /\ w.ties[d].last > now
  IN [throwIf(w, ahead) EXCEPT
        !.ties = [d \in DOMAIN @ |->
                    IF d \in directions THEN tieAfter(@[d], outcome.kind, t.start, now) ELSE @[d]]]

remember(w, t) ==
  [w EXCEPT !.memories = [a \in DOMAIN @ |-> IF a \in participants(t) THEN @[a] + 1 ELSE @[a]]]

outcomeDisagrees(reason, outcome) ==
  \/ (reason = "agreement") # (outcome.kind = "agreement")
  \/ outcome.kind = "escalate" /\ reason \notin {"max_turns", "no_progress"}

close(w, i, reason, outcome, cost, now) ==
  LET t == w.talks[i]
      refused == \/ t.status # "active" \/ cost > remainingTokens(t)
                 \/ outcomeDisagrees(reason, outcome) \/ ~assertOutcomeEvidence(outcome)
                 \/ outcome.terms # NoTerms /\ ~termsWithinConversationBounds(t, outcome.terms)
      closed == [t EXCEPT !.status = terminalStatus(reason), !.reason = reason,
                          !.outcome = outcome, !.end = now, !.tokens = @ + cost, !.messages = <<>>]
      ended == [w EXCEPT !.talks[i] = closed]
  IN IF refused THEN throwIf(w, TRUE) ELSE remember(updateRelationships(ended, t, outcome, now), t)

assertPreparedCurrent(w, entry) == w.talks[entry.talk] = entry.was

applyEntry(w, entry, now) ==
  LET i == entry.talk
      checked == throwIf(w, ~assertPreparedCurrent(w, entry)
                              \/ ~assertDecisionEvidence(w, i, nextConversationSpeaker(entry.was)))
      spoken == IF ~entry.close.accepted THEN checked
                ELSE appendMessage(checked, i, entry.chosen, entry.cost, now)
  IN IF entry.close.reason = "none" \/ spoken.failed THEN spoken
     ELSE close(spoken, i, entry.close.reason, entry.outcome, entry.outcomeCost, now)

createConversationPhaseHandler(w, now) ==
  LET done[k \in 0 .. Len(batch)] ==
        IF k = 0 THEN deliverDue(w, now) ELSE applyEntry(done[k - 1], batch[k], now)
  IN done[Len(batch)]

proposalAfter(t) ==
  CASE t.outcome.kind = "agreement" -> "agreed"
    [] t.reason = "expired" -> "expired"
    [] OTHER -> "rejected"

transitionTerminal(w, i) == [w EXCEPT !.talks[i].proposal = proposalAfter(w.talks[i])]

expireTalk(w, i, now) ==
  close(w, i, "expired", deterministicConversationOutcome("expired", NoTerms), 0, now)

settleProposal(w, i, now) ==
  LET t == w.talks[i]
      overdue == t.status = "active" /\ now >= t.start + Lifetime
      ended == IF overdue THEN expireTalk(w, i, now) ELSE w
  IN IF t.proposal # "negotiating" \/ ended.talks[i].status = "active" THEN w
     ELSE transitionTerminal(ended, i)

processTick(w, now) ==
  LET done[i \in 0 .. Len(w.talks)] ==
        IF i = 0 THEN w ELSE settleProposal(done[i - 1], i, now)
  IN done[Len(w.talks)]

openedToday(w, pair, now) ==
  \E i \in DOMAIN w.talks : w.talks[i].start = now /\ participants(w.talks[i]) \cap pair # {}
repeatsTopic(w, pair, now) ==
  \E i \in DOMAIN w.talks :
    LET t == w.talks[i]
    IN participants(t) = pair /\ (t.status = "active" \/ t.end > now - Cooldown)

partnerAvailable(w, founder, partner, now) ==
  ~openedToday(w, {founder, partner}, now) /\ ~repeatsTopic(w, {founder, partner}, now)

open(w, company, partner, now) ==
  LET pair == {FounderOf[company], partner}
      talk == [company |-> company, first |-> FounderOf[company], second |-> partner, start |-> now,
               status |-> "active", reason |-> "none", outcome |-> OngoingOutcome, tokens |-> 0,
               turns |-> 0, end |-> 0, messages |-> <<>>, proposal |-> "negotiating"]
  IN [throwIf(w, openedToday(w, pair, now) \/ repeatsTopic(w, pair, now)) EXCEPT
        !.talks = Append(@, talk)]

mayPitch(w) == {c \in Companies : \A i \in DOMAIN w.talks : w.talks[i].company # c}

(* The company that has been active longest asks first; which one that is,  *)
(* and whether its delay is over and a fund can pay, is a choice.           *)
proposeEligible(w, company, now) ==
  LET free == {k \in DOMAIN Partners : partnerAvailable(w, FounderOf[company], Partners[k], now)}
  IN IF free = {} THEN w ELSE open(w, company, Partners[Min(free)], now)

commitOrHalt(w) ==
  IF w.failed THEN halted' = TRUE /\ UNCHANGED <<tick, talks, inbox, ties, memories>>
  ELSE /\ tick' = tick + 1 /\ talks' = w.talks /\ inbox' = w.inbox
       /\ ties' = w.ties /\ memories' = w.memories /\ UNCHANGED halted

worldAfterTalks == processTick(createConversationPhaseHandler(world, tick + 1), tick + 1)

(* With a provider, or with a turn to take, a pass is one tick long; an     *)
(* offline run with nothing to prepare goes on for the whole pass, and the  *)
(* later ticks of the pass are not looked at before they run.               *)
ticksThisPass ==
  IF pass > 0 THEN {pass - 1}
  ELSE IF offline /\ batch = <<>> THEN 0 .. PassLength
  ELSE {0}

readyToTick ==
  /\ ~halted /\ tick < LastTick
  /\ pass > 0 \/ opportunitiesLeft = {}
  /\ pass' \in ticksThisPass /\ batch' = <<>> /\ UNCHANGED offline

tickWithoutPitch == readyToTick /\ commitOrHalt(worldAfterTalks)

tickWithPitch ==
  /\ readyToTick
  /\ \E company \in mayPitch(worldAfterTalks) :
       commitOrHalt(proposeEligible(worldAfterTalks, company, tick + 1))

-----------------------------------------------------------------------------
Init ==
  /\ offline \in BOOLEAN
  /\ tick = 0 /\ pass = 0 /\ batch = <<>> /\ talks = <<>> /\ inbox = {} /\ ties = InitialTies
  /\ memories = [a \in Agents |-> 0] /\ halted = FALSE

Next == prepareConversationBatch \/ discardBatch \/ tickWithoutPitch \/ tickWithPitch

Spec == Init /\ [][Next]_vars

-----------------------------------------------------------------------------
TypeOK ==
  /\ offline \in BOOLEAN /\ tick \in 0 .. LastTick /\ pass \in 0 .. PassLength /\ halted \in BOOLEAN
  /\ \A i \in DOMAIN batch : batch[i].talk \in DOMAIN talks
  /\ talks \in Seq(ConversationRows)
  /\ inbox \subseteq InboxRows
  /\ ties \in [Agents \X Agents -> RelationshipRows] /\ memories \in [Agents -> Nat]

(* A turn is taken only on a conversation whose earlier messages the        *)
(* speaker has been handed and has read: the one message of an open talk    *)
(* still unread is its latest, and it waits for the agent whose turn is     *)
(* next (deliverDue before markReadForResponse, conversation-store.ts).     *)
AnsweredAfterReading ==
  \A row \in inbox :
    talks[row.talk].status = "active"
      => row.turn = talks[row.talk].turns /\ row.to = nextConversationSpeaker(talks[row.talk])

(* No response a provider can give makes a tick fail: what is planned       *)
(* before the tick is what the stores accept inside it (turn limit, token   *)
(* budget, reason and outcome, bounds, staleness).                          *)
TalksNeverThrow == ~halted

moved(i) == talks'[i].turns > talks[i].turns \/ talks'[i].status # talks[i].status

(* An open talk loses its turn in a tick only to an older talk of one of    *)
(* its own participants that takes one: nobody waits on a talk that is      *)
(* itself passed over (discoverConversationTurnOpportunities).  A run       *)
(* without a provider does not look for turns within a pass of many ticks.  *)
WaitsOnlyForATurnTaken ==
  [][tick' # tick /\ ~offline =>
       \A i \in DOMAIN talks : talks[i].status = "active" =>
         moved(i) \/ \E j \in 1 .. i - 1 : shares(talks[i], talks[j]) /\ moved(j)]_vars

(* A proposal runs into its expiry only because its founder or its partner  *)
(* was talking to somebody else: alone, every negotiation ends by itself,   *)
(* unless the run has no provider.                                          *)
ExpiresOnlyWhenCrowded ==
  \A i \in DOMAIN talks : ~offline /\ talks[i].reason = "expired" =>
    \E j \in 1 .. i - 1 :
      shares(talks[i], talks[j]) /\ (talks[j].status = "active" \/ talks[j].end > talks[i].start)

endsNow(i) == talks[i].status = "active" /\ talks'[i].status # "active"

(* Both directions of a relationship record every talk that ends, neither   *)
(* moves without one, an agreement never cools them, and a failure never    *)
(* warms them nor makes an adversary of anyone (updateRelationships).       *)
TiesFollowTalks ==
  [][\A d \in DOMAIN ties :
       LET ending == {i \in DOMAIN talks : endsNow(i) /\ participants(talks[i]) = {d[1], d[2]}}
       IN IF ending = {} THEN ties'[d] = ties[d]
          ELSE \A i \in ending :
                 /\ ties'[d].last = talks'[i].end
                 /\ (ties'[d].type = "adversary") <=> (ties[d].type = "adversary")
                 /\ (ties'[d].type = "adversary") <=> (ties'[d].strength < 0)
                 /\ IF talks'[i].outcome.kind = "agreement"
                      THEN ties'[d].strength >= ties[d].strength
                      ELSE ties'[d].strength <= ties[d].strength]_vars

(* What holds of the talks in every state. *)
TalksSound == TypeOK /\ AnsweredAfterReading /\ TalksNeverThrow /\ ExpiresOnlyWhenCrowded

-----------------------------------------------------------------------------
(* The refinement: what a negotiation promises its two parties.             *)

latestOffer(t, agent) ==
  latestTerms(t, {k \in DOMAIN t.messages :
                    t.messages[k].sender = agent /\ t.messages[k].terms # NoTerms})

Protocol == INSTANCE TalkProtocol WITH
  talkState <- [i \in DOMAIN talks |->
                 IF talks[i].status = "active" THEN "open"
                 ELSE IF talks[i].outcome.kind = "agreement" THEN "agreed" ELSE "failed"],
  onTable <- [i \in DOMAIN talks |->
               IF talks[i].status = "active"
                 THEN [first |-> latestOffer(talks[i], talks[i].first),
                       second |-> latestOffer(talks[i], talks[i].second)]
                 ELSE [first |-> NoTerms, second |-> NoTerms]],
  turn <- [i \in DOMAIN talks |-> talks[i].turns],
  agreed <- [i \in DOMAIN talks |-> talks[i].outcome.terms]

(* The conversations implement the abstract negotiation: strict alternation, *)
(* an agreement only on the terms the other side last put on the table, and  *)
(* no talk reopened.                                                         *)
ImplementsTalk == Protocol!Spec
=============================================================================
