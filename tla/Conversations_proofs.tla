------------------------ MODULE Conversations_proofs ------------------------
(***************************************************************************)
(* Proofs about module Conversations, for any founders, partners, terms,   *)
(* limits and answers: the talks stay sound (TalksSound), turns and        *)
(* relationships follow the talks (WaitsOnlyForATurnTaken,                 *)
(* TiesFollowTalks), and the talks implement the abstract negotiation      *)
(* (ImplementsTalk).                                                       *)
(*                                                                         *)
(* The inductive invariant IInv joins what the rows of the tables say      *)
(* together at the last commit (Rows) with what the prepared responses     *)
(* know of it (BatchInv) and with how many turns an uncrowded talk has had *)
(* (CrowdInv).  Inside a tick, Midway relates the world in hand to the     *)
(* committed one: what became of each talk, of its messages and of its     *)
(* ties, given the set of talks that have had their turn.  Each response   *)
(* applied (ApplySound) and each proposal looked at (SettleSound) keeps    *)
(* it, by induction over the batch and over the proposals.                 *)
(***************************************************************************)
EXTENDS Conversations, SequenceTheorems, WellFoundedInduction, TLAPS

-----------------------------------------------------------------------------
(* Induction over the naturals, stated with a set instead of an operator. *)

(* A set of numbers with 0 and every successor has them all: else its
   complement would have a least element. *)
LEMMA NatSetInduction ==
  ASSUME NEW S, 0 \in S, \A n \in Nat : n \in S => n + 1 \in S
  PROVE  Nat \subseteq S
<1> DEFINE R == OpToRel(<, Nat)
           T == Nat \ S
<1> SUFFICES ASSUME T # {}
             PROVE  FALSE
  OBVIOUS
<1>1. IsWellFoundedOn(R, Nat)
  BY Zenon, NatLessThanWellFounded
<1>2. PICK x \in T : \A y \in T : ~(<<y, x>> \in R)
  <2> HIDE DEF R
  <2> QED BY <1>1, WFMin
<1>3. x \in Nat /\ x # 0 /\ x - 1 \in Nat
  OBVIOUS
<1>4. <<x - 1, x>> \in R
  BY <1>3 DEF OpToRel
<1>5. x - 1 \in T
  <2>1. x - 1 \in S => (x - 1) + 1 \in S
    BY <1>3
  <2>2. (x - 1) + 1 = x
    BY <1>3
  <2> QED BY <1>3, <2>1, <2>2
<1> HIDE DEF R, T
<1> QED BY <1>2, <1>4, <1>5

-----------------------------------------------------------------------------
(* The invariant *)

Pairs == Agents \X Agents
World == [talks : Seq(ConversationRows), inbox : SUBSET InboxRows,
          ties : [Pairs -> RelationshipRows], memories : [Agents -> Nat], failed : BOOLEAN]

(* An open talk has as many messages as turns, all of them from its parties,
   and room for one more turn. *)
Speaking(t) ==
  /\ t.status = "active" /\ t.outcome = OngoingOutcome /\ t.reason = "none"
  /\ Len(t.messages) = t.turns /\ t.turns < MaxTurns /\ t.tokens < TokenBudget
  /\ \A k \in 1 .. t.turns : t.messages[k].sender \in participants(t)

TalkInv(t, now) ==
  /\ t \in ConversationRows
  /\ t.first # t.second /\ t.start <= now
  /\ t.status = "active" => Speaking(t)

(* One open talk per pair of agents. *)
PairsInv(rows) ==
  \A i, j \in DOMAIN rows :
    /\ rows[i].status = "active" /\ rows[j].status = "active"
    /\ participants(rows[i]) = participants(rows[j])
    => i = j

(* The unread messages of an open talk: there is one once it has begun, and all are
   its latest, for the agent whose turn is next, and delivered if it is of old. *)
InboxInv(rows, messages, old, now) ==
  /\ \A row \in messages :
       /\ row.talk \in DOMAIN rows
       /\ rows[row.talk].status = "active" =>
            /\ row.turn = rows[row.talk].turns /\ row.to = nextConversationSpeaker(rows[row.talk])
            /\ row.due <= now + 1
            /\ row.talk \in old => row.delivered
  /\ \A i \in DOMAIN rows : rows[i].status = "active" /\ rows[i].turns > 0 =>
       \E row \in messages : row.talk = i

TiesInv(known, now) ==
  \A d \in Pairs : RelationshipSound(known[d]) /\ known[d].last <= now

(* The rows of the tables at the commit of tick now. *)
Rows(w, now) ==
  /\ w \in World /\ ~w.failed
  /\ \A i \in DOMAIN w.talks : TalkInv(w.talks[i], now)
  /\ PairsInv(w.talks)
  /\ InboxInv(w.talks, w.inbox, {}, now)
  /\ TiesInv(w.ties, now)

(* Every prepared response is one a due talk can get, one response per talk. *)
BatchInv ==
  /\ batch \in Seq(UNION {entriesFor(i) : i \in DOMAIN talks})
  /\ \A k \in DOMAIN batch :
       /\ batch[k].talk \in DOMAIN talks /\ talks[batch[k].talk].status = "active"
       /\ batch[k] \in entriesFor(batch[k].talk)
       /\ \A m \in DOMAIN batch : batch[m].talk = batch[k].talk => m = k
  /\ pass > 0 => batch = <<>>
  /\ ~offline => pass = 0

Crowded(rows, i) ==
  \E j \in 1 .. i - 1 :
    /\ shares(rows[i], rows[j])
    /\ rows[j].status = "active" \/ rows[j].end > rows[i].start

(* A talk that nobody crowds has had a turn in every tick since it began. *)
CrowdInv(rows, now) ==
  \A i \in DOMAIN rows : ~Crowded(rows, i) =>
    /\ rows[i].status = "active" => rows[i].turns >= now - rows[i].start
    /\ rows[i].reason # "expired"

IInv ==
  /\ offline \in BOOLEAN /\ tick \in 0 .. LastTick /\ pass \in 0 .. PassLength /\ halted = FALSE
  /\ Rows(world, tick)
  /\ BatchInv
  /\ ~offline => CrowdInv(talks, tick)

-----------------------------------------------------------------------------
(* Least and greatest of a set of numbers *)

LEMMA LeastExists ==
  ASSUME NEW S \in SUBSET Nat, S # {}
  PROVE  Min(S) \in S /\ \A k \in S : Min(S) <= k
<1> DEFINE R == OpToRel(<, Nat)
<1>1. IsWellFoundedOn(R, Nat)
  BY Zenon, NatLessThanWellFounded
<1>2. PICK m \in S : \A k \in S : ~(<<k, m>> \in R)
  <2> HIDE DEF R
  <2> QED BY <1>1, WFMin
<1>3. ASSUME NEW k \in S, k < m
      PROVE  FALSE
  <2>1. k \in Nat /\ m \in Nat
    OBVIOUS
  <2>2. <<k, m>> \in R
    BY <1>3, <2>1 DEF OpToRel
  <2> QED BY <1>2, <2>2
<1> HIDE DEF R
<1>4. m \in S /\ \A k \in S : m <= k
  BY <1>3
<1> QED BY <1>4 DEF Min

LEMMA GreatestExists ==
  ASSUME NEW n \in Nat, NEW S \in SUBSET (1 .. n), S # {}
  PROVE  Max(S) \in S /\ \A k \in S : k <= Max(S)
<1> DEFINE T == {n - k : k \in S}
<1>1. T \in SUBSET Nat /\ T # {}
  <2>1. \A k \in S : k \in Int /\ n - k \in Nat
    OBVIOUS
  <2> QED BY <2>1
<1>2. PICK k \in S : Min(T) = n - k
  BY <1>1, LeastExists
<1>3. \A j \in S : n - k <= n - j
  BY <1>1, <1>2, LeastExists
<1>4. k \in S /\ \A j \in S : k >= j
  BY <1>3
<1> QED BY <1>4 DEF Max

-----------------------------------------------------------------------------
(* What a response can be *)

Chosen(t) == {option(kind, terms) :
                kind \in {"offer", "counter", "accept", "decline", "clarify"},
                terms \in Terms \cup {NoTerms}}

LEMMA Limits ==
  /\ MaxTurns \in Nat /\ MaxTurns > 0 /\ TokenBudget \in Nat /\ TokenBudget > 0
  /\ Costs \subseteq Nat /\ Lifetime \in Nat /\ Cooldown \in Nat /\ LastTick \in Nat
  /\ MaxTurns < Lifetime /\ PassLength \in Nat /\ NoTerms \notin Terms
BY LimitsAssumption DEF NoTerms

LEMMA TalkTypes ==
  ASSUME NEW now, NEW t, TalkInv(t, now)
  PROVE  /\ t.first \in Agents /\ t.second \in Agents /\ t.first # t.second
         /\ t.start \in Nat /\ t.turns \in Nat /\ t.turns <= MaxTurns
         /\ t.tokens \in Nat /\ t.tokens <= TokenBudget
         /\ t.messages \in Seq(MessageRows)
BY Limits DEF TalkInv, ConversationRows

(* What the other side offered last is one of the terms, once it offered any. *)
LEMMA LastTermsType ==
  ASSUME NEW now, NEW t, TalkInv(t, now), NEW sender
  PROVE  lastTermsFromOther(t, sender) \in Terms \cup {NoTerms}
<1> DEFINE S == {k \in DOMAIN t.messages :
                   t.messages[k].sender # sender /\ t.messages[k].terms # NoTerms}
<1>1. t.messages \in Seq(MessageRows)
  BY TalkTypes
<1>2. S \in SUBSET (1 .. Len(t.messages)) /\ Len(t.messages) \in Nat
  BY <1>1
<1>3. CASE S = {}
  BY <1>3 DEF lastTermsFromOther, latestTerms
<1>4. CASE S # {}
  <2>1. Max(S) \in S
    BY <1>2, <1>4, GreatestExists
  <2>2. t.messages[Max(S)] \in MessageRows
    <3> DEFINE last == Max(S)
    <3>1. last \in 1 .. Len(t.messages)
      BY <1>2, <2>1
    <3> HIDE DEF last
    <3>2. t.messages[last] \in MessageRows
      BY <1>1, <3>1
    <3> QED BY <3>2 DEF last
  <2>3. t.messages[Max(S)].terms \in Terms \cup {NoTerms}
    BY <2>2 DEF MessageRows
  <2> QED BY <1>4, <2>3 DEF lastTermsFromOther, latestTerms
<1> QED BY <1>3, <1>4

(* The terms of an accepted offer are those the other side offered last. *)
LEMMA MenuSound ==
  ASSUME NEW now, NEW t, TalkInv(t, now), NEW chosen \in conversationMessageOptions(t)
  PROVE  /\ chosen.kind \in {"offer", "counter", "accept", "decline", "clarify"}
         /\ chosen.terms \in Terms \cup {NoTerms}
         /\ chosen.kind = "accept" =>
              /\ chosen.terms = lastTermsFromOther(t, nextConversationSpeaker(t))
              /\ chosen.terms \in Terms
<1> DEFINE last == lastTermsFromOther(t, nextConversationSpeaker(t))
<1>1. last \in Terms \cup {NoTerms}
  BY LastTermsType
<1> HIDE DEF last
<1>2. \/ \E x \in Terms : chosen \in {option("offer", x), option("counter", x)}
      \/ chosen = option("accept", last) /\ last # NoTerms
      \/ chosen \in {option("clarify", NoTerms), option("decline", NoTerms)}
  BY DEF conversationMessageOptions, conversationTermCandidates, last
<1>3. CASE \E x \in Terms : chosen \in {option("offer", x), option("counter", x)}
  BY <1>3 DEF option
<1>4. CASE chosen = option("accept", last) /\ last # NoTerms
  BY <1>1, <1>4 DEF option, last
<1>5. CASE chosen \in {option("clarify", NoTerms), option("decline", NoTerms)}
  BY <1>5 DEF option
<1> QED BY <1>2, <1>3, <1>4, <1>5

(* A response to talk t: what it says, what it costs, and how it closes the talk. *)
Ongoing(e, t) ==
  /\ e.close.reason = "none" /\ e.close.accepted
  /\ t.turns + 1 < MaxTurns /\ t.tokens + e.cost < TokenBudget
Closing(e, t) ==
  /\ e.close.reason \in CloseReasons \ {"expired"} /\ e.outcome \in Outcomes
  /\ e.outcome.kind # "none" /\ ~outcomeDisagrees(e.close.reason, e.outcome)
  /\ e.outcomeCost \in Nat /\ t.tokens + e.cost + e.outcomeCost <= TokenBudget
  /\ ~e.close.accepted => e.outcomeCost = 0 /\ e.cost = 0
  /\ IF e.close.reason = "agreement"
       THEN /\ e.close.accepted /\ e.outcome.terms \in Terms
            /\ e.outcome.terms = lastTermsFromOther(t, nextConversationSpeaker(t))
       ELSE e.outcome.terms = NoTerms
Response(e, i, t) ==
  /\ e.talk = i /\ e.was = t
  /\ e.chosen.kind \in {"offer", "counter", "accept", "decline", "clarify"}
  /\ e.chosen.terms \in Terms \cup {NoTerms}
  /\ e.close.accepted \in BOOLEAN
  /\ e.cost \in Nat /\ t.tokens + e.cost <= TokenBudget
  /\ Ongoing(e, t) \/ Closing(e, t)

LEMMA ByRuleSound ==
  ASSUME NEW now, NEW i, TalkInv(talks[i], now),
         NEW reason \in {"provider_fallback", "invalid_proposal", "token_budget"},
         NEW accepted \in BOOLEAN
  PROVE  Response(closedByRule(i, reason, accepted), i, talks[i])
<1> DEFINE e == closedByRule(i, reason, accepted)
<1>1. /\ e.talk = i /\ e.was = talks[i] /\ e.cost = 0 /\ e.outcomeCost = 0
      /\ e.chosen = option("decline", NoTerms) /\ e.close = plan(accepted, reason)
      /\ e.outcome = deterministicConversationOutcome(reason, NoTerms)
  BY DEF closedByRule, entryOf, fallbackMessageOption
<1>2. e.outcome = [kind |-> "no_agreement", terms |-> NoTerms]
  BY <1>1 DEF deterministicConversationOutcome
<1>3. e.close.reason = reason /\ e.close.accepted = accepted
  BY <1>1 DEF plan
<1>4. e.outcome \in Outcomes /\ ~outcomeDisagrees(reason, e.outcome)
  BY <1>2 DEF Outcomes, outcomeDisagrees
<1>5. talks[i].tokens \in Nat /\ talks[i].tokens <= TokenBudget
  BY TalkTypes
<1>6. Closing(e, talks[i])
  BY <1>1, <1>2, <1>3, <1>4, <1>5 DEF Closing, CloseReasons
<1> QED BY <1>1, <1>3, <1>5, <1>6, Limits DEF Response, option

(* The close that is planned for an answer within the budget. *)
LEMMA PlanSound ==
  ASSUME NEW t, NEW chosen, NEW cost \in Nat, t.tokens \in Nat, t.tokens <= TokenBudget,
         t.turns \in Nat, Len(t.messages) = t.turns
  PROVE  LET p == planConversationClose(t, chosen, cost)
         IN /\ p.accepted \in BOOLEAN
            /\ ~p.accepted => p.reason = "token_budget"
            /\ p.accepted =>
                 /\ t.tokens + cost <= TokenBudget
                 /\ p.reason \in {"agreement", "declined", "no_progress", "max_turns",
                                  "token_budget", "none"}
                 /\ p.reason = "agreement" <=> chosen.kind = "accept"
                 /\ p.reason = "none" => t.turns + 1 < MaxTurns /\ t.tokens + cost < TokenBudget
<1> DEFINE p == planConversationClose(t, chosen, cost)
           speaker == nextConversationSpeaker(t)
           stuck == conversationHasNoProgress(t, speaker, chosen.terms)
<1>1. remainingTokens(t) = TokenBudget - t.tokens
  BY DEF remainingTokens
<1>2. CASE cost > remainingTokens(t)
  BY <1>2 DEF planConversationClose, plan
<1>3. CASE ~(cost > remainingTokens(t))
  <2>1. t.tokens + cost <= TokenBudget
    BY <1>1, <1>3, Limits
  <2> HIDE DEF stuck
  <2>2. p = IF chosen.kind = "accept" THEN plan(TRUE, "agreement")
            ELSE IF chosen.kind = "decline" THEN plan(TRUE, "declined")
            ELSE IF stuck THEN plan(TRUE, "no_progress")
            ELSE IF Len(t.messages) + 1 >= MaxTurns THEN plan(TRUE, "max_turns")
            ELSE IF t.tokens + cost >= TokenBudget THEN plan(TRUE, "token_budget")
            ELSE plan(TRUE, "none")
    BY <1>3 DEF planConversationClose, stuck
  <2> QED BY <2>1, <2>2, Limits DEF plan
<1> QED BY <1>2, <1>3

LEMMA OutcomeCall ==
  ASSUME NEW i, NEW chosen, NEW cost, NEW p, NEW e \in prepareOutcomeCall(i, chosen, cost, p)
  PROVE  LET terms == acceptedTerms(chosen, p.reason)
         IN /\ e.talk = i /\ e.was = talks[i] /\ e.chosen = chosen /\ e.cost = cost /\ e.close = p
            /\ \/ e.outcome = deterministicConversationOutcome(p.reason, terms) /\ e.outcomeCost = 0
               \/ /\ e.outcome \in conversationOutcomeOptions(p.reason, terms)
                  /\ e.outcomeCost \in Costs
                  /\ e.outcomeCost <= remainingTokens(talks[i]) - cost
<1> DEFINE terms == acceptedTerms(chosen, p.reason)
           left == remainingTokens(talks[i]) - cost
           rule == deterministicConversationOutcome(p.reason, terms)
           options == conversationOutcomeOptions(p.reason, terms)
           within == {c \in Costs : left >= 1 /\ c <= left}
<1>1. e \in {entryOf(i, TRUE, chosen, cost, p, rule, 0)} \cup
           {entryOf(i, TRUE, chosen, cost, p, o, m) : o \in options, m \in within}
  BY DEF prepareOutcomeCall, entryOf
<1> HIDE DEF options, rule, terms, within
<1>2. CASE e = entryOf(i, TRUE, chosen, cost, p, rule, 0)
  BY <1>2 DEF entryOf, rule, terms
<1>3. CASE e \in {entryOf(i, TRUE, chosen, cost, p, o, m) : o \in options, m \in within}
  <2>1. PICK o \in options, m \in within : e = entryOf(i, TRUE, chosen, cost, p, o, m)
    BY <1>3 DEF entryOf
  <2>2. /\ e.talk = i /\ e.was = talks[i] /\ e.chosen = chosen /\ e.cost = cost /\ e.close = p
        /\ e.outcome = o /\ e.outcomeCost = m
    BY <2>1 DEF entryOf
  <2>3. m \in Costs /\ m <= left
    BY DEF within
  <2> HIDE DEF left
  <2> QED BY <2>2, <2>3 DEF options, terms, left
<1>4. e = entryOf(i, TRUE, chosen, cost, p, rule, 0)
        \/ e \in {entryOf(i, TRUE, chosen, cost, p, o, m) : o \in options, m \in within}
  BY <1>1 DEF entryOf
<1> QED BY <1>2, <1>3, <1>4 DEF entryOf

LEMMA EntrySound ==
  ASSUME NEW now, NEW i, TalkInv(talks[i], now), talks[i].status = "active",
         NEW e \in entriesFor(i)
  PROVE  Response(e, i, talks[i])
<1> DEFINE t == talks[i]
<1>1. t.tokens \in Nat /\ t.tokens <= TokenBudget /\ t.turns \in Nat /\ Len(t.messages) = t.turns
  BY TalkTypes DEF TalkInv, Speaking
<1> HIDE DEF t
<1>2. \/ \E reason \in {"provider_fallback", "invalid_proposal", "token_budget"},
            accepted \in BOOLEAN : e = closedByRule(i, reason, accepted)
      \/ \E chosen \in conversationMessageOptions(t), cost \in Costs : e \in respond(i, chosen, cost)
  <2>1. CASE offline \/ remainingTokens(talks[i]) < 1
    <3>1. e = closedByRule(i, "provider_fallback", TRUE) \/ e = closedByRule(i, "token_budget", FALSE)
      <4>1. CASE offline
        BY <4>1 DEF entriesFor
      <4>2. CASE ~offline /\ remainingTokens(talks[i]) < 1
        BY <4>2 DEF entriesFor
      <4> QED BY <2>1, <4>1, <4>2
    <3> QED BY <3>1
  <2>2. CASE ~offline /\ ~(remainingTokens(talks[i]) < 1)
    <3>1. e \in fallbackEntries(i) \cup UNION {respond(i, chosen, cost) :
                       chosen \in conversationMessageOptions(talks[i]), cost \in Costs}
      BY <2>2 DEF entriesFor
    <3>2. CASE e \in fallbackEntries(i)
      <4>1. \/ e = closedByRule(i, "provider_fallback", TRUE)
            \/ e = closedByRule(i, "invalid_proposal", TRUE)
        BY <3>2 DEF fallbackEntries
      <4> QED BY <4>1
    <3>3. CASE e \in UNION {respond(i, chosen, cost) :
                       chosen \in conversationMessageOptions(talks[i]), cost \in Costs}
      BY <3>3 DEF t
    <3> QED BY <3>1, <3>2, <3>3
  <2> QED BY <2>1, <2>2
<1>3. CASE \E reason \in {"provider_fallback", "invalid_proposal", "token_budget"},
              accepted \in BOOLEAN : e = closedByRule(i, reason, accepted)
  BY <1>3, ByRuleSound
<1>4. ASSUME NEW chosen \in conversationMessageOptions(t), NEW cost \in Costs,
             e \in respond(i, chosen, cost)
      PROVE  Response(e, i, t)
  <2> DEFINE p == planConversationClose(t, chosen, cost)
             terms == acceptedTerms(chosen, p.reason)
  <2>1. cost \in Nat
    BY Limits
  <2>2. /\ p.accepted \in BOOLEAN
        /\ ~p.accepted => p.reason = "token_budget"
        /\ p.accepted =>
             /\ t.tokens + cost <= TokenBudget
             /\ p.reason \in {"agreement", "declined", "no_progress", "max_turns",
                              "token_budget", "none"}
             /\ p.reason = "agreement" <=> chosen.kind = "accept"
             /\ p.reason = "none" => t.turns + 1 < MaxTurns /\ t.tokens + cost < TokenBudget
    BY <1>1, <2>1, PlanSound
  <2>3. /\ chosen.kind \in {"offer", "counter", "accept", "decline", "clarify"}
        /\ chosen.terms \in Terms \cup {NoTerms}
        /\ chosen.kind = "accept" =>
             /\ chosen.terms = lastTermsFromOther(t, nextConversationSpeaker(t))
             /\ chosen.terms \in Terms
    BY MenuSound DEF t
  <2>4. respond(i, chosen, cost) =
          IF ~p.accepted THEN {closedByRule(i, p.reason, FALSE)}
          ELSE IF p.reason = "none" THEN {entryOf(i, TRUE, chosen, cost, p, OngoingOutcome, 0)}
          ELSE prepareOutcomeCall(i, chosen, cost, p)
    BY DEF respond, t
  <2> HIDE DEF p
  <2>5. CASE ~p.accepted
    BY <1>4, <2>2, <2>4, <2>5, ByRuleSound DEF t
  <2>6. CASE p.accepted /\ p.reason = "none"
    <3>1. e = entryOf(i, TRUE, chosen, cost, p, OngoingOutcome, 0)
      BY <1>4, <2>4, <2>6
    <3>2. /\ e.talk = i /\ e.was = t /\ e.chosen = chosen /\ e.cost = cost /\ e.close = p
      BY <3>1 DEF entryOf, t
    <3> QED BY <2>1, <2>2, <2>3, <2>6, <3>2 DEF Response, Ongoing
  <2>7. CASE p.accepted /\ p.reason # "none"
    <3>1. e \in prepareOutcomeCall(i, chosen, cost, p)
      BY <1>4, <2>4, <2>7
    <3>2. /\ e.talk = i /\ e.was = t /\ e.chosen = chosen /\ e.cost = cost /\ e.close = p
          /\ \/ e.outcome = deterministicConversationOutcome(p.reason, terms) /\ e.outcomeCost = 0
             \/ /\ e.outcome \in conversationOutcomeOptions(p.reason, terms)
                /\ e.outcomeCost \in Costs /\ e.outcomeCost <= remainingTokens(t) - cost
      BY <3>1, OutcomeCall DEF t
    <3>3. e.outcomeCost \in Nat /\ t.tokens + cost + e.outcomeCost <= TokenBudget
      <4>1. remainingTokens(t) = TokenBudget - t.tokens
        BY DEF remainingTokens
      <4>2. t.tokens + cost <= TokenBudget
        BY <2>2, <2>7
      <4> QED BY <1>1, <2>1, <3>2, <4>1, <4>2, Limits
    <3>4. p.reason = "agreement" => terms = chosen.terms /\ terms \in Terms /\ terms # NoTerms
      BY <2>2, <2>3, <2>7, Limits DEF acceptedTerms
    <3> HIDE DEF terms
    <3>5. /\ e.outcome \in Outcomes /\ e.outcome.kind # "none" /\ ~outcomeDisagrees(p.reason, e.outcome)
          /\ IF p.reason = "agreement" THEN e.outcome.terms = terms ELSE e.outcome.terms = NoTerms
      <4>1. CASE p.reason = "agreement"
        <5>1. e.outcome = [kind |-> "agreement", terms |-> terms]
          BY <3>2, <3>4, <4>1 DEF deterministicConversationOutcome, conversationOutcomeOptions
        <5> QED BY <3>4, <4>1, <5>1 DEF Outcomes, outcomeDisagrees
      <4>2. CASE p.reason # "agreement"
        <5>1. \/ e.outcome = [kind |-> "no_agreement", terms |-> NoTerms]
              \/ /\ e.outcome = [kind |-> "escalate", terms |-> NoTerms]
                 /\ p.reason \in {"max_turns", "no_progress"}
          BY <3>2, <4>2 DEF deterministicConversationOutcome, conversationOutcomeOptions
        <5> QED BY <4>2, <5>1 DEF Outcomes, outcomeDisagrees
      <4> QED BY <4>1, <4>2
    <3>6. Closing(e, t)
      BY <2>2, <2>3, <2>7, <3>2, <3>3, <3>4, <3>5 DEF Closing, CloseReasons
    <3> QED BY <2>1, <2>2, <2>3, <2>7, <3>2, <3>6 DEF Response
  <2> QED BY <2>2, <2>5, <2>6, <2>7
<1> QED BY <1>2, <1>3, <1>4 DEF t

-----------------------------------------------------------------------------
(* Worlds that differ in one table *)

Full(w) ==
  w = [talks |-> w.talks, inbox |-> w.inbox, ties |-> w.ties, memories |-> w.memories,
       failed |-> w.failed]

LEMMA WorldFull ==
  ASSUME NEW w \in World
  PROVE  Full(w)
BY DEF Full, World

LEMMA OnlyTalks ==
  ASSUME NEW w, Full(w), NEW rows
  PROVE  [w EXCEPT !.talks = rows] =
           [talks |-> rows, inbox |-> w.inbox, ties |-> w.ties, memories |-> w.memories,
            failed |-> w.failed]
BY DEF Full

LEMMA OnlyOneTalk ==
  ASSUME NEW w, Full(w), NEW i, NEW u
  PROVE  LET v == [w EXCEPT !.talks[i] = u]
         IN /\ Full(v) /\ v.talks = [w.talks EXCEPT ![i] = u] /\ v.inbox = w.inbox
            /\ v.ties = w.ties /\ v.memories = w.memories /\ v.failed = w.failed
<1> DEFINE rows == [w.talks EXCEPT ![i] = u]
<1>1. [w EXCEPT !.talks[i] = u] = [w EXCEPT !.talks = rows]
  OBVIOUS
<1> HIDE DEF rows
<1>2. [w EXCEPT !.talks = rows] =
        [talks |-> rows, inbox |-> w.inbox, ties |-> w.ties, memories |-> w.memories,
         failed |-> w.failed]
  BY OnlyTalks
<1> QED BY <1>1, <1>2 DEF rows, Full

LEMMA OnlyInbox ==
  ASSUME NEW w, Full(w), NEW rows
  PROVE  LET v == [w EXCEPT !.inbox = rows]
         IN /\ Full(v) /\ v.talks = w.talks /\ v.inbox = rows
            /\ v.ties = w.ties /\ v.memories = w.memories /\ v.failed = w.failed
BY DEF Full

LEMMA OnlyTies ==
  ASSUME NEW w, Full(w), NEW f
  PROVE  LET v == [w EXCEPT !.ties = f]
         IN /\ Full(v) /\ v.talks = w.talks /\ v.inbox = w.inbox
            /\ v.ties = f /\ v.memories = w.memories /\ v.failed = w.failed
BY DEF Full

LEMMA OnlyMemories ==
  ASSUME NEW w, Full(w), NEW f
  PROVE  LET v == [w EXCEPT !.memories = f]
         IN /\ Full(v) /\ v.talks = w.talks /\ v.inbox = w.inbox
            /\ v.ties = w.ties /\ v.memories = f /\ v.failed = w.failed
BY DEF Full

LEMMA NoThrow ==
  ASSUME NEW w, Full(w), NEW condition \in BOOLEAN, w.failed = FALSE, ~condition
  PROVE  throwIf(w, condition) = w
<1>1. (w.failed \/ condition) = w.failed
  OBVIOUS
<1>2. throwIf(w, condition) = [w EXCEPT !.failed = w.failed]
  BY <1>1 DEF throwIf
<1> QED BY <1>2 DEF Full

LEMMA FullInWorld ==
  ASSUME NEW w, Full(w), w.talks \in Seq(ConversationRows), w.inbox \in SUBSET InboxRows,
         w.ties \in [Pairs -> RelationshipRows], w.memories \in [Agents -> Nat],
         w.failed \in BOOLEAN
  PROVE  w \in World
BY DEF Full, World

-----------------------------------------------------------------------------
(* What becomes of a talk in a tick *)

SameParties(t, u) ==
  u.company = t.company /\ u.first = t.first /\ u.second = t.second /\ u.start = t.start

Spoke(t, u) ==
  /\ u.status = "active" /\ u.turns = t.turns + 1
  /\ \A k \in 1 .. t.turns : u.messages[k] = t.messages[k]
  /\ u.messages[u.turns].sender = nextConversationSpeaker(t)

Settled(t, u, now) ==
  /\ u.status # "active" /\ u.end = now
  /\ u.turns \in {t.turns, t.turns + 1}
  /\ u.reason = "expired" => now >= t.start + Lifetime
  /\ IF u.outcome.kind = "agreement"
       THEN /\ u.turns = t.turns + 1 /\ u.outcome.terms \in Terms
            /\ u.outcome.terms = lastTermsFromOther(t, nextConversationSpeaker(t))
       ELSE u.outcome.terms = NoTerms

Kept(t, u) == u = [t EXCEPT !.proposal = u.proposal]

Became(t, u, now) ==
  \/ Kept(t, u)
  \/ /\ t.status = "active" /\ SameParties(t, u)
     /\ Spoke(t, u) \/ Settled(t, u, now)

HadTurn(t, u) ==
  \/ u.turns = t.turns + 1
  \/ u.status # "active" /\ u.reason # "expired"

(* A relationship after a talk that ended with an outcome of that kind *)
TieMoved(old, new, kind, now) ==
  /\ new.last = now
  /\ new.type = "adversary" <=> old.type = "adversary"
  /\ new.type = "adversary" <=> new.strength < 0
  /\ IF kind = "agreement" THEN new.strength >= old.strength ELSE new.strength <= old.strength

LEMMA TieAfterSound ==
  ASSUME NEW tie \in RelationshipRows, RelationshipSound(tie), NEW kind,
         NEW now \in 0 .. LastTick, NEW start \in Nat
  PROVE  LET new == tieAfter(tie, kind, start, now)
         IN new \in RelationshipRows /\ RelationshipSound(new) /\ TieMoved(tie, new, kind, now)
<1> DEFINE new == tieAfter(tie, kind, start, now)
           known == IF tie = NoTie THEN [type |-> "business", strength |-> 0, last |-> start] ELSE tie
           strength == conversationRelationshipStrength(known, kind)
<1>1. /\ known.type \in {"business", "friend", "adversary"} /\ known.strength \in -100 .. 100
      /\ known.strength = tie.strength /\ (known.type = "adversary" <=> tie.type = "adversary")
      /\ DOMAIN known = {"type", "strength", "last"}
      /\ known.type = "adversary" <=> known.strength < 0
  <2>1. CASE tie = NoTie
    BY <2>1 DEF NoTie
  <2>2. CASE tie # NoTie
    BY <2>2 DEF RelationshipRows, RelationshipSound
  <2> QED BY <2>1, <2>2
<1>2. new = [known EXCEPT !.strength = strength, !.last = now]
  BY DEF tieAfter
<1>3. known = [type |-> known.type, strength |-> known.strength, last |-> known.last]
  <2>1. CASE tie = NoTie
    BY <2>1
  <2>2. CASE tie # NoTie
    BY <2>2 DEF RelationshipRows
  <2> QED BY <2>1, <2>2
<1> HIDE DEF known
<1>4. /\ strength \in -100 .. 100
      /\ known.type = "adversary" <=> strength < 0
      /\ IF kind = "agreement" THEN strength >= known.strength ELSE strength <= known.strength
  BY <1>1 DEF conversationRelationshipStrength
<1> HIDE DEF strength
<1>5. /\ new.type = known.type /\ new.strength = strength /\ new.last = now
      /\ new = [type |-> known.type, strength |-> strength, last |-> now]
  BY <1>2, <1>3
<1> QED BY <1>1, <1>4, <1>5 DEF RelationshipRows, RelationshipSound, TieMoved, NoTie

TiesAfter(known, t, kind, now) ==
  [d \in Pairs |-> IF d \in {<<t.first, t.second>>, <<t.second, t.first>>}
                   THEN tieAfter(known[d], kind, t.start, now) ELSE known[d]]
Closed(t, reason, outcome, cost, now) ==
  [t EXCEPT !.status = terminalStatus(reason), !.reason = reason, !.outcome = outcome,
            !.end = now, !.tokens = @ + cost, !.messages = <<>>]

LEMMA ClosedTalk ==
  ASSUME NEW now \in 0 .. LastTick, NEW t \in ConversationRows, NEW reason \in CloseReasons,
         NEW outcome \in Outcomes, NEW cost \in Nat, t.tokens + cost <= TokenBudget
  PROVE  LET u == Closed(t, reason, outcome, cost, now)
         IN /\ u \in ConversationRows /\ u.status # "active" /\ u.turns = t.turns
            /\ u.reason = reason /\ u.outcome = outcome /\ u.end = now /\ SameParties(t, u)
<1> DEFINE u == Closed(t, reason, outcome, cost, now)
           listed == Seq(MessageRows)
<1>1. terminalStatus(reason) \in {"concluded", "force_closed", "expired"}
  BY DEF terminalStatus, CloseReasons
<1>2. t.tokens + cost \in 0 .. TokenBudget
  BY Limits DEF ConversationRows
<1>3. <<>> \in listed
  OBVIOUS
<1> HIDE DEF listed
<1>4. u \in ConversationRows
  BY <1>1, <1>2, <1>3 DEF Closed, ConversationRows, listed
<1>5. u.status = terminalStatus(reason) /\ u.turns = t.turns
  BY DEF Closed, ConversationRows
<1>6. u.reason = reason /\ u.outcome = outcome /\ u.end = now
  BY DEF Closed, ConversationRows
<1>7. SameParties(t, u)
  BY DEF Closed, ConversationRows, SameParties
<1> QED BY <1>1, <1>4, <1>5, <1>6, <1>7

LEMMA CloseShape ==
  ASSUME NEW now \in 0 .. LastTick, NEW w \in World, ~w.failed, TiesInv(w.ties, now),
         NEW i \in DOMAIN w.talks, w.talks[i].status = "active",
         NEW reason \in CloseReasons, NEW outcome \in Outcomes, NEW cost \in Nat,
         w.talks[i].tokens + cost <= TokenBudget, ~outcomeDisagrees(reason, outcome),
         outcome.kind # "none"
  PROVE  LET v == close(w, i, reason, outcome, cost, now)
             u == Closed(w.talks[i], reason, outcome, cost, now)
         IN /\ v \in World /\ ~v.failed /\ v.inbox = w.inbox
            /\ v.talks = [w.talks EXCEPT ![i] = u]
            /\ v.ties = TiesAfter(w.ties, w.talks[i], outcome.kind, now)
<1> DEFINE v == close(w, i, reason, outcome, cost, now)
           t == w.talks[i]
           u == Closed(t, reason, outcome, cost, now)
           rows == [w.talks EXCEPT ![i] = u]
           ended == [w EXCEPT !.talks[i] = u]
           directions == {<<t.first, t.second>>, <<t.second, t.first>>}
           after == TiesAfter(w.ties, t, outcome.kind, now)
           felt == [ended EXCEPT !.ties = after]
           memory == [a \in DOMAIN felt.memories |->
                        IF a \in participants(t) THEN felt.memories[a] + 1 ELSE felt.memories[a]]
<1>1. /\ w.talks \in Seq(ConversationRows) /\ i \in 1 .. Len(w.talks) /\ Len(w.talks) \in Nat
      /\ w.inbox \in SUBSET InboxRows /\ w.ties \in [Pairs -> RelationshipRows]
      /\ w.memories \in [Agents -> Nat] /\ w.failed = FALSE
  BY DEF World
<1>2. t \in ConversationRows
  BY <1>1
<1>3. t.tokens \in Nat /\ t.start \in Nat /\ t.first \in Agents /\ t.second \in Agents
  BY <1>2, Limits DEF ConversationRows
<1>4. u \in ConversationRows
  BY <1>2, ClosedTalk
<1>5. rows \in Seq(ConversationRows)
  <2> HIDE DEF u
  <2> QED BY <1>1, <1>4, ExceptSeq
<1> HIDE DEF u
<1>6. /\ Full(ended) /\ ended.talks = rows /\ ended.inbox = w.inbox /\ ended.ties = w.ties
      /\ ended.memories = w.memories /\ ended.failed = w.failed
  BY WorldFull, OnlyOneTalk
<1> HIDE DEF ended, rows
<1>7. ~(outcome.terms # NoTerms /\ ~termsWithinConversationBounds(t, outcome.terms))
  BY DEF Outcomes, termsWithinConversationBounds, conversationTermCandidates
<1>8. ~(cost > remainingTokens(t))
  BY <1>3, Limits DEF remainingTokens
<1>9. v = remember(updateRelationships(ended, t, outcome, now), t)
  BY <1>7, <1>8 DEF close, assertOutcomeEvidence, ended, u, Closed
<1>10. updateRelationships(ended, t, outcome, now) = felt
  <2> DEFINE ahead == \E d \in directions : w.ties[d] # NoTie /\ w.ties[d].last > now
  <2>1. ~ahead
    <3> SUFFICES ASSUME NEW d \in directions
                 PROVE  ~(w.ties[d].last > now)
      OBVIOUS
    <3>1. d \in Pairs
      BY <1>3 DEF Pairs
    <3>2. w.ties[d].last <= now /\ w.ties[d].last \in Int
      BY <1>1, <3>1 DEF TiesInv, RelationshipRows
    <3> QED BY <3>2
  <2> HIDE DEF ahead
  <2>2. throwIf(ended, ahead) = ended
    <3>1. ahead \in BOOLEAN
      BY DEF ahead
    <3>2. ended.failed = FALSE
      BY <1>1, <1>6
    <3> QED BY <1>6, <2>1, <3>1, <3>2, NoThrow
  <2> USE DEF ahead
  <2>3. updateRelationships(ended, t, outcome, now) =
          [throwIf(ended, ahead) EXCEPT !.ties = [d \in DOMAIN @ |->
             IF d \in directions THEN tieAfter(@[d], outcome.kind, t.start, now) ELSE @[d]]]
    BY <1>6 DEF updateRelationships
  <2> HIDE DEF ahead
  <2>4. updateRelationships(ended, t, outcome, now) =
          [ended EXCEPT !.ties = [d \in DOMAIN w.ties |->
             IF d \in directions THEN tieAfter(w.ties[d], outcome.kind, t.start, now)
             ELSE w.ties[d]]]
    BY <1>6, <2>2, <2>3
  <2>5. DOMAIN w.ties = Pairs
    BY <1>1
  <2> QED BY <2>4, <2>5 DEF TiesAfter
<1>11. after \in [Pairs -> RelationshipRows]
  <2>1. ASSUME NEW d \in Pairs
        PROVE  tieAfter(w.ties[d], outcome.kind, t.start, now) \in RelationshipRows
    BY <1>1, <1>3, TieAfterSound DEF TiesInv
  <2> QED BY <1>1, <2>1 DEF TiesAfter
<1> HIDE DEF after
<1>12. /\ Full(felt) /\ felt.talks = rows /\ felt.inbox = w.inbox /\ felt.ties = after
       /\ felt.memories = w.memories /\ felt.failed = FALSE
  <2>1. /\ Full(felt) /\ felt.talks = ended.talks /\ felt.inbox = ended.inbox
        /\ felt.ties = after /\ felt.memories = ended.memories /\ felt.failed = ended.failed
    BY <1>6, OnlyTies
  <2> QED BY <1>1, <1>6, <2>1
<1>13. v = [felt EXCEPT !.memories = memory]
  BY <1>9, <1>10 DEF remember
<1>14. memory \in [Agents -> Nat]
  BY <1>1, <1>12
<1> HIDE DEF memory, felt
<1>15. /\ Full(v) /\ v.talks = rows /\ v.inbox = w.inbox /\ v.ties = after
       /\ v.memories = memory /\ v.failed = FALSE
  BY <1>12, <1>13, OnlyMemories
<1> HIDE DEF v
<1>16. v \in World
  BY <1>1, <1>5, <1>11, <1>14, <1>15, FullInWorld
<1> QED BY <1>15, <1>16 DEF v, rows, u, after

Said(t, chosen, cost) ==
  [t EXCEPT !.messages = Append(@, [sender |-> nextConversationSpeaker(t), kind |-> chosen.kind,
                                    terms |-> chosen.terms]),
            !.turns = @ + 1, !.tokens = @ + cost]
Sent(t, i, now) ==
  [talk |-> i, turn |-> t.turns + 1, to |-> recipient(t), due |-> now + 1, delivered |-> FALSE]
Unread(messages, t, i) ==
  {row \in messages : ~(row.talk = i /\ row.to = nextConversationSpeaker(t) /\ row.delivered)}

LEMMA SpeakerType ==
  ASSUME NEW t \in ConversationRows
  PROVE  /\ nextConversationSpeaker(t) \in {t.first, t.second} /\ recipient(t) \in {t.first, t.second}
         /\ t.first \in Agents /\ t.second \in Agents
BY DEF ConversationRows, nextConversationSpeaker, recipient

LEMMA SaidTalk ==
  ASSUME NEW t \in ConversationRows, Speaking(t), NEW chosen, NEW cost \in Nat,
         chosen.kind \in {"offer", "counter", "accept", "decline", "clarify"},
         chosen.terms \in Terms \cup {NoTerms}, t.tokens + cost <= TokenBudget
  PROVE  LET u == Said(t, chosen, cost)
         IN /\ u \in ConversationRows /\ SameParties(t, u) /\ u.status = "active"
            /\ u.turns = t.turns + 1 /\ u.tokens = t.tokens + cost
            /\ u.outcome = t.outcome /\ u.reason = t.reason /\ u.proposal = t.proposal
            /\ Len(u.messages) = u.turns
            /\ \A k \in 1 .. t.turns : u.messages[k] = t.messages[k]
            /\ u.messages[u.turns].sender = nextConversationSpeaker(t)
            /\ u.messages[u.turns].terms = chosen.terms
<1> DEFINE u == Said(t, chosen, cost)
           message == [sender |-> nextConversationSpeaker(t), kind |-> chosen.kind,
                       terms |-> chosen.terms]
           said == Append(t.messages, message)
           listed == Seq(MessageRows)
<1>1. /\ t.messages \in Seq(MessageRows) /\ t.turns \in Nat /\ t.turns + 1 \in 0 .. MaxTurns
      /\ Len(t.messages) = t.turns /\ t.tokens + cost \in 0 .. TokenBudget
  BY Limits DEF ConversationRows, Speaking
<1>2. message \in MessageRows
  BY SpeakerType DEF MessageRows
<1> DEFINE m == message
<1>3. m.sender = nextConversationSpeaker(t) /\ m.terms = chosen.terms
  OBVIOUS
<1> HIDE DEF m
<1>4. /\ Append(t.messages, m) \in Seq(MessageRows)
      /\ Len(Append(t.messages, m)) = t.turns + 1
      /\ \A k \in 1 .. t.turns : Append(t.messages, m)[k] = t.messages[k]
      /\ Append(t.messages, m)[t.turns + 1] = m
  BY <1>1, <1>2 DEF m
<1>5. u = [t EXCEPT !.messages = said, !.turns = t.turns + 1, !.tokens = t.tokens + cost]
  BY DEF Said
<1>6. said \in listed
  BY <1>4 DEF m
<1> HIDE DEF listed, said, u
<1>7. u \in ConversationRows
  BY <1>1, <1>5, <1>6 DEF ConversationRows, listed
<1>8. SameParties(t, u) /\ u.status = t.status
  BY <1>5 DEF SameParties, ConversationRows
<1>9. /\ u.turns = t.turns + 1 /\ u.tokens = t.tokens + cost /\ u.outcome = t.outcome
      /\ u.reason = t.reason /\ u.proposal = t.proposal /\ u.messages = said
  BY <1>5 DEF ConversationRows
<1>10. u.status = "active"
  BY <1>8 DEF Speaking
<1>11. said = Append(t.messages, m)
  BY DEF said, m
<1> QED BY <1>1, <1>3, <1>4, <1>7, <1>8, <1>9, <1>10, <1>11 DEF u

LEMMA AppendShape ==
  ASSUME NEW now \in Nat, NEW w \in World, ~w.failed,
         NEW i \in DOMAIN w.talks, Speaking(w.talks[i]), NEW chosen, NEW cost \in Nat,
         chosen.kind \in {"offer", "counter", "accept", "decline", "clarify"},
         chosen.terms \in Terms \cup {NoTerms}, w.talks[i].tokens + cost <= TokenBudget
  PROVE  LET v == appendMessage(w, i, chosen, cost, now)
             t == w.talks[i]
         IN /\ v \in World /\ ~v.failed
            /\ v.talks = [w.talks EXCEPT ![i] = Said(t, chosen, cost)]
            /\ v.inbox = Unread(w.inbox, t, i) \cup {Sent(t, i, now)}
            /\ v.ties = w.ties
<1> DEFINE v == appendMessage(w, i, chosen, cost, now)
           t == w.talks[i]
           u == Said(t, chosen, cost)
           rows == [w.talks EXCEPT ![i] = u]
           unread == Unread(w.inbox, t, i)
           read == [w EXCEPT !.inbox = unread]
           spoken == [read EXCEPT !.talks[i] = u]
           kept == unread \cup {Sent(t, i, now)}
<1>1. /\ w.talks \in Seq(ConversationRows) /\ i \in 1 .. Len(w.talks) /\ Len(w.talks) \in Nat
      /\ w.inbox \in SUBSET InboxRows /\ w.ties \in [Pairs -> RelationshipRows]
      /\ w.memories \in [Agents -> Nat] /\ w.failed = FALSE
  BY DEF World
<1>2. t \in ConversationRows
  BY <1>1
<1>3. t.tokens \in Nat /\ t.turns \in Nat /\ t.turns < MaxTurns /\ t.status = "active"
  BY <1>2, Limits DEF ConversationRows, Speaking
<1>4. u \in ConversationRows
  BY <1>2, SaidTalk
<1>5. Sent(t, i, now) \in InboxRows
  <2>1. recipient(t) \in Agents
    BY <1>2, SpeakerType
  <2>2. t.turns + 1 \in 1 .. MaxTurns /\ now + 1 \in Nat /\ i \in Nat
    BY <1>1, <1>3, Limits
  <2> DEFINE to == recipient(t)
             unseen == FALSE
  <2> HIDE DEF to
  <2> QED BY <2>1, <2>2 DEF Sent, InboxRows, to
<1>6. rows \in Seq(ConversationRows)
  <2> HIDE DEF u
  <2> QED BY <1>1, <1>4, ExceptSeq
<1>7. kept \in SUBSET InboxRows
  BY <1>1, <1>5 DEF Unread
<1>8. ~(t.status # "active" \/ t.turns >= MaxTurns \/ cost > remainingTokens(t))
  BY <1>3, Limits DEF remainingTokens
<1>9. v = [read EXCEPT !.talks[i] = u, !.inbox = @ \cup {Sent(t, i, now)}]
  <2>1. markReadForResponse(w, i, nextConversationSpeaker(t)) = read
    BY DEF markReadForResponse, Unread
  <2> HIDE DEF read
  <2> QED BY <1>8, <2>1 DEF appendMessage, Said, Sent
<1> HIDE DEF u, unread, rows
<1>10. /\ Full(read) /\ read.talks = w.talks /\ read.inbox = unread
       /\ read.ties = w.ties /\ read.memories = w.memories /\ read.failed = w.failed
  BY WorldFull, OnlyInbox
<1> HIDE DEF read
<1>11. /\ Full(spoken) /\ spoken.talks = rows /\ spoken.inbox = unread
       /\ spoken.ties = w.ties /\ spoken.memories = w.memories /\ spoken.failed = w.failed
  <2>1. /\ Full(spoken) /\ spoken.talks = [read.talks EXCEPT ![i] = u] /\ spoken.inbox = read.inbox
        /\ spoken.ties = read.ties /\ spoken.memories = read.memories
        /\ spoken.failed = read.failed
    BY <1>10, OnlyOneTalk
  <2> QED BY <1>10, <2>1 DEF rows
<1>12. v = [spoken EXCEPT !.inbox = kept]
  <2>1. v = [spoken EXCEPT !.inbox = @ \cup {Sent(t, i, now)}]
    BY <1>9
  <2> HIDE DEF spoken
  <2> QED BY <1>11, <2>1
<1> HIDE DEF spoken, kept
<1>13. /\ Full(v) /\ v.talks = rows /\ v.inbox = kept /\ v.ties = w.ties
       /\ v.memories = w.memories /\ v.failed = w.failed
  <2>1. /\ Full(v) /\ v.talks = spoken.talks /\ v.inbox = kept /\ v.ties = spoken.ties
        /\ v.memories = spoken.memories /\ v.failed = spoken.failed
    BY <1>11, <1>12, OnlyInbox
  <2> QED BY <1>11, <2>1
<1> HIDE DEF v
<1>14. v \in World
  <2>1. v.failed \in BOOLEAN
    BY <1>1, <1>13
  <2> QED BY <1>1, <1>6, <1>7, <1>13, <2>1, FullInWorld
<1>15. ~v.failed
  BY <1>1, <1>13
<1> QED BY <1>13, <1>14, <1>15 DEF v, rows, kept, unread, u

-----------------------------------------------------------------------------
(* The world in hand inside a tick *)

(* The talk i between the agents of d was open at the last commit and is not any more. *)
EndsBetween(rows, i, d) ==
  /\ talks[i].status = "active" /\ rows[i].status # "active"
  /\ participants(talks[i]) = {d[1], d[2]}

TiesFollow(rows, known, now) ==
  \A d \in Pairs :
    /\ (\A i \in DOMAIN talks : ~EndsBetween(rows, i, d)) => known[d] = ties[d]
    /\ \A i \in DOMAIN talks : EndsBetween(rows, i, d) =>
         TieMoved(ties[d], known[d], rows[i].outcome.kind, now)

(* The tables at tick now, when the talks of K have had their turn. *)
Tables(w, K, now) ==
  /\ w \in World /\ ~w.failed /\ Len(w.talks) = Len(talks)
  /\ InboxInv(w.talks, w.inbox, DOMAIN talks \ K, now)
  /\ TiesInv(w.ties, now) /\ TiesFollow(w.talks, w.ties, now)
InHand(i, u, K, now) ==
  /\ TalkInv(u, now) /\ Became(talks[i], u, now)
  /\ i \in K => HadTurn(talks[i], u)
Midway(w, K, now) ==
  Tables(w, K, now) /\ \A i \in DOMAIN talks : InHand(i, w.talks[i], K, now)

(* The state a tick starts from. *)
Before(now) == now \in 1 .. LastTick /\ tick = now - 1 /\ Rows(world, tick)

LEMMA BeforeFacts ==
  ASSUME NEW now, Before(now)
  PROVE  /\ talks \in Seq(ConversationRows) /\ Len(talks) \in Nat /\ DOMAIN talks = 1 .. Len(talks)
         /\ inbox \in SUBSET InboxRows /\ ties \in [Pairs -> RelationshipRows]
         /\ memories \in [Agents -> Nat]
         /\ \A i \in DOMAIN talks : TalkInv(talks[i], tick)
         /\ PairsInv(talks) /\ InboxInv(talks, inbox, {}, tick) /\ TiesInv(ties, tick)
         /\ now \in Nat /\ now \in 0 .. LastTick /\ tick \in Nat /\ now = tick + 1
<1>1. /\ world.talks = talks /\ world.inbox = inbox /\ world.ties = ties
      /\ world.memories = memories
  BY DEF world
<1>2. /\ talks \in Seq(ConversationRows) /\ inbox \in SUBSET InboxRows
      /\ ties \in [Pairs -> RelationshipRows] /\ memories \in [Agents -> Nat]
  BY <1>1 DEF Before, Rows, World
<1>3. /\ \A i \in DOMAIN talks : TalkInv(talks[i], tick)
      /\ PairsInv(talks) /\ InboxInv(talks, inbox, {}, tick) /\ TiesInv(ties, tick)
  BY <1>1 DEF Before, Rows
<1>4. now \in Nat /\ now \in 0 .. LastTick /\ tick \in Nat /\ now = tick + 1
  BY Limits DEF Before
<1>5. Len(talks) \in Nat /\ DOMAIN talks = 1 .. Len(talks)
  BY <1>2
<1> QED BY <1>2, <1>3, <1>4, <1>5

LEMMA WorldOfTables ==
  world.talks = talks /\ world.inbox = inbox /\ world.ties = ties /\ world.memories = memories
  /\ ~world.failed
BY DEF world

LEMMA LaterTalk ==
  ASSUME NEW now, Before(now), NEW i \in DOMAIN talks
  PROVE  TalkInv(talks[i], now)
<1>1. TalkInv(talks[i], tick) /\ tick \in Nat /\ now = tick + 1
  BY BeforeFacts
<1>2. talks[i].start \in Nat
  BY <1>1, TalkTypes
<1> QED BY <1>1, <1>2 DEF TalkInv

LEMMA LaterTies ==
  ASSUME NEW now, Before(now)
  PROVE  TiesInv(ties, now)
<1>1. TiesInv(ties, tick) /\ tick \in Nat /\ now = tick + 1 /\ ties \in [Pairs -> RelationshipRows]
  BY BeforeFacts
<1> SUFFICES ASSUME NEW d \in Pairs
             PROVE  RelationshipSound(ties[d]) /\ ties[d].last <= now
  BY DEF TiesInv
<1>2. ties[d].last \in Int
  BY <1>1 DEF RelationshipRows
<1> QED BY <1>1, <1>2 DEF TiesInv

(* Delivering a message that is due leaves it what it is. *)
LEMMA DeliveredRow ==
  ASSUME NEW row \in InboxRows, NEW now \in Nat
  PROVE  LET after == [row EXCEPT !.delivered = row.delivered \/ row.due <= now]
         IN /\ after \in InboxRows /\ after.talk = row.talk /\ after.turn = row.turn
            /\ after.to = row.to /\ after.due = row.due
            /\ row.due <= now => after.delivered
<1> DEFINE b == row.delivered \/ row.due <= now
           after == [row EXCEPT !.delivered = b]
<1>1. b \in BOOLEAN /\ (row.due <= now => b)
  OBVIOUS
<1> HIDE DEF b
<1>2. after \in InboxRows
  BY <1>1 DEF InboxRows
<1>3. /\ after.talk = row.talk /\ after.turn = row.turn /\ after.to = row.to
      /\ after.due = row.due /\ after.delivered = b
  BY DEF InboxRows
<1> QED BY <1>1, <1>2, <1>3 DEF b

(* The tick begins: every message to an open talk is handed over. *)
LEMMA MidwayBegins ==
  ASSUME NEW now, Before(now)
  PROVE  Midway(deliverDue(world, now), {}, now) /\ deliverDue(world, now).talks = talks
<1> DEFINE v == deliverDue(world, now)
           old == DOMAIN talks \ {}
           messages == {[row EXCEPT !.delivered = row.delivered \/ row.due <= now] : row \in inbox}
<1>1. /\ talks \in Seq(ConversationRows) /\ Len(talks) \in Nat /\ DOMAIN talks = 1 .. Len(talks)
      /\ inbox \in SUBSET InboxRows /\ ties \in [Pairs -> RelationshipRows]
      /\ InboxInv(talks, inbox, {}, tick) /\ now \in Nat /\ tick \in Nat /\ now = tick + 1
  BY BeforeFacts
<1>2. world \in World
  BY DEF Before, Rows
<1>3. v = [world EXCEPT !.inbox = messages]
  BY WorldOfTables DEF deliverDue
<1>4. \A m \in messages : \E row \in inbox :
        /\ m \in InboxRows /\ m.talk = row.talk /\ m.turn = row.turn /\ m.to = row.to
        /\ m.due = row.due /\ (row.due <= now => m.delivered)
  <2> SUFFICES ASSUME NEW row \in inbox,
                      NEW m, m = [row EXCEPT !.delivered = row.delivered \/ row.due <= now]
               PROVE  /\ m \in InboxRows /\ m.talk = row.talk /\ m.turn = row.turn
                      /\ m.to = row.to /\ m.due = row.due /\ (row.due <= now => m.delivered)
    OBVIOUS
  <2>1. row \in InboxRows
    BY <1>1
  <2> QED BY <1>1, <2>1, DeliveredRow
<1>5. \A row \in inbox : \E m \in messages : m.talk = row.talk
  <2> SUFFICES ASSUME NEW row \in inbox
               PROVE  \E m \in messages : m.talk = row.talk
    OBVIOUS
  <2> DEFINE m == [row EXCEPT !.delivered = row.delivered \/ row.due <= now]
  <2>1. row \in InboxRows
    BY <1>1
  <2>2. m.talk = row.talk
    BY <1>1, <2>1, DeliveredRow
  <2>3. m \in messages
    OBVIOUS
  <2> HIDE DEF m, messages
  <2> QED BY <2>2, <2>3
<1> HIDE DEF messages
<1>6. /\ Full(v) /\ v.talks = talks /\ v.inbox = messages /\ v.ties = ties
      /\ v.memories = memories /\ v.failed = world.failed
  BY <1>2, <1>3, WorldFull, OnlyInbox, WorldOfTables
<1> HIDE DEF v
<1>7. v \in World /\ ~v.failed
  <2>1. v.failed = FALSE
    BY <1>6 DEF world
  <2>2. v.inbox \in SUBSET InboxRows
    BY <1>4, <1>6
  <2>3. v.memories \in [Agents -> Nat]
    BY <1>6, BeforeFacts
  <2> QED BY <1>1, <1>6, <2>1, <2>2, <2>3, FullInWorld
<1>8. InboxInv(talks, messages, old, now)
  <2>1. ASSUME NEW m \in messages
        PROVE  /\ m.talk \in DOMAIN talks
               /\ talks[m.talk].status = "active" =>
                    /\ m.turn = talks[m.talk].turns /\ m.to = nextConversationSpeaker(talks[m.talk])
                    /\ m.due <= now + 1 /\ (m.talk \in old => m.delivered)
    <3>1. PICK row \in inbox : /\ m \in InboxRows /\ m.talk = row.talk /\ m.turn = row.turn
                               /\ m.to = row.to /\ m.due = row.due
                               /\ (row.due <= now => m.delivered)
      BY <1>4
    <3>2. /\ row.talk \in DOMAIN talks
          /\ talks[row.talk].status = "active" =>
               /\ row.turn = talks[row.talk].turns
               /\ row.to = nextConversationSpeaker(talks[row.talk])
               /\ row.due <= tick + 1
      BY <1>1 DEF InboxInv
    <3>3. row.due \in Nat
      BY <1>1 DEF InboxRows
    <3> QED BY <1>1, <3>1, <3>2, <3>3
  <2>2. \A i \in DOMAIN talks : talks[i].status = "active" /\ talks[i].turns > 0 =>
          \E m \in messages : m.talk = i
    BY <1>1, <1>5 DEF InboxInv
  <2> QED BY <2>1, <2>2 DEF InboxInv
<1>9. TiesFollow(talks, ties, now)
  BY DEF TiesFollow, EndsBetween
<1>10. Tables(v, {}, now)
  BY <1>6, <1>7, <1>8, <1>9, LaterTies DEF Tables
<1>11. \A i \in DOMAIN talks : InHand(i, talks[i], {}, now)
  <2> SUFFICES ASSUME NEW i \in DOMAIN talks
               PROVE  Kept(talks[i], talks[i])
    BY LaterTalk DEF InHand, Became
  <2>1. talks[i] \in ConversationRows
    BY <1>1
  <2> QED BY <2>1 DEF Kept, ConversationRows
<1> QED BY <1>6, <1>10, <1>11 DEF Midway, v

(* After a message the unread row of the talk is that message, for the other party. *)
LEMMA InboxAfterSpoken ==
  ASSUME NEW rows \in Seq(ConversationRows), NEW messages \in SUBSET InboxRows, NEW old,
         NEW now \in Nat, InboxInv(rows, messages, old, now), NEW i \in DOMAIN rows, i \in old,
         rows[i].status = "active", NEW u, SameParties(rows[i], u), u.turns = rows[i].turns + 1
  PROVE  InboxInv([rows EXCEPT ![i] = u], Unread(messages, rows[i], i) \cup {Sent(rows[i], i, now)},
                  old \ {i}, now)
<1> DEFINE t == rows[i]
           after == [rows EXCEPT ![i] = u]
           sent == Sent(t, i, now)
           unread == Unread(messages, t, i)
<1>1. DOMAIN after = DOMAIN rows /\ after[i] = u
      /\ \A j \in DOMAIN rows : j # i => after[j] = rows[j]
  OBVIOUS
<1>2. t.turns \in Nat
  <2>1. t \in ConversationRows
    OBVIOUS
  <2> HIDE DEF t
  <2> QED BY <2>1, Limits DEF ConversationRows
<1>3. nextConversationSpeaker(u) = recipient(t)
  <2>1. u.first = t.first /\ u.second = t.second /\ u.turns = t.turns + 1
    BY DEF SameParties
  <2> HIDE DEF t
  <2>2. u.turns % 2 = 0 <=> t.turns % 2 # 0
    BY <1>2, <2>1
  <2> QED BY <2>1, <2>2 DEF nextConversationSpeaker, recipient
<1>4. sent.talk = i /\ sent.turn = u.turns /\ sent.to = recipient(t) /\ sent.due = now + 1
  BY DEF Sent
<1>5. \A row \in unread : row.talk = i => FALSE
  <2> SUFFICES ASSUME NEW row \in unread, row.talk = i
               PROVE  FALSE
    OBVIOUS
  <2>1. row \in messages /\ ~(row.to = nextConversationSpeaker(t) /\ row.delivered)
    BY DEF Unread
  <2>2. row.to = nextConversationSpeaker(t) /\ row.delivered
    BY <2>1 DEF InboxInv
  <2> QED BY <2>1, <2>2
<1>6. \A row \in unread : row \in messages
  BY DEF Unread
<1>7. \A row \in messages : row.talk # i => row \in unread
  BY DEF Unread
<1> HIDE DEF after, unread, sent
<1>8. ASSUME NEW row \in unread \cup {sent}
      PROVE  /\ row.talk \in DOMAIN after
             /\ after[row.talk].status = "active" =>
                  /\ row.turn = after[row.talk].turns
                  /\ row.to = nextConversationSpeaker(after[row.talk])
                  /\ row.due <= now + 1 /\ (row.talk \in old \ {i} => row.delivered)
  <2>1. CASE row = sent
    BY <1>1, <1>3, <1>4, <2>1
  <2>2. CASE row \in unread
    <3>1. row \in messages /\ row.talk # i
      BY <1>5, <1>6, <2>2
    <3>2. /\ row.talk \in DOMAIN rows
          /\ rows[row.talk].status = "active" =>
               /\ row.turn = rows[row.talk].turns
               /\ row.to = nextConversationSpeaker(rows[row.talk])
               /\ row.due <= now + 1 /\ (row.talk \in old => row.delivered)
      BY <3>1 DEF InboxInv
    <3>3. after[row.talk] = rows[row.talk]
      BY <1>1, <3>1, <3>2
    <3> QED BY <1>1, <3>1, <3>2, <3>3
  <2> QED BY <2>1, <2>2
<1>9. ASSUME NEW j \in DOMAIN after, after[j].status = "active", after[j].turns > 0
      PROVE  \E row \in unread \cup {sent} : row.talk = j
  <2>1. CASE j = i
    BY <1>4, <2>1
  <2>2. CASE j # i
    <3>1. \E row \in messages : row.talk = j
      BY <1>1, <1>9, <2>2 DEF InboxInv
    <3> QED BY <1>7, <2>2, <3>1
  <2> QED BY <2>1, <2>2
<1> QED BY <1>8, <1>9 DEF InboxInv, after, unread, sent

LEMMA InboxAfterClosed ==
  ASSUME NEW rows \in Seq(ConversationRows), NEW messages, NEW old, NEW now,
         InboxInv(rows, messages, old, now), NEW i \in DOMAIN rows, NEW u, u.status # "active"
  PROVE  InboxInv([rows EXCEPT ![i] = u], messages, old, now)
<1> DEFINE after == [rows EXCEPT ![i] = u]
<1>1. DOMAIN after = DOMAIN rows /\ after[i] = u
      /\ \A j \in DOMAIN rows : j # i => after[j] = rows[j]
  OBVIOUS
<1> HIDE DEF after
<1>2. \A j \in DOMAIN rows : after[j].status = "active" => after[j] = rows[j]
  BY <1>1
<1>3. ASSUME NEW row \in messages
      PROVE  /\ row.talk \in DOMAIN after
             /\ after[row.talk].status = "active" =>
                  /\ row.turn = after[row.talk].turns
                  /\ row.to = nextConversationSpeaker(after[row.talk])
                  /\ row.due <= now + 1 /\ (row.talk \in old => row.delivered)
  <2>1. row.talk \in DOMAIN rows
    BY DEF InboxInv
  <2>2. CASE after[row.talk].status = "active"
    <3>1. after[row.talk] = rows[row.talk]
      BY <1>2, <2>1, <2>2
    <3> QED BY <1>1, <2>2, <3>1 DEF InboxInv
  <2> QED BY <1>1, <2>1, <2>2
<1>4. ASSUME NEW j \in DOMAIN after, after[j].status = "active", after[j].turns > 0
      PROVE  \E row \in messages : row.talk = j
  BY <1>1, <1>2, <1>4 DEF InboxInv
<1> QED BY <1>3, <1>4 DEF InboxInv, after

LEMMA InboxFewer ==
  ASSUME NEW rows, NEW messages, NEW old, NEW fewer, NEW now,
         InboxInv(rows, messages, old, now), fewer \subseteq old
  PROVE  InboxInv(rows, messages, fewer, now)
BY DEF InboxInv

(* A talk that stays open, or stays closed with its outcome, moves no relationship. *)
LEMMA TiesUnmoved ==
  ASSUME NEW rows \in Seq(ConversationRows), Len(rows) = Len(talks), NEW known, NEW now,
         talks \in Seq(ConversationRows), TiesFollow(rows, known, now), NEW i \in DOMAIN rows, NEW u,
         u.status = "active" <=> rows[i].status = "active", u.outcome = rows[i].outcome
  PROVE  TiesFollow([rows EXCEPT ![i] = u], known, now)
<1> DEFINE after == [rows EXCEPT ![i] = u]
<1>1. DOMAIN talks = DOMAIN rows
  OBVIOUS
<1>2. \A j \in DOMAIN rows : /\ after[j].status = "active" <=> rows[j].status = "active"
                             /\ after[j].outcome = rows[j].outcome
  OBVIOUS
<1> HIDE DEF after
<1>3. \A j \in DOMAIN talks, d \in Pairs : EndsBetween(after, j, d) <=> EndsBetween(rows, j, d)
  BY <1>1, <1>2 DEF EndsBetween
<1> QED BY <1>1, <1>2, <1>3 DEF TiesFollow, after

(* A talk that is closed moves the two relationships of its agents, and only those. *)
LEMMA TiesAfterClosed ==
  ASSUME NEW now, Before(now), NEW rows \in Seq(ConversationRows), Len(rows) = Len(talks),
         NEW known \in [Pairs -> RelationshipRows], TiesInv(known, now),
         TiesFollow(rows, known, now),
         NEW i \in DOMAIN talks, talks[i].status = "active", rows[i].status = "active",
         SameParties(talks[i], rows[i]), NEW u, u.status # "active"
  PROVE  LET after == TiesAfter(known, rows[i], u.outcome.kind, now)
         IN TiesInv(after, now) /\ TiesFollow([rows EXCEPT ![i] = u], after, now)
<1> DEFINE t == rows[i]
           kind == u.outcome.kind
           after == TiesAfter(known, t, kind, now)
           final == [rows EXCEPT ![i] = u]
           directions == {<<t.first, t.second>>, <<t.second, t.first>>}
<1>1. /\ talks \in Seq(ConversationRows) /\ DOMAIN talks = DOMAIN rows /\ PairsInv(talks)
      /\ now \in 0 .. LastTick /\ now \in Nat
  BY BeforeFacts
<1>2. t \in ConversationRows /\ t.start \in Nat /\ t.first = talks[i].first
      /\ t.second = talks[i].second
  <2>1. t \in ConversationRows /\ t.first = talks[i].first /\ t.second = talks[i].second
    BY <1>1 DEF SameParties
  <2> HIDE DEF t
  <2> QED BY <2>1, Limits DEF ConversationRows
<1>3. /\ final[i] = u /\ \A j \in DOMAIN talks : j # i => final[j] = rows[j]
  BY <1>1
<1> HIDE DEF final
<1>4. \A d \in Pairs : d \in directions <=> participants(talks[i]) = {d[1], d[2]}
  <2> SUFFICES ASSUME NEW d \in Pairs
               PROVE  d \in directions <=> {t.first, t.second} = {d[1], d[2]}
    BY <1>2 DEF participants
  <2>1. d = <<d[1], d[2]>>
    BY DEF Pairs
  <2> DEFINE a == d[1]
             b == d[2]
  <2> HIDE DEF t, a, b
  <2>2. d = <<a, b>>
    BY <2>1 DEF a, b
  <2>3. {t.first, t.second} = {a, b} <=>
          \/ t.first = a /\ t.second = b
          \/ t.first = b /\ t.second = a
    OBVIOUS
  <2>4. d \in directions <=>
          \/ t.first = a /\ t.second = b
          \/ t.first = b /\ t.second = a
    BY <2>2
  <2> QED BY <2>3, <2>4 DEF a, b
<1>5. ASSUME NEW d \in Pairs
      PROVE  /\ RelationshipSound(after[d]) /\ after[d].last <= now
             /\ d \in directions => TieMoved(known[d], after[d], kind, now)
             /\ d \notin directions => after[d] = known[d]
  <2>1. known[d] \in RelationshipRows /\ RelationshipSound(known[d]) /\ known[d].last <= now
    BY DEF TiesInv
  <2>2. CASE d \in directions
    <3> DEFINE new == tieAfter(known[d], kind, t.start, now)
    <3>1. /\ new \in RelationshipRows /\ RelationshipSound(new)
          /\ TieMoved(known[d], new, kind, now)
      BY <1>1, <1>2, <2>1, TieAfterSound
    <3>2. after[d] = new
      BY <2>2 DEF TiesAfter
    <3> HIDE DEF after, new, directions
    <3>3. new.last = now
      BY <3>1 DEF TieMoved
    <3> QED BY <1>1, <2>2, <3>1, <3>2, <3>3
  <2>3. CASE d \notin directions
    <3>1. after[d] = known[d]
      BY <2>3 DEF TiesAfter
    <3> HIDE DEF after, directions
    <3> QED BY <2>1, <2>3, <3>1
  <2> QED BY <2>2, <2>3
<1> HIDE DEF after, directions
<1>6. ASSUME NEW d \in Pairs
      PROVE  /\ (\A j \in DOMAIN talks : ~EndsBetween(final, j, d)) => after[d] = ties[d]
             /\ \A j \in DOMAIN talks : EndsBetween(final, j, d) =>
                  TieMoved(ties[d], after[d], final[j].outcome.kind, now)
  <2>1. CASE d \in directions
    <3>1. participants(talks[i]) = {d[1], d[2]}
      BY <1>4, <2>1
    <3>2. EndsBetween(final, i, d)
      BY <1>3, <3>1 DEF EndsBetween
    <3>3. \A j \in DOMAIN talks :
            talks[j].status = "active" /\ participants(talks[j]) = {d[1], d[2]} => j = i
      BY <1>1, <3>1 DEF PairsInv
    <3>4. \A j \in DOMAIN talks : ~EndsBetween(rows, j, d)
      BY <3>3 DEF EndsBetween
    <3>5. known[d] = ties[d]
      BY <3>4 DEF TiesFollow
    <3>6. \A j \in DOMAIN talks : EndsBetween(final, j, d) => j = i
      BY <3>3 DEF EndsBetween
    <3>7. TieMoved(ties[d], after[d], kind, now)
      BY <1>5, <2>1, <3>5
    <3> QED BY <1>3, <3>2, <3>6, <3>7
  <2>2. CASE d \notin directions
    <3>1. participants(talks[i]) # {d[1], d[2]}
      BY <1>4, <2>2
    <3>2. \A j \in DOMAIN talks : EndsBetween(final, j, d) <=> EndsBetween(rows, j, d)
      BY <1>3, <3>1 DEF EndsBetween
    <3>3. \A j \in DOMAIN talks : EndsBetween(final, j, d) => j # i
      BY <3>1 DEF EndsBetween
    <3>4. after[d] = known[d]
      BY <1>5, <2>2
    <3> QED BY <1>3, <3>2, <3>3, <3>4 DEF TiesFollow
  <2> QED BY <2>1, <2>2
<1> QED BY <1>5, <1>6 DEF TiesInv, TiesFollow, after, final

SpokenIn(v, w, i, chosen, cost) == v.talks = [w.talks EXCEPT ![i] = Said(w.talks[i], chosen, cost)]

LEMMA SpokenTables ==
  ASSUME NEW now, Before(now), NEW w, NEW K, Tables(w, K, now), NEW i \in DOMAIN talks \ K,
         Speaking(w.talks[i]), NEW chosen, NEW cost \in Nat,
         chosen.kind \in {"offer", "counter", "accept", "decline", "clarify"},
         chosen.terms \in Terms \cup {NoTerms}, w.talks[i].tokens + cost <= TokenBudget
  PROVE  LET v == appendMessage(w, i, chosen, cost, now)
         IN /\ Tables(v, K \cup {i}, now)
            /\ SpokenIn(v, w, i, chosen, cost)
<1> DEFINE v == appendMessage(w, i, chosen, cost, now)
           t == w.talks[i]
           u == Said(t, chosen, cost)
           old == DOMAIN talks \ K
<1>1. /\ w \in World /\ ~w.failed /\ Len(w.talks) = Len(talks)
      /\ InboxInv(w.talks, w.inbox, old, now)
      /\ TiesInv(w.ties, now) /\ TiesFollow(w.talks, w.ties, now)
  BY DEF Tables
<1>2. /\ w.talks \in Seq(ConversationRows) /\ w.inbox \in SUBSET InboxRows
      /\ talks \in Seq(ConversationRows) /\ now \in Nat
  BY <1>1, BeforeFacts DEF World
<1>3. i \in DOMAIN w.talks /\ t \in ConversationRows
  BY <1>1, <1>2
<1>4. /\ u \in ConversationRows /\ SameParties(t, u) /\ u.status = "active"
      /\ u.turns = t.turns + 1 /\ u.outcome = t.outcome
  BY <1>3, SaidTalk
<1>5. /\ v \in World /\ ~v.failed /\ v.talks = [w.talks EXCEPT ![i] = u]
      /\ v.inbox = Unread(w.inbox, t, i) \cup {Sent(t, i, now)} /\ v.ties = w.ties
  BY <1>1, <1>2, <1>3, AppendShape
<1>6. t.status = "active"
  BY DEF Speaking
<1> HIDE DEF u, v, t
<1>7. Len(v.talks) = Len(talks)
  BY <1>1, <1>2, <1>3, <1>4, <1>5, ExceptSeq
<1>8. InboxInv(v.talks, v.inbox, old \ {i}, now)
  <2>1. InboxInv([w.talks EXCEPT ![i] = u],
                 Unread(w.inbox, w.talks[i], i) \cup {Sent(w.talks[i], i, now)}, old \ {i}, now)
    <3>1. i \in old /\ w.talks[i].status = "active" /\ SameParties(w.talks[i], u)
          /\ u.turns = w.talks[i].turns + 1
      BY <1>4, <1>6 DEF t
    <3> HIDE DEF old
    <3> QED BY <1>1, <1>2, <1>3, <3>1, InboxAfterSpoken
  <2> QED BY <1>5, <2>1 DEF t
<1>9. old \ {i} = DOMAIN talks \ (K \cup {i})
  OBVIOUS
<1>10. TiesFollow(v.talks, v.ties, now)
  <2>1. /\ u.status = "active" <=> w.talks[i].status = "active"
        /\ u.outcome = w.talks[i].outcome
    BY <1>4, <1>6 DEF t
  <2>2. TiesFollow([w.talks EXCEPT ![i] = u], w.ties, now)
    BY <1>1, <1>2, <1>3, <2>1, TiesUnmoved
  <2> QED BY <1>5, <2>2
<1>11. Tables(v, K \cup {i}, now)
  BY <1>1, <1>5, <1>7, <1>8, <1>9, <1>10 DEF Tables
<1> QED BY <1>5, <1>11 DEF v, u, t, SpokenIn

LEMMA ClosedTables ==
  ASSUME NEW now, Before(now), NEW w, NEW K, Tables(w, K, now), NEW i \in DOMAIN talks,
         talks[i].status = "active", w.talks[i].status = "active",
         SameParties(talks[i], w.talks[i]),
         NEW reason \in CloseReasons, NEW outcome \in Outcomes, NEW cost \in Nat,
         w.talks[i].tokens + cost <= TokenBudget, ~outcomeDisagrees(reason, outcome),
         outcome.kind # "none"
  PROVE  LET v == close(w, i, reason, outcome, cost, now)
         IN /\ Tables(v, K, now)
            /\ v.talks = [w.talks EXCEPT ![i] = Closed(w.talks[i], reason, outcome, cost, now)]
<1> DEFINE v == close(w, i, reason, outcome, cost, now)
           t == w.talks[i]
           u == Closed(t, reason, outcome, cost, now)
           old == DOMAIN talks \ K
<1>1. /\ w \in World /\ ~w.failed /\ Len(w.talks) = Len(talks)
      /\ InboxInv(w.talks, w.inbox, old, now)
      /\ TiesInv(w.ties, now) /\ TiesFollow(w.talks, w.ties, now)
  BY DEF Tables
<1>2. /\ w.talks \in Seq(ConversationRows) /\ w.ties \in [Pairs -> RelationshipRows]
      /\ talks \in Seq(ConversationRows) /\ now \in 0 .. LastTick
  BY <1>1, BeforeFacts DEF World
<1>3. i \in DOMAIN w.talks /\ t \in ConversationRows
  BY <1>1, <1>2
<1>4. /\ u \in ConversationRows /\ u.status # "active" /\ u.outcome = outcome
  BY <1>2, <1>3, ClosedTalk
<1>5. /\ v \in World /\ ~v.failed /\ v.inbox = w.inbox /\ v.talks = [w.talks EXCEPT ![i] = u]
      /\ v.ties = TiesAfter(w.ties, t, outcome.kind, now)
  BY <1>1, <1>2, <1>3, CloseShape
<1> HIDE DEF u, v, t
<1>6. Len(v.talks) = Len(talks)
  BY <1>1, <1>2, <1>3, <1>4, <1>5, ExceptSeq
<1>7. InboxInv(v.talks, v.inbox, old, now)
  BY <1>1, <1>2, <1>3, <1>4, <1>5, InboxAfterClosed
<1>8. /\ TiesInv(v.ties, now) /\ TiesFollow(v.talks, v.ties, now)
  <2>1. /\ TiesInv(TiesAfter(w.ties, w.talks[i], u.outcome.kind, now), now)
        /\ TiesFollow([w.talks EXCEPT ![i] = u],
                      TiesAfter(w.ties, w.talks[i], u.outcome.kind, now), now)
    BY <1>1, <1>2, <1>4, TiesAfterClosed
  <2> QED BY <1>4, <1>5, <2>1 DEF t
<1>9. Tables(v, K, now)
  BY <1>5, <1>6, <1>7, <1>8 DEF Tables
<1> QED BY <1>5, <1>9 DEF v, u, t

LEMMA SpeakingTalk ==
  ASSUME NEW now, NEW i, NEW t, TalkInv(t, now), t.status = "active",
         NEW e, Response(e, i, t), Ongoing(e, t)
  PROVE  LET u == Said(t, e.chosen, e.cost)
         IN TalkInv(u, now) /\ Became(t, u, now) /\ HadTurn(t, u)
<1> DEFINE u == Said(t, e.chosen, e.cost)
<1>1. t \in ConversationRows /\ Speaking(t) /\ t.first # t.second /\ t.start <= now
  BY DEF TalkInv
<1>2. t.turns \in Nat /\ t.tokens \in Nat /\ e.cost \in Nat
  BY TalkTypes DEF Response
<1>3. /\ u \in ConversationRows /\ SameParties(t, u) /\ u.status = "active"
      /\ u.turns = t.turns + 1 /\ u.tokens = t.tokens + e.cost
      /\ u.outcome = t.outcome /\ u.reason = t.reason
      /\ Len(u.messages) = u.turns
      /\ \A k \in 1 .. t.turns : u.messages[k] = t.messages[k]
      /\ u.messages[u.turns].sender = nextConversationSpeaker(t)
  BY <1>1, SaidTalk DEF Response
<1> HIDE DEF u
<1>4. participants(u) = participants(t) /\ nextConversationSpeaker(t) \in participants(t)
  BY <1>1, <1>3, SpeakerType DEF participants, SameParties
<1>5. Speaking(u)
  <2>1. ASSUME NEW k \in 1 .. u.turns
        PROVE  u.messages[k].sender \in participants(u)
    <3>1. CASE k = u.turns
      BY <1>3, <1>4, <3>1
    <3>2. CASE k # u.turns
      <4>1. k \in 1 .. t.turns
        BY <1>2, <1>3, <3>2
      <4> QED BY <1>1, <1>3, <1>4, <4>1 DEF Speaking
    <3> QED BY <3>1, <3>2
  <2>2. u.outcome = OngoingOutcome /\ u.reason = "none"
    BY <1>1, <1>3 DEF Speaking
  <2>3. u.turns < MaxTurns /\ u.tokens < TokenBudget
    BY <1>3 DEF Ongoing
  <2> QED BY <1>3, <2>1, <2>2, <2>3 DEF Speaking
<1>6. u.first # u.second /\ u.start <= now
  BY <1>1, <1>3 DEF SameParties
<1>7. TalkInv(u, now)
  BY <1>3, <1>5, <1>6 DEF TalkInv
<1>8. Spoke(t, u)
  BY <1>3 DEF Spoke
<1>9. Became(t, u, now)
  BY <1>3, <1>8 DEF Became
<1>10. HadTurn(t, u)
  <2>1. u.turns = t.turns + 1
    BY <1>3
  <2> QED BY <2>1 DEF HadTurn
<1> QED BY <1>7, <1>9, <1>10 DEF u

(* A talk closed by a response, after a last message or without one. *)
LEMMA ClosingTalk ==
  ASSUME NEW now \in 0 .. LastTick, NEW i, NEW t, TalkInv(t, now), t.status = "active",
         NEW e, Response(e, i, t), Closing(e, t),
         NEW said, IF e.close.accepted THEN said = Said(t, e.chosen, e.cost) ELSE said = t
  PROVE  LET u == Closed(said, e.close.reason, e.outcome, e.outcomeCost, now)
         IN /\ said \in ConversationRows /\ said.status = "active" /\ SameParties(t, said)
            /\ said.tokens + e.outcomeCost <= TokenBudget
            /\ TalkInv(u, now) /\ Became(t, u, now) /\ HadTurn(t, u)
<1> DEFINE u == Closed(said, e.close.reason, e.outcome, e.outcomeCost, now)
<1>1. /\ t \in ConversationRows /\ Speaking(t) /\ t.first # t.second /\ t.start <= now
      /\ t.turns \in Nat /\ t.tokens \in Nat
  BY TalkTypes DEF TalkInv
<1>2. /\ e.close.reason \in CloseReasons /\ e.close.reason # "expired" /\ e.outcome \in Outcomes
      /\ ~outcomeDisagrees(e.close.reason, e.outcome)
      /\ e.outcomeCost \in Nat /\ e.cost \in Nat /\ t.tokens + e.cost + e.outcomeCost <= TokenBudget
  BY DEF Closing, Response
<1>3. /\ said \in ConversationRows /\ said.status = "active" /\ SameParties(t, said)
      /\ IF e.close.accepted THEN said.turns = t.turns + 1 /\ said.tokens = t.tokens + e.cost
         ELSE said.turns = t.turns /\ said.tokens = t.tokens
  <2>1. CASE e.close.accepted
    BY <1>1, <2>1, SaidTalk DEF Response
  <2>2. CASE ~e.close.accepted
    BY <1>1, <2>2 DEF SameParties
  <2> QED BY <2>1, <2>2
<1>4. said.tokens + e.outcomeCost <= TokenBudget
  <2>1. said.tokens = t.tokens + e.cost \/ said.tokens = t.tokens
    BY <1>3
  <2> DEFINE a == said.tokens
             b == t.tokens
             c == e.cost
             d == e.outcomeCost
  <2>2. (a = b + c \/ a = b) /\ b \in Nat /\ c \in Nat /\ d \in Nat /\ b + c + d <= TokenBudget
    BY <1>1, <1>2, <2>1
  <2> HIDE DEF a, b, c, d
  <2>3. a + d <= TokenBudget
    BY <2>2, Limits
  <2> QED BY <2>3 DEF a, d
<1>5. /\ u \in ConversationRows /\ u.status # "active" /\ u.turns = said.turns
      /\ u.reason = e.close.reason /\ u.outcome = e.outcome /\ u.end = now /\ SameParties(said, u)
  BY <1>2, <1>3, <1>4, ClosedTalk
<1> HIDE DEF u
<1>6. SameParties(t, u)
  BY <1>3, <1>5 DEF SameParties
<1>7. TalkInv(u, now)
  BY <1>1, <1>5, <1>6 DEF TalkInv, SameParties
<1>8. e.outcome.kind = "agreement" <=> e.close.reason = "agreement"
  BY <1>2 DEF outcomeDisagrees
<1>9. IF u.outcome.kind = "agreement"
        THEN /\ u.turns = t.turns + 1 /\ u.outcome.terms \in Terms
             /\ u.outcome.terms = lastTermsFromOther(t, nextConversationSpeaker(t))
        ELSE u.outcome.terms = NoTerms
  BY <1>3, <1>5, <1>8 DEF Closing
<1>10. u.turns \in {t.turns, t.turns + 1}
  BY <1>3, <1>5
<1>11. Settled(t, u, now)
  BY <1>2, <1>5, <1>9, <1>10 DEF Settled
<1>12. HadTurn(t, u)
  BY <1>2, <1>5 DEF HadTurn
<1> QED BY <1>3, <1>4, <1>6, <1>7, <1>11, <1>12 DEF Became, u

Untouched(w, i) == w.talks[i] = talks[i]
TurnTaken(v, w, K, i, now) ==
  Midway(v, K \cup {i}, now) /\ \A j \in DOMAIN talks \ {i} : v.talks[j] = w.talks[j]

(* One prepared response is applied: the world stays sound, and its talk has had its turn. *)
LEMMA ApplySound ==
  ASSUME NEW now, Before(now), NEW w, NEW K, Midway(w, K, now), NEW i \in DOMAIN talks \ K,
         talks[i].status = "active", Untouched(w, i), NEW e, Response(e, i, talks[i])
  PROVE  TurnTaken(applyEntry(w, e, now), w, K, i, now)
<1> DEFINE v == applyEntry(w, e, now)
           t == talks[i]
           said == Said(t, e.chosen, e.cost)
           append == appendMessage(w, i, e.chosen, e.cost, now)
           closed(from) == close(from, i, e.close.reason, e.outcome, e.outcomeCost, now)
           N == K \cup {i}
<1>1. /\ Tables(w, K, now) /\ w \in World /\ w.failed = FALSE /\ Len(w.talks) = Len(talks)
      /\ \A j \in DOMAIN talks : InHand(j, w.talks[j], K, now)
  BY DEF Midway, Tables, World
<1>2. /\ talks \in Seq(ConversationRows) /\ DOMAIN talks = 1 .. Len(talks)
      /\ w.talks \in Seq(ConversationRows) /\ now \in 0 .. LastTick
  BY <1>1, BeforeFacts DEF World
<1>3. DOMAIN w.talks = DOMAIN talks
  BY <1>1, <1>2
<1>4. TalkInv(t, now) /\ Speaking(t) /\ t \in ConversationRows
  BY LaterTalk DEF TalkInv
<1>5. /\ e.talk = i /\ e.was = t /\ e.close.accepted \in BOOLEAN /\ e.cost \in Nat
      /\ e.chosen.kind \in {"offer", "counter", "accept", "decline", "clarify"}
      /\ e.chosen.terms \in Terms \cup {NoTerms}
      /\ t.tokens + e.cost <= TokenBudget /\ (Ongoing(e, t) \/ Closing(e, t))
  BY DEF Response
<1>6. throwIf(w, ~assertPreparedCurrent(w, e)
                   \/ ~assertDecisionEvidence(w, i, nextConversationSpeaker(e.was))) = w
  <2> DEFINE stale == ~assertPreparedCurrent(w, e)
                        \/ ~assertDecisionEvidence(w, i, nextConversationSpeaker(e.was))
  <2>1. assertPreparedCurrent(w, e)
    BY <1>5 DEF assertPreparedCurrent, Untouched
  <2>2. assertDecisionEvidence(w, i, nextConversationSpeaker(e.was))
    BY <1>4, <1>5, SpeakerType DEF assertDecisionEvidence, participants, Untouched
  <2>3. stale \in BOOLEAN /\ ~stale
    BY <2>1, <2>2
  <2> HIDE DEF stale
  <2>4. throwIf(w, stale) = w
    BY <1>1, <2>3, WorldFull, NoThrow
  <2> QED BY <2>4 DEF stale
<1>7. v = LET spoken == IF ~e.close.accepted THEN w ELSE append
          IN IF e.close.reason = "none" \/ spoken.failed THEN spoken ELSE closed(spoken)
  BY <1>5, <1>6 DEF applyEntry
<1>8. /\ Tables(append, N, now) /\ append.talks = [w.talks EXCEPT ![i] = said]
  <2>1. Speaking(w.talks[i]) /\ w.talks[i].tokens + e.cost <= TokenBudget
    BY <1>4, <1>5 DEF Untouched
  <2>2. Tables(append, N, now)
        /\ append.talks = [w.talks EXCEPT ![i] = Said(w.talks[i], e.chosen, e.cost)]
    <3> DEFINE chosen == e.chosen
               cost == e.cost
    <3>1. /\ cost \in Nat
          /\ chosen.kind \in {"offer", "counter", "accept", "decline", "clarify"}
          /\ chosen.terms \in Terms \cup {NoTerms}
          /\ Speaking(w.talks[i]) /\ w.talks[i].tokens + cost <= TokenBudget
      BY <1>5, <2>1
    <3>2. Tables(w, K, now)
      BY <1>1
    <3> HIDE DEF chosen, cost, append
    <3>3. Tables(appendMessage(w, i, chosen, cost, now), K \cup {i}, now)
      BY <3>1, <3>2, SpokenTables
    <3>4. SpokenIn(appendMessage(w, i, chosen, cost, now), w, i, chosen, cost)
      BY <3>1, <3>2, SpokenTables
    <3> QED BY <3>3, <3>4 DEF chosen, cost, append, SpokenIn
  <2>3. Said(w.talks[i], e.chosen, e.cost) = said
    BY DEF Untouched
  <2> HIDE DEF said, append
  <2> QED BY <2>2, <2>3
<1>9. ASSUME NEW x, NEW u, NEW from, from.talks = w.talks \/ from.talks = [w.talks EXCEPT ![i] = said],
             x.talks = [from.talks EXCEPT ![i] = u], Tables(x, N, now),
             TalkInv(u, now), Became(t, u, now), HadTurn(t, u)
      PROVE  Midway(x, N, now) /\ \A j \in DOMAIN talks \ {i} : x.talks[j] = w.talks[j]
  <2> HIDE DEF said
  <2>1. x.talks[i] = u /\ \A j \in DOMAIN talks \ {i} : x.talks[j] = w.talks[j]
    BY <1>3, <1>9
  <2>2. ASSUME NEW j \in DOMAIN talks
        PROVE  InHand(j, x.talks[j], N, now)
    <3>1. CASE j = i
      BY <1>9, <2>1, <3>1 DEF InHand
    <3>2. CASE j # i
      BY <1>1, <2>1, <3>2 DEF InHand
    <3> QED BY <3>1, <3>2
  <2> QED BY <1>9, <2>1, <2>2 DEF Midway
<1> HIDE DEF v, N, append
<1>10. CASE e.close.reason = "none"
  <2>1. Ongoing(e, t)
    BY <1>5, <1>10 DEF Closing, CloseReasons
  <2>2. v = append
    BY <1>7, <1>10, <2>1 DEF Ongoing
  <2>3. TalkInv(said, now) /\ Became(t, said, now) /\ HadTurn(t, said)
    BY <1>4, <2>1, SpeakingTalk
  <2> HIDE DEF said, t
  <2> QED BY <1>8, <1>9, <2>2, <2>3 DEF TurnTaken, v, N
<1>11. CASE e.close.reason # "none"
  <2>1. Closing(e, t)
    BY <1>5, <1>11 DEF Ongoing
  <2> DEFINE spoken == IF ~e.close.accepted THEN w ELSE append
             last == spoken.talks[i]
             u == Closed(last, e.close.reason, e.outcome, e.outcomeCost, now)
  <2>2. /\ Tables(spoken, N, now)
        /\ spoken.talks = w.talks \/ spoken.talks = [w.talks EXCEPT ![i] = said]
        /\ IF e.close.accepted THEN last = said ELSE last = t
    <3>1. CASE e.close.accepted
      BY <1>3, <1>8, <3>1
    <3>2. CASE ~e.close.accepted
      <4>1. DOMAIN talks \ N \subseteq DOMAIN talks \ K
        BY DEF N
      <4>2. Tables(w, N, now)
        BY <1>1, <4>1, InboxFewer DEF Tables
      <4> QED BY <3>2, <4>2 DEF Untouched
    <3> QED BY <3>1, <3>2
  <2>3. ~spoken.failed
    BY <2>2 DEF Tables
  <2> HIDE DEF spoken
  <2>4. v = closed(spoken)
    BY <1>7, <1>11, <2>3 DEF spoken
  <2>5. /\ last.status = "active" /\ SameParties(t, last)
        /\ last.tokens + e.outcomeCost <= TokenBudget
        /\ TalkInv(u, now) /\ Became(t, u, now) /\ HadTurn(t, u)
    <3> HIDE DEF last
    <3> QED BY <1>2, <1>4, <2>1, <2>2, ClosingTalk
  <2>6. /\ e.close.reason \in CloseReasons /\ e.outcome \in Outcomes /\ e.outcome.kind # "none"
        /\ ~outcomeDisagrees(e.close.reason, e.outcome) /\ e.outcomeCost \in Nat
    BY <2>1 DEF Closing
  <2>7. Tables(v, N, now) /\ v.talks = [spoken.talks EXCEPT ![i] = u]
    BY <2>2, <2>4, <2>5, <2>6, ClosedTables
  <2> HIDE DEF u, last, said, t, closed
  <2> QED BY <1>9, <2>2, <2>5, <2>7 DEF TurnTaken, v, N
<1> QED BY <1>10, <1>11 DEF TurnTaken, v

-----------------------------------------------------------------------------
(* The phases of a tick, response by response and proposal by proposal *)

(* The functions the phases are defined by exist: each is built one value at a time. *)
LEMMA PhaseSteps ==
  ASSUME NEW w, NEW now, Len(batch) \in Nat
  PROVE  \E f : /\ f[0] = deliverDue(w, now)
                /\ \A k \in 1 .. Len(batch) : f[k] = applyEntry(f[k - 1], batch[k], now)
                /\ createConversationPhaseHandler(w, now) = f[Len(batch)]
<1> DEFINE N == Len(batch)
           base == deliverDue(w, now)
           Upto(n, f) == f[0] = base /\ \A k \in 1 .. n : f[k] = applyEntry(f[k - 1], batch[k], now)
           S == {n \in Nat : \E f : Upto(n, f)}
           Rule(f) == f = [k \in 0 .. N |-> IF k = 0 THEN base
                                            ELSE applyEntry(f[k - 1], batch[k], now)]
<1> HIDE DEF base
<1>1. 0 \in S
  <2> DEFINE f == [k \in 0 .. 0 |-> base]
  <2>1. Upto(0, f)
    OBVIOUS
  <2> HIDE DEF Upto, f
  <2> QED BY <2>1
<1>2. ASSUME NEW n \in Nat, n \in S
      PROVE  n + 1 \in S
  <2> HIDE DEF Upto
  <2>1. PICK f : Upto(n, f)
    BY <1>2
  <2> DEFINE next == applyEntry(f[n], batch[n + 1], now)
             g == [k \in 0 .. (n + 1) |-> IF k <= n THEN f[k] ELSE next]
  <2> HIDE DEF next
  <2>2. \A k \in 0 .. n : g[k] = f[k]
    OBVIOUS
  <2>3. g[n + 1] = next
    OBVIOUS
  <2> HIDE DEF g
  <2>4. ASSUME NEW k \in 1 .. (n + 1)
        PROVE  g[k] = applyEntry(g[k - 1], batch[k], now)
    <3>1. g[k - 1] = f[k - 1]
      BY <2>2
    <3>2. CASE k \in 1 .. n
      BY <2>1, <2>2, <3>1, <3>2 DEF Upto
    <3>3. CASE k = n + 1
      BY <2>3, <3>1, <3>3 DEF next
    <3> QED BY <3>2, <3>3
  <2>5. g[0] = base
    BY <2>1, <2>2 DEF Upto
  <2>6. Upto(n + 1, g)
    BY <2>4, <2>5 DEF Upto
  <2> QED BY <2>6
<1>3. N \in S
  <2> HIDE DEF S
  <2> QED BY <1>1, <1>2, NatSetInduction
<1>4. PICK f : Upto(N, f)
  BY <1>3
<1> DEFINE h == [k \in 0 .. N |-> f[k]]
<1>5. Rule(h)
  <2>1. h[0] = base /\ \A k \in 1 .. N : h[k] = applyEntry(h[k - 1], batch[k], now)
    BY <1>4
  <2>2. h = [k \in 0 .. N |-> h[k]]
    OBVIOUS
  <2> HIDE DEF h, N
  <2>3. \A k \in 0 .. N : h[k] = IF k = 0 THEN base ELSE applyEntry(h[k - 1], batch[k], now)
    BY <2>1
  <2> QED BY <2>2, <2>3
<1> DEFINE done == CHOOSE g : Rule(g)
<1>6. Rule(done)
  <2> HIDE DEF Rule, h
  <2> QED BY <1>5
<1>7. createConversationPhaseHandler(w, now) = done[N]
  BY DEF createConversationPhaseHandler, base
<1> HIDE DEF done
<1>8. done[0] = base /\ \A k \in 1 .. N : done[k] = applyEntry(done[k - 1], batch[k], now)
  <2> DEFINE F(d) == [k \in 0 .. N |-> IF k = 0 THEN base ELSE applyEntry(d[k - 1], batch[k], now)]
  <2>1. done = F(done)
    BY <1>6
  <2>2. F(done)[0] = base
        /\ \A k \in 1 .. N : F(done)[k] = applyEntry(done[k - 1], batch[k], now)
    OBVIOUS
  <2> HIDE DEF F
  <2> QED BY <2>1, <2>2
<1> QED BY <1>7, <1>8 DEF base

LEMMA SettleSteps ==
  ASSUME NEW w, NEW now, Len(w.talks) \in Nat
  PROVE  \E f : /\ f[0] = w
                /\ \A k \in 1 .. Len(w.talks) : f[k] = settleProposal(f[k - 1], k, now)
                /\ processTick(w, now) = f[Len(w.talks)]
<1> DEFINE N == Len(w.talks)
           Upto(n, f) == f[0] = w /\ \A k \in 1 .. n : f[k] = settleProposal(f[k - 1], k, now)
           S == {n \in Nat : \E f : Upto(n, f)}
           Rule(f) == f = [k \in 0 .. N |-> IF k = 0 THEN w
                                            ELSE settleProposal(f[k - 1], k, now)]
<1>1. 0 \in S
  <2> DEFINE f == [k \in 0 .. 0 |-> w]
  <2>1. Upto(0, f)
    OBVIOUS
  <2> HIDE DEF Upto, f
  <2> QED BY <2>1
<1>2. ASSUME NEW n \in Nat, n \in S
      PROVE  n + 1 \in S
  <2> HIDE DEF Upto
  <2>1. PICK f : Upto(n, f)
    BY <1>2
  <2> DEFINE next == settleProposal(f[n], n + 1, now)
             g == [k \in 0 .. (n + 1) |-> IF k <= n THEN f[k] ELSE next]
  <2> HIDE DEF next
  <2>2. \A k \in 0 .. n : g[k] = f[k]
    OBVIOUS
  <2>3. g[n + 1] = next
    OBVIOUS
  <2> HIDE DEF g
  <2>4. ASSUME NEW k \in 1 .. (n + 1)
        PROVE  g[k] = settleProposal(g[k - 1], k, now)
    <3>1. g[k - 1] = f[k - 1]
      BY <2>2
    <3>2. CASE k \in 1 .. n
      BY <2>1, <2>2, <3>1, <3>2 DEF Upto
    <3>3. CASE k = n + 1
      BY <2>3, <3>1, <3>3 DEF next
    <3> QED BY <3>2, <3>3
  <2>5. g[0] = w
    BY <2>1, <2>2 DEF Upto
  <2>6. Upto(n + 1, g)
    BY <2>4, <2>5 DEF Upto
  <2> QED BY <2>6
<1>3. N \in S
  <2> HIDE DEF S
  <2> QED BY <1>1, <1>2, NatSetInduction
<1>4. PICK f : Upto(N, f)
  BY <1>3
<1> DEFINE h == [k \in 0 .. N |-> f[k]]
<1>5. Rule(h)
  <2>1. h[0] = w /\ \A k \in 1 .. N : h[k] = settleProposal(h[k - 1], k, now)
    BY <1>4
  <2>2. h = [k \in 0 .. N |-> h[k]]
    OBVIOUS
  <2> HIDE DEF h, N
  <2>3. \A k \in 0 .. N : h[k] = IF k = 0 THEN w ELSE settleProposal(h[k - 1], k, now)
    BY <2>1
  <2> QED BY <2>2, <2>3
<1> DEFINE done == CHOOSE g : Rule(g)
<1>6. Rule(done)
  <2> HIDE DEF Rule, h
  <2> QED BY <1>5
<1>7. processTick(w, now) = done[N]
  BY DEF processTick
<1> HIDE DEF done
<1>8. done[0] = w /\ \A k \in 1 .. N : done[k] = settleProposal(done[k - 1], k, now)
  <2> DEFINE F(d) == [k \in 0 .. N |-> IF k = 0 THEN w ELSE settleProposal(d[k - 1], k, now)]
  <2>1. done = F(done)
    BY <1>6
  <2>2. F(done)[0] = w
        /\ \A k \in 1 .. N : F(done)[k] = settleProposal(done[k - 1], k, now)
    OBVIOUS
  <2> HIDE DEF F
  <2> QED BY <2>1, <2>2
<1> QED BY <1>7, <1>8

(* The talks with a turn once the k-th is looked at, if those before it gave S. *)
Turn(S, k, now) ==
  S \cup {i \in {k} : isDue(i, now) /\ \A j \in S : ~shares(talks[i], talks[j])}

LEMMA TurnSteps ==
  ASSUME NEW now, Len(talks) \in Nat
  PROVE  \E f : /\ f[0] = {}
                /\ \A k \in 1 .. Len(talks) : f[k] = Turn(f[k - 1], k, now)
                /\ discoverConversationTurnOpportunities(now) = f[Len(talks)]
<1> DEFINE N == Len(talks)
           Upto(n, f) == f[0] = {} /\ \A k \in 1 .. n : f[k] = Turn(f[k - 1], k, now)
           S == {n \in Nat : \E f : Upto(n, f)}
           Rule(f) == f = [k \in 0 .. N |-> IF k = 0 THEN {}
                                            ELSE Turn(f[k - 1], k, now)]
<1>1. 0 \in S
  <2> DEFINE f == [k \in 0 .. 0 |-> {}]
  <2>1. Upto(0, f)
    OBVIOUS
  <2> HIDE DEF Upto, f
  <2> QED BY <2>1
<1>2. ASSUME NEW n \in Nat, n \in S
      PROVE  n + 1 \in S
  <2> HIDE DEF Upto
  <2>1. PICK f : Upto(n, f)
    BY <1>2
  <2> DEFINE next == Turn(f[n], n + 1, now)
             g == [k \in 0 .. (n + 1) |-> IF k <= n THEN f[k] ELSE next]
  <2> HIDE DEF next
  <2>2. \A k \in 0 .. n : g[k] = f[k]
    OBVIOUS
  <2>3. g[n + 1] = next
    OBVIOUS
  <2> HIDE DEF g
  <2>4. ASSUME NEW k \in 1 .. (n + 1)
        PROVE  g[k] = Turn(g[k - 1], k, now)
    <3>1. g[k - 1] = f[k - 1]
      BY <2>2
    <3>2. CASE k \in 1 .. n
      BY <2>1, <2>2, <3>1, <3>2 DEF Upto
    <3>3. CASE k = n + 1
      BY <2>3, <3>1, <3>3 DEF next
    <3> QED BY <3>2, <3>3
  <2>5. g[0] = {}
    BY <2>1, <2>2 DEF Upto
  <2>6. Upto(n + 1, g)
    BY <2>4, <2>5 DEF Upto
  <2> QED BY <2>6
<1>3. N \in S
  <2> HIDE DEF S
  <2> QED BY <1>1, <1>2, NatSetInduction
<1>4. PICK f : Upto(N, f)
  BY <1>3
<1> DEFINE h == [k \in 0 .. N |-> f[k]]
<1>5. Rule(h)
  <2>1. h[0] = {} /\ \A k \in 1 .. N : h[k] = Turn(h[k - 1], k, now)
    BY <1>4
  <2>2. h = [k \in 0 .. N |-> h[k]]
    OBVIOUS
  <2> HIDE DEF h, N
  <2>3. ASSUME NEW k \in 0 .. N
        PROVE  h[k] = IF k = 0 THEN {} ELSE Turn(h[k - 1], k, now)
    <3>1. CASE k = 0
      BY <2>1, <3>1
    <3>2. CASE k # 0
      BY <2>1, <3>2
    <3> QED BY <3>1, <3>2
  <2> QED BY <2>2, <2>3
<1> DEFINE done == CHOOSE g : Rule(g)
<1>6. Rule(done)
  <2> HIDE DEF Rule, h
  <2> QED BY <1>5
<1>7. discoverConversationTurnOpportunities(now) = done[N]
  BY DEF discoverConversationTurnOpportunities, Turn
<1> HIDE DEF done
<1>8. done[0] = {} /\ \A k \in 1 .. N : done[k] = Turn(done[k - 1], k, now)
  <2> DEFINE F(d) == [k \in 0 .. N |-> IF k = 0 THEN {} ELSE Turn(d[k - 1], k, now)]
  <2>1. done = F(done)
    BY <1>6
  <2>2. F(done)[0] = {}
        /\ \A k \in 1 .. N : F(done)[k] = Turn(done[k - 1], k, now)
    OBVIOUS
  <2> HIDE DEF F
  <2> QED BY <2>1, <2>2
<1> QED BY <1>7, <1>8

(* A proposal that is overdue or whose talk has ended is settled. *)
ProposalSet(t) == [t EXCEPT !.proposal = proposalAfter(t)]

LEMMA ProposalSetTalk ==
  ASSUME NEW t \in ConversationRows
  PROVE  LET u == ProposalSet(t)
         IN /\ u \in ConversationRows /\ SameParties(t, u) /\ u.status = t.status
            /\ u.turns = t.turns /\ u.reason = t.reason /\ u.outcome = t.outcome
            /\ u.end = t.end /\ u.messages = t.messages /\ u = [t EXCEPT !.proposal = u.proposal]
<1> DEFINE p == proposalAfter(t)
           u == [t EXCEPT !.proposal = p]
           listed == Seq(MessageRows)
<1>1. p \in ProposalStatuses
  BY DEF proposalAfter, ProposalStatuses
<1> HIDE DEF p, listed
<1>2. u \in ConversationRows
  BY <1>1 DEF ConversationRows, listed
<1>3. /\ u.status = t.status /\ u.turns = t.turns /\ u.reason = t.reason /\ u.outcome = t.outcome
      /\ u.end = t.end /\ u.messages = t.messages /\ u.proposal = p
  BY DEF ConversationRows
<1>4. SameParties(t, u)
  BY DEF ConversationRows, SameParties
<1>5. u = [t EXCEPT !.proposal = u.proposal]
  BY <1>3
<1> QED BY <1>2, <1>3, <1>4, <1>5 DEF ProposalSet, p

LEMMA ProposalSetInHand ==
  ASSUME NEW now, NEW i, NEW K, NEW t, InHand(i, t, K, now), t.status # "active",
         talks[i] \in ConversationRows
  PROVE  InHand(i, ProposalSet(t), K, now)
<1> DEFINE u == ProposalSet(t)
           old == talks[i]
<1>1. /\ TalkInv(t, now) /\ Became(old, t, now) /\ t \in ConversationRows
      /\ t.first # t.second /\ t.start <= now /\ (i \in K => HadTurn(old, t))
  BY DEF InHand, TalkInv
<1>2. /\ u \in ConversationRows /\ SameParties(t, u) /\ u.status = t.status
      /\ u.turns = t.turns /\ u.reason = t.reason /\ u.outcome = t.outcome
      /\ u.end = t.end /\ u.messages = t.messages /\ u = [t EXCEPT !.proposal = u.proposal]
  BY <1>1, ProposalSetTalk
<1> HIDE DEF u, old
<1>3. TalkInv(u, now)
  BY <1>1, <1>2 DEF TalkInv, SameParties
<1>4. i \in K => HadTurn(old, u)
  BY <1>1, <1>2 DEF HadTurn
<1>5. Became(old, u, now)
  <2>1. CASE Kept(old, t)
    <3>1. t = [old EXCEPT !.proposal = t.proposal]
      BY <2>1 DEF Kept
    <3>2. u = [old EXCEPT !.proposal = u.proposal]
      BY <1>2, <3>1 DEF old, ConversationRows
    <3> QED BY <3>2 DEF Became, Kept
  <2>2. CASE old.status = "active" /\ SameParties(old, t) /\ Settled(old, t, now)
    <3>1. SameParties(old, u)
      BY <1>2, <2>2 DEF SameParties
    <3>2. Settled(old, u, now)
      BY <1>2, <2>2 DEF Settled
    <3> QED BY <2>2, <3>1, <3>2 DEF Became
  <2>3. ~Spoke(old, t)
    BY DEF Spoke
  <2> QED BY <1>1, <2>1, <2>2, <2>3 DEF Became
<1> QED BY <1>3, <1>4, <1>5 DEF InHand, u, old

(* A talk closed because its proposal is overdue. *)
LEMMA ExpiredInHand ==
  ASSUME NEW now \in 0 .. LastTick, NEW i, NEW K, NEW t, InHand(i, t, K, now),
         t.status = "active", now >= t.start + Lifetime, talks[i] \in ConversationRows,
         NEW outcome \in Outcomes, outcome.kind # "agreement", outcome.terms = NoTerms
  PROVE  LET u == Closed(t, "expired", outcome, 0, now)
         IN InHand(i, u, K, now) /\ u.status # "active"
<1> DEFINE u == Closed(t, "expired", outcome, 0, now)
           old == talks[i]
<1>1. /\ TalkInv(t, now) /\ Became(old, t, now) /\ t \in ConversationRows
      /\ t.first # t.second /\ t.start <= now /\ (i \in K => HadTurn(old, t))
  BY DEF InHand, TalkInv
<1>2. /\ u \in ConversationRows /\ u.status # "active" /\ u.turns = t.turns
      /\ u.reason = "expired" /\ u.outcome = outcome /\ u.end = now /\ SameParties(t, u)
  <2>1. t.tokens + 0 <= TokenBudget
    BY <1>1, TalkTypes
  <2>2. "expired" \in CloseReasons
    BY DEF CloseReasons
  <2> QED BY <1>1, <2>1, <2>2, ClosedTalk
<1> HIDE DEF u, old
<1>3. TalkInv(u, now)
  BY <1>1, <1>2 DEF TalkInv, SameParties
<1>4. old.status = "active" /\ SameParties(old, t) /\ t.turns \in {old.turns, old.turns + 1}
  <2>1. CASE Kept(old, t)
    <3>1. t = [old EXCEPT !.proposal = t.proposal]
      BY <2>1 DEF Kept
    <3>2. old.status = t.status /\ t.turns = old.turns /\ SameParties(old, t)
      BY <3>1 DEF old, ConversationRows, SameParties
    <3> QED BY <3>2
  <2>2. CASE old.status = "active" /\ SameParties(old, t) /\ Spoke(old, t)
    BY <2>2 DEF Spoke
  <2>3. ~Settled(old, t, now)
    BY DEF Settled
  <2> QED BY <1>1, <2>1, <2>2, <2>3 DEF Became
<1>5. SameParties(old, u)
  BY <1>2, <1>4 DEF SameParties
<1>6. Settled(old, u, now)
  <2>1. now >= old.start + Lifetime
    BY <1>4 DEF SameParties
  <2> QED BY <1>2, <1>4, <2>1 DEF Settled
<1>7. i \in K => HadTurn(old, u)
  <2> SUFFICES ASSUME i \in K
               PROVE  u.turns = old.turns + 1
    BY DEF HadTurn
  <2> QED BY <1>1, <1>2 DEF HadTurn
<1>8. Became(old, u, now)
  BY <1>4, <1>5, <1>6 DEF Became
<1> QED BY <1>2, <1>3, <1>7, <1>8 DEF InHand, u, old

(* A table row of an ended talk replaced by one that says the same. *)
LEMMA SettledTables ==
  ASSUME NEW now, Before(now), NEW w, NEW K, Tables(w, K, now), NEW i \in DOMAIN talks,
         w.talks[i].status # "active"
  PROVE  LET v == transitionTerminal(w, i)
         IN /\ Tables(v, K, now) /\ v.talks = [w.talks EXCEPT ![i] = ProposalSet(w.talks[i])]
<1> DEFINE v == transitionTerminal(w, i)
           t == w.talks[i]
           u == ProposalSet(t)
           old == DOMAIN talks \ K
<1>1. /\ w \in World /\ w.failed = FALSE /\ Len(w.talks) = Len(talks)
      /\ InboxInv(w.talks, w.inbox, old, now)
      /\ TiesInv(w.ties, now) /\ TiesFollow(w.talks, w.ties, now)
  BY DEF Tables, World
<1>2. /\ w.talks \in Seq(ConversationRows) /\ w.inbox \in SUBSET InboxRows
      /\ w.ties \in [Pairs -> RelationshipRows] /\ w.memories \in [Agents -> Nat]
      /\ talks \in Seq(ConversationRows)
  BY <1>1, BeforeFacts DEF World
<1>3. i \in DOMAIN w.talks /\ t \in ConversationRows
  BY <1>1, <1>2
<1>4. /\ u \in ConversationRows /\ u.status = t.status /\ u.outcome = t.outcome
  BY <1>3, ProposalSetTalk
<1>5. v = [w EXCEPT !.talks[i] = u]
  BY DEF transitionTerminal, ProposalSet
<1> HIDE DEF u, v
<1>6. /\ Full(v) /\ v.talks = [w.talks EXCEPT ![i] = u] /\ v.inbox = w.inbox
      /\ v.ties = w.ties /\ v.memories = w.memories /\ v.failed = w.failed
  <2>1. Full(w)
    BY <1>1, WorldFull
  <2> QED BY <1>5, <2>1, OnlyOneTalk
<1>7. Len(v.talks) = Len(talks) /\ v.talks \in Seq(ConversationRows)
  BY <1>1, <1>2, <1>3, <1>4, <1>6, ExceptSeq
<1>8. v \in World /\ ~v.failed
  <2>1. v.failed = FALSE
    BY <1>1, <1>6
  <2> QED BY <1>2, <1>6, <1>7, <2>1, FullInWorld
<1>9. InboxInv(v.talks, v.inbox, old, now)
  BY <1>1, <1>2, <1>3, <1>4, <1>6, InboxAfterClosed
<1>10. TiesFollow(v.talks, v.ties, now)
  <2>1. (u.status = "active" <=> w.talks[i].status = "active") /\ u.outcome = w.talks[i].outcome
    BY <1>4
  <2>2. TiesFollow([w.talks EXCEPT ![i] = u], w.ties, now)
    BY <1>1, <1>2, <1>3, <2>1, TiesUnmoved
  <2> QED BY <1>6, <2>2
<1>11. Tables(v, K, now)
  BY <1>1, <1>6, <1>7, <1>8, <1>9, <1>10 DEF Tables
<1> QED BY <1>6, <1>11 DEF v, u

(* One talk of a sound world replaced by one that is sound. *)
LEMMA OneInHand ==
  ASSUME NEW now, Before(now), NEW w, NEW K, Midway(w, K, now), NEW i \in DOMAIN talks,
         NEW v, NEW u, Tables(v, K, now), v.talks = [w.talks EXCEPT ![i] = u], InHand(i, u, K, now)
  PROVE  Midway(v, K, now) /\ v.talks[i] = u
<1>1. /\ w.talks \in Seq(ConversationRows) /\ Len(w.talks) = Len(talks)
      /\ talks \in Seq(ConversationRows)
  BY BeforeFacts DEF Midway, Tables, World
<1>2. v.talks[i] = u /\ \A j \in DOMAIN talks : j # i => v.talks[j] = w.talks[j]
  BY <1>1
<1>3. ASSUME NEW j \in DOMAIN talks
      PROVE  InHand(j, v.talks[j], K, now)
  <2>1. CASE j = i
    BY <1>2, <2>1
  <2>2. CASE j # i
    BY <1>2, <2>2 DEF Midway
  <2> QED BY <2>1, <2>2
<1> QED BY <1>2, <1>3 DEF Midway

LEMMA SettleSound ==
  ASSUME NEW now, Before(now), NEW w, NEW K, Midway(w, K, now), NEW i \in DOMAIN talks
  PROVE  Midway(settleProposal(w, i, now), K, now)
<1> DEFINE t == w.talks[i]
           overdue == t.status = "active" /\ now >= t.start + Lifetime
           outcome == deterministicConversationOutcome("expired", NoTerms)
           expired == close(w, i, "expired", outcome, 0, now)
           ended == IF overdue THEN expired ELSE w
           u == Closed(t, "expired", outcome, 0, now)
<1>1. /\ Tables(w, K, now) /\ InHand(i, t, K, now) /\ TalkInv(t, now)
      /\ \A j \in DOMAIN talks : InHand(j, w.talks[j], K, now)
  BY DEF Midway, InHand
<1>2. talks[i] \in ConversationRows /\ now \in 0 .. LastTick
  BY BeforeFacts
<1>3. Midway(ended, K, now)
  <2>1. CASE overdue
    <3>1. outcome = [kind |-> "no_agreement", terms |-> NoTerms]
      BY DEF deterministicConversationOutcome
    <3>2. /\ outcome \in Outcomes /\ outcome.kind = "no_agreement" /\ outcome.terms = NoTerms
          /\ ~outcomeDisagrees("expired", outcome)
      BY <3>1 DEF Outcomes, outcomeDisagrees
    <3> HIDE DEF outcome
    <3>3. InHand(i, u, K, now) /\ u.status # "active"
      BY <1>1, <1>2, <2>1, <3>2, ExpiredInHand
    <3>4. talks[i].status = "active" /\ SameParties(talks[i], t)
      <4>1. CASE Kept(talks[i], t)
        <5>1. t = [talks[i] EXCEPT !.proposal = t.proposal]
          BY <4>1 DEF Kept
        <5> HIDE DEF t
        <5>2. talks[i].status = t.status /\ SameParties(talks[i], t)
          BY <1>2, <5>1 DEF ConversationRows, SameParties
        <5> QED BY <2>1, <5>2
      <4> QED BY <1>1, <4>1 DEF InHand, Became
    <3>5. t.tokens + 0 <= TokenBudget /\ "expired" \in CloseReasons
      BY <1>1, TalkTypes DEF CloseReasons
    <3>6. Tables(expired, K, now) /\ expired.talks = [w.talks EXCEPT ![i] = u]
      BY <1>1, <2>1, <3>2, <3>4, <3>5, ClosedTables
    <3> HIDE DEF expired, u
    <3> QED BY <2>1, <3>3, <3>6, OneInHand
  <2>2. CASE ~overdue
    BY <2>2
  <2> QED BY <2>1, <2>2
<1>4. settleProposal(w, i, now) =
        IF t.proposal # "negotiating" \/ ended.talks[i].status = "active" THEN w
        ELSE transitionTerminal(ended, i)
  BY DEF settleProposal, expireTalk
<1> HIDE DEF ended
<1>5. CASE t.proposal # "negotiating" \/ ended.talks[i].status = "active"
  BY <1>4, <1>5
<1>6. CASE ~(t.proposal # "negotiating" \/ ended.talks[i].status = "active")
  <2> DEFINE v == transitionTerminal(ended, i)
             s == ended.talks[i]
  <2>1. Tables(v, K, now) /\ v.talks = [ended.talks EXCEPT ![i] = ProposalSet(s)]
    BY <1>3, <1>6, SettledTables DEF Midway
  <2>2. InHand(i, ProposalSet(s), K, now)
    BY <1>2, <1>3, <1>6, ProposalSetInHand DEF Midway
  <2>3. Midway(v, K, now)
    <3> HIDE DEF v, s
    <3> QED BY <1>3, <2>1, <2>2, OneInHand
  <2> QED BY <1>4, <1>6, <2>3
<1> QED BY <1>5, <1>6

Batched == {batch[k].talk : k \in DOMAIN batch}

(* Every prepared response is applied ... *)
LEMMA PhaseSound ==
  ASSUME NEW now, Before(now), BatchInv
  PROVE  Midway(createConversationPhaseHandler(world, now), Batched, now)
<1> DEFINE N == Len(batch)
           Taken(k) == {batch[m].talk : m \in 1 .. k}
<1>1. N \in Nat /\ DOMAIN batch = 1 .. N
  BY DEF BatchInv
<1>2. PICK f : /\ f[0] = deliverDue(world, now)
               /\ \A k \in 1 .. N : f[k] = applyEntry(f[k - 1], batch[k], now)
               /\ createConversationPhaseHandler(world, now) = f[N]
  BY <1>1, PhaseSteps
<1> DEFINE Good(k) == /\ Midway(f[k], Taken(k), now)
                      /\ \A j \in DOMAIN talks \ Taken(k) : f[k].talks[j] = talks[j]
           S == {n \in Nat : n <= N => Good(n)}
<1>3. 0 \in S
  <2>1. Midway(f[0], {}, now) /\ f[0].talks = talks
    BY <1>2, MidwayBegins
  <2>2. Taken(0) = {}
    OBVIOUS
  <2> HIDE DEF Taken
  <2> QED BY <2>1, <2>2
<1>4. ASSUME NEW n \in Nat, n \in S
      PROVE  n + 1 \in S
  <2> SUFFICES ASSUME n + 1 <= N
               PROVE  Good(n + 1)
    OBVIOUS
  <2>1. Good(n)
    BY <1>1, <1>4
  <2> DEFINE e == batch[n + 1]
             i == e.talk
  <2>2. n + 1 \in DOMAIN batch
    BY <1>1
  <2>3. i \in DOMAIN talks /\ talks[i].status = "active" /\ e \in entriesFor(i)
    BY <2>2 DEF BatchInv
  <2>4. i \notin Taken(n)
    <3> SUFFICES ASSUME NEW m \in 1 .. n, batch[m].talk = i
                 PROVE  FALSE
      OBVIOUS
    <3>1. m \in DOMAIN batch /\ m # n + 1
      BY <1>1
    <3> QED BY <2>2, <3>1 DEF BatchInv
  <2>5. TalkInv(talks[i], tick)
    BY <2>3, BeforeFacts
  <2>6. Response(e, i, talks[i])
    BY <2>3, <2>5, EntrySound
  <2>7. Taken(n + 1) = Taken(n) \cup {i}
    <3>1. 1 .. (n + 1) = (1 .. n) \cup {n + 1}
      OBVIOUS
    <3> QED BY <3>1
  <2>8. f[n + 1] = applyEntry(f[n], e, now)
    BY <1>1, <1>2
  <2> DEFINE w == f[n]
             K == Taken(n)
             v == applyEntry(w, e, now)
  <2>9. Untouched(w, i) /\ i \in DOMAIN talks \ K
    BY <2>1, <2>3, <2>4 DEF Untouched
  <2>10. Midway(w, K, now)
    BY <2>1
  <2> HIDE DEF Taken, e, i, w, K
  <2>11. Midway(v, K \cup {i}, now) /\ \A j \in DOMAIN talks \ {i} : v.talks[j] = w.talks[j]
    <3>1. talks[i].status = "active"
      BY <2>3
    <3>2. TurnTaken(v, w, K, i, now)
      BY <2>6, <2>9, <2>10, <3>1, ApplySound
    <3> QED BY <3>2 DEF TurnTaken
  <2> HIDE DEF v
  <2> QED BY <2>1, <2>7, <2>8, <2>11 DEF v, w, K
<1>5. N \in S
  <2> HIDE DEF S
  <2> QED BY <1>1, <1>3, <1>4, NatSetInduction
<1>6. Taken(N) = Batched
  BY <1>1 DEF Batched
<1> HIDE DEF Taken
<1> QED BY <1>1, <1>2, <1>5, <1>6

(* ... and every proposal is looked at. *)
LEMMA TickSound ==
  ASSUME NEW now, Before(now), NEW w, NEW K, Midway(w, K, now)
  PROVE  Midway(processTick(w, now), K, now)
<1> DEFINE N == Len(w.talks)
<1>1. N = Len(talks) /\ N \in Nat /\ DOMAIN talks = 1 .. N
  BY BeforeFacts DEF Midway, Tables
<1>2. PICK f : /\ f[0] = w /\ \A k \in 1 .. N : f[k] = settleProposal(f[k - 1], k, now)
               /\ processTick(w, now) = f[N]
  BY <1>1, SettleSteps
<1> DEFINE S == {n \in Nat : n <= N => Midway(f[n], K, now)}
<1>3. 0 \in S
  BY <1>2
<1>4. ASSUME NEW n \in Nat, n \in S
      PROVE  n + 1 \in S
  <2> HIDE DEF N
  <2> SUFFICES ASSUME n + 1 <= N
               PROVE  Midway(f[n + 1], K, now)
    OBVIOUS
  <2>1. Midway(f[n], K, now) /\ n + 1 \in DOMAIN talks /\ f[n + 1] = settleProposal(f[n], n + 1, now)
    BY <1>1, <1>2, <1>4
  <2> QED BY <2>1, SettleSound
<1>5. N \in S
  <2> HIDE DEF S
  <2> QED BY <1>1, <1>3, <1>4, NatSetInduction
<1> QED BY <1>1, <1>2, <1>5

-----------------------------------------------------------------------------
(* Whose turn it is, and what a tick leaves behind *)

(* Every open talk is due in every tick: its last message is handed over before. *)
LEMMA OpenTalkIsDue ==
  ASSUME NEW now, Before(now), NEW i \in DOMAIN talks, talks[i].status = "active"
  PROVE  isDue(i, now)
<1>1. /\ TalkInv(talks[i], now) /\ InboxInv(talks, inbox, {}, tick) /\ now = tick + 1
      /\ talks[i].turns \in Nat
  BY LaterTalk, BeforeFacts, TalkTypes
<1>2. talks[i].start <= now
  BY <1>1 DEF TalkInv
<1>3. CASE talks[i].turns = 0
  BY <1>2, <1>3 DEF isDue
<1>4. CASE talks[i].turns > 0
  <2>1. PICK row \in inbox : row.talk = i
    BY <1>1, <1>4 DEF InboxInv
  <2>2. row.turn = talks[i].turns /\ row.due <= now
    BY <1>1, <2>1 DEF InboxInv
  <2> QED BY <1>2, <2>1, <2>2 DEF isDue
<1> QED BY <1>1, <1>3, <1>4

(* A due talk has its turn unless an older talk of one of its participants has one. *)
LEMMA TurnsFair ==
  ASSUME NEW now, Len(talks) \in Nat, DOMAIN talks = 1 .. Len(talks)
  PROVE  LET O == discoverConversationTurnOpportunities(now)
         IN /\ \A i \in O : i \in DOMAIN talks /\ isDue(i, now)
            /\ \A i \in DOMAIN talks : isDue(i, now) /\ i \notin O =>
                 \E j \in O : j < i /\ shares(talks[i], talks[j])
<1> DEFINE N == Len(talks)
<1>1. PICK f : /\ f[0] = {} /\ \A k \in 1 .. N : f[k] = Turn(f[k - 1], k, now)
               /\ discoverConversationTurnOpportunities(now) = f[N]
  BY TurnSteps
<1> DEFINE Good(k) == /\ \A i \in f[k] : i \in 1 .. k /\ isDue(i, now)
                      /\ \A i \in 1 .. k : isDue(i, now) /\ i \notin f[k] =>
                           \E j \in f[k] : j < i /\ shares(talks[i], talks[j])
           S == {n \in Nat : n <= N => Good(n)}
<1>2. 0 \in S
  BY <1>1
<1>3. ASSUME NEW n \in Nat, n \in S
      PROVE  n + 1 \in S
  <2> HIDE DEF N
  <2> SUFFICES ASSUME n + 1 <= N
               PROVE  Good(n + 1)
    OBVIOUS
  <2> DEFINE k == n + 1
             T == f[n]
             blocked == \E j \in T : shares(talks[k], talks[j])
  <2>1. Good(n) /\ f[k] = Turn(T, k, now)
    <3>1. N \in Nat /\ n <= N /\ k \in 1 .. N /\ k - 1 = n
      BY DEF N
    <3>2. Good(n)
      BY <1>3, <3>1
    <3>3. f[k] = Turn(f[k - 1], k, now)
      BY <1>1, <3>1
    <3> HIDE DEF Good
    <3> QED BY <3>1, <3>2, <3>3
  <2>2. \A i \in f[k] : i \in T \/ (i = k /\ isDue(k, now))
    BY <2>1 DEF Turn
  <2>3. \A i \in T : i \in f[k]
    BY <2>1 DEF Turn
  <2>4. isDue(k, now) /\ k \notin f[k] => blocked
    BY <2>1 DEF Turn
  <2> HIDE DEF T
  <2>5. \A i \in T : i \in 1 .. n /\ isDue(i, now)
    BY <2>1 DEF T
  <2>6. \A i \in 1 .. n : isDue(i, now) /\ i \notin T =>
          \E j \in T : j < i /\ shares(talks[i], talks[j])
    BY <2>1 DEF T
  <2>7. \A i \in f[k] : i \in 1 .. k /\ isDue(i, now)
    BY <2>2, <2>5
  <2>8. ASSUME NEW i \in 1 .. k, isDue(i, now), i \notin f[k]
        PROVE  \E j \in f[k] : j < i /\ shares(talks[i], talks[j])
    <3>1. CASE i = k
      <4>1. PICK j \in T : shares(talks[k], talks[j])
        BY <2>4, <2>8, <3>1
      <4>2. j < k
        BY <2>5
      <4> QED BY <2>3, <3>1, <4>1, <4>2
    <3>2. CASE i \in 1 .. n
      BY <2>3, <2>6, <2>8, <3>2
    <3> QED BY <3>1, <3>2
  <2> QED BY <2>7, <2>8
<1>4. N \in S
  <2> HIDE DEF S
  <2> QED BY <1>2, <1>3, NatSetInduction
<1> QED BY <1>1, <1>4

Fresh(t, now) ==
  /\ TalkInv(t, now) /\ t.status = "active" /\ t.reason = "none" /\ t.outcome = OngoingOutcome
  /\ t.turns = 0 /\ t.messages = <<>> /\ t.start = now

(* What the tick commits: the rows are sound, and every talk but a new one has become what
   its turn, or the expiry of its proposal, made of it. *)
Done(v, K, now) ==
  /\ Rows(v, now) /\ TiesFollow(v.talks, v.ties, now)
  /\ Len(v.talks) \in {Len(talks), Len(talks) + 1}
  /\ \A i \in DOMAIN talks : InHand(i, v.talks[i], K, now)
  /\ \A i \in DOMAIN v.talks \ DOMAIN talks : Fresh(v.talks[i], now)

LEMMA SamePartiesInHand ==
  ASSUME NEW now, NEW i, NEW u, NEW K, InHand(i, u, K, now), talks[i] \in ConversationRows
  PROVE  SameParties(talks[i], u) /\ (u.status = "active" => talks[i].status = "active")
<1>1. CASE Kept(talks[i], u)
  <2>1. u = [talks[i] EXCEPT !.proposal = u.proposal]
    BY <1>1 DEF Kept
  <2>2. SameParties(talks[i], u) /\ u.status = talks[i].status
    BY <2>1 DEF ConversationRows, SameParties
  <2> QED BY <2>2
<1> QED BY <1>1 DEF InHand, Became

LEMMA PairsKept ==
  ASSUME NEW now, Before(now), NEW w, NEW K, Midway(w, K, now)
  PROVE  PairsInv(w.talks)
<1>1. /\ talks \in Seq(ConversationRows) /\ PairsInv(talks) /\ w.talks \in Seq(ConversationRows)
      /\ Len(w.talks) = Len(talks)
  BY BeforeFacts DEF Midway, Tables, World
<1>2. DOMAIN w.talks = DOMAIN talks
  BY <1>1
<1>3. ASSUME NEW i \in DOMAIN talks
      PROVE  /\ participants(w.talks[i]) = participants(talks[i])
             /\ w.talks[i].status = "active" => talks[i].status = "active"
  BY <1>1, SamePartiesInHand DEF Midway, participants, SameParties
<1> QED BY <1>1, <1>2, <1>3 DEF PairsInv

LEMMA MidwayDone ==
  ASSUME NEW now, Before(now), NEW w, NEW K, Midway(w, K, now)
  PROVE  Done(w, K, now)
<1>1. /\ talks \in Seq(ConversationRows) /\ w \in World /\ w.talks \in Seq(ConversationRows)
      /\ Len(w.talks) = Len(talks) /\ ~w.failed
      /\ InboxInv(w.talks, w.inbox, DOMAIN talks \ K, now)
      /\ TiesInv(w.ties, now) /\ TiesFollow(w.talks, w.ties, now)
  BY BeforeFacts DEF Midway, Tables, World
<1>2. DOMAIN w.talks = DOMAIN talks
  BY <1>1
<1>3. InboxInv(w.talks, w.inbox, {}, now)
  BY <1>1, InboxFewer
<1>4. \A i \in DOMAIN w.talks : TalkInv(w.talks[i], now)
  BY <1>2 DEF Midway, InHand
<1>5. Rows(w, now)
  BY <1>1, <1>3, <1>4, PairsKept DEF Rows
<1>6. \A i \in DOMAIN talks : InHand(i, w.talks[i], K, now)
  BY DEF Midway
<1>7. Len(w.talks) \in {Len(talks), Len(talks) + 1}
  BY <1>1
<1> QED BY <1>1, <1>2, <1>5, <1>6, <1>7 DEF Done

(* A new talk between a founder and a partner who are both free. *)
LEMMA OpenDone ==
  ASSUME NEW now, Before(now), NEW w, NEW K, Midway(w, K, now), NEW company \in Companies
  PROVE  Done(proposeEligible(w, company, now), K, now)
<1> DEFINE founder == FounderOf[company]
           free == {k \in DOMAIN Partners : partnerAvailable(w, founder, Partners[k], now)}
           partner == Partners[Min(free)]
           pair == {founder, partner}
           talk == [company |-> company, first |-> founder, second |-> partner, start |-> now,
                    status |-> "active", reason |-> "none", outcome |-> OngoingOutcome,
                    tokens |-> 0, turns |-> 0, end |-> 0, messages |-> <<>>,
                    proposal |-> "negotiating"]
           n == Len(talks)
           rows == Append(w.talks, talk)
<1>1. /\ talks \in Seq(ConversationRows) /\ w \in World /\ w.talks \in Seq(ConversationRows)
      /\ Len(w.talks) = n /\ w.failed = FALSE /\ now \in 0 .. LastTick /\ n \in Nat
      /\ DOMAIN talks = 1 .. n /\ w.inbox \in SUBSET InboxRows
      /\ w.ties \in [Pairs -> RelationshipRows] /\ w.memories \in [Agents -> Nat]
  BY BeforeFacts DEF Midway, Tables, World
<1>2. Done(w, K, now)
  BY MidwayDone
<1>3. CASE free = {}
  <2>1. proposeEligible(w, company, now) = w
    BY <1>3 DEF proposeEligible
  <2> QED BY <1>2, <2>1
<1>4. CASE free # {}
  <2>1. /\ founder \in Agents /\ partner \in Agents /\ founder # partner
        /\ partnerAvailable(w, founder, partner, now)
    <3> DEFINE k == Min(free)
    <3>1. Partners \in Seq(Agents) /\ founder \in Agents /\ founder \notin Range(Partners)
      BY PartiesAssumption
    <3>2. free \in SUBSET Nat
      BY <3>1
    <3>3. k \in free
      BY <1>4, <3>2, LeastExists
    <3>4. k \in DOMAIN Partners /\ partnerAvailable(w, founder, Partners[k], now)
      BY <3>3
    <3> HIDE DEF k
    <3>5. Partners[k] \in Agents /\ Partners[k] \in Range(Partners)
      BY <3>1, <3>4 DEF Range
    <3>6. founder # Partners[k]
      BY <3>1, <3>5
    <3> QED BY <3>1, <3>4, <3>5, <3>6 DEF k
  <2> DEFINE v == open(w, company, partner, now)
  <2>2. proposeEligible(w, company, now) = v
    BY <1>4 DEF proposeEligible
  <2> HIDE DEF partner, free
  <2>3. ~openedToday(w, pair, now) /\ ~repeatsTopic(w, pair, now)
    BY <2>1 DEF partnerAvailable
  <2>4. v = [w EXCEPT !.talks = rows]
    <3> DEFINE busy == openedToday(w, pair, now) \/ repeatsTopic(w, pair, now)
    <3>1. busy \in BOOLEAN /\ ~busy
      BY <2>3 DEF openedToday, repeatsTopic
    <3>2. v = [throwIf(w, busy) EXCEPT !.talks = rows]
      <4>1. v = [throwIf(w, busy) EXCEPT !.talks = Append(@, talk)]
        BY DEF open
      <4>2. throwIf(w, busy).talks = w.talks
        BY <1>1, <3>1, WorldFull, NoThrow
      <4> HIDE DEF busy, talk, v
      <4> QED BY <4>1, <4>2
    <3> HIDE DEF busy, rows
    <3>3. throwIf(w, busy) = w
      BY <1>1, <3>1, WorldFull, NoThrow
    <3> QED BY <3>2, <3>3
  <2> DEFINE u == talk
  <2>5. /\ u.status = "active" /\ u.reason = "none" /\ u.outcome = OngoingOutcome /\ u.turns = 0
        /\ u.messages = <<>> /\ u.start = now /\ u.first = founder /\ u.second = partner
        /\ u.tokens = 0
    OBVIOUS
  <2>6. u \in ConversationRows
    <3>1. /\ 0 \in 0 .. LastTick /\ 0 \in 0 .. TokenBudget /\ 0 \in 0 .. MaxTurns
      BY Limits
    <3>2. OngoingOutcome \in Outcomes /\ "negotiating" \in ProposalStatuses
      BY DEF OngoingOutcome, Outcomes, ProposalStatuses
    <3> DEFINE listed == Seq(MessageRows)
               said == <<>>
               outcome == OngoingOutcome
    <3>3. said \in listed /\ outcome \in Outcomes
      BY <3>2
    <3>4. u = [company |-> company, first |-> founder, second |-> partner, start |-> now,
               status |-> "active", reason |-> "none", outcome |-> outcome,
               tokens |-> 0, turns |-> 0, end |-> 0, messages |-> said,
               proposal |-> "negotiating"]
      OBVIOUS
    <3> HIDE DEF listed, said, outcome, u, founder
    <3> QED BY <1>1, <2>1, <3>1, <3>2, <3>3, <3>4 DEF ConversationRows, listed
  <2> HIDE DEF u, v
  <2>7. Fresh(u, now)
    <3>1. Speaking(u)
      <4>1. Len(u.messages) = 0 /\ u.turns = 0 /\ u.tokens = 0
        BY <2>5
      <4>2. \A k \in 1 .. u.turns : u.messages[k].sender \in participants(u)
        BY <4>1
      <4> QED BY <2>5, <4>1, <4>2, Limits DEF Speaking
    <3>2. u.start <= now /\ u.first # u.second
      BY <1>1, <2>1, <2>5
    <3>3. TalkInv(u, now)
      BY <2>6, <3>1, <3>2 DEF TalkInv
    <3> QED BY <2>5, <3>3 DEF Fresh
  <2>8. rows = Append(w.talks, u)
    BY DEF u
  <2> HIDE DEF rows
  <2>9. /\ rows \in Seq(ConversationRows) /\ Len(rows) = n + 1 /\ rows[n + 1] = u
        /\ \A i \in 1 .. n : rows[i] = w.talks[i]
    BY <1>1, <2>6, <2>8
  <2>10. DOMAIN rows = 1 .. (n + 1) /\ DOMAIN w.talks = 1 .. n
    BY <1>1, <2>9
  <2>11. /\ Full(v) /\ v.talks = rows /\ v.inbox = w.inbox /\ v.ties = w.ties
         /\ v.memories = w.memories /\ v.failed = w.failed
    <3>1. Full(w)
      BY <1>1, WorldFull
    <3>2. v = [talks |-> rows, inbox |-> w.inbox, ties |-> w.ties, memories |-> w.memories,
               failed |-> w.failed]
      BY <2>4, <3>1, OnlyTalks
    <3> QED BY <3>2 DEF Full
  <2>12. v \in World /\ ~v.failed
    <3>1. v.failed = FALSE
      BY <1>1, <2>11
    <3> QED BY <1>1, <2>9, <2>11, <3>1, FullInWorld
  <2>13. \A i \in 1 .. n : TalkInv(rows[i], now)
    BY <1>2, <2>9, <2>10 DEF Done, Rows
  <2>14. \A i \in DOMAIN rows : TalkInv(rows[i], now)
    BY <2>7, <2>9, <2>10, <2>13 DEF Fresh
  <2>15. PairsInv(rows)
    <3>1. \A i \in 1 .. n : w.talks[i].status = "active" => participants(w.talks[i]) # pair
      BY <2>3, <2>10 DEF repeatsTopic
    <3>2. participants(u) = pair
      BY <2>5 DEF participants
    <3>3. PairsInv(w.talks)
      BY PairsKept
    <3> HIDE DEF pair
    <3> SUFFICES ASSUME NEW i \in DOMAIN rows, NEW j \in DOMAIN rows, rows[i].status = "active",
                        rows[j].status = "active", participants(rows[i]) = participants(rows[j])
                 PROVE  i = j
      BY DEF PairsInv
    <3>4. CASE i \in 1 .. n /\ j \in 1 .. n
      BY <2>9, <2>10, <3>3, <3>4 DEF PairsInv
    <3>5. CASE i = n + 1 /\ j \in 1 .. n
      BY <2>9, <3>1, <3>2, <3>5
    <3>6. CASE j = n + 1 /\ i \in 1 .. n
      BY <2>9, <3>1, <3>2, <3>6
    <3> QED BY <1>1, <2>10, <3>4, <3>5, <3>6
  <2>16. InboxInv(rows, w.inbox, {}, now)
    <3>1. InboxInv(w.talks, w.inbox, {}, now)
      BY <1>2 DEF Done, Rows
    <3>2. ASSUME NEW row \in w.inbox
          PROVE  row.talk \in 1 .. n /\ rows[row.talk] = w.talks[row.talk]
                 /\ row.talk \in DOMAIN rows
      BY <1>1, <2>9, <2>10, <3>1 DEF InboxInv
    <3>3. ASSUME NEW i \in DOMAIN rows, rows[i].status = "active", rows[i].turns > 0
          PROVE  \E row \in w.inbox : row.talk = i
      <4>1. i \in 1 .. n
        BY <1>1, <2>5, <2>9, <2>10, <3>3
      <4> QED BY <2>9, <2>10, <3>1, <3>3, <4>1 DEF InboxInv
    <3> QED BY <2>10, <3>1, <3>2, <3>3 DEF InboxInv
  <2>17. TiesInv(w.ties, now)
    BY <1>2 DEF Done, Rows
  <2>18. Rows(v, now)
    BY <2>11, <2>12, <2>14, <2>15, <2>16, <2>17 DEF Rows
  <2>19. TiesFollow(rows, w.ties, now)
    <3>1. TiesFollow(w.talks, w.ties, now)
      BY <1>2 DEF Done
    <3>2. \A i \in DOMAIN talks : rows[i] = w.talks[i]
      BY <1>1, <2>9
    <3>3. \A i \in DOMAIN talks, d \in Pairs : EndsBetween(rows, i, d) <=> EndsBetween(w.talks, i, d)
      BY <3>2 DEF EndsBetween
    <3> QED BY <3>1, <3>2, <3>3 DEF TiesFollow
  <2>20. \A i \in DOMAIN talks : InHand(i, rows[i], K, now)
    BY <1>1, <1>2, <2>9 DEF Done
  <2>21. \A i \in DOMAIN rows \ DOMAIN talks : Fresh(rows[i], now)
    BY <1>1, <2>7, <2>9, <2>10
  <2>22. Done(v, K, now)
    BY <2>9, <2>11, <2>18, <2>19, <2>20, <2>21 DEF Done
  <2> QED BY <2>2, <2>22
<1> QED BY <1>3, <1>4

-----------------------------------------------------------------------------
(* The invariant is inductive *)

(* What the tick action leaves behind, and who was asked for a response before it. *)
TickDone(now) ==
  /\ Before(now) /\ tick' = now
  /\ Done([talks |-> talks', inbox |-> inbox', ties |-> ties', memories |-> memories',
           failed |-> FALSE], Batched, now)
  /\ halted' = halted /\ offline' = offline /\ batch' = <<>> /\ pass' \in ticksThisPass
  /\ pass > 0 \/ discoverConversationTurnOpportunities(now) \subseteq Batched

LEMMA DoneFields ==
  ASSUME NEW v, NEW K, NEW now, Done(v, K, now), NEW u, Full(u), u.talks = v.talks,
         u.inbox = v.inbox, u.ties = v.ties, u.memories = v.memories, u.failed = FALSE
  PROVE  Done(u, K, now)
<1>1. v \in World /\ Rows(v, now)
  BY DEF Done, Rows
<1>2. /\ v.talks \in Seq(ConversationRows) /\ v.inbox \in SUBSET InboxRows
      /\ v.ties \in [Pairs -> RelationshipRows] /\ v.memories \in [Agents -> Nat]
  BY <1>1 DEF World
<1>3. u \in World
  BY <1>2, FullInWorld
<1>4. ~u.failed
  OBVIOUS
<1>5. Rows(u, now)
  BY <1>1, <1>3, <1>4 DEF Rows
<1> QED BY <1>5 DEF Done

LEMMA TickEffect ==
  ASSUME IInv, tickWithoutPitch \/ tickWithPitch
  PROVE  TickDone(tick + 1)
<1> DEFINE now == tick + 1
           w == worldAfterTalks
           u == [talks |-> talks', inbox |-> inbox', ties |-> ties', memories |-> memories',
                 failed |-> FALSE]
<1>0. readyToTick
  BY DEF tickWithoutPitch, tickWithPitch
<1>1. /\ tick < LastTick /\ (pass > 0 \/ opportunitiesLeft = {})
      /\ pass' \in ticksThisPass /\ batch' = <<>> /\ offline' = offline
  BY <1>0 DEF readyToTick
<1>2. Before(now)
  <2>1. tick \in 0 .. LastTick /\ Rows(world, tick)
    BY DEF IInv
  <2>2. now \in 1 .. LastTick /\ tick = now - 1
    BY <1>1, <2>1, Limits
  <2> QED BY <2>1, <2>2 DEF Before
<1>3. Midway(w, Batched, now)
  <2>1. BatchInv
    BY DEF IInv
  <2>2. w = processTick(createConversationPhaseHandler(world, now), now)
    BY DEF worldAfterTalks
  <2> HIDE DEF now, w
  <2> QED BY <1>2, <2>1, <2>2, PhaseSound, TickSound
<1>4. PICK v : Done(v, Batched, now) /\ commitOrHalt(v)
  <2>1. CASE tickWithoutPitch
    <3>1. commitOrHalt(w)
      BY <2>1 DEF tickWithoutPitch
    <3>2. Done(w, Batched, now)
      BY <1>2, <1>3, MidwayDone
    <3> QED BY <3>1, <3>2
  <2>2. CASE tickWithPitch
    <3>1. PICK company \in mayPitch(w) : commitOrHalt(proposeEligible(w, company, now))
      BY <2>2 DEF tickWithPitch
    <3>2. company \in Companies
      BY DEF mayPitch
    <3> DEFINE x == proposeEligible(w, company, now)
    <3>3. Done(x, Batched, now)
      <4> HIDE DEF w, now
      <4> QED BY <1>2, <1>3, <3>2, OpenDone
    <3> HIDE DEF x, w
    <3>4. commitOrHalt(x)
      BY <3>1 DEF x
    <3> QED BY <3>3, <3>4
  <2> QED BY <2>1, <2>2
<1>5. ~v.failed
  BY <1>4 DEF Done, Rows
<1>6. /\ tick' = now /\ talks' = v.talks /\ inbox' = v.inbox /\ ties' = v.ties
      /\ memories' = v.memories /\ halted' = halted
  BY <1>4, <1>5 DEF commitOrHalt
<1>7. Full(u) /\ u.talks = v.talks /\ u.inbox = v.inbox /\ u.ties = v.ties
      /\ u.memories = v.memories /\ u.failed = FALSE
  <2> DEFINE ok == FALSE
             r == [talks |-> talks', inbox |-> inbox', ties |-> ties', memories |-> memories',
                   failed |-> ok]
  <2> HIDE DEF ok
  <2>1. Full(r) /\ r.talks = v.talks /\ r.inbox = v.inbox /\ r.ties = v.ties
        /\ r.memories = v.memories /\ r.failed = ok
    BY <1>6 DEF Full
  <2> QED BY <2>1 DEF ok
<1> HIDE DEF u
<1>8. Done(u, Batched, now)
  BY <1>4, <1>7, DoneFields
<1>9. pass > 0 \/ discoverConversationTurnOpportunities(now) \subseteq Batched
  BY <1>1 DEF opportunitiesLeft, Batched
<1> QED BY <1>1, <1>2, <1>6, <1>8, <1>9 DEF TickDone, u

(* A talk that nobody crowds keeps having its turn. *)
LEMMA CrowdStep ==
  ASSUME NEW now, Before(now), NEW v, NEW K, Done(v, K, now), CrowdInv(talks, tick),
         discoverConversationTurnOpportunities(now) \subseteq K
  PROVE  CrowdInv(v.talks, now)
<1> DEFINE rows == v.talks
           O == discoverConversationTurnOpportunities(now)
<1>1. /\ talks \in Seq(ConversationRows) /\ Len(talks) \in Nat /\ DOMAIN talks = 1 .. Len(talks)
      /\ now = tick + 1 /\ tick \in Nat /\ now \in Nat
      /\ \A i \in DOMAIN talks : TalkInv(talks[i], tick)
  BY BeforeFacts
<1>2. /\ rows \in Seq(ConversationRows) /\ Len(rows) \in Nat /\ DOMAIN rows = 1 .. Len(rows)
      /\ Len(rows) \in {Len(talks), Len(talks) + 1}
  BY DEF Done, Rows, World
<1>2a. \A i \in DOMAIN rows : TalkInv(rows[i], now)
  BY DEF Done, Rows
<1>2b. \A i \in DOMAIN talks : InHand(i, rows[i], K, now)
  BY DEF Done
<1>2c. \A i \in DOMAIN rows \ DOMAIN talks : Fresh(rows[i], now)
  BY DEF Done
<1> HIDE DEF rows
<1>2d. \A i \in DOMAIN talks : TalkInv(rows[i], now) /\ TalkInv(talks[i], tick)
  BY <1>1, <1>2b DEF InHand
<1>3. ASSUME NEW i \in DOMAIN talks
      PROVE  /\ talks[i].start \in Nat /\ talks[i].turns \in Nat /\ rows[i].turns \in Nat
             /\ talks[i].start <= tick /\ SameParties(talks[i], rows[i])
             /\ rows[i].status = "active" => talks[i].status = "active"
             /\ talks[i].status # "active" => /\ rows[i].end = talks[i].end
                                             /\ rows[i].reason = talks[i].reason
             /\ talks[i].status = "active" => rows[i].status = "active" \/ rows[i].end = now
  <2>1. /\ TalkInv(talks[i], tick) /\ TalkInv(rows[i], now) /\ InHand(i, rows[i], K, now)
        /\ talks[i] \in ConversationRows /\ Became(talks[i], rows[i], now)
    BY <1>2b, <1>2d DEF InHand, TalkInv
  <2>2. /\ talks[i].start \in Nat /\ talks[i].turns \in Nat /\ rows[i].turns \in Nat
        /\ talks[i].start <= tick
    BY <2>1, TalkTypes DEF TalkInv
  <2>3. SameParties(talks[i], rows[i]) /\ (rows[i].status = "active" => talks[i].status = "active")
    BY <2>1, SamePartiesInHand
  <2>4. CASE Kept(talks[i], rows[i])
    <3> DEFINE t == talks[i]
               s == rows[i]
    <3> HIDE DEF t, s
    <3>1. s = [t EXCEPT !.proposal = s.proposal] /\ t \in ConversationRows
      BY <2>1, <2>4 DEF Kept, t, s
    <3>2. s.end = t.end /\ s.reason = t.reason /\ s.status = t.status
      BY <3>1 DEF ConversationRows
    <3> QED BY <2>2, <2>3, <3>2 DEF t, s
  <2>5. CASE talks[i].status = "active" /\ (Spoke(talks[i], rows[i]) \/ Settled(talks[i], rows[i], now))
    BY <2>2, <2>3, <2>5 DEF Spoke, Settled
  <2> QED BY <2>1, <2>4, <2>5 DEF Became
<1>4. ASSUME NEW i \in DOMAIN talks, Crowded(talks, i)
      PROVE  Crowded(rows, i)
  <2>1. PICK j \in 1 .. i - 1 : /\ shares(talks[i], talks[j])
                                /\ talks[j].status = "active" \/ talks[j].end > talks[i].start
    BY <1>4 DEF Crowded
  <2>2. j \in DOMAIN talks
    BY <1>1
  <2>3. shares(rows[i], rows[j]) /\ rows[i].start = talks[i].start
    BY <1>3, <2>1, <2>2 DEF shares, participants, SameParties
  <2>4. rows[j].status = "active" \/ rows[j].end > rows[i].start
    <3>1. now > talks[i].start
      BY <1>1, <1>3
    <3> QED BY <1>3, <2>1, <2>2, <2>3, <3>1
  <2> QED BY <2>3, <2>4 DEF Crowded
<1>5. ASSUME NEW i \in DOMAIN talks, ~Crowded(rows, i), talks[i].status = "active"
      PROVE  i \in O
  <2> SUFFICES ASSUME i \notin O
               PROVE  FALSE
    OBVIOUS
  <2>1. isDue(i, now)
    BY <1>5, OpenTalkIsDue
  <2>2. PICK j \in O : j < i /\ shares(talks[i], talks[j])
    BY <1>1, <2>1, TurnsFair
  <2>3. j \in DOMAIN talks /\ talks[j].status = "active"
    BY <1>1, <2>2, TurnsFair DEF isDue
  <2>4. j \in 1 .. i - 1
    BY <1>1, <2>2, <2>3
  <2>5. Crowded(talks, i)
    BY <2>2, <2>3, <2>4 DEF Crowded
  <2> QED BY <1>4, <1>5, <2>5
<1> SUFFICES ASSUME NEW i \in DOMAIN rows, ~Crowded(rows, i)
             PROVE  /\ rows[i].status = "active" => rows[i].turns >= now - rows[i].start
                    /\ rows[i].reason # "expired"
  BY DEF CrowdInv, rows
<1>6. CASE i \notin DOMAIN talks
  <2>1. Fresh(rows[i], now)
    BY <1>2c, <1>6
  <2>2. rows[i].turns = 0 /\ rows[i].start = now /\ rows[i].reason = "none"
    BY <2>1 DEF Fresh
  <2> QED BY <1>1, <2>2
<1>7. CASE i \in DOMAIN talks
  <2> DEFINE t == talks[i]
             u == rows[i]
  <2>1. /\ ~Crowded(talks, i) /\ TalkInv(t, tick) /\ Became(t, u, now)
        /\ i \in K => HadTurn(t, u)
    BY <1>2b, <1>2d, <1>4, <1>7 DEF InHand
  <2>2. (t.status = "active" => t.turns >= tick - t.start) /\ t.reason # "expired"
    BY <1>7, <2>1 DEF CrowdInv
  <2>3. /\ t.start \in Nat /\ t.turns \in Nat /\ u.turns \in Nat /\ u.start = t.start
        /\ u.status = "active" => t.status = "active"
        /\ t.status # "active" => u.reason = t.reason
    BY <1>3, <1>7 DEF SameParties
  <2>4. u.status = "active" => u.turns >= now - u.start
    <3> SUFFICES ASSUME u.status = "active"
                 PROVE  u.turns >= now - u.start
      OBVIOUS
    <3>1. i \in K
      BY <1>5, <1>7, <2>3
    <3>2. u.turns = t.turns + 1
      BY <2>1, <3>1 DEF HadTurn
    <3> HIDE DEF t, u
    <3> QED BY <1>1, <2>2, <2>3, <3>2
  <2>5. u.reason # "expired"
    <3> SUFFICES ASSUME u.reason = "expired"
                 PROVE  FALSE
      OBVIOUS
    <3>1. t.status = "active"
      BY <2>2, <2>3
    <3>2. Speaking(t)
      BY <2>1, <3>1 DEF TalkInv
    <3>3. ~Spoke(t, u)
      <4> SUFFICES ASSUME Spoke(t, u)
                   PROVE  FALSE
        OBVIOUS
      <4>1. u.status = "active"
        BY DEF Spoke
      <4>2. TalkInv(u, now)
        BY <1>2a
      <4> QED BY <4>1, <4>2 DEF TalkInv, Speaking
    <3>4. ~Kept(t, u)
      <4> SUFFICES ASSUME Kept(t, u)
                   PROVE  FALSE
        OBVIOUS
      <4> HIDE DEF t, u
      <4>1. u = [t EXCEPT !.proposal = u.proposal] /\ t \in ConversationRows
        BY <2>1 DEF Kept, TalkInv
      <4>2. u.reason = t.reason
        BY <4>1 DEF ConversationRows
      <4> QED BY <2>2, <4>2
    <3>5. now >= t.start + Lifetime
      BY <2>1, <3>3, <3>4 DEF Became, Settled
    <3>6. t.turns < MaxTurns
      BY <3>2 DEF Speaking
    <3> DEFINE turns == t.turns
               start == t.start
    <3>7. /\ turns \in Nat /\ start \in Nat /\ turns >= tick - start /\ now >= start + Lifetime
          /\ turns < MaxTurns
      BY <2>2, <2>3, <3>1, <3>5, <3>6
    <3> HIDE DEF turns, start
    <3>8. now = tick + 1 /\ tick \in Nat
      BY <1>1
    <3> QED BY <3>7, <3>8, Limits
  <2> QED BY <2>4, <2>5
<1> QED BY <1>6, <1>7

LEMMA EntriesSame ==
  ASSUME NEW i, UNCHANGED <<offline, talks>>
  PROVE  entriesFor(i)' = entriesFor(i)
<1>1. \A live, chosen, cost, plan_, outcome, more :
        entryOf(i, live, chosen, cost, plan_, outcome, more)' =
          entryOf(i, live, chosen, cost, plan_, outcome, more)
  BY DEF entryOf
<1>2. \A reason, accepted : closedByRule(i, reason, accepted)' = closedByRule(i, reason, accepted)
  BY DEF closedByRule, entryOf
<1>3. fallbackEntries(i)' = fallbackEntries(i)
  BY DEF fallbackEntries, closedByRule, entryOf
<1>4. \A chosen, cost, plan_ :
        prepareOutcomeCall(i, chosen, cost, plan_)' = prepareOutcomeCall(i, chosen, cost, plan_)
  BY DEF prepareOutcomeCall, entryOf
<1>5. \A chosen, cost : respond(i, chosen, cost)' = respond(i, chosen, cost)
  BY DEF respond, closedByRule, prepareOutcomeCall, entryOf
<1> QED BY DEF entriesFor, fallbackEntries, respond, closedByRule, prepareOutcomeCall, entryOf

LEMMA InitInvariant ==
  ASSUME Init
  PROVE  IInv
<1>1. /\ offline \in BOOLEAN /\ tick = 0 /\ pass = 0 /\ batch = <<>> /\ talks = <<>>
      /\ inbox = {} /\ ties = InitialTies /\ memories = [a \in Agents |-> 0] /\ halted = FALSE
  BY DEF Init
<1>2. tick \in 0 .. LastTick /\ pass \in 0 .. PassLength
  BY <1>1, Limits
<1>3. talks \in Seq(ConversationRows) /\ DOMAIN talks = {} /\ Len(talks) = 0
  BY <1>1
<1>4. world \in World /\ ~world.failed
  <2>1. InitialTies \in [Pairs -> RelationshipRows]
    BY TiesAssumption DEF Pairs
  <2>2. memories \in [Agents -> Nat] /\ inbox \in SUBSET InboxRows
    BY <1>1
  <2>3. Full(world) /\ world.failed = FALSE
    BY DEF world, Full
  <2>4. world \in World
    BY <1>1, <1>3, <2>1, <2>2, <2>3, WorldOfTables, FullInWorld
  <2> QED BY <2>3, <2>4
<1>5. Rows(world, tick)
  <2>1. TiesInv(ties, tick)
    <3> SUFFICES ASSUME NEW d \in Pairs
                 PROVE  RelationshipSound(ties[d]) /\ ties[d].last <= tick
      BY DEF TiesInv
    <3> QED BY <1>1, TiesAssumption DEF Pairs
  <2>2. InboxInv(talks, inbox, {}, tick)
    BY <1>1, <1>3 DEF InboxInv
  <2>3. PairsInv(talks) /\ \A i \in DOMAIN talks : TalkInv(talks[i], tick)
    BY <1>3 DEF PairsInv
  <2> QED BY <1>4, <2>1, <2>2, <2>3, WorldOfTables DEF Rows
<1>6. BatchInv
  BY <1>1 DEF BatchInv
<1>7. CrowdInv(talks, tick)
  BY <1>3 DEF CrowdInv
<1> QED BY <1>1, <1>2, <1>5, <1>6, <1>7 DEF IInv

LEMMA PrepareInvariant ==
  ASSUME IInv, prepareConversationBatch
  PROVE  IInv'
<1>1. /\ tick < LastTick /\ pass = 0
      /\ offline' = offline /\ tick' = tick /\ pass' = pass /\ talks' = talks /\ inbox' = inbox
      /\ ties' = ties /\ memories' = memories /\ halted' = halted
  BY DEF prepareConversationBatch
<1>0. PICK i \in opportunitiesLeft : \E entry \in entriesFor(i) : batch' = Append(batch, entry)
  BY DEF prepareConversationBatch
<1>2. PICK entry \in entriesFor(i) : batch' = Append(batch, entry)
  BY <1>0
<1>3. Before(tick + 1) /\ BatchInv
  BY <1>1, Limits DEF IInv, Before
<1>4. /\ i \in DOMAIN talks /\ talks[i].status = "active"
      /\ \A k \in DOMAIN batch : batch[k].talk # i
  <2>1. i \in discoverConversationTurnOpportunities(tick + 1)
        /\ \A k \in DOMAIN batch : batch[k].talk # i
    BY DEF opportunitiesLeft
  <2>2. i \in DOMAIN talks /\ isDue(i, tick + 1)
    BY <1>3, <2>1, TurnsFair, BeforeFacts
  <2> QED BY <2>1, <2>2 DEF isDue
<1>5. entry.talk = i
  <2>1. TalkInv(talks[i], tick)
    BY <1>3, <1>4, BeforeFacts
  <2> QED BY <1>4, <2>1, EntrySound DEF Response
<1> DEFINE Possible == UNION {entriesFor(j) : j \in DOMAIN talks}
           n == Len(batch)
<1>6. \A j : entriesFor(j)' = entriesFor(j)
  BY <1>1, EntriesSame
<1>7. entry \in Possible
  BY <1>2, <1>4
<1>8. batch \in Seq(Possible) /\ n \in Nat /\ DOMAIN batch = 1 .. n
  BY <1>3 DEF BatchInv
<1>9. Possible' = Possible
  BY <1>1, <1>6
<1> HIDE DEF Possible
<1>10. /\ batch' \in Seq(Possible) /\ DOMAIN batch' = 1 .. (n + 1) /\ batch'[n + 1] = entry
       /\ \A k \in 1 .. n : batch'[k] = batch[k]
  BY <1>2, <1>7, <1>8
<1>11. \A k \in DOMAIN batch' :
         /\ batch'[k].talk \in DOMAIN talks /\ talks[batch'[k].talk].status = "active"
         /\ batch'[k] \in entriesFor(batch'[k].talk)
         /\ \A m \in DOMAIN batch' : batch'[m].talk = batch'[k].talk => m = k
  <2> SUFFICES ASSUME NEW k \in 1 .. (n + 1)
               PROVE  /\ batch'[k].talk \in DOMAIN talks /\ talks[batch'[k].talk].status = "active"
                      /\ batch'[k] \in entriesFor(batch'[k].talk)
                      /\ \A m \in 1 .. (n + 1) : batch'[m].talk = batch'[k].talk => m = k
    BY <1>10
  <2>1. CASE k = n + 1
    BY <1>2, <1>4, <1>5, <1>8, <1>10, <2>1
  <2>2. CASE k \in 1 .. n
    <3>1. batch'[k] = batch[k] /\ batch[k].talk # i
      BY <1>4, <1>8, <1>10, <2>2
    <3>2. /\ batch[k].talk \in DOMAIN talks /\ talks[batch[k].talk].status = "active"
          /\ batch[k] \in entriesFor(batch[k].talk)
          /\ \A m \in 1 .. n : batch[m].talk = batch[k].talk => m = k
      BY <1>3, <1>8, <2>2 DEF BatchInv
    <3>3. ASSUME NEW m \in 1 .. (n + 1), batch'[m].talk = batch'[k].talk
          PROVE  m = k
      <4>1. m # n + 1
        BY <1>5, <1>10, <3>1, <3>3
      <4>2. m \in 1 .. n
        BY <1>8, <4>1
      <4> QED BY <1>10, <3>1, <3>2, <3>3, <4>2
    <3> QED BY <3>1, <3>2, <3>3
  <2> QED BY <1>8, <2>1, <2>2
<1>12. BatchInv'
  <2>1. (batch \in Seq(UNION {entriesFor(j) : j \in DOMAIN talks}))'
    BY <1>9, <1>10 DEF Possible
  <2>2. \A k \in DOMAIN batch' :
          /\ batch'[k].talk \in DOMAIN talks' /\ talks'[batch'[k].talk].status = "active"
          /\ batch'[k] \in entriesFor(batch'[k].talk)
          /\ \A m \in DOMAIN batch' : batch'[m].talk = batch'[k].talk => m = k
    BY <1>1, <1>11
  <2>3. (pass > 0 => batch = <<>>)' /\ (~offline => pass = 0)'
    BY <1>1
  <2>4. (\A k \in DOMAIN batch :
          /\ batch[k].talk \in DOMAIN talks /\ talks[batch[k].talk].status = "active"
          /\ batch[k] \in entriesFor(batch[k].talk)
          /\ \A m \in DOMAIN batch : batch[m].talk = batch[k].talk => m = k)'
    BY <1>6, <2>2
  <2> QED BY <2>1, <2>3, <2>4 DEF BatchInv
<1>13. world' = world
  BY <1>1 DEF world
<1> QED BY <1>1, <1>12, <1>13 DEF IInv

LEMMA NextInvariant ==
  ASSUME IInv, [Next]_vars
  PROVE  IInv'
<1>1. CASE prepareConversationBatch
  BY <1>1, PrepareInvariant
<1>2. CASE discardBatch
  <2>1. /\ offline' = offline /\ tick' = tick /\ pass' = pass /\ talks' = talks /\ inbox' = inbox
        /\ ties' = ties /\ memories' = memories /\ halted' = halted /\ batch' = <<>>
    BY <1>2 DEF discardBatch
  <2>2. world' = world
    BY <2>1 DEF world
  <2>3. BatchInv'
    BY <2>1 DEF BatchInv, IInv
  <2> QED BY <2>1, <2>2, <2>3 DEF IInv
<1>3. CASE tickWithoutPitch \/ tickWithPitch
  <2> DEFINE now == tick + 1
             u == [talks |-> talks', inbox |-> inbox', ties |-> ties', memories |-> memories',
                   failed |-> FALSE]
  <2>1. TickDone(now)
    BY <1>3, TickEffect
  <2>2. /\ Before(now) /\ tick' = now /\ Done(u, Batched, now) /\ halted' = halted
        /\ offline' = offline /\ batch' = <<>> /\ pass' \in ticksThisPass
        /\ pass > 0 \/ discoverConversationTurnOpportunities(now) \subseteq Batched
    BY <2>1 DEF TickDone
  <2>3. world' = u
    BY DEF world
  <2>4. Rows(world, tick)'
    <3>1. Rows(u, now)
      BY <2>2 DEF Done
    <3> HIDE DEF u, now
    <3> QED BY <2>2, <2>3, <3>1
  <2>5. /\ offline' \in BOOLEAN /\ tick' \in 0 .. LastTick /\ pass' \in 0 .. PassLength /\ halted' = FALSE
        /\ ~offline' => pass' = 0
    <3>1. pass \in 0 .. PassLength /\ offline \in BOOLEAN /\ (~offline => pass = 0)
      BY DEF IInv, BatchInv
    <3>2. CASE pass > 0
      <4>1. pass' = pass - 1 /\ offline
        BY <2>2, <3>1, <3>2 DEF ticksThisPass
      <4> QED BY <2>2, <3>1, <3>2, <4>1, Limits DEF IInv, Before
    <3>3. CASE ~(pass > 0)
      <4>1. /\ pass' \in 0 .. PassLength /\ (~offline => pass' = 0)
        BY <2>2, <3>3, Limits DEF ticksThisPass
      <4> QED BY <2>2, <3>1, <4>1, Limits DEF IInv, Before
    <3> QED BY <3>2, <3>3
  <2>6. BatchInv'
    BY <2>2, <2>5 DEF BatchInv
  <2>7. ~offline' => CrowdInv(talks, tick)'
    <3> SUFFICES ASSUME ~offline
                 PROVE  CrowdInv(talks', tick')
      BY <2>2 DEF CrowdInv, Crowded, shares, participants
    <3>1. CrowdInv(talks, tick) /\ ~(pass > 0)
      BY DEF IInv, BatchInv
    <3>2. CrowdInv(u.talks, now)
      <4> HIDE DEF now, u
      <4> QED BY <2>2, <3>1, CrowdStep
    <3> QED BY <2>2, <3>2
  <2> QED BY <2>4, <2>5, <2>6, <2>7 DEF IInv
<1>4. CASE UNCHANGED vars
  <2>1. /\ offline' = offline /\ tick' = tick /\ pass' = pass /\ talks' = talks /\ inbox' = inbox
        /\ ties' = ties /\ memories' = memories /\ halted' = halted /\ batch' = batch
    BY <1>4 DEF vars
  <2>2. world' = world
    BY <2>1 DEF world
  <2>3. \A j : entriesFor(j)' = entriesFor(j)
    BY <2>1, EntriesSame
  <2>4. BatchInv'
    BY <2>1, <2>3 DEF BatchInv, IInv
  <2> QED BY <2>1, <2>2, <2>4 DEF IInv
<1> QED BY <1>1, <1>2, <1>3, <1>4 DEF Next

-----------------------------------------------------------------------------
(* The properties *)

LEMMA SoundInvariant ==
  ASSUME IInv
  PROVE  TalksSound
<1>1. /\ Rows(world, tick) /\ BatchInv /\ halted = FALSE /\ (~offline => CrowdInv(talks, tick))
      /\ offline \in BOOLEAN /\ tick \in 0 .. LastTick /\ pass \in 0 .. PassLength
  BY DEF IInv
<1>2. /\ talks \in Seq(ConversationRows) /\ inbox \in SUBSET InboxRows
      /\ ties \in [Pairs -> RelationshipRows] /\ memories \in [Agents -> Nat]
      /\ InboxInv(talks, inbox, {}, tick)
  BY <1>1, WorldOfTables DEF Rows, World
<1>3. halted \in BOOLEAN
  BY <1>1
<1>4. AnsweredAfterReading
  BY <1>2 DEF InboxInv, AnsweredAfterReading
<1>5. ExpiresOnlyWhenCrowded
  BY <1>1 DEF CrowdInv, Crowded, ExpiresOnlyWhenCrowded
<1>6. TalksNeverThrow
  BY <1>1 DEF TalksNeverThrow
<1>7. \A i \in DOMAIN batch : batch[i].talk \in DOMAIN talks
  BY <1>1 DEF BatchInv
<1>8. TypeOK
  BY <1>1, <1>2, <1>3, <1>7 DEF TypeOK, Pairs
<1> QED BY <1>4, <1>5, <1>6, <1>8 DEF TalksSound

(* The talks are sound in every state: the messages still unread are the latest of their
   talk, no tick fails, and a proposal expires only where its talk was crowded out. *)
THEOREM TalksSoundHolds == Spec => []TalksSound
<1>1. Init => IInv
  BY InitInvariant
<1>2. IInv /\ [Next]_vars => IInv'
  BY NextInvariant
<1>3. IInv => TalksSound
  BY SoundInvariant
<1> QED BY <1>1, <1>2, <1>3, PTL DEF Spec

LEMMA MovedByTurn ==
  ASSUME NEW now, NEW i, NEW u, NEW K, InHand(i, u, K, now), i \in K, talks[i].status = "active",
         talks[i].turns \in Nat
  PROVE  u.turns > talks[i].turns \/ u.status # talks[i].status
<1>1. HadTurn(talks[i], u)
  BY DEF InHand
<1>2. CASE u.turns = talks[i].turns + 1
  BY <1>2
<1>3. CASE u.status # "active"
  BY <1>3
<1> QED BY <1>1, <1>2, <1>3 DEF HadTurn

LEMMA TickTurns ==
  ASSUME IInv, TickDone(tick + 1), ~offline, NEW i \in DOMAIN talks, talks[i].status = "active"
  PROVE  moved(i) \/ \E j \in 1 .. i - 1 : shares(talks[i], talks[j]) /\ moved(j)
<1> DEFINE now == tick + 1
           O == discoverConversationTurnOpportunities(now)
<1>1. Before(now) /\ O \subseteq Batched
  BY DEF TickDone, IInv, BatchInv
<1>2. /\ Len(talks) \in Nat /\ DOMAIN talks = 1 .. Len(talks)
      /\ \A j \in DOMAIN talks : InHand(j, talks'[j], Batched, now)
  <2>1. Len(talks) \in Nat /\ DOMAIN talks = 1 .. Len(talks)
    BY <1>1, BeforeFacts
  <2>2. \A j \in DOMAIN talks : InHand(j, talks'[j], Batched, now)
    BY DEF TickDone, Done
  <2> QED BY <2>1, <2>2
<1>3. ASSUME NEW j \in O
      PROVE  j \in DOMAIN talks /\ moved(j)
  <2>1. j \in DOMAIN talks /\ isDue(j, now)
    BY <1>2, TurnsFair
  <2>2. talks[j].status = "active" /\ j \in Batched
    BY <1>1, <2>1 DEF isDue
  <2>3. talks[j].turns \in Nat
    BY <1>1, <2>1, BeforeFacts, TalkTypes
  <2>4. talks'[j].turns > talks[j].turns \/ talks'[j].status # talks[j].status
    BY <1>2, <2>1, <2>2, <2>3, MovedByTurn
  <2> QED BY <2>1, <2>4 DEF moved
<1>4. isDue(i, now)
  BY <1>1, OpenTalkIsDue
<1>5. CASE i \in O
  BY <1>3, <1>5
<1>6. CASE i \notin O
  <2>1. PICK j \in O : j < i /\ shares(talks[i], talks[j])
    BY <1>2, <1>4, <1>6, TurnsFair
  <2>2. j \in 1 .. i - 1
    BY <1>2, <1>3, <2>1
  <2> QED BY <1>3, <2>1, <2>2
<1> QED BY <1>5, <1>6

(* With a provider, no open talk is passed over for a talk that is passed over itself: it has
   its turn in every tick or an older talk of one of its participants has one. *)
THEOREM WaitsOnlyForATurnTakenHolds == Spec => WaitsOnlyForATurnTaken
<1> DEFINE A == tick' # tick /\ ~offline =>
                  \A i \in DOMAIN talks : talks[i].status = "active" =>
                    moved(i) \/ \E j \in 1 .. i - 1 : shares(talks[i], talks[j]) /\ moved(j)
<1>1. Init => IInv
  BY InitInvariant
<1>2. IInv /\ [Next]_vars => IInv'
  BY NextInvariant
<1>3. IInv /\ [Next]_vars => [A]_vars
  <2> SUFFICES ASSUME IInv, Next, tick' # tick, ~offline,
                      NEW i \in DOMAIN talks, talks[i].status = "active"
               PROVE  moved(i) \/ \E j \in 1 .. i - 1 : shares(talks[i], talks[j]) /\ moved(j)
    OBVIOUS
  <2>1. ~prepareConversationBatch /\ ~discardBatch
    BY DEF prepareConversationBatch, discardBatch
  <2>2. TickDone(tick + 1)
    BY <2>1, TickEffect DEF Next
  <2> QED BY <2>2, TickTurns
<1> QED BY <1>1, <1>2, <1>3, PTL DEF Spec, WaitsOnlyForATurnTaken

LEMMA TickTies ==
  ASSUME TickDone(tick + 1), NEW d \in DOMAIN ties
  PROVE  LET ending == {i \in DOMAIN talks : endsNow(i) /\ participants(talks[i]) = {d[1], d[2]}}
         IN IF ending = {} THEN ties'[d] = ties[d]
            ELSE \A i \in ending :
                   /\ ties'[d].last = talks'[i].end
                   /\ (ties'[d].type = "adversary") <=> (ties[d].type = "adversary")
                   /\ (ties'[d].type = "adversary") <=> (ties'[d].strength < 0)
                   /\ IF talks'[i].outcome.kind = "agreement"
                        THEN ties'[d].strength >= ties[d].strength
                        ELSE ties'[d].strength <= ties[d].strength
<1> DEFINE now == tick + 1
           ending == {i \in DOMAIN talks : endsNow(i) /\ participants(talks[i]) = {d[1], d[2]}}
<1>1. /\ Before(now) /\ TiesFollow(talks', ties', now)
      /\ \A i \in DOMAIN talks : InHand(i, talks'[i], Batched, now)
  BY DEF TickDone, Done
<1>2. d \in Pairs
  BY <1>1, BeforeFacts
<1>3. \A i \in DOMAIN talks : i \in ending <=> EndsBetween(talks', i, d)
  BY DEF endsNow, EndsBetween
<1>4. CASE ending = {}
  BY <1>1, <1>2, <1>3, <1>4 DEF TiesFollow
<1>5. ASSUME NEW i \in ending
      PROVE  TieMoved(ties[d], ties'[d], talks'[i].outcome.kind, now) /\ talks'[i].end = now
  <2>1. TieMoved(ties[d], ties'[d], talks'[i].outcome.kind, now)
    BY <1>1, <1>2, <1>3 DEF TiesFollow
  <2>2. talks[i].status = "active" /\ talks'[i].status # "active" /\ i \in DOMAIN talks
    BY DEF endsNow
  <2>3. Became(talks[i], talks'[i], now) /\ talks[i] \in ConversationRows
    BY <1>1, <2>2, BeforeFacts DEF InHand
  <2>4. CASE Kept(talks[i], talks'[i])
    <3> DEFINE t == talks[i]
               u == talks'[i]
    <3> HIDE DEF t, u
    <3>1. u = [t EXCEPT !.proposal = u.proposal] /\ t \in ConversationRows
      BY <2>3, <2>4 DEF Kept, t, u
    <3>2. u.status = t.status
      BY <3>1 DEF ConversationRows
    <3> QED BY <2>2, <3>2 DEF t, u
  <2>5. CASE Spoke(talks[i], talks'[i])
    BY <2>2, <2>5 DEF Spoke
  <2>6. CASE Settled(talks[i], talks'[i], now)
    BY <2>1, <2>6 DEF Settled
  <2> QED BY <2>3, <2>4, <2>5, <2>6 DEF Became
<1> HIDE DEF ending
<1>6. ASSUME ending # {}, NEW i \in ending
      PROVE  /\ ties'[d].last = talks'[i].end
             /\ (ties'[d].type = "adversary") <=> (ties[d].type = "adversary")
             /\ (ties'[d].type = "adversary") <=> (ties'[d].strength < 0)
             /\ IF talks'[i].outcome.kind = "agreement"
                  THEN ties'[d].strength >= ties[d].strength
                  ELSE ties'[d].strength <= ties[d].strength
  BY <1>5 DEF TieMoved
<1> QED BY <1>4, <1>6 DEF ending

(* Both directions of a relationship move with the talk of their agents that ends, and only
   with it: towards each other after an agreement, apart after a failure. *)
THEOREM TiesFollowTalksHolds == Spec => TiesFollowTalks
<1> DEFINE A == \A d \in DOMAIN ties :
                  LET ending == {i \in DOMAIN talks :
                                   endsNow(i) /\ participants(talks[i]) = {d[1], d[2]}}
                  IN IF ending = {} THEN ties'[d] = ties[d]
                     ELSE \A i \in ending :
                            /\ ties'[d].last = talks'[i].end
                            /\ (ties'[d].type = "adversary") <=> (ties[d].type = "adversary")
                            /\ (ties'[d].type = "adversary") <=> (ties'[d].strength < 0)
                            /\ IF talks'[i].outcome.kind = "agreement"
                                 THEN ties'[d].strength >= ties[d].strength
                                 ELSE ties'[d].strength <= ties[d].strength
<1>1. Init => IInv
  BY InitInvariant
<1>2. IInv /\ [Next]_vars => IInv'
  BY NextInvariant
<1>3. IInv /\ [Next]_vars => [A]_vars
  <2> SUFFICES ASSUME IInv, Next
               PROVE  A
    OBVIOUS
  <2>1. CASE prepareConversationBatch \/ discardBatch
    <3>1. ties' = ties /\ talks' = talks
      BY <2>1 DEF prepareConversationBatch, discardBatch
    <3>2. \A i \in DOMAIN talks : ~endsNow(i)
      BY <3>1 DEF endsNow
    <3> QED BY <3>1, <3>2
  <2>2. CASE tickWithoutPitch \/ tickWithPitch
    BY <2>2, TickEffect, TickTies
  <2> QED BY <2>1, <2>2 DEF Next
<1> QED BY <1>1, <1>2, <1>3, PTL DEF Spec, TiesFollowTalks

-----------------------------------------------------------------------------
(* The talks implement the abstract negotiation *)

StateOf(t) == IF t.status = "active" THEN "open"
              ELSE IF t.outcome.kind = "agreement" THEN "agreed" ELSE "failed"
TableOf(t) == IF t.status = "active"
                THEN [first |-> latestOffer(t, t.first), second |-> latestOffer(t, t.second)]
                ELSE [first |-> NoTerms, second |-> NoTerms]
OfferedTo(t) == IF t.turns % 2 = 0 THEN TableOf(t).second ELSE TableOf(t).first

(* What the other side offered last is what the side that does not speak offered last. *)
LEMMA OfferOfTheOther ==
  ASSUME NEW now, NEW t, TalkInv(t, now), t.status = "active"
  PROVE  lastTermsFromOther(t, nextConversationSpeaker(t)) = OfferedTo(t)
<1> DEFINE speaker == nextConversationSpeaker(t)
           S == {k \in DOMAIN t.messages :
                   t.messages[k].sender # speaker /\ t.messages[k].terms # NoTerms}
           R == {k \in DOMAIN t.messages :
                   t.messages[k].sender = recipient(t) /\ t.messages[k].terms # NoTerms}
<1>1. /\ t.first # t.second /\ t.messages \in Seq(MessageRows) /\ Len(t.messages) = t.turns
      /\ \A k \in 1 .. t.turns : t.messages[k].sender \in {t.first, t.second}
  BY TalkTypes DEF TalkInv, Speaking, participants
<1>2. speaker \in {t.first, t.second} /\ recipient(t) \in {t.first, t.second} \ {speaker}
  BY <1>1 DEF nextConversationSpeaker, recipient
<1>3. DOMAIN t.messages = 1 .. t.turns
  BY <1>1
<1>4. \A k \in DOMAIN t.messages :
        t.messages[k].sender # speaker <=> t.messages[k].sender = recipient(t)
  <2> HIDE DEF speaker
  <2> QED BY <1>1, <1>2, <1>3
<1>5. S = R
  BY <1>4
<1>6. lastTermsFromOther(t, speaker) = latestTerms(t, S) /\ latestOffer(t, recipient(t)) = latestTerms(t, R)
  BY DEF lastTermsFromOther, latestOffer
<1>7. lastTermsFromOther(t, speaker) = latestOffer(t, recipient(t))
  <2> HIDE DEF S, R, speaker
  <2> QED BY <1>5, <1>6
<1>8. TableOf(t) = [first |-> latestOffer(t, t.first), second |-> latestOffer(t, t.second)]
  BY DEF TableOf
<1>9. OfferedTo(t) = latestOffer(t, recipient(t))
  BY <1>8 DEF OfferedTo, recipient
<1> QED BY <1>7, <1>9

(* The message u has and t has not is somebody else's. *)
OthersMessage(t, u, n, agent) ==
  /\ t.messages \in Seq(MessageRows) /\ u.messages \in Seq(MessageRows)
  /\ Len(t.messages) = n /\ Len(u.messages) = n + 1
  /\ \A k \in 1 .. n : u.messages[k] = t.messages[k]
  /\ u.messages[n + 1].sender # agent

(* A message leaves what the other side has on the table. *)
LEMMA OfferUnmoved ==
  ASSUME NEW t, NEW u, NEW n \in Nat, NEW agent, OthersMessage(t, u, n, agent)
  PROVE  latestOffer(u, agent) = latestOffer(t, agent)
<1> USE DEF OthersMessage
<1> DEFINE S == {k \in DOMAIN t.messages :
                   t.messages[k].sender = agent /\ t.messages[k].terms # NoTerms}
           R == {k \in DOMAIN u.messages :
                   u.messages[k].sender = agent /\ u.messages[k].terms # NoTerms}
<1>1. DOMAIN t.messages = 1 .. n /\ DOMAIN u.messages = 1 .. (n + 1)
  OBVIOUS
<1>2. S = R
  <2>1. ASSUME NEW k
        PROVE  k \in S <=> k \in R
    <3>1. CASE k \in 1 .. n
      BY <1>1, <3>1
    <3>2. CASE k = n + 1
      BY <1>1, <3>2
    <3>3. CASE k \notin 1 .. (n + 1)
      BY <1>1, <3>3
    <3> QED BY <3>1, <3>2, <3>3
  <2> QED BY <2>1
<1>3. latestOffer(t, agent) = latestTerms(t, S) /\ latestOffer(u, agent) = latestTerms(u, R)
  BY DEF latestOffer
<1>4. S \in SUBSET (1 .. n)
  BY <1>1
<1> HIDE DEF S, R
<1>5. CASE S = {}
  BY <1>2, <1>3, <1>5 DEF latestTerms
<1>6. CASE S # {}
  <2>1. Max(S) \in 1 .. n
    BY <1>4, <1>6, GreatestExists
  <2> QED BY <1>2, <1>3, <1>6, <2>1 DEF latestTerms
<1> QED BY <1>5, <1>6

(* The steps of the abstract negotiation, for one talk *)
Remains(t, u) ==
  /\ StateOf(u) = StateOf(t) /\ TableOf(u) = TableOf(t)
  /\ u.turns = t.turns /\ u.outcome.terms = t.outcome.terms
Speaks(t, u) ==
  /\ StateOf(t) = "open" /\ t.turns < MaxTurns /\ StateOf(u) = "open"
  /\ u.turns = t.turns + 1 /\ u.outcome.terms = NoTerms
  /\ IF t.turns % 2 = 0 THEN TableOf(u).second = TableOf(t).second
     ELSE TableOf(u).first = TableOf(t).first
Agrees(t, u) ==
  /\ StateOf(t) = "open" /\ OfferedTo(t) # NoTerms
  /\ StateOf(u) = "agreed" /\ u.outcome.terms = OfferedTo(t)
  /\ u.turns = t.turns + 1 /\ TableOf(u) = [first |-> NoTerms, second |-> NoTerms]
Fails(t, u) ==
  /\ StateOf(t) = "open" /\ StateOf(u) = "failed" /\ u.outcome.terms = NoTerms
  /\ u.turns \in {t.turns, t.turns + 1} /\ u.turns <= MaxTurns
  /\ TableOf(u) = [first |-> NoTerms, second |-> NoTerms]
Begins(u) ==
  /\ StateOf(u) = "open" /\ TableOf(u) = [first |-> NoTerms, second |-> NoTerms]
  /\ u.turns = 0 /\ u.outcome.terms = NoTerms

LEMMA KeptRemains ==
  ASSUME NEW t \in ConversationRows, NEW u, Kept(t, u)
  PROVE  Remains(t, u)
<1>1. u = [t EXCEPT !.proposal = u.proposal]
  BY DEF Kept
<1>2. /\ u.status = t.status /\ u.outcome = t.outcome /\ u.turns = t.turns /\ u.first = t.first
      /\ u.second = t.second /\ u.messages = t.messages
  BY <1>1 DEF ConversationRows
<1>3. \A agent : latestOffer(u, agent) = latestOffer(t, agent)
  BY <1>2 DEF latestOffer, latestTerms
<1> QED BY <1>2, <1>3 DEF Remains, StateOf, TableOf

LEMMA SpokeSpeaks ==
  ASSUME NEW now, NEW t, NEW u, TalkInv(t, now), TalkInv(u, now), t.status = "active",
         SameParties(t, u), Spoke(t, u)
  PROVE  Speaks(t, u)
<1>1. /\ t.messages \in Seq(MessageRows) /\ t.turns \in Nat /\ Len(t.messages) = t.turns
      /\ t.turns < MaxTurns /\ t.first # t.second
  BY TalkTypes DEF TalkInv, Speaking
<1>2. /\ u.messages \in Seq(MessageRows) /\ Len(u.messages) = u.turns /\ u.outcome = OngoingOutcome
      /\ u.status = "active" /\ u.turns = t.turns + 1 /\ u.first = t.first /\ u.second = t.second
      /\ \A k \in 1 .. t.turns : u.messages[k] = t.messages[k]
      /\ u.messages[t.turns + 1].sender = nextConversationSpeaker(t)
  BY TalkTypes DEF TalkInv, Speaking, Spoke, SameParties
<1>3. u.outcome.terms = NoTerms /\ StateOf(t) = "open" /\ StateOf(u) = "open"
  BY <1>2 DEF OngoingOutcome, StateOf
<1>4. ASSUME NEW agent, agent # nextConversationSpeaker(t)
      PROVE  latestOffer(u, agent) = latestOffer(t, agent)
  <2> DEFINE n == t.turns
  <2>1. n \in Nat
    BY <1>1
  <2>2. OthersMessage(t, u, n, agent)
    BY <1>1, <1>2, <1>4 DEF OthersMessage
  <2> HIDE DEF n
  <2> QED BY <2>1, <2>2, OfferUnmoved
<1>5. IF t.turns % 2 = 0 THEN latestOffer(u, u.second) = latestOffer(t, t.second)
      ELSE latestOffer(u, u.first) = latestOffer(t, t.first)
  BY <1>1, <1>2, <1>4 DEF nextConversationSpeaker
<1>6. /\ TableOf(t) = [first |-> latestOffer(t, t.first), second |-> latestOffer(t, t.second)]
      /\ TableOf(u) = [first |-> latestOffer(u, u.first), second |-> latestOffer(u, u.second)]
  BY <1>2 DEF TableOf
<1>7. IF t.turns % 2 = 0 THEN TableOf(u).second = TableOf(t).second
      ELSE TableOf(u).first = TableOf(t).first
  BY <1>5, <1>6
<1> QED BY <1>1, <1>2, <1>3, <1>7 DEF Speaks

LEMMA SettledEnds ==
  ASSUME NEW now, NEW t, NEW u, TalkInv(t, now), TalkInv(u, now), t.status = "active",
         Settled(t, u, now)
  PROVE  Agrees(t, u) \/ Fails(t, u)
<1>1. u.turns <= MaxTurns /\ u.status # "active" /\ u.turns \in {t.turns, t.turns + 1}
  BY TalkTypes DEF Settled
<1>2. StateOf(t) = "open" /\ TableOf(u) = [first |-> NoTerms, second |-> NoTerms]
  BY <1>1 DEF StateOf, TableOf
<1>3. CASE u.outcome.kind = "agreement"
  <2>1. /\ u.turns = t.turns + 1 /\ u.outcome.terms \in Terms
        /\ u.outcome.terms = lastTermsFromOther(t, nextConversationSpeaker(t))
    BY <1>3 DEF Settled
  <2>2. u.outcome.terms = OfferedTo(t) /\ OfferedTo(t) # NoTerms
    BY <2>1, OfferOfTheOther, Limits
  <2>3. StateOf(u) = "agreed"
    BY <1>1, <1>3 DEF StateOf
  <2> QED BY <1>2, <2>1, <2>2, <2>3 DEF Agrees
<1>4. CASE u.outcome.kind # "agreement"
  <2>1. u.outcome.terms = NoTerms
    BY <1>4 DEF Settled
  <2>2. StateOf(u) = "failed"
    BY <1>1, <1>4 DEF StateOf
  <2> QED BY <1>1, <1>2, <2>1, <2>2 DEF Fails
<1> QED BY <1>3, <1>4

LEMMA FreshBegins ==
  ASSUME NEW now, NEW u, Fresh(u, now)
  PROVE  Begins(u)
<1>1. /\ u.status = "active" /\ u.outcome = OngoingOutcome /\ u.turns = 0 /\ u.messages = <<>>
  BY DEF Fresh
<1>2. DOMAIN u.messages = {}
  BY <1>1
<1>3. \A agent : latestOffer(u, agent) = NoTerms
  BY <1>2 DEF latestOffer, latestTerms
<1> QED BY <1>1, <1>3 DEF Begins, StateOf, TableOf, OngoingOutcome

(* A tick takes every talk one step of the negotiation. *)
LEMMA TalkSteps ==
  ASSUME TickDone(tick + 1)
  PROVE  /\ talks \in Seq(ConversationRows) /\ talks' \in Seq(ConversationRows)
         /\ Len(talks) <= Len(talks') /\ DOMAIN talks \subseteq DOMAIN talks'
         /\ \A i \in DOMAIN talks :
              \/ Remains(talks[i], talks'[i])
              \/ Speaks(talks[i], talks'[i])
              \/ Agrees(talks[i], talks'[i])
              \/ Fails(talks[i], talks'[i])
         /\ \A i \in DOMAIN talks' \ DOMAIN talks : Begins(talks'[i])
<1> DEFINE now == tick + 1
           v == [talks |-> talks', inbox |-> inbox', ties |-> ties', memories |-> memories',
                 failed |-> FALSE]
<1>1. Before(now) /\ Done(v, Batched, now) /\ v.talks = talks'
  BY DEF TickDone
<1> HIDE DEF v, now
<1>2. /\ talks \in Seq(ConversationRows)
      /\ \A i \in DOMAIN talks : TalkInv(talks[i], now) /\ talks[i] \in ConversationRows
  BY <1>1, BeforeFacts, LaterTalk DEF TalkInv
<1>3. talks' \in Seq(ConversationRows) /\ Len(talks') \in {Len(talks), Len(talks) + 1}
  BY <1>1 DEF Done, Rows, World
<1>4. \A i \in DOMAIN talks : InHand(i, talks'[i], Batched, now)
  BY <1>1 DEF Done
<1>5. \A i \in DOMAIN talks' \ DOMAIN talks : Fresh(talks'[i], now)
  BY <1>1 DEF Done
<1>6. ASSUME NEW i \in DOMAIN talks
      PROVE  \/ Remains(talks[i], talks'[i])
             \/ Speaks(talks[i], talks'[i])
             \/ Agrees(talks[i], talks'[i])
             \/ Fails(talks[i], talks'[i])
  <2>1. TalkInv(talks'[i], now) /\ Became(talks[i], talks'[i], now)
    BY <1>4 DEF InHand
  <2>2. CASE Kept(talks[i], talks'[i])
    BY <1>2, <2>2, KeptRemains
  <2>3. CASE /\ talks[i].status = "active" /\ SameParties(talks[i], talks'[i])
             /\ Spoke(talks[i], talks'[i])
    BY <1>2, <2>1, <2>3, SpokeSpeaks
  <2>4. CASE talks[i].status = "active" /\ Settled(talks[i], talks'[i], now)
    BY <1>2, <2>1, <2>4, SettledEnds
  <2> QED BY <2>1, <2>2, <2>3, <2>4 DEF Became
<1>7. Len(talks) <= Len(talks') /\ DOMAIN talks \subseteq DOMAIN talks'
  BY <1>2, <1>3
<1>8. \A i \in DOMAIN talks' \ DOMAIN talks : Begins(talks'[i])
  BY <1>5, FreshBegins
<1> QED BY <1>2, <1>3, <1>6, <1>7, <1>8

(* The conversations implement the abstract negotiation (TalkProtocol): its parties alternate,
   a talk is agreed only on what the other side last put on the table, and none reopens. *)
THEOREM ImplementsTalkHolds == Spec => ImplementsTalk
<1>1. Init => IInv
  BY InitInvariant
<1>2. IInv /\ [Next]_vars => IInv'
  BY NextInvariant
<1>3. Init => Protocol!Init
  <2> SUFFICES ASSUME Init
               PROVE  Protocol!Init
    OBVIOUS
  <2>1. talks = <<>> /\ DOMAIN talks = {}
    BY DEF Init
  <2> QED BY <2>1 DEF Protocol!Init
<1>4. IInv /\ [Next]_vars => [Protocol!Next]_(Protocol!talkVars)
  <2> SUFFICES ASSUME IInv, [Next]_vars
               PROVE  Protocol!Next \/ UNCHANGED Protocol!talkVars
    OBVIOUS
  <2>1. CASE talks' = talks
    <3>1. ASSUME NEW i, NEW agent
          PROVE  latestOffer(talks[i], agent)' = latestOffer(talks[i], agent')
      BY <2>1 DEF latestOffer, latestTerms, Max
    <3> QED BY <2>1, <3>1 DEF Protocol!talkVars
  <2>2. CASE tickWithoutPitch \/ tickWithPitch
    <3>1. TickDone(tick + 1)
      BY <2>2, TickEffect
    <3>2. /\ talks \in Seq(ConversationRows) /\ talks' \in Seq(ConversationRows)
          /\ Len(talks) <= Len(talks') /\ DOMAIN talks \subseteq DOMAIN talks'
      BY <3>1, TalkSteps
    <3>3. ASSUME NEW i \in DOMAIN talks, Remains(talks[i], talks'[i])
          PROVE  Protocol!remains(i)
      BY <3>2, <3>3 DEF Protocol!remains, Remains, StateOf, TableOf
    <3>4. ASSUME NEW i \in DOMAIN talks, Speaks(talks[i], talks'[i])
          PROVE  Protocol!speaks(i)
      BY <3>2, <3>4 DEF Protocol!speaks, Speaks, StateOf, TableOf
    <3>5. ASSUME NEW i \in DOMAIN talks, Agrees(talks[i], talks'[i])
          PROVE  Protocol!agrees(i)
      BY <3>2, <3>5 DEF Protocol!agrees, Protocol!offeredTo, Protocol!NothingOnTable, Agrees,
                        OfferedTo, StateOf, TableOf
    <3>6. ASSUME NEW i \in DOMAIN talks, Fails(talks[i], talks'[i])
          PROVE  Protocol!fails(i)
      BY <3>2, <3>6 DEF Protocol!fails, Protocol!NothingOnTable, Fails, StateOf, TableOf
    <3>7. ASSUME NEW i \in DOMAIN talks' \ DOMAIN talks, Begins(talks'[i])
          PROVE  Protocol!begins(i)
      BY <3>2, <3>7 DEF Protocol!begins, Protocol!NothingOnTable, Begins, StateOf, TableOf
    <3>8. Protocol!Next
      BY <3>1, <3>2, <3>3, <3>4, <3>5, <3>6, <3>7, TalkSteps DEF Protocol!Next
    <3> QED BY <3>8
  <2>3. talks' = talks \/ tickWithoutPitch \/ tickWithPitch
    BY DEF Next, vars, prepareConversationBatch, discardBatch
  <2> QED BY <2>1, <2>2, <2>3
<1> QED BY <1>1, <1>2, <1>3, <1>4, PTL DEF Spec, ImplementsTalk, Protocol!Spec
=============================================================================
