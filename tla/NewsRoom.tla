------------------------------- MODULE NewsRoom -------------------------------
(***************************************************************************)
(* The newspaper of the town and the mood it leaves.  Every tick ranks the *)
(* events of the tick before; on every Cadence-th one the best event of    *)
(* each topic, StoryCap at most, becomes a story.  A provider chooses the  *)
(* wording before the tick, or a template does; what is not an offered     *)
(* choice is spiked.  The published stories of the tick move the sentiment *)
(* index of their topic and the opinions of the agents they reach.         *)
(*                                                                         *)
(* The decision phase of the same tick (DecisionQuarantine) reserves the   *)
(* authors' actions for the stories before it lets them act.               *)
(***************************************************************************)
EXTENDS DecisionQuarantine, SequencesExt

CONSTANTS
  Journalists,  \* the authors, in order
  StoryCap,     \* stories of an edition
  Cadence,      \* ticks between two editions, and between two decision phases
  Lookback,     \* ticks over which rarity is counted
  DigestLimit,  \* candidates a digest keeps
  Kinds,        \* kinds of newsworthy events: [id, topic, polarity, points, genesisOnly]
  EventSets,    \* what may happen in a tick: sets of kinds
  Seed          \* the opinions agents are born with, by axis

NewsTopics == {"economy", "employment", "institutions", "market"}
SentimentTopics == {"economy", "employment", "institutions"}
OpinionAxes == {"redistribution", "regulation", "institutionalTrust", "economicOptimism"}

(* What the words of an event's type say of its outcome, and the points its
   payload is worth: for money, 500 for every decimal order up to 4000; for
   those affected, 250 each up to 2500. *)
Polarities == {-1, 0, 1}
PayloadPoints == {500 * m + 250 * n : m \in 0..8, n \in 0..10}

(* The whole town's reach, and how far an index and an opinion may go. *)
SENTIMENT_EXPOSURE_BUCKETS == 100000
SENTIMENT_VALUE_LIMIT == 10000
opinionLimit == 100

ASSUME NewsAssumption ==
  /\ Journalists \in Seq(Agent) /\ Len(Journalists) \in 1..3
  /\ StoryCap \in 1..3 /\ {Cadence, Lookback, DigestLimit} \subseteq Nat \ {0}
  /\ IsFiniteSet(Kinds) /\ \A k, l \in Kinds : k.id = l.id => k = l
  /\ \A k \in Kinds : /\ k.id \in Nat /\ k.topic \in NewsTopics /\ k.polarity \in Polarities
                      /\ k.points \in PayloadPoints /\ k.genesisOnly \in BOOLEAN
  /\ \A S \in EventSets : S # {} /\ S \subseteq Kinds
  /\ Seed \in [OpinionAxes -> -opinionLimit..opinionLimit]

(* The author of the i-th story about the events of the source tick.  No author
   writes so many that its cap leaves it no action of its own: two journalists
   share three stories under a cap of three. *)
authorOf(source, i) == Journalists[((source + i - 1) % Len(Journalists)) + 1]

ASSUME AuthorsAssumption ==
  \A source \in 0..MaxTick, a \in Agent :
    Cardinality({i \in 1..StoryCap : authorOf(source, i) = a}) < ActionCap

VARIABLES
  llmOff,     \* the run's mode: stories come from the template
  stage,      \* of the tick: night, prepared, deciding, news, sentiment
  recent,     \* the kinds of events of the last Lookback ticks, oldest first
  edition,    \* the stories to write in this tick: [kind, author, answer]
  stories,    \* the rows of the tick
  digested,   \* the source tick of the last digest row, -1 before the first
  latest,     \* the last update row by topic: [tick, value], tick 0 for none
  opinion,    \* by agent and axis
  index       \* history: the index by topic, brought up to date in every tick

newsOnly == <<llmOff, stage, recent, edition, stories, digested, latest, opinion, index>>
newsVars == <<quarantineVars, newsOnly>>

clampTo(x, limit) == Max({-limit, Min({limit, x})})
towardZero(n, d) == IF n < 0 THEN -((-n) \div d) ELSE n \div d

-----------------------------------------------------------------------------
(* The digest of the source tick, which is the last committed one. *)
occurrences(k) == Cardinality({i \in DOMAIN recent : k \in recent[i]})

totalPoints(k) == k.points + 3500 \div occurrences(k)

isNewsDigestCandidate(k) == ~(tick = 0 /\ k.genesisOnly)

outranks(k, l) ==
  LET mine == totalPoints(k)  theirs == totalPoints(l)
  IN  mine > theirs \/ (mine = theirs /\ k.id < l.id)

(* The n best of a set of kinds. *)
best(S, n) == {k \in S : Cardinality({l \in S : outranks(l, k)}) < n}

digest == best({k \in Last(recent) : isNewsDigestCandidate(k)}, DigestLimit)

isNewsStoryPublicationSourceTick == tick % Cadence = 0

leaders ==
  LET kept == digest
  IN  {k \in kept : \A l \in kept : l.topic = k.topic => ~outranks(l, k)}

selected == IF isNewsStoryPublicationSourceTick THEN best(leaders, StoryCap) ELSE {}

place(chosen, k) == Cardinality({l \in chosen : outranks(l, k)}) + 1

(* An answer is one of the offered drafts, or refused: a failed call, a hash
   that does not match, a proposal that is no exact draft of the menu. *)
answers == IF llmOff THEN {"template"} ELSE {"offered", "refused"}

(* Before the tick: the opportunities, each with the provider's answer.  With
   the LLM off the tick finds the same opportunities itself. *)
prepareNewsStoryBatch ==
  /\ stage = "night" /\ tick < MaxTick
  /\ LET chosen == selected IN
       \E answer \in [chosen -> answers] :
         edition' = [i \in {place(chosen, k) : k \in chosen} |->
                      LET leader == CHOOSE k \in chosen : place(chosen, k) = i
                      IN  [kind |-> leader, author |-> authorOf(tick, i), answer |-> answer[leader]]]
  /\ stage' = "prepared"
  /\ UNCHANGED <<quarantineVars, llmOff, recent, stories, digested, latest, opinion, index>>

reserved(a) == Cardinality({i \in DOMAIN edition : edition[i].author = a})

goalDecisionDue == tick % Cadence = 0

(* The decision phase, in the ticks it is due, finds at most the one action
   Tier 2 wrote for an agent, a goal's activation. *)
startDecisions ==
  /\ stage = "prepared" /\ goalDecisionDue
  /\ \E activated \in [Agent -> IF llmOff THEN {0} ELSE {0, 1}] :
       beginPhase([a \in Agent |-> activated[a] + reserved(a)])
  /\ stage' = "deciding"
  /\ UNCHANGED <<llmOff, recent, edition, stories, digested, latest, opinion, index>>

skipDecisions ==
  /\ stage = "prepared" /\ ~goalDecisionDue
  /\ stage' = "news" /\ tick' = tick + 1
  /\ UNCHANGED <<keepsEngine, deciding, failures, row, imposed, decided, started, streak,
                 llmOff, recent, edition, stories, digested, latest, opinion, index>>

decide ==
  /\ \E a \in Agent : applied(a) \/ startedAndFailed(a) \/ rejected(a)
  /\ UNCHANGED newsOnly

finishDecisions ==
  /\ endPhase
  /\ stage' = "news"
  /\ UNCHANGED <<llmOff, recent, edition, stories, digested, latest, opinion, index>>

-----------------------------------------------------------------------------
newsStoryReach(points) == Min({SENTIMENT_EXPOSURE_BUCKETS, 1000 + points * 5})

resolved(answer) == answer \in {"template", "offered"}

storyRow(entry) ==
  [kind |-> entry.kind, author |-> entry.author, tick |-> tick,
   status |-> IF resolved(entry.answer) THEN "published" ELSE "spiked",
   reach |-> IF resolved(entry.answer) THEN newsStoryReach(totalPoints(entry.kind)) ELSE 0]

insertDigest == digested' = tick - 1

insertStories == stories' = [i \in DOMAIN edition |-> storyRow(edition[i])]

(* The news phase: the digest, then a story for every opportunity. *)
applyWork ==
  /\ stage = "news"
  /\ stage' = "sentiment"
  /\ insertDigest /\ insertStories
  /\ UNCHANGED <<quarantineVars, llmOff, recent, edition, latest, opinion, index>>

published == {i \in DOMAIN stories : stories[i].status = "published"}

sentimentTopic(topic) == IF topic = "market" THEN "economy" ELSE topic

(* Every draft carries the newspaper's own stance, which is 0: the outcome of
   the event alone moves the index. *)
stanceBias == 0
storyDelta(s) ==
  LET stanceDelta  == clampTo(towardZero(stanceBias * s.reach * 900, 100000), 1800)
      outcomeDelta == clampTo(towardZero(s.kind.polarity * 1000 * 200, 1000), 200)
  IN  clampTo(stanceDelta + outcomeDelta, 2000)

decaySentiment(value) == towardZero(value * 9950, 10000)

(* Mutant: the decay of one tick, however many have passed. *)
decayOnce(value, elapsed) == IF elapsed = 0 THEN value ELSE decaySentiment(value)

decaySentimentAcrossTicks(value, elapsed) ==
  LET after[n \in 0..elapsed] == IF n = 0 THEN value ELSE decaySentiment(after[n - 1])
  IN  after[elapsed]

storiesOn(topic) == {i \in published : sentimentTopic(stories[i].kind.topic) = topic}

total(points) ==
  LET sum[n \in 0..StoryCap] == IF n = 0 THEN 0 ELSE sum[n - 1] + points[n]
  IN  sum[StoryCap]

topicDeltas(topic) ==
  LET moving == storiesOn(topic)
  IN  [i \in 1..StoryCap |-> IF i \in moving THEN storyDelta(stories[i]) ELSE 0]

topicDelta(topic) == clampTo(total(topicDeltas(topic)), 2500)

calculateSentimentUpdate(topic) ==
  LET previous == latest[topic]
      elapsed  == IF previous.tick = 0 THEN 1 ELSE tick - previous.tick
  IN  [tick  |-> tick,
       value |-> clampTo(decaySentimentAcrossTicks(previous.value, elapsed) + topicDelta(topic),
                         SENTIMENT_VALUE_LIMIT)]

opinionDirection(topic, axis) ==
  CASE axis = "economicOptimism" /\ topic \in {"economy", "employment", "market"} -> 1
    [] axis = "institutionalTrust" /\ topic = "institutions" -> 1
    [] axis = "redistribution" /\ topic = "employment" -> -1
    [] axis = "regulation" /\ topic = "market" -> -1
    [] OTHER -> 0

opinionImpulse(delta) ==
  IF delta = 0 THEN 0
  ELSE LET size == Min({5, Max({1, Max({delta, -delta}) \div 400})})
       IN  IF delta < 0 THEN -size ELSE size

opinionMoves(axis, reached) ==
  [i \in 1..StoryCap |->
     IF i \in reached
       THEN opinionImpulse(storyDelta(stories[i])) * opinionDirection(stories[i].kind.topic, axis)
       ELSE 0]

opinionDrift(axis, reached) == clampTo(total(opinionMoves(axis, reached)), 5)

(* A hash of the agent and the story against the story's reach decides whom it
   reaches: any set of readers, and everybody at full reach. *)
exposures == {r \in [Agent -> SUBSET published] :
                \A a \in Agent, i \in published :
                  stories[i].reach = SENTIMENT_EXPOSURE_BUCKETS => i \in r[a]}

recordSentimentUpdates ==
  latest' = [t \in SentimentTopics |->
               IF storiesOn(t) = {} THEN latest[t] ELSE calculateSentimentUpdate(t)]

clampOpinion(value) == clampTo(value, opinionLimit)

drifted(a, axis, reached) == clampOpinion(opinion[a][axis] + opinionDrift(axis, reached))

recordOpinionUpdates(reached) ==
  opinion' = [a \in Agent |-> [x \in OpinionAxes |-> drifted(a, x, reached[a])]]

(* The sentiment phase, the last of the tick, and what else happened in it. *)
updateSentiment ==
  /\ stage = "sentiment"
  /\ stage' = "night"
  /\ recordSentimentUpdates
  /\ \E reached \in exposures : recordOpinionUpdates(reached)
  /\ \E happened \in EventSets :
       LET all == Append(recent, happened)
       IN  recent' = IF Len(all) > Lookback THEN Tail(all) ELSE all
  /\ index' = [t \in SentimentTopics |->
                 clampTo(decaySentiment(index[t]) + topicDelta(t), SENTIMENT_VALUE_LIMIT)]
  /\ edition' = <<>> /\ stories' = <<>> /\ started' = [a \in Agent |-> 0]
  /\ UNCHANGED <<keepsEngine, tick, deciding, failures, row, imposed, decided, streak,
                 llmOff, digested>>

operatorControls ==
  /\ stage = "night"
  /\ \E a \in Agent : setAgentQuarantine(a)
  /\ UNCHANGED newsOnly

NewsInit ==
  /\ QuarantineInit
  /\ llmOff \in BOOLEAN
  /\ keepsEngine => llmOff
  /\ stage = "night"
  /\ \E happened \in EventSets : recent = <<happened>>
  /\ edition = <<>> /\ stories = <<>> /\ digested = -1
  /\ latest = [t \in SentimentTopics |-> [tick |-> 0, value |-> 0]]
  /\ opinion = [a \in Agent |-> Seed]
  /\ index = [t \in SentimentTopics |-> 0]

NewsNext ==
  \/ prepareNewsStoryBatch
  \/ startDecisions \/ skipDecisions \/ decide \/ finishDecisions
  \/ applyWork \/ updateSentiment
  \/ operatorControls

NewsSpec == NewsInit /\ [][NewsNext]_newsVars

-----------------------------------------------------------------------------
(* What the tables of the news and of the sentiment accept. *)
NewsStoryRows ==
  [kind : Kinds, author : ToSet(Journalists), tick : 1..MaxTick,
   status : {"published", "spiked"}, reach : 0..SENTIMENT_EXPOSURE_BUCKETS]

SentimentRows == [tick : 0..MaxTick, value : -SENTIMENT_VALUE_LIMIT..SENTIMENT_VALUE_LIMIT]

OpinionRows == [OpinionAxes -> -opinionLimit..opinionLimit]

NewsTypeOK ==
  /\ llmOff \in BOOLEAN /\ stage \in {"night", "prepared", "deciding", "news", "sentiment"}
  /\ \A i \in DOMAIN stories :
       stories[i] \in NewsStoryRows /\ (stories[i].status = "published" <=> stories[i].reach > 0)
  /\ \A t \in SentimentTopics : latest[t] \in SentimentRows
  /\ \A a \in Agent : opinion[a] \in OpinionRows
  /\ digested \in -1..(MaxTick - 1)

(* An edition has one story per topic at most, each of an event of the tick
   before, StoryCap in all, and no more of one author than the decision phase
   had set aside: the unique keys of the story table are never met. *)
EditionSound ==
  /\ Cardinality(DOMAIN stories) <= StoryCap
  /\ \A i, j \in DOMAIN stories : i # j => stories[i].kind.topic # stories[j].kind.topic
  /\ stage = "sentiment" =>
       /\ digested = tick - 1
       /\ \A i \in DOMAIN stories : stories[i].tick = tick /\ stories[i].kind \in Last(recent)
       /\ \A a \in Agent :
            LET written == Cardinality({i \in DOMAIN stories : stories[i].author = a})
            IN  written = reserved(a) /\ (written > 0 => started[a] >= written)

getEffectiveSentiment(topic, throughTick) ==
  decaySentimentAcrossTicks(latest[topic].value, throughTick - latest[topic].tick)

(* An index is written only in the ticks that have a story for it.  What a
   decision reads of it, decayed up to the tick before, is what a daily
   reckoning would show, each day's truncation included. *)
SparseIndexExact ==
  LET through == IF stage \in {"night", "prepared"} THEN tick ELSE tick - 1
  IN  \A t \in SentimentTopics : getEffectiveSentiment(t, through) = index[t]

(* Only a published story of the tick moves an opinion, by five points at most
   on an axis; a spiked one moves neither index nor opinion. *)
OpinionsFollowStories ==
  [][/\ \A a \in Agent, x \in OpinionAxes :
          opinion'[a][x] # opinion[a][x] =>
            /\ \E i \in published : stories[i].kind.polarity * opinionDirection(stories[i].kind.topic, x) # 0
            /\ opinion'[a][x] - opinion[a][x] \in -5..5
     /\ latest' # latest => published # {}]_newsVars

(* What holds of the newspaper and the mood it leaves, in every state. *)
NewsSound == QuarantineTypeOK /\ NewsTypeOK /\ EditionSound /\ SparseIndexExact

(* What a tick does to an agent: to its quarantine and to its opinions. *)
AgentsKept == QuarantineEarned /\ StandingNotShortened /\ OpinionsFollowStories
=============================================================================
