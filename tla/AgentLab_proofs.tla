---------------------------- MODULE AgentLab_proofs ----------------------------
(***************************************************************************)
(* Theorems about AgentLab for every cohort, menu, deadline and number of  *)
(* crashes, those between two statements of the store included: the turns  *)
(* of the lab implement the contract with whoever controls a citizen,      *)
(* nothing of a revoked controller is applied, receipts tell what the      *)
(* world did, and the journal can be replayed.                             *)
(***************************************************************************)
EXTENDS AgentLab, FiniteSetTheorems, TLAPS

Receipts == {"none", "queued"} \cup FinalReceipts

Clock == Int

Row == [status : {"none", "open", "submitted", "terminal"}, target : Clock, left : Clock,
        action : SubmissionRows, receipt : Receipts, sealed : BOOLEAN]

(* A turn without an answer shows none, and one that has ended its verdict; *)
(* "fallback" may be written before the turn is.                            *)
RowSound(t) ==
  /\ t \in Row
  /\ t.status \in {"none", "open"} => t.action = NoAction
  /\ t.status = "none" => t.receipt = "none"
  /\ t.status = "open" => t.receipt \in {"none", "fallback"}
  /\ t.status = "submitted" => t.receipt \in {"queued", "fallback"}
  /\ t.status = "terminal" => t.receipt \in FinalReceipts

(* Nobody can answer a half-expired turn: its deadline is over or its       *)
(* citizen has no controller any more.                                      *)
Excused(k) == stuck(turns[k]) => overdue(turns[k]) \/ AgentOf[k] \notin credentials

TurnInv ==
  /\ tick \in Nat /\ turns = [k \in KeySet |-> turns[k]]
  /\ \A k \in KeySet : RowSound(turns[k]) /\ Excused(k)

AbstractVars == <<Stages, Accepted, Verdicts>>

(* Two ways a step treats a turn it neither offers nor answers: what its    *)
(* controller sees stays, or the turn gets its final receipt.               *)
Kept(u, t) ==
  u.action = t.action /\ u.receipt = t.receipt /\ (u.status = "none" <=> t.status = "none")
Ends(u, t) ==
  /\ t.receipt \notin FinalReceipts /\ u.status # "none" /\ u.action = t.action
  /\ u.receipt \in FinalReceipts \ {"shadowed"}
  /\ t.receipt # "queued" => u.receipt = "fallback"
Treated(u, t) == RowSound(u) /\ (Kept(u, t) \/ Ends(u, t))

-----------------------------------------------------------------------------
(* The functions of the turn store on a row *)

(* Times are numbers; the steps about rows need no more of them than this.  *)
LEMMA Times == 0 \in Clock /\ Deadline \in Clock /\ (tick \in Nat => tick + 1 \in Clock)
BY TrialAssumption DEF Clock

LEMMA UnansweredSound == RowSound(unanswered)
BY Times DEF RowSound, unanswered, Row, SubmissionRows, Receipts

LEMMA EndedSound ==
  ASSUME NEW t \in Row, NEW receipt \in FinalReceipts
  PROVE  /\ RowSound(ended(t, receipt))
         /\ ended(t, receipt).status = "terminal" /\ ended(t, receipt).receipt = receipt
         /\ ended(t, receipt).action = t.action
<1>1. receipt \in Receipts
  BY DEF Receipts
<1>2. ended(t, receipt) \in Row
  BY <1>1, Times DEF ended, Row
<1>3. /\ ended(t, receipt).status = "terminal" /\ ended(t, receipt).receipt = receipt
      /\ ended(t, receipt).action = t.action
  BY DEF ended, Row
<1> QED BY <1>2, <1>3 DEF RowSound

(* An expiry leaves a final receipt, the one that was there if one was.     *)
LEMMA ExpiredSound ==
  ASSUME NEW t, RowSound(t)
  PROVE  /\ Treated(expireTurn(t), t) /\ expireTurn(t).status # "none"
         /\ expireTurn(t).action = t.action /\ expireTurn(t).receipt \in FinalReceipts
         /\ t.receipt \notin FinalReceipts => expireTurn(t).receipt = "fallback"
         /\ stuck(expireTurn(t)) => expireTurn(t) = t
<1>1. CASE t.status = "terminal" \/ stuck(t)
  BY <1>1 DEF expireTurn, Treated, Kept, RowSound, stuck, FinalReceipts
<1>2. CASE ~(t.status = "terminal" \/ stuck(t))
  <2>1. /\ RowSound(expireTurn(t)) /\ expireTurn(t).status = "terminal"
        /\ expireTurn(t).receipt = "fallback" /\ expireTurn(t).action = t.action
    BY <1>2, EndedSound DEF expireTurn, FinalReceipts, RowSound
  <2>2. t.receipt \in FinalReceipts => t.receipt = "fallback" /\ t.status # "none"
    BY <1>2 DEF RowSound, Row, FinalReceipts
  <2> QED BY <2>1, <2>2 DEF Treated, Kept, Ends, stuck, FinalReceipts
<1> QED BY <1>1, <1>2

(* So does the first of its two statements alone.                           *)
LEMMA HalvedSound ==
  ASSUME NEW t, RowSound(t), pending(t)
  PROVE  /\ Treated(halfExpired(t), t) /\ halfExpired(t).status = t.status
         /\ halfExpired(t).action = t.action /\ halfExpired(t).receipt = "fallback"
         /\ overdue(t) => overdue(halfExpired(t))
<1> DEFINE u == halfExpired(t)
<1>1. /\ u \in Row /\ u.status = t.status /\ u.action = t.action /\ u.receipt = "fallback"
      /\ u.left = t.left
  BY DEF halfExpired, RowSound, Row, Receipts, FinalReceipts
<1> HIDE DEF u
<1>2. RowSound(u)
  BY <1>1 DEF RowSound, pending, FinalReceipts
<1>3. Kept(u, t) \/ Ends(u, t)
  BY <1>1 DEF RowSound, pending, Kept, Ends, FinalReceipts
<1> QED BY <1>1, <1>2, <1>3 DEF Treated, overdue, pending, u

LEMMA EnvelopeSound ==
  ASSUME tick \in Nat, NEW k
  PROVE  /\ RowSound(envelopeFor(k)) /\ envelopeFor(k).status = "open"
         /\ envelopeFor(k).action = NoAction /\ envelopeFor(k).receipt = "none"
<1>1. unanswered \in Row /\ unanswered.action = NoAction /\ unanswered.receipt = "none"
  BY UnansweredSound DEF RowSound, unanswered
<1>2. envelopeFor(k) \in Row
  BY <1>1, Times DEF envelopeFor, Row
<1>3. /\ envelopeFor(k).status = "open" /\ envelopeFor(k).action = unanswered.action
      /\ envelopeFor(k).receipt = unanswered.receipt
  BY <1>1 DEF envelopeFor, Row
<1> QED BY <1>1, <1>2, <1>3 DEF RowSound

(* A turn as it is offered, whole or cut short by a crash.                  *)
LEMMA OpenedSound ==
  ASSUME tick \in Nat, NEW k, NEW u \in {openTurn(k), envelopeFor(k), halfExpired(envelopeFor(k))}
  PROVE  /\ RowSound(u) /\ u.action = NoAction /\ u.status # "none"
         /\ u.receipt \in {"none", "fallback"}
         /\ u = openTurn(k) => ~stuck(u)
<1>1. /\ RowSound(envelopeFor(k)) /\ pending(envelopeFor(k)) /\ envelopeFor(k).status = "open"
      /\ envelopeFor(k).action = NoAction /\ envelopeFor(k).receipt = "none"
  BY EnvelopeSound DEF pending
<1>2. /\ ~stuck(envelopeFor(k)) /\ envelopeFor(k).receipt \notin FinalReceipts
  BY <1>1 DEF stuck, FinalReceipts
<1>3. ~stuck(expireTurn(envelopeFor(k)))
  BY <1>1, <1>2, ExpiredSound
<1>4. openTurn(k) \in {envelopeFor(k), expireTurn(envelopeFor(k))}
  BY DEF openTurn
<1> HIDE DEF stuck
<1> QED BY <1>1, <1>2, <1>3, <1>4, ExpiredSound, HalvedSound DEF Treated

LEMMA FinalizedSound ==
  ASSUME NEW t, RowSound(t), NEW status \in FinalReceipts \ {"shadowed"}
  PROVE  /\ Treated(finalizeTurn(t, status), t)
         /\ stuck(finalizeTurn(t, status)) => finalizeTurn(t, status) = t
<1>1. CASE t.status = "open" \/ ~acceptedSubmission(t)
  BY <1>1, ExpiredSound DEF finalizeTurn
<1>2. CASE t.status # "open" /\ acceptedSubmission(t) /\ t.receipt # "queued"
  <2>1. finalizeTurn(t, status) = t
    BY <1>2 DEF finalizeTurn
  <2> QED BY <2>1 DEF Treated, Kept
<1>3. CASE t.status # "open" /\ acceptedSubmission(t) /\ t.receipt = "queued"
  <2>1. finalizeTurn(t, status) = ended(t, status)
    BY <1>3 DEF finalizeTurn
  <2> QED BY <1>3, <2>1, EndedSound DEF RowSound, Treated, Ends, stuck, FinalReceipts
<1> QED BY <1>1, <1>2, <1>3

(* What a loop of expiries, whole or cut short, leaves of each row.         *)
LEMMA LoopRows ==
  ASSUME NEW D, \E E \in loopEnds(D) : turns' = expired(E)
  PROVE  /\ turns' = [k \in KeySet |-> turns'[k]]
         /\ \A k \in KeySet : turns'[k] = turns[k] \/ (k \in D /\ turns'[k] = expireTurn(turns[k]))
BY DEF loopEnds, prefixes, expired

LEMMA InterruptedRows ==
  ASSUME NEW D, interrupted(D)
  PROVE  /\ turns' = [k \in KeySet |-> turns'[k]]
         /\ \A k \in KeySet :
              \/ turns'[k] = turns[k]
              \/ k \in D /\ turns'[k] \in {expireTurn(turns[k]), halfExpired(turns[k])}
<1>1. PICK E \in prefixes(D) :
        \/ turns' = expired(E)
        \/ \E k \in E : turns' = [expired(E \ {k}) EXCEPT ![k] = halfExpired(turns[k])]
  BY DEF interrupted
<1>2. E \subseteq D
  BY DEF prefixes
<1>3. CASE turns' = expired(E)
  BY <1>2, <1>3 DEF expired
<1>4. CASE \E k \in E : turns' = [expired(E \ {k}) EXCEPT ![k] = halfExpired(turns[k])]
  BY <1>2, <1>4 DEF expired
<1> QED BY <1>1, <1>3, <1>4

-----------------------------------------------------------------------------
(* Steps that only end turns                                                *)

LEMMA StageForms ==
  ASSUME NEW t
  PROVE  /\ t.receipt \in FinalReceipts => stageOf(t) = "ended"
         /\ t.receipt = "queued" => stageOf(t) = "queued"
         /\ t.receipt = "none" => stageOf(t) = IF t.status = "none" THEN "unoffered" ELSE "open"
BY DEF stageOf, FinalReceipts

LEMMA EndingStep ==
  ASSUME TurnInv, \A k \in KeySet : Treated(turns'[k], turns[k])
  PROVE  [Turn!Next]_AbstractVars
<1> DEFINE group == {k \in KeySet : Ends(turns'[k], turns[k])}
           v == [k \in group |-> turns'[k].receipt]
<1>1. \A k \in KeySet \ group : /\ stageOf(turns'[k]) = stageOf(turns[k])
                               /\ verdictOf(turns'[k]) = verdictOf(turns[k])
  BY DEF Treated, Kept, stageOf, verdictOf
<1>2. \A k \in group : /\ stageOf(turns[k]) # "ended" /\ stageOf(turns'[k]) = "ended"
                       /\ verdictOf(turns'[k]) = v[k] /\ v[k] \in Turn!Verdicts \ {"shadowed"}
                       /\ stageOf(turns[k]) # "queued" => v[k] \in Turn!Unanswered
  BY DEF Ends, stageOf, verdictOf, TurnInv, RowSound, Row, Turn!Verdicts, Turn!Unanswered, FinalReceipts
<1>3. UNCHANGED Accepted
  BY DEF Accepted, Treated, Kept, Ends
<1>4. CASE group = {}
  <2>1. UNCHANGED Stages /\ UNCHANGED Verdicts
    BY <1>1, <1>4 DEF Stages, Verdicts
  <2> QED BY <2>1, <1>3 DEF AbstractVars
<1>5. CASE group # {}
  <2>1. \A k \in group : Stages[k] # "ended"
    BY <1>2 DEF Stages
  <2>2. Stages' = [k \in KeySet |-> IF k \in group THEN "ended" ELSE Stages[k]]
    BY <1>1, <1>2 DEF Stages
  <2>3. v \in [group -> Turn!Verdicts \ {"shadowed"}]
    BY <1>2
  <2>4. \A k \in group : Stages[k] # "queued" => v[k] \in Turn!Unanswered
    BY <1>2 DEF Stages
  <2>5. Verdicts' = [k \in KeySet |-> IF k \in group THEN v[k] ELSE Verdicts[k]]
    BY <1>1, <1>2 DEF Verdicts
  <2>6. Turn!End(group)
    BY <1>3, <1>5, <2>1, <2>2, <2>3, <2>4, <2>5 DEF Turn!End
  <2> QED BY <2>6 DEF Turn!Next
<1> QED BY <1>4, <1>5

(* A step that replaces every row by one that keeps or ends it.             *)
LEMMA MappedStep ==
  ASSUME TurnInv, tick' \in Nat, turns' = [k \in KeySet |-> turns'[k]],
         \A k \in KeySet : Treated(turns'[k], turns[k]) /\ Excused(k)'
  PROVE  TurnInv' /\ [Turn!Next]_AbstractVars
BY EndingStep DEF TurnInv, Treated

LEMMA SameTreated == ASSUME NEW t, RowSound(t) PROVE Treated(t, t)
BY DEF Treated, Kept

(* A turn is excused for good, and so is one that is not half-expired.      *)
LEMMA ExcusedStays ==
  ASSUME TurnInv, credentials' \subseteq credentials, NEW k \in KeySet,
         turns'[k] = turns[k] \/ ~stuck(turns'[k])
  PROVE  Excused(k)'
BY DEF TurnInv, Excused

LEMMA UnchangedStep ==
  ASSUME TurnInv, tick' \in Nat, UNCHANGED turns, credentials' \subseteq credentials
  PROVE  TurnInv' /\ [Turn!Next]_AbstractVars
BY ExcusedStays, SameTreated, MappedStep DEF TurnInv

(* Loops of expiries.                                                       *)
LEMMA ExpiringStep ==
  ASSUME TurnInv, tick' \in Nat, credentials' \subseteq credentials,
         turns' = [k \in KeySet |-> turns'[k]],
         \A k \in KeySet : turns'[k] \in {turns[k], expireTurn(turns[k])}
  PROVE  TurnInv' /\ [Turn!Next]_AbstractVars
<1>1. ASSUME NEW k \in KeySet PROVE Treated(turns'[k], turns[k]) /\ Excused(k)'
  <2>1. RowSound(turns[k])
    BY DEF TurnInv
  <2>2. CASE turns'[k] = turns[k]
    BY <2>1, <2>2, SameTreated, ExcusedStays
  <2>3. CASE turns'[k] = expireTurn(turns[k])
    BY <2>1, <2>3, ExpiredSound, ExcusedStays
  <2> QED BY <2>2, <2>3
<1> QED BY <1>1, MappedStep

LEMMA InterruptedStep ==
  ASSUME TurnInv, tick' \in Nat, credentials' \subseteq credentials, NEW D, interrupted(D),
         \A k \in KeySet \cap D : pending(turns[k]) /\ (overdue(turns[k]) \/ AgentOf[k] \notin credentials')
  PROVE  TurnInv' /\ [Turn!Next]_AbstractVars
<1>1. ASSUME NEW k \in KeySet PROVE Treated(turns'[k], turns[k]) /\ Excused(k)'
  <2>1. RowSound(turns[k])
    BY DEF TurnInv
  <2>2. CASE turns'[k] = turns[k]
    BY <2>1, <2>2, SameTreated, ExcusedStays
  <2>3. CASE turns'[k] = expireTurn(turns[k])
    BY <2>1, <2>3, ExpiredSound, ExcusedStays
  <2>4. CASE k \in D /\ turns'[k] = halfExpired(turns[k])
    BY <2>1, <2>4, HalvedSound DEF Excused
  <2> QED BY <2>2, <2>3, <2>4, InterruptedRows
<1> QED BY <1>1, InterruptedRows, MappedStep

(* A turn is offered, or offered to a citizen nobody controls any more.     *)
LEMMA OpeningStep ==
  ASSUME TurnInv, tick' \in Nat, UNCHANGED credentials, NEW k, ~conflictingTurn(k),
         NEW u \in {openTurn(k), envelopeFor(k), halfExpired(envelopeFor(k))},
         turns' = [turns EXCEPT ![k] = u], u = openTurn(k) \/ AgentOf[k] \notin credentials
  PROVE  TurnInv' /\ [Turn!Next]_AbstractVars
<1>1. CASE k \notin KeySet
  BY <1>1, UnchangedStep DEF TurnInv
<1>2. CASE k \in KeySet
  <2>1. /\ turns' = [j \in KeySet |-> turns'[j]] /\ turns'[k] = u
        /\ \A j \in KeySet \ {k} : turns'[j] = turns[j]
    BY <1>2 DEF TurnInv
  <2>2. turns[k].status = "none" /\ turns[k].action = NoAction /\ turns[k].receipt = "none"
    BY <1>2 DEF TurnInv, RowSound, conflictingTurn
  <2>3. /\ RowSound(u) /\ u.action = NoAction /\ u.status # "none" /\ u.receipt \in {"none", "fallback"}
        /\ Excused(k)'
    <3>1. tick \in Nat
      BY DEF TurnInv
    <3> QED BY <2>1, <3>1, OpenedSound DEF Excused
  <2>4. ASSUME NEW j \in KeySet, j # k PROVE Treated(turns'[j], turns[j]) /\ Excused(j)'
    BY <2>1, <2>4, SameTreated, ExcusedStays DEF TurnInv
  <2>5. CASE u.receipt = "fallback"
    <3>1. Treated(turns'[k], turns[k])
      BY <2>1, <2>2, <2>3, <2>5 DEF Treated, Ends, FinalReceipts
    <3> QED BY <3>1, <2>1, <2>3, <2>4, MappedStep
  <2>6. CASE u.receipt = "none"
    <3>1. TurnInv'
      BY <2>1, <2>3, <2>4 DEF TurnInv, Treated
    <3>2. stageOf(turns[k]) = "unoffered" /\ stageOf(turns'[k]) = "open"
      BY <2>1, <2>2, <2>3, <2>6 DEF stageOf, FinalReceipts
    <3>3. verdictOf(turns[k]) = "none" /\ verdictOf(turns'[k]) = "none"
      BY <2>1, <2>2, <2>6 DEF verdictOf, FinalReceipts
    <3>4. Stages[k] = "unoffered" /\ Stages' = [Stages EXCEPT ![k] = "open"]
      BY <1>2, <2>1, <3>2 DEF Stages
    <3>5. UNCHANGED <<Accepted, Verdicts>>
      BY <1>2, <2>1, <2>2, <2>3, <3>3 DEF Accepted, Verdicts
    <3> QED BY <1>2, <3>1, <3>4, <3>5 DEF Turn!Offer, Turn!Next
  <2> QED BY <2>3, <2>5, <2>6
<1> QED BY <1>1, <1>2

(* A submission is accepted, or comes when its deadline is over.            *)
LEMMA SubmittingStep ==
  ASSUME TurnInv, NEW k \in KeySet, NEW action \in Options, submit(k, action)
  PROVE  TurnInv' /\ [Turn!Next]_AbstractVars
<1> DEFINE t == turns[k]
<1>1. tick' \in Nat /\ RowSound(t) /\ t \in Row /\ t.status = "open" /\ credentials' = credentials
  BY DEF TurnInv, RowSound, submit, sidecar
<1>2. turns' = [j \in KeySet |-> turns'[j]] /\ \A j \in KeySet \ {k} : turns'[j] = turns[j]
  BY DEF TurnInv, submit
<1>3. action \in SubmissionRows /\ "queued" \in Receipts
  BY DEF SubmissionRows, Receipts
<1>4. CASE overdue(t)
  <2>1. turns'[k] = expireTurn(t)
    BY <1>4 DEF submit, TurnInv
  <2>2. \A j \in KeySet : turns'[j] \in {turns[j], expireTurn(turns[j])}
    BY <1>2, <2>1
  <2> QED BY <1>1, <1>2, <2>2, ExpiringStep
<1>5. CASE ~overdue(t)
  <2>0. t.receipt = "none"
    BY <1>1, <1>5 DEF TurnInv, Excused, stuck, submit, authenticate
  <2>1. CASE controllerForAgent(k) = "shadow"
    <3> DEFINE s == [t EXCEPT !.action = action]
    <3>1. s \in Row /\ s.action = action
      BY <1>1, <1>3 DEF Row
    <3>2. turns'[k] = ended(s, "shadowed") /\ "shadowed" \in FinalReceipts
      BY <1>5, <2>1 DEF submit, TurnInv, FinalReceipts
    <3> HIDE DEF s
    <3>3. /\ RowSound(turns'[k]) /\ turns'[k].status = "terminal"
          /\ turns'[k].receipt = "shadowed" /\ turns'[k].action = action
      BY <3>1, <3>2, EndedSound
    <3>4. TurnInv'
      BY <1>1, <1>2, <3>3, ExcusedStays DEF TurnInv, stuck
    <3>4a. stageOf(t) = "open" /\ stageOf(turns'[k]) = "ended"
      BY <1>1, <2>0, <3>2, <3>3, StageForms
    <3>5. Stages[k] = "open" /\ Stages' = [Stages EXCEPT ![k] = "ended"]
      BY <1>2, <3>4a DEF Stages
    <3>6. Accepted' = [Accepted EXCEPT ![k] = action]
      BY <1>2, <3>3 DEF Accepted
    <3>7. Verdicts' = [Verdicts EXCEPT ![k] = "shadowed"]
      BY <1>2, <3>3 DEF Verdicts, verdictOf, FinalReceipts
    <3> QED BY <3>4, <3>5, <3>6, <3>7 DEF Turn!Answer, Turn!Next
  <2>2. CASE controllerForAgent(k) # "shadow"
    <3>1. turns'[k] = [t EXCEPT !.status = "submitted", !.action = action, !.receipt = "queued"]
      BY <1>5, <2>2 DEF submit, TurnInv
    <3>2. /\ turns'[k] \in Row /\ turns'[k].status = "submitted"
          /\ turns'[k].receipt = "queued" /\ turns'[k].action = action
      BY <1>1, <1>3, <3>1 DEF Row
    <3>3. TurnInv'
      BY <1>1, <1>2, <3>2, ExcusedStays DEF TurnInv, RowSound, stuck
    <3>3a. stageOf(t) = "open" /\ stageOf(turns'[k]) = "queued"
      BY <1>1, <2>0, <3>2, StageForms
    <3>4. Stages[k] = "open" /\ Stages' = [Stages EXCEPT ![k] = "queued"]
      BY <1>2, <3>3a DEF Stages
    <3>5. Accepted' = [Accepted EXCEPT ![k] = action]
      BY <1>2, <3>2 DEF Accepted
    <3>6. UNCHANGED Verdicts
      BY <1>2, <2>0, <3>2 DEF Verdicts, verdictOf, FinalReceipts
    <3> QED BY <3>3, <3>4, <3>5, <3>6 DEF Turn!Answer, Turn!Next
  <2> QED BY <2>1, <2>2
<1> QED BY <1>4, <1>5

-----------------------------------------------------------------------------
(* Every step                                                               *)

LEMMA InitStep == Init => TurnInv /\ Turn!Init
<1> SUFFICES ASSUME Init PROVE TurnInv /\ Turn!Init
  OBVIOUS
<1>1. TurnInv
  <2>1. turns = [k \in KeySet |-> unanswered] /\ tick = 0
    BY DEF Init
  <2>2. ~stuck(unanswered)
    BY DEF stuck, unanswered
  <2> QED BY <2>1, <2>2, UnansweredSound DEF TurnInv, Excused
<1>2. Stages = [k \in KeySet |-> "unoffered"]
  <2>1. stageOf(unanswered) = "unoffered" /\ turns = [k \in KeySet |-> unanswered]
    BY StageForms DEF Init, unanswered
  <2> QED BY <2>1 DEF Stages
<1>3. Accepted = [k \in KeySet |-> NoAction] /\ Verdicts = [k \in KeySet |-> "none"]
  BY DEF Init, Accepted, Verdicts, verdictOf, unanswered, FinalReceipts
<1> QED BY <1>1, <1>2, <1>3 DEF Turn!Init

(* The clock and the seal change what no controller sees.                   *)
LEMMA PassingStep ==
  ASSUME TurnInv, passTime \/ finalizePostTick \/ crashInSealing
  PROVE  TurnInv' /\ [Turn!Next]_AbstractVars
<1>1. tick' \in Nat /\ turns' = [k \in KeySet |-> turns'[k]] /\ credentials' = credentials
  BY DEF TurnInv, passTime, finalizePostTick, crashInSealing, restart, sealedTurns, sidecar
<1>2. ASSUME NEW k \in KeySet PROVE Treated(turns'[k], turns[k]) /\ Excused(k)'
  <2>1. turns[k] \in Row /\ RowSound(turns[k]) /\ Excused(k)
    BY DEF TurnInv, RowSound
  <2>2. CASE passTime
    <3> DEFINE left == IF pending(turns[k]) /\ turns[k].left >= 0 THEN turns[k].left - 1 ELSE turns[k].left
    <3>1. turns'[k] = [turns[k] EXCEPT !.left = left]
      BY <2>2 DEF passTime
    <3>2. left \in Clock
      BY <2>1 DEF Row, Clock
    <3>3. turns[k].left < 0 => left < 0
      BY <2>1 DEF Row, Clock
    <3> HIDE DEF left
    <3>4. /\ turns'[k] \in Row /\ turns'[k].status = turns[k].status /\ turns'[k].action = turns[k].action
          /\ turns'[k].receipt = turns[k].receipt /\ turns'[k].left = left
      BY <2>1, <3>1, <3>2 DEF Row
    <3>5. Treated(turns'[k], turns[k])
      BY <2>1, <3>4 DEF RowSound, Treated, Kept
    <3>6. Excused(k)'
      BY <1>1, <2>1, <3>3, <3>4 DEF Excused, stuck, overdue, pending
    <3> QED BY <3>5, <3>6
  <2>3. CASE \E S : turns' = sealedTurns(S)
    <3>1. PICK S : turns' = sealedTurns(S)
      BY <2>3
    <3> DEFINE sealed == turns[k].sealed \/ k \in S
    <3>2. turns'[k] = [turns[k] EXCEPT !.sealed = sealed]
      BY <3>1 DEF sealedTurns
    <3>3. sealed \in BOOLEAN
      BY <2>1 DEF Row
    <3> HIDE DEF sealed
    <3>4. /\ turns'[k] \in Row /\ turns'[k].status = turns[k].status /\ turns'[k].action = turns[k].action
          /\ turns'[k].receipt = turns[k].receipt /\ turns'[k].left = turns[k].left
      BY <2>1, <3>2, <3>3 DEF Row
    <3>5. Treated(turns'[k], turns[k])
      BY <2>1, <3>4 DEF RowSound, Treated, Kept
    <3>6. Excused(k)'
      BY <1>1, <2>1, <3>4 DEF Excused, stuck, overdue, pending
    <3> QED BY <3>5, <3>6
  <2> QED BY <2>2, <2>3 DEF finalizePostTick, crashInSealing
<1> QED BY <1>1, <1>2, MappedStep

LEMMA TickStep ==
  ASSUME TurnInv, applyTick
  PROVE  TurnInv' /\ [Turn!Next]_AbstractVars
<1>1. PICK verdicts \in registryVerdicts : turns' = finalizeTurns(decided(verdicts))
  BY DEF applyTick
<1>2. tick' \in Nat /\ turns' = [k \in KeySet |-> turns'[k]] /\ credentials' = credentials
  BY <1>1 DEF applyTick, TurnInv, finalizeTurns
<1>3. ASSUME NEW d PROVE finalStatus(d) \in FinalReceipts \ {"shadowed"}
  BY DEF finalStatus, FinalReceipts
<1>4. \A k \in KeySet : \/ turns'[k] = turns[k]
                        \/ \E status \in FinalReceipts \ {"shadowed"} : turns'[k] = finalizeTurn(turns[k], status)
  BY <1>1, <1>3 DEF finalizeTurns
<1>5. ASSUME NEW k \in KeySet PROVE Treated(turns'[k], turns[k]) /\ Excused(k)'
  <2>1. RowSound(turns[k])
    BY DEF TurnInv
  <2>2. CASE turns'[k] = turns[k]
    BY <1>2, <2>1, <2>2, SameTreated, ExcusedStays
  <2>3. CASE \E status \in FinalReceipts \ {"shadowed"} : turns'[k] = finalizeTurn(turns[k], status)
    BY <1>2, <2>1, <2>3, FinalizedSound, ExcusedStays
  <2> QED BY <1>4, <2>2, <2>3
<1> QED BY <1>2, <1>5, MappedStep

(* The crashes that part what the store writes.                             *)
LEMMA CrashStep ==
  ASSUME TurnInv, crashInExpiry \/ crashInOffer \/ \E agent \in Cohort : crashInRevocation(agent)
  PROVE  TurnInv' /\ [Turn!Next]_AbstractVars
<1>1. tick' \in Nat
  BY DEF TurnInv, crashInExpiry, crashInOffer, crashInRevocation, restart
<1>2. CASE crashInExpiry
  <2>1. credentials' = credentials
    BY <1>2 DEF crashInExpiry
  <2>2. CASE interrupted(dueTurns)
    BY <1>1, <2>1, <2>2, InterruptedStep DEF dueTurns, overdue
  <2>3. CASE overdue(turns[next]) /\ interrupted({next})
    <3>1. \A k \in KeySet \cap {next} : pending(turns[k]) /\ overdue(turns[k])
      BY <2>3 DEF overdue
    <3> HIDE DEF next
    <3> QED BY <1>1, <2>1, <2>3, <3>1, InterruptedStep
  <2> QED BY <1>2, <2>2, <2>3 DEF crashInExpiry
<1>3. CASE crashInOffer
  <2>1. /\ UNCHANGED credentials /\ ~conflictingTurn(next) /\ AgentOf[next] \notin credentials
        /\ \E u \in {envelopeFor(next), halfExpired(envelopeFor(next))} : turns' = [turns EXCEPT ![next] = u]
    BY <1>3 DEF crashInOffer
  <2> HIDE DEF next
  <2> QED BY <1>1, <2>1, OpeningStep
<1>4. CASE \E agent \in Cohort : crashInRevocation(agent)
  <2>1. PICK agent \in Cohort : crashInRevocation(agent)
    BY <1>4
  <2>2. credentials' = credentials \ {agent} /\ interrupted(turnsOf(agent))
    BY <2>1 DEF crashInRevocation
  <2>3. \A k \in KeySet \cap turnsOf(agent) : pending(turns[k]) /\ AgentOf[k] \notin credentials'
    BY <2>2 DEF turnsOf
  <2> QED BY <1>1, <2>2, <2>3, InterruptedStep
<1> QED BY <1>2, <1>3, <1>4

LEMMA TurnStep == TurnInv /\ [Next]_vars => TurnInv' /\ [Turn!Next]_AbstractVars
<1> SUFFICES ASSUME TurnInv, [Next]_vars PROVE TurnInv' /\ [Turn!Next]_AbstractVars
  OBVIOUS
<1>1. CASE proposeNative \/ tickThrows \/ crash \/ UNCHANGED vars
  BY <1>1, UnchangedStep DEF proposeNative, tickThrows, crash, restart, vars, TurnInv
<1>2. CASE proposeShadow
  BY <1>2, UnchangedStep, OpeningStep DEF proposeShadow, openShadowTurn, TurnInv
<1>3. CASE proposeExternal
  BY <1>3, UnchangedStep, OpeningStep DEF proposeExternal, TurnInv
<1>4. CASE waitForAcceptedSubmission
  <2>1. tick' \in Nat /\ credentials' \subseteq credentials
    BY <1>4 DEF waitForAcceptedSubmission, TurnInv
  <2>2. CASE UNCHANGED turns
    BY <2>1, <2>2, UnchangedStep
  <2>3. CASE turns' = [turns EXCEPT ![next] = expireTurn(turns[next])]
    <3>1. turns' = [k \in KeySet |-> turns'[k]]
          /\ \A k \in KeySet : turns'[k] \in {turns[k], expireTurn(turns[k])}
      BY <2>3 DEF TurnInv
    <3> QED BY <2>1, <3>1, ExpiringStep
  <2> QED BY <1>4, <2>2, <2>3 DEF waitForAcceptedSubmission
<1>5. CASE applyTick
  BY <1>5, TickStep
<1>6. CASE passTime \/ finalizePostTick \/ crashInSealing
  BY <1>6, PassingStep
<1>7. CASE \/ \E k \in KeySet : fireShadowTimer(k)
           \/ \E agent \in Cohort : turnForIdentity(agent) \/ revokeCredential(agent)
  <2>1. tick' \in Nat /\ credentials' \subseteq credentials
    BY <1>7 DEF fireShadowTimer, turnForIdentity, revokeCredential, sidecar, TurnInv
  <2>2. \E D : \E E \in loopEnds(D) : turns' = expired(E)
    BY <1>7 DEF fireShadowTimer, turnForIdentity, revokeCredential, expireDueTurns, expireOpenTurnsForAgent
  <2> QED BY <2>1, <2>2, LoopRows, ExpiringStep
<1>8. CASE crashInExpiry \/ crashInOffer \/ \E agent \in Cohort : crashInRevocation(agent)
  BY <1>8, CrashStep
<1>9. CASE \E k \in KeySet, action \in Options : submit(k, action)
  BY <1>9, SubmittingStep
<1> QED BY <1>1, <1>2, <1>3, <1>4, <1>5, <1>6, <1>7, <1>8, <1>9 DEF Next, advance, prepare

(* Whatever deadlines, polls, revocations, ticks and crashes do, a turn is  *)
(* offered once, takes at most one answer and ends once, with a verdict     *)
(* that is never revised, not even by those that find its expiry half       *)
(* written (agent-lab-store.ts).                                            *)
THEOREM ImplementsTurnHolds == Spec => ImplementsTurn
<1>1. Init => TurnInv /\ Turn!Init
  BY InitStep
<1>2. TurnInv /\ [Next]_vars => TurnInv' /\ [Turn!Next]_<<Stages, Accepted, Verdicts>>
  BY TurnStep DEF AbstractVars
<1> QED BY <1>1, <1>2, PTL DEF Spec, ImplementsTurn, Turn!Spec

-----------------------------------------------------------------------------
(* Receipts, turns and the proposals of the coming tick                     *)

External(k) == controllerForAgent(k) = "external"

(* Under way is a turn whose receipt is still to come, or whose expiry is   *)
(* to be completed and cannot be.                                           *)
UnderWay(t) == t.status = "open" \/ t.receipt = "queued"

(* How a step between two ticks may treat a turn: it stays as it was for    *)
(* the tick or ends; it is opened for the coming tick; it is answered.      *)
Quiet(u, t) ==
  /\ u \in TurnRows /\ u.target = t.target /\ u.action = t.action
  /\ \A receipt \in {"applied", "queued"} : u.receipt = receipt => t.receipt = receipt
  /\ UnderWay(u) => UnderWay(t)
  /\ u.status = "none" => t.status = "none"
  /\ stuck(t) => stuck(u)
Opened(u, t) ==
  /\ t.status = "none" /\ u.status # "none" /\ u \in TurnRows
  /\ u.target = tick + 1 /\ u.receipt \in {"none", "fallback"}
Answered(u, t) ==
  /\ t.status = "open" /\ ~stuck(t) /\ u.status \in {"submitted", "terminal"} /\ u \in TurnRows
  /\ u.target = t.target /\ u.receipt # "applied"

(* The turn of an answer that was taken holds that answer, for this tick.   *)
EntrySound(i) ==
  External(due[i]) =>
    /\ turns[due[i]].status # "none"
    /\ entries[i] # Refused =>
         /\ acceptedSubmission(turns[due[i]]) /\ turns[due[i]].action = entries[i]
         /\ turns[due[i]].target = tick + 1
EntryInv == \A i \in 1 .. Len(entries) : EntrySound(i)

WaitInv ==
  waiting => /\ Len(entries) < Len(due)
             /\ turns[next].status # "none" /\ turns[next].target = tick + 1

(* An external turn under way is for the coming tick, which will settle it. *)
PendingInv ==
  \A k \in KeySet : External(k) /\ UnderWay(turns[k]) => turns[k].target = tick + 1 /\ k \in Range(due)

JournalInv ==
  /\ journal \in Seq(LlmCallRecords)
  /\ \A i \in 1 .. Len(journal) : journal[i].tick <= tick
  /\ \A i, j \in 1 .. Len(journal) : i <= j => journal[i].tick <= journal[j].tick

RowInv == turns \in [KeySet -> TurnRows]
CountInv ==
  /\ tick \in 0 .. LastTick /\ due \in Seq(KeySet)
  /\ entries \in Seq(Options \cup {Refused}) /\ Len(entries) <= Len(due)

LabInv ==
  /\ RowInv /\ CountInv /\ JournalInv /\ EntryInv /\ WaitInv /\ PendingInv
  /\ AppliedOnlyAsAccepted

(* A row of the schema, form by form.  The numbers are kept out of sight.   *)
Lefts == -1 .. Deadline
Targets == 1 .. LastTick
Form(status, target, action, receipt, sealed) ==
  [status : status, target : target, left : Lefts, action : action, receipt : receipt, sealed : sealed]

LEMMA RowCases ==
  ASSUME NEW t
  PROVE  t \in TurnRows <=>
           \/ t \in Form({"none"}, {0}, {NoAction}, {"none"}, {FALSE})
           \/ t \in Form({"open"}, Targets, {NoAction}, {"none", "fallback"}, {FALSE})
           \/ t \in Form({"submitted"}, Targets, Options, {"queued", "fallback"}, {FALSE})
           \/ t \in Form({"terminal"}, Targets, SubmissionRows, FinalReceipts, BOOLEAN)
BY DEF TurnRows, TurnRow, Form, Lefts, Targets

LEMMA RowNumbers ==
  /\ 0 \in Lefts /\ Deadline \in Lefts /\ Lefts \subseteq Int /\ Targets \subseteq 1 .. LastTick
  /\ tick \in 0 .. LastTick /\ tick < LastTick => tick + 1 \in Targets
BY TrialAssumption DEF Lefts, Targets

LEMMA RowForms ==
  ASSUME NEW t, t \in TurnRows
  PROVE  /\ t.status \in {"none", "open", "submitted", "terminal"}
         /\ t.status # "none" =>
              t \in Form({"open", "submitted", "terminal"}, Targets, SubmissionRows, Receipts, BOOLEAN)
         /\ t.action = NoAction \/ t.action \in Options
         /\ t.status \in {"none", "open"} => t.action = NoAction /\ t.receipt \in {"none", "fallback"}
         /\ t.status = "none" => t.receipt = "none"
         /\ t.status = "submitted" => t.receipt \in {"queued", "fallback"} /\ t.action \in Options
         /\ t.status = "terminal" => t.receipt \in FinalReceipts
<1>1. CASE t \in Form({"none"}, {0}, {NoAction}, {"none"}, {FALSE})
  BY <1>1 DEF Form
<1>2. CASE t \in Form({"open"}, Targets, {NoAction}, {"none", "fallback"}, {FALSE})
  BY <1>2 DEF Form, SubmissionRows, Receipts, FinalReceipts
<1>3. CASE t \in Form({"submitted"}, Targets, Options, {"queued", "fallback"}, {FALSE})
  BY <1>3 DEF Form, SubmissionRows, Receipts, FinalReceipts
<1>4. CASE t \in Form({"terminal"}, Targets, SubmissionRows, FinalReceipts, BOOLEAN)
  BY <1>4 DEF Form, SubmissionRows, Receipts, FinalReceipts
<1> QED BY <1>1, <1>2, <1>3, <1>4, RowCases

LEMMA RowByStatus ==
  ASSUME NEW t, t \in TurnRows
  PROVE  /\ t \in Form({"none", "open", "submitted", "terminal"}, Targets \cup {0}, SubmissionRows,
                       Receipts, BOOLEAN)
         /\ t.status = "open" => t \in Form({"open"}, Targets, {NoAction}, {"none", "fallback"}, {FALSE})
         /\ t.status = "submitted" => t \in Form({"submitted"}, Targets, Options, {"queued", "fallback"}, {FALSE})
         /\ t.status = "terminal" =>
              t \in Form({"terminal"}, Targets, SubmissionRows, FinalReceipts, BOOLEAN)
         /\ t.status # "terminal" => t.receipt # "applied" /\ t.sealed = FALSE
<1>1. CASE t \in Form({"none"}, {0}, {NoAction}, {"none"}, {FALSE})
  BY <1>1 DEF Form, SubmissionRows, Receipts, FinalReceipts
<1>2. CASE t \in Form({"open"}, Targets, {NoAction}, {"none", "fallback"}, {FALSE})
  BY <1>2 DEF Form, SubmissionRows, Receipts, FinalReceipts
<1>3. CASE t \in Form({"submitted"}, Targets, Options, {"queued", "fallback"}, {FALSE})
  BY <1>3 DEF Form, SubmissionRows, Receipts, FinalReceipts
<1>4. CASE t \in Form({"terminal"}, Targets, SubmissionRows, FinalReceipts, BOOLEAN)
  BY <1>4 DEF Form, SubmissionRows, Receipts, FinalReceipts
<1> QED BY <1>1, <1>2, <1>3, <1>4, RowCases

LEMMA EndedRow ==
  ASSUME NEW t, t \in TurnRows, t.status # "none", NEW receipt \in FinalReceipts
  PROVE  /\ ended(t, receipt) \in TurnRows /\ ended(t, receipt).target = t.target
         /\ ended(t, receipt).action = t.action /\ ended(t, receipt).status = "terminal"
         /\ ended(t, receipt).receipt = receipt
<1> DEFINE u == ended(t, receipt)
<1>1. t \in Form({"open", "submitted", "terminal"}, Targets, SubmissionRows, Receipts, BOOLEAN)
  BY RowForms
<1>2. u = [t EXCEPT !.status = "terminal", !.left = 0, !.receipt = receipt] /\ 0 \in Lefts
  BY RowNumbers DEF ended
<1> HIDE DEF u
<1>3. /\ u \in Form({"terminal"}, Targets, SubmissionRows, FinalReceipts, BOOLEAN)
      /\ u.target = t.target /\ u.action = t.action /\ u.status = "terminal" /\ u.receipt = receipt
  BY <1>1, <1>2 DEF Form
<1> QED BY <1>3, RowCases DEF u

LEMMA SameQuiet ==
  ASSUME NEW t, t \in TurnRows
  PROVE  Quiet(t, t)
BY DEF Quiet

LEMMA ExpiredQuiet ==
  ASSUME NEW t, t \in TurnRows, t.status # "none"
  PROVE  Quiet(expireTurn(t), t) /\ expireTurn(t).status # "none"
<1>1. CASE t.status = "terminal" \/ stuck(t)
  BY <1>1, SameQuiet DEF expireTurn
<1>2. CASE ~(t.status = "terminal" \/ stuck(t))
  <2>1. expireTurn(t) = ended(t, "fallback") /\ "fallback" \in FinalReceipts
    BY <1>2 DEF expireTurn, FinalReceipts
  <2> QED BY <1>2, <2>1, EndedRow DEF Quiet, UnderWay
<1> QED BY <1>1, <1>2

LEMMA HalvedQuiet ==
  ASSUME NEW t, t \in TurnRows, pending(t)
  PROVE  Quiet(halfExpired(t), t) /\ halfExpired(t).status # "none"
<1> DEFINE u == halfExpired(t)
<1>1. u = [t EXCEPT !.receipt = "fallback"]
  BY DEF halfExpired
<1> HIDE DEF u
<1>2. \/ t \in Form({"open"}, Targets, {NoAction}, {"none", "fallback"}, {FALSE})
      \/ t \in Form({"submitted"}, Targets, Options, {"queued", "fallback"}, {FALSE})
  BY RowByStatus DEF pending
<1>3. /\ \/ u \in Form({"open"}, Targets, {NoAction}, {"none", "fallback"}, {FALSE})
         \/ u \in Form({"submitted"}, Targets, Options, {"queued", "fallback"}, {FALSE})
      /\ u.target = t.target /\ u.action = t.action /\ u.status = t.status /\ u.receipt = "fallback"
  BY <1>1, <1>2 DEF Form
<1>4. u \in TurnRows
  BY <1>3, RowCases
<1> QED BY <1>3, <1>4 DEF Quiet, UnderWay, stuck, pending, u

LEMMA OpenedRow ==
  ASSUME tick \in 0 .. LastTick, tick < LastTick, NEW k, NEW t, t.status = "none",
         NEW u \in {openTurn(k), envelopeFor(k), halfExpired(envelopeFor(k))}
  PROVE  Opened(u, t)
<1> DEFINE e == envelopeFor(k)
<1> DEFINE number == tick + 1
<1>1. unanswered = [status |-> "none", target |-> 0, left |-> 0, action |-> NoAction,
                    receipt |-> "none", sealed |-> FALSE]
  BY DEF unanswered
<1>2. number \in Targets /\ Deadline \in Lefts
  BY RowNumbers
<1>3. e = [unanswered EXCEPT !.status = "open", !.target = number, !.left = Deadline]
  BY DEF envelopeFor
<1> HIDE DEF e, number
<1>4. /\ e \in Form({"open"}, Targets, {NoAction}, {"none", "fallback"}, {FALSE})
      /\ e.status = "open" /\ e.target = number /\ e.receipt = "none"
  BY <1>1, <1>2, <1>3 DEF Form
<1>5. e \in TurnRows
  BY <1>4, RowCases
<1>6. Quiet(expireTurn(e), e) /\ expireTurn(e).status # "none"
  BY <1>4, <1>5, ExpiredQuiet
<1>7. Quiet(halfExpired(e), e) /\ halfExpired(e).status # "none"
  BY <1>4, <1>5, HalvedQuiet DEF pending
<1>8. expireTurn(e).receipt \in {"none", "fallback"} /\ halfExpired(e).receipt \in {"none", "fallback"}
  <2>1. ended(e, "fallback").receipt = "fallback"
    BY <1>4, <1>5, EndedRow DEF FinalReceipts
  <2>2. halfExpired(e).receipt = "fallback"
    BY <1>4 DEF halfExpired, Form
  <2> QED BY <1>4, <2>1, <2>2 DEF expireTurn
<1>9. openTurn(k) = e \/ openTurn(k) = expireTurn(e)
  BY DEF openTurn, e
<1> QED BY <1>4, <1>5, <1>6, <1>7, <1>8, <1>9 DEF Opened, Quiet, number, e

LEMMA FinalizedRow ==
  ASSUME NEW t, t \in TurnRows, t.status # "none", ~stuck(t), NEW status \in FinalReceipts
  PROVE  LET u == finalizeTurn(t, status)
         IN  /\ u \in TurnRows /\ u.target = t.target /\ u.action = t.action /\ ~UnderWay(u)
             /\ u.receipt = "applied" /\ t.receipt # "applied" =>
                  status = "applied" /\ acceptedSubmission(t) /\ t.receipt = "queued"
<1>1. CASE (t.status = "open" \/ ~acceptedSubmission(t)) /\ t.status # "terminal"
  <2>1. finalizeTurn(t, status) = ended(t, "fallback") /\ "fallback" \in FinalReceipts
    BY <1>1 DEF finalizeTurn, expireTurn, FinalReceipts
  <2> QED BY <2>1, EndedRow DEF UnderWay
<1>2. CASE (t.status = "open" \/ ~acceptedSubmission(t)) /\ t.status = "terminal"
  BY <1>2, RowForms DEF finalizeTurn, expireTurn, UnderWay, FinalReceipts
<1>3. CASE ~(t.status = "open" \/ ~acceptedSubmission(t)) /\ t.receipt # "queued"
  BY <1>3 DEF finalizeTurn, UnderWay
<1>4. CASE ~(t.status = "open" \/ ~acceptedSubmission(t)) /\ t.receipt = "queued"
  <2>1. finalizeTurn(t, status) = ended(t, status) /\ status # "queued"
    BY <1>4 DEF finalizeTurn, FinalReceipts
  <2> QED BY <1>4, <2>1, EndedRow DEF UnderWay
<1> QED BY <1>1, <1>2, <1>3, <1>4

-----------------------------------------------------------------------------
(* Steps between two ticks                                                  *)

(* What a turn says to the tick that asked for it is not taken back.        *)
Remembered(k) ==
  /\ turns[k].status # "none" => turns'[k].status # "none" /\ turns'[k].target = turns[k].target
  /\ acceptedSubmission(turns[k]) =>
       acceptedSubmission(turns'[k]) /\ turns'[k].action = turns[k].action

Moved(k) ==
  \/ Quiet(turns'[k], turns[k])
  \/ Answered(turns'[k], turns[k]) /\ AgentOf[k] \in credentials'
  \/ Opened(turns'[k], turns[k]) /\ k \in Range(due)

LEMMA MovedRows ==
  ASSUME LabInv, turns' = [k \in KeySet |-> turns'[k]], \A k \in KeySet : Moved(k),
         UNCHANGED <<mode, tick, due, journal>>
  PROVE  /\ RowInv' /\ PendingInv' /\ JournalInv' /\ AppliedOnlyAsAccepted'
         /\ \A k \in KeySet : Remembered(k)
<1>1. RowInv'
  BY DEF RowInv, Moved, Quiet, Answered, Opened
<1>2. ASSUME NEW k \in KeySet PROVE turns[k] \in TurnRows
  BY DEF LabInv, RowInv
<1>3. ASSUME NEW k \in KeySet, External(k), UnderWay(turns'[k])
      PROVE  turns'[k].target = tick + 1 /\ k \in Range(due)
  BY <1>3 DEF LabInv, PendingInv, Moved, Quiet, Answered, Opened, UnderWay
<1>4. PendingInv'
  BY <1>3 DEF PendingInv, External, controllerForAgent
<1>5. JournalInv'
  BY DEF LabInv, JournalInv
<1>6. ASSUME NEW k \in KeySet, turns'[k].receipt = "applied"
      PROVE  /\ turns[k].receipt = "applied" /\ turns'[k].target = turns[k].target
             /\ turns'[k].action = turns[k].action
  BY <1>6 DEF Moved, Quiet, Answered, Opened
<1>7. AppliedOnlyAsAccepted'
  <2>1. AppliedOnlyAsAccepted
    BY DEF LabInv
  <2> QED BY <1>6, <2>1 DEF AppliedOnlyAsAccepted
<1>8. ASSUME NEW k \in KeySet PROVE Remembered(k)
  <2>1. turns[k].status \in {"none", "open"} => ~acceptedSubmission(turns[k])
    BY <1>2, RowForms DEF acceptedSubmission
  <2> QED BY <2>1 DEF Moved, Quiet, Answered, Opened, Remembered, acceptedSubmission
<1> QED BY <1>1, <1>4, <1>5, <1>7, <1>8

LEMMA EntriesKept ==
  ASSUME LabInv, \A k \in KeySet : Remembered(k), UNCHANGED <<mode, tick, due>>,
         NEW i \in 1 .. Len(entries), entries'[i] = entries[i]
  PROVE  EntrySound(i)'
<1>1. EntrySound(i) /\ due[i] \in KeySet
  BY DEF LabInv, EntryInv, CountInv
<1>2. Remembered(due[i])
  BY <1>1
<1> QED BY <1>1, <1>2 DEF EntrySound, Remembered, External, controllerForAgent

(* Neither the proposals nor what the service waits for are touched.        *)
LEMMA SideStep ==
  ASSUME LabInv, turns' = [k \in KeySet |-> turns'[k]], \A k \in KeySet : Moved(k),
         UNCHANGED <<mode, tick, due, entries, waiting, journal>>
  PROVE  LabInv'
<1>1. /\ RowInv' /\ PendingInv' /\ JournalInv' /\ AppliedOnlyAsAccepted'
      /\ \A k \in KeySet : Remembered(k)
  BY MovedRows
<1>2. EntryInv'
  <2>1. ASSUME NEW i \in 1 .. Len(entries) PROVE EntrySound(i)'
    BY <1>1, EntriesKept
  <2> QED BY <2>1 DEF EntryInv
<1>3. CountInv'
  BY DEF LabInv, CountInv
<1>4. WaitInv'
  <2>1. SUFFICES ASSUME waiting PROVE WaitInv'
    BY DEF WaitInv
  <2>2. /\ Len(entries) < Len(due) /\ turns[next].status # "none" /\ turns[next].target = tick + 1
        /\ next \in KeySet /\ next' = next
    BY <2>1 DEF LabInv, WaitInv, CountInv, next
  <2>3. Remembered(next)
    BY <1>1, <2>2
  <2>4. turns'[next].status # "none" /\ turns'[next].target = tick' + 1 /\ Len(entries') < Len(due')
    BY <2>2, <2>3 DEF Remembered
  <2> HIDE DEF next
  <2> QED BY <2>2, <2>4 DEF WaitInv
<1> QED BY <1>1, <1>2, <1>3, <1>4 DEF LabInv

(* One more proposal is recorded, and the service no longer waits.          *)
LEMMA RecordStep ==
  ASSUME LabInv, turns' = [k \in KeySet |-> turns'[k]], \A k \in KeySet : Moved(k),
         UNCHANGED <<mode, tick, due, journal>>, Len(entries) < Len(due), waiting' = FALSE,
         NEW result \in Options \cup {Refused}, entries' = Append(entries, result),
         External(next) =>
           /\ turns'[next].status # "none"
           /\ result # Refused => /\ acceptedSubmission(turns'[next]) /\ turns'[next].action = result
                                  /\ turns'[next].target = tick + 1
  PROVE  LabInv'
<1>1. /\ RowInv' /\ PendingInv' /\ JournalInv' /\ AppliedOnlyAsAccepted'
      /\ \A k \in KeySet : Remembered(k)
  BY MovedRows
<1>2. /\ CountInv' /\ Len(entries') = Len(entries) + 1 /\ Len(entries) \in Nat
      /\ \A i \in 1 .. Len(entries) : entries'[i] = entries[i]
      /\ entries'[Len(entries) + 1] = result
  BY DEF LabInv, CountInv
<1>3. ASSUME NEW i \in 1 .. Len(entries') PROVE EntrySound(i)'
  <2>1. CASE i \in 1 .. Len(entries)
    BY <1>1, <1>2, <2>1, EntriesKept
  <2>2. CASE i = Len(entries) + 1
    <3>1. due'[i] = next /\ entries'[i] = result
      BY <1>2, <2>2 DEF next
    <3> HIDE DEF next
    <3> QED BY <3>1 DEF EntrySound, External, controllerForAgent
  <2> QED BY <1>2, <2>1, <2>2
<1>4. EntryInv' /\ WaitInv'
  BY <1>3 DEF EntryInv, WaitInv
<1> QED BY <1>1, <1>2, <1>4 DEF LabInv

LEMMA InitLab == Init => LabInv
<1> SUFFICES ASSUME Init PROVE LabInv
  OBVIOUS
<1>1. RowInv
  <2>1. unanswered \in TurnRows
    BY RowNumbers, RowCases DEF unanswered, Form
  <2> QED BY <2>1 DEF Init, RowInv
<1>2. due \in Seq(KeySet)
  BY DEF Init, discoverTier2DecisionOpportunities, SeqOf
<1>3. CountInv
  BY <1>2, TrialAssumption DEF Init, CountInv
<1>4. AppliedOnlyAsAccepted /\ PendingInv
  BY DEF Init, AppliedOnlyAsAccepted, PendingInv, unanswered, UnderWay
<1> QED BY <1>1, <1>3, <1>4 DEF Init, LabInv, JournalInv, EntryInv, WaitInv

(* What the clock and the seal do to the rows.                              *)
LEMMA PassingMoves ==
  ASSUME LabInv, passTime \/ finalizePostTick \/ crashInSealing
  PROVE  turns' = [k \in KeySet |-> turns'[k]] /\ \A k \in KeySet : Moved(k)
<1>1. turns' = [k \in KeySet |-> turns'[k]]
  BY DEF passTime, finalizePostTick, crashInSealing, sealedTurns
<1>2. ASSUME NEW k \in KeySet PROVE Quiet(turns'[k], turns[k])
  <2> DEFINE t == turns[k]
  <2>1. t \in TurnRows /\ Quiet(t, t)
    BY SameQuiet DEF LabInv, RowInv
  <2>2. CASE passTime
    <3> DEFINE left == IF pending(t) /\ t.left >= 0 THEN t.left - 1 ELSE t.left
    <3>1. turns'[k] = [t EXCEPT !.left = left]
      BY <2>2 DEF passTime
    <3>2. CASE pending(t)
      <4>1. left \in Lefts
        <5>1. t \in Form({"none", "open", "submitted", "terminal"}, Targets \cup {0},
                        SubmissionRows, Receipts, BOOLEAN)
          BY <2>1, RowByStatus
        <5>2. t.left \in Lefts
          BY <5>1 DEF Form
        <5>3. \A n \in Lefts : n >= 0 => n - 1 \in Lefts
          BY TrialAssumption DEF Lefts
        <5> HIDE DEF t
        <5> QED BY <5>2, <5>3
      <4>2. \/ t \in Form({"open"}, Targets, {NoAction}, {"none", "fallback"}, {FALSE})
            \/ t \in Form({"submitted"}, Targets, Options, {"queued", "fallback"}, {FALSE})
        BY <2>1, <3>2, RowByStatus DEF pending
      <4> HIDE DEF left
      <4>3. \/ turns'[k] \in Form({"open"}, Targets, {NoAction}, {"none", "fallback"}, {FALSE})
            \/ turns'[k] \in Form({"submitted"}, Targets, Options, {"queued", "fallback"}, {FALSE})
        BY <3>1, <4>1, <4>2 DEF Form
      <4>4. /\ turns'[k].target = t.target /\ turns'[k].action = t.action
            /\ turns'[k].receipt = t.receipt /\ turns'[k].status = t.status
        BY <3>1, <4>2 DEF Form
      <4> QED BY <4>3, <4>4, RowCases DEF Quiet, UnderWay, stuck
    <3>3. CASE ~pending(t)
      <4>1. left = t.left
        BY <3>3
      <4> HIDE DEF left
      <4>2. turns'[k] = t
        BY <2>1, <3>1, <4>1, RowByStatus DEF Form
      <4> QED BY <2>1, <4>2
    <3> QED BY <3>2, <3>3
  <2>3. CASE \E S \in SUBSET appliedNow : turns' = sealedTurns(S)
    <3>1. PICK S \in SUBSET appliedNow : turns' = sealedTurns(S)
      BY <2>3
    <3> DEFINE sealed == t.sealed \/ k \in S
    <3>2. turns'[k] = [t EXCEPT !.sealed = sealed] /\ (k \in S => t.receipt = "applied")
      BY <3>1 DEF sealedTurns, appliedNow
    <3>3. CASE t.status = "terminal"
      <4>1. t \in Form({"terminal"}, Targets, SubmissionRows, FinalReceipts, BOOLEAN)
        BY <2>1, <3>3, RowByStatus
      <4>2. sealed \in BOOLEAN
        BY <4>1 DEF Form
      <4> HIDE DEF sealed
      <4>3. /\ turns'[k] \in Form({"terminal"}, Targets, SubmissionRows, FinalReceipts, BOOLEAN)
            /\ turns'[k].target = t.target /\ turns'[k].action = t.action
            /\ turns'[k].receipt = t.receipt /\ turns'[k].status = t.status
        BY <3>2, <4>1, <4>2 DEF Form
      <4> QED BY <4>3, RowCases DEF Quiet, UnderWay, stuck
    <3>4. CASE t.status # "terminal"
      <4>1. t.receipt # "applied" /\ t.sealed = FALSE
        BY <2>1, <3>4, RowByStatus
      <4>2. sealed = t.sealed
        BY <3>2, <4>1
      <4> HIDE DEF sealed
      <4>3. turns'[k] = t
        BY <2>1, <3>2, <4>2, RowByStatus DEF Form
      <4> QED BY <2>1, <4>3
    <3> QED BY <3>3, <3>4
  <2> QED BY <2>2, <2>3 DEF finalizePostTick, crashInSealing
<1> QED BY <1>1, <1>2 DEF Moved

LEMMA SubmitMoves ==
  ASSUME LabInv, TurnInv, NEW k \in KeySet, NEW action \in Options, submit(k, action)
  PROVE  turns' = [j \in KeySet |-> turns'[j]] /\ \A j \in KeySet : Moved(j)
<1> DEFINE t == turns[k]
<1>1. /\ turns' = [j \in KeySet |-> turns'[j]] /\ \A j \in KeySet \ {k} : turns'[j] = turns[j]
      /\ \A j \in KeySet : Quiet(turns[j], turns[j])
  BY SameQuiet DEF LabInv, RowInv, TurnInv, submit
<1>2. t.status = "open" /\ t \in Form({"open"}, Targets, {NoAction}, {"none", "fallback"}, {FALSE})
  BY RowByStatus DEF LabInv, RowInv, submit
<1>3. AgentOf[k] \in credentials' /\ (~overdue(t) => ~stuck(t))
  BY DEF submit, authenticate, TurnInv, Excused
<1>4. Moved(k)
  <2>1. CASE overdue(t)
    <3>1. turns'[k] = expireTurn(t) /\ t \in TurnRows
      BY <2>1 DEF submit, TurnInv, LabInv, RowInv
    <3> QED BY <1>2, <3>1, ExpiredQuiet DEF Moved
  <2>2. CASE ~overdue(t) /\ controllerForAgent(k) = "shadow"
    <3> DEFINE s == [t EXCEPT !.action = action]
    <3>1. turns'[k] = [s EXCEPT !.status = "terminal", !.left = 0, !.receipt = "shadowed"]
      BY <2>2 DEF submit, TurnInv, ended
    <3>2. s \in Form({"open"}, Targets, SubmissionRows, {"none", "fallback"}, {FALSE}) /\ s.target = t.target
      BY <1>2 DEF Form, SubmissionRows
    <3> HIDE DEF s
    <3>3. /\ turns'[k] \in Form({"terminal"}, Targets, SubmissionRows, FinalReceipts, BOOLEAN)
          /\ turns'[k].target = t.target /\ turns'[k].status = "terminal"
          /\ turns'[k].receipt = "shadowed"
      BY <3>1, <3>2, RowNumbers DEF Form, FinalReceipts
    <3> QED BY <1>2, <1>3, <2>2, <3>3, RowCases DEF Moved, Answered
  <2>3. CASE ~overdue(t) /\ controllerForAgent(k) # "shadow"
    <3>1. turns'[k] = [t EXCEPT !.status = "submitted", !.action = action, !.receipt = "queued"]
      BY <2>3 DEF submit, TurnInv
    <3>2. /\ turns'[k] \in Form({"submitted"}, Targets, Options, {"queued", "fallback"}, {FALSE})
          /\ turns'[k].target = t.target /\ turns'[k].status = "submitted"
          /\ turns'[k].receipt = "queued"
      BY <1>2, <3>1 DEF Form
    <3> QED BY <1>2, <1>3, <2>3, <3>2, RowCases DEF Moved, Answered
  <2> QED BY <2>1, <2>2, <2>3
<1> QED BY <1>1, <1>4 DEF Moved

LEMMA NextIsDue ==
  ASSUME CountInv, Len(entries) < Len(due)
  PROVE  next \in KeySet /\ next \in Range(due)
<1>1. Len(entries) + 1 \in 1 .. Len(due)
  BY DEF CountInv
<1> QED BY <1>1 DEF CountInv, next, Range

LEMMA AskingCounts ==
  ASSUME CountInv, asking
  PROVE  /\ Len(entries) < Len(due) /\ tick \in 0 .. LastTick /\ tick < LastTick /\ ~waiting
         /\ next \in KeySet /\ next \in Range(due)
<1>1. Len(entries) < Len(due) /\ tick \in 0 .. LastTick /\ tick < LastTick /\ ~waiting
  BY DEF asking, running, prepared, CountInv
<1> QED BY <1>1, NextIsDue

(* A turn is opened for the next opportunity, whole or cut short.           *)
LEMMA OpeningMoves ==
  ASSUME LabInv, TurnInv, asking, ~conflictingTurn(next),
         NEW u \in {openTurn(next), envelopeFor(next), halfExpired(envelopeFor(next))},
         turns' = [turns EXCEPT ![next] = u]
  PROVE  /\ turns' = [k \in KeySet |-> turns'[k]] /\ \A k \in KeySet : Moved(k)
         /\ Opened(turns'[next], turns[next])
<1>1. /\ next \in KeySet /\ next \in Range(due) /\ tick \in 0 .. LastTick /\ tick < LastTick
      /\ turns[next].status = "none" /\ turns = [k \in KeySet |-> turns[k]]
      /\ \A k \in KeySet : Quiet(turns[k], turns[k])
  BY AskingCounts, SameQuiet DEF LabInv, RowInv, TurnInv, conflictingTurn
<1>2. \E k \in KeySet : k = next /\ Opened(u, turns[k])
  BY <1>1, OpenedRow
<1> HIDE DEF next
<1>3. Opened(u, turns[next])
  BY <1>2
<1>4. /\ turns' = [k \in KeySet |-> turns'[k]] /\ turns'[next] = u
      /\ \A k \in KeySet \ {next} : turns'[k] = turns[k]
  BY <1>1
<1> QED BY <1>1, <1>3, <1>4 DEF Moved

LEMMA ExpiryMoves ==
  ASSUME LabInv, turns' = [k \in KeySet |-> turns'[k]],
         \A k \in KeySet :
           \/ turns'[k] = turns[k]
           \/ pending(turns[k]) /\ turns'[k] \in {expireTurn(turns[k]), halfExpired(turns[k])}
  PROVE  \A k \in KeySet : Moved(k)
<1>1. ASSUME NEW k \in KeySet PROVE Quiet(turns'[k], turns[k])
  <2>1. turns[k] \in TurnRows /\ (pending(turns[k]) => turns[k].status # "none")
    BY DEF LabInv, RowInv, pending
  <2> QED BY <2>1, SameQuiet, ExpiredQuiet, HalvedQuiet
<1> QED BY <1>1 DEF Moved

(* Between two ticks every step moves each turn, and nothing else of the    *)
(* run than the preparation of the next tick.                               *)
LEMMA Moves ==
  ASSUME LabInv, TurnInv, [Next]_vars, ~applyTick
  PROVE  /\ turns' = [k \in KeySet |-> turns'[k]] /\ \A k \in KeySet : Moved(k)
         /\ UNCHANGED <<mode, tick, due, journal>> /\ credentials' \subseteq credentials
<1>1. UNCHANGED <<mode, tick, due, journal>> /\ credentials' \subseteq credentials
  BY DEF Next, advance, prepare, proposeNative, proposeShadow, proposeExternal, waitForAcceptedSubmission,
         tickThrows, finalizePostTick, passTime, fireShadowTimer, submit, turnForIdentity, revokeCredential,
         sidecar, restart, crash, crashInExpiry, crashInOffer, crashInSealing, crashInRevocation, vars
<1>2. CASE UNCHANGED turns
  <2>1. turns' = [k \in KeySet |-> turns'[k]] /\ \A k \in KeySet : turns'[k] = turns[k]
    BY <1>2 DEF TurnInv
  <2> QED BY <1>1, <2>1, ExpiryMoves
<1>3. CASE proposeShadow \/ proposeExternal \/ crashInOffer
  <2>1. asking /\ (UNCHANGED turns \/ /\ ~conflictingTurn(next)
                                      /\ \E u \in {openTurn(next), envelopeFor(next), halfExpired(envelopeFor(next))} :
                                            turns' = [turns EXCEPT ![next] = u])
    BY <1>3 DEF proposeShadow, openShadowTurn, proposeExternal, crashInOffer
  <2> HIDE DEF next, asking
  <2> QED BY <1>1, <1>2, <2>1, OpeningMoves
<1>4. CASE waitForAcceptedSubmission
  <2>1. next \in KeySet /\ turns[next].status # "none" /\ turns = [k \in KeySet |-> turns[k]]
    BY <1>4, NextIsDue DEF waitForAcceptedSubmission, LabInv, WaitInv, TurnInv
  <2>2. CASE overdue(turns[next]) /\ turns' = [turns EXCEPT ![next] = expireTurn(turns[next])]
    <3> HIDE DEF next
    <3> QED BY <1>1, <2>1, <2>2, ExpiryMoves DEF overdue
  <2> QED BY <1>2, <1>4, <2>2 DEF waitForAcceptedSubmission
<1>5. CASE \/ \E k \in KeySet : fireShadowTimer(k)
           \/ \E agent \in Cohort : turnForIdentity(agent) \/ revokeCredential(agent)
  <2>1. \E D : (\A k \in KeySet \cap D : pending(turns[k])) /\ \E E \in loopEnds(D) : turns' = expired(E)
    <3>1. /\ \A k \in dueTurns : pending(turns[k])
          /\ \A agent : \A k \in turnsOf(agent) : pending(turns[k])
      BY DEF dueTurns, turnsOf, overdue
    <3> QED BY <1>5, <3>1 DEF fireShadowTimer, turnForIdentity, revokeCredential, expireDueTurns,
                             expireOpenTurnsForAgent
  <2> QED BY <1>1, <2>1, LoopRows, ExpiryMoves
<1>6. CASE crashInExpiry \/ \E agent \in Cohort : crashInRevocation(agent)
  <2>1. \E D : (\A k \in KeySet \cap D : pending(turns[k])) /\ interrupted(D)
    <3>1. /\ \A k \in dueTurns : pending(turns[k])
          /\ \A agent : \A k \in turnsOf(agent) : pending(turns[k])
          /\ overdue(turns[next]) => \A k \in {next} : pending(turns[k])
      BY DEF dueTurns, turnsOf, overdue
    <3> HIDE DEF next
    <3> QED BY <1>6, <3>1 DEF crashInExpiry, crashInRevocation
  <2> QED BY <1>1, <2>1, InterruptedRows, ExpiryMoves
<1>7. CASE \E k \in KeySet, action \in Options : submit(k, action)
  BY <1>1, <1>7, SubmitMoves
<1>8. CASE passTime \/ finalizePostTick \/ crashInSealing
  BY <1>1, <1>8, PassingMoves
<1>9. CASE proposeNative \/ tickThrows \/ crash \/ UNCHANGED vars
  BY <1>2, <1>9 DEF proposeNative, tickThrows, crash, vars
<1> QED BY <1>3, <1>4, <1>5, <1>6, <1>7, <1>8, <1>9 DEF Next, advance, prepare

-----------------------------------------------------------------------------
(* The proposals of a tick                                                  *)

LEMMA PrepareStep ==
  ASSUME LabInv, TurnInv, prepare
  PROVE  LabInv'
<1>1. /\ turns' = [k \in KeySet |-> turns'[k]] /\ \A k \in KeySet : Moved(k)
      /\ UNCHANGED <<mode, tick, due, journal>> /\ CountInv
  <2>1. asking \/ waiting
    BY DEF prepare, proposeNative, proposeShadow, proposeExternal, waitForAcceptedSubmission
  <2>2. ~applyTick
    BY <2>1 DEF asking, applyTick
  <2>3. [Next]_vars
    BY DEF Next, advance
  <2> QED BY <2>2, <2>3, Moves DEF LabInv
<1>2. asking => Len(entries) < Len(due) /\ ~waiting
  BY <1>1, AskingCounts
<1>3. CASE proposeNative \/ proposeShadow
  <2>1. PICK result \in Answers : entries' = Append(entries, result)
    BY <1>3 DEF proposeNative, proposeShadow, record
  <2>2. result \in Options \cup {Refused}
    BY TrialAssumption DEF Refused
  <2>3. waiting' = FALSE /\ Len(entries) < Len(due) /\ ~External(next)
    BY <1>2, <1>3 DEF proposeNative, proposeShadow, External
  <2> HIDE DEF next
  <2> QED BY <1>1, <2>1, <2>2, <2>3, RecordStep
<1>4. CASE proposeExternal
  <2>1. asking /\ Len(entries) < Len(due) /\ ~waiting
    BY <1>2, <1>4 DEF proposeExternal
  <2>2. CASE conflictingTurn(next)
    <3>1. turns' = turns /\ waiting' = FALSE /\ entries' = Append(entries, Refused)
      BY <1>4, <2>1, <2>2 DEF proposeExternal, record
    <3>2. turns'[next].status # "none" /\ Refused \in Options \cup {Refused}
      BY <2>2, <3>1 DEF conflictingTurn
    <3> QED BY <1>1, <2>1, <3>1, <3>2, RecordStep
  <2>3. CASE ~conflictingTurn(next)
    <3>1. /\ \E u \in {openTurn(next)} : turns' = [turns EXCEPT ![next] = u]
          /\ waiting' = TRUE /\ entries' = entries
      BY <1>4, <2>3 DEF proposeExternal
    <3>2. Opened(turns'[next], turns[next])
      BY <2>1, <2>3, <3>1, OpeningMoves
    <3>3. /\ RowInv' /\ PendingInv' /\ JournalInv' /\ AppliedOnlyAsAccepted'
          /\ \A k \in KeySet : Remembered(k)
      BY <1>1, MovedRows
    <3>4. EntryInv'
      <4>1. ASSUME NEW i \in 1 .. Len(entries) PROVE EntrySound(i)'
        BY <1>1, <3>1, <3>3, EntriesKept
      <4> QED BY <3>1, <4>1 DEF EntryInv
    <3>5. CountInv'
      BY <1>1, <3>1 DEF CountInv
    <3>6. WaitInv'
      <4>1. next' = next
        BY <1>1, <3>1 DEF next
      <4>2. turns'[next].status # "none" /\ turns'[next].target = tick' + 1 /\ Len(entries') < Len(due')
        BY <1>1, <2>1, <3>1, <3>2 DEF Opened
      <4> HIDE DEF next
      <4> QED BY <4>1, <4>2 DEF WaitInv
    <3> QED BY <3>3, <3>4, <3>5, <3>6 DEF LabInv
  <2> QED BY <2>2, <2>3
<1>5. CASE waitForAcceptedSubmission
  <2> DEFINE t == turns[next]
  <2>1. /\ waiting' = FALSE /\ Len(entries) < Len(due) /\ t.status # "none" /\ t.target = tick + 1
    BY <1>5 DEF waitForAcceptedSubmission, LabInv, WaitInv
  <2>2. next \in KeySet /\ t \in TurnRows
    BY <1>1, <2>1, NextIsDue DEF LabInv, RowInv
  <2>3. CASE acceptedSubmission(t) /\ entries' = Append(entries, t.action) /\ turns' = turns
    <3>1. t.action \in Options \cup {Refused}
      BY <2>2, <2>3, RowForms DEF acceptedSubmission
    <3> QED BY <1>1, <2>1, <2>3, <3>1, RecordStep
  <2>4. CASE entries' = Append(entries, Refused)
    <3>1. Refused \in Options \cup {Refused} /\ turns'[next].status # "none"
      <4>1. Remembered(next)
        BY <1>1, <2>2, MovedRows
      <4> QED BY <2>1, <4>1 DEF Remembered
    <3> QED BY <1>1, <2>1, <2>4, <3>1, RecordStep
  <2> QED BY <1>5, <2>3, <2>4 DEF waitForAcceptedSubmission, record
<1> QED BY <1>3, <1>4, <1>5 DEF prepare

-----------------------------------------------------------------------------
(* The tick                                                                 *)

LEMMA DecidedSound ==
  ASSUME CountInv, tick < LastTick, Len(entries) = Len(due), NEW verdicts \in registryVerdicts
  PROVE  /\ decided(verdicts) \in Seq(LlmCallRecords) /\ Len(decided(verdicts)) = Len(due)
         /\ \A i \in 1 .. Len(due) :
              LET d == decided(verdicts)[i]
              IN  /\ d.key = due[i] /\ d.tick = tick + 1
                  /\ d.live \in BOOLEAN /\ d.applied \in BOOLEAN
                  /\ d.live => entries[i] # Refused /\ d.choice = entries[i]
<1> DEFINE D == decided(verdicts)
           number == tick + 1
<1>1. /\ Len(due) \in Nat /\ DOMAIN entries = 1 .. Len(due) /\ number \in 1 .. LastTick
      /\ \A i \in 1 .. Len(due) : entries[i] \in Options \cup {Refused} /\ due[i] \in KeySet
  BY TrialAssumption DEF CountInv
<1>2. D = [i \in 1 .. Len(due) |-> decision(due[i], entries[i], verdicts[i].live, verdicts[i].applied)]
  BY <1>1 DEF decided
<1> HIDE DEF D
<1>3. ASSUME NEW i \in 1 .. Len(due)
      PROVE  /\ D[i] \in LlmCallRecords /\ D[i].key = due[i] /\ D[i].tick = number
             /\ D[i].live \in BOOLEAN /\ D[i].applied \in BOOLEAN
             /\ D[i].live => entries[i] # Refused /\ D[i].choice = entries[i]
  <2> DEFINE live == verdicts[i].live
             applied == verdicts[i].applied
             choice == resolveLiveDecision(entries[i], live)
  <2>1. live \in BOOLEAN /\ applied \in BOOLEAN /\ (live => entries[i] # Refused)
    BY <1>1 DEF registryVerdicts
  <2>2. D[i] = [tick |-> number, key |-> due[i], result |-> entries[i], choice |-> choice,
                live |-> live, applied |-> applied]
    BY <1>2 DEF decision
  <2>3. choice \in Options /\ (live => choice = entries[i])
    BY <1>1, <2>1, TrialAssumption DEF resolveLiveDecision
  <2> HIDE DEF live, applied, choice, number
  <2> QED BY <1>1, <2>1, <2>2, <2>3 DEF LlmCallRecords
<1>4. D \in Seq(LlmCallRecords) /\ Len(D) = Len(due)
  <2>1. \A i \in 1 .. Len(due) : D[i] \in LlmCallRecords
    BY <1>3
  <2>2. D \in [1 .. Len(due) -> LlmCallRecords]
    BY <1>2, <2>1
  <2> QED BY <1>1, <2>2
<1> QED BY <1>3, <1>4 DEF D

(* A tick settles each due external turn by a decision of its own, and a    *)
(* receipt says "applied" only of a queued action the proposals have.       *)
LEMMA TickRows ==
  ASSUME LabInv, applyTick, NEW verdicts \in registryVerdicts,
         turns' = finalizeTurns(decided(verdicts)), NEW k \in KeySet, External(k), k \in Range(due)
  PROVE  \E j \in 1 .. Len(due) :
           LET d == decided(verdicts)[j]
               u == turns'[k]
           IN  /\ due[j] = k /\ u \in TurnRows /\ u.target = turns[k].target
               /\ u.action = turns[k].action /\ ~UnderWay(u)
               /\ u.receipt = "applied" /\ turns[k].receipt # "applied" =>
                    /\ d.applied /\ d.choice = turns[k].action /\ turns[k].target = tick + 1
                    /\ turns[k].receipt = "queued" /\ entries[j] # Refused
<1> DEFINE D == decided(verdicts)
           d == CHOOSE d \in Range(D) : d.key = k
<1>1. /\ RowInv /\ CountInv /\ EntryInv /\ tick < LastTick /\ Len(entries) = Len(due) /\ settles
  BY DEF applyTick, running, prepared, LabInv
<1>2. /\ D \in Seq(LlmCallRecords) /\ Len(D) = Len(due)
      /\ \A i \in 1 .. Len(due) : /\ D[i].key = due[i]
                                  /\ D[i].live => entries[i] # Refused /\ D[i].choice = entries[i]
  BY <1>1, DecidedSound
<1>3. turns'[k] = finalizeTurn(turns[k], finalStatus(d))
  BY DEF finalizeTurns, External
<1> HIDE DEF D
<1>4. DOMAIN D = 1 .. Len(due) /\ DOMAIN due = 1 .. Len(due)
  BY <1>1, <1>2 DEF CountInv
<1>5. \E d_1 \in Range(D) : d_1.key = k
  BY <1>2, <1>4 DEF Range
<1>6. d \in Range(D) /\ d.key = k
  BY <1>5
<1>7. PICK j \in 1 .. Len(due) : D[j] = d
  BY <1>4, <1>6 DEF Range
<1> HIDE DEF d
<1>8. due[j] = k
  BY <1>2, <1>6, <1>7
<1>9. EntrySound(j) /\ turns[k] \in TurnRows /\ turns[k].status # "none" /\ ~stuck(turns[k])
  BY <1>1, <1>8 DEF EntryInv, EntrySound, RowInv, settles, External
<1>10. finalStatus(d) \in FinalReceipts /\ (finalStatus(d) = "applied" => d.live /\ d.applied)
  BY DEF finalStatus, FinalReceipts
<1>11. LET u == turns'[k]
       IN  /\ u \in TurnRows /\ u.target = turns[k].target /\ u.action = turns[k].action /\ ~UnderWay(u)
           /\ u.receipt = "applied" /\ turns[k].receipt # "applied" =>
                finalStatus(d) = "applied" /\ acceptedSubmission(turns[k]) /\ turns[k].receipt = "queued"
  BY <1>3, <1>9, <1>10, FinalizedRow
<1>12. finalStatus(d) = "applied" =>
         d.applied /\ entries[j] # Refused /\ d.choice = turns[k].action /\ turns[k].target = tick + 1
  BY <1>2, <1>7, <1>8, <1>9, <1>10 DEF EntrySound
<1> QED BY <1>7, <1>8, <1>11, <1>12 DEF D

LEMMA TickLab ==
  ASSUME LabInv, TurnInv, TurnInv', applyTick
  PROVE  LabInv'
<1>1. PICK verdicts \in registryVerdicts :
        turns' = finalizeTurns(decided(verdicts)) /\ journal' = journal \o decided(verdicts)
  BY DEF applyTick
<1> DEFINE D == decided(verdicts)
           n == Len(journal)
<1>2. /\ RowInv /\ CountInv /\ JournalInv /\ EntryInv /\ PendingInv /\ AppliedOnlyAsAccepted
      /\ tick < LastTick /\ Len(entries) = Len(due) /\ tick' = tick + 1 /\ entries' = <<>> /\ settles
      /\ due' \in discoverTier2DecisionOpportunities /\ waiting' = FALSE /\ mode' = mode
  BY DEF applyTick, running, prepared, LabInv
<1>3. /\ D \in Seq(LlmCallRecords) /\ Len(D) = Len(due) /\ Len(due) \in Nat
      /\ \A i \in 1 .. Len(due) :
              /\ D[i].key = due[i] /\ D[i].tick = tick + 1
              /\ D[i].live \in BOOLEAN /\ D[i].applied \in BOOLEAN
              /\ D[i].live => entries[i] # Refused /\ D[i].choice = entries[i]
  BY <1>2, DecidedSound DEF CountInv
<1> HIDE DEF D
<1>4. /\ journal' \in Seq(LlmCallRecords) /\ n \in Nat /\ Len(journal') = n + Len(due)
      /\ \A i \in 1 .. n : journal'[i] = journal[i]
      /\ \A i \in 1 .. Len(due) : journal'[n + i] = D[i]
  <2> DEFINE R == LlmCallRecords
  <2>1. journal \in Seq(R) /\ D \in Seq(R) /\ Len(D) = Len(due) /\ journal' = journal \o D
    BY <1>1, <1>2, <1>3 DEF JournalInv, D
  <2> HIDE DEF R
  <2>2. journal' \in Seq(R) /\ n \in Nat /\ Len(journal') = n + Len(D)
    BY <2>1
  <2>3. \A i \in 1 .. n : journal'[i] = journal[i]
    BY <2>1
  <2>4. ASSUME NEW i \in 1 .. Len(due) PROVE journal'[n + i] = D[i]
    <3>1. n + i \in 1 .. (Len(journal) + Len(D)) /\ n + i > Len(journal) /\ (n + i) - Len(journal) = i
      BY <1>3, <2>1, <2>2
    <3> QED BY <2>1, <3>1
  <2> QED BY <2>1, <2>2, <2>3, <2>4 DEF R
<1> HIDE DEF n
<1>5. ASSUME NEW k \in KeySet, External(k), k \in Range(due)
      PROVE  \E j \in 1 .. Len(due) :
               /\ due[j] = k /\ turns'[k] \in TurnRows /\ turns'[k].target = turns[k].target
               /\ turns'[k].action = turns[k].action /\ ~UnderWay(turns'[k])
               /\ turns'[k].receipt = "applied" /\ turns[k].receipt # "applied" =>
                    D[j].applied /\ D[j].choice = turns[k].action /\ turns[k].target = tick + 1
  BY <1>1, <1>5, TickRows DEF D
<1>6. ASSUME NEW k \in KeySet, ~(External(k) /\ k \in Range(due))
      PROVE  turns'[k] = turns[k]
  BY <1>1, <1>6 DEF finalizeTurns, External
<1>8. RowInv'
  <2>1. turns' = [k \in KeySet |-> turns'[k]]
    BY <1>1 DEF finalizeTurns
  <2>2. \A k \in KeySet : turns'[k] \in TurnRows
    BY <1>2, <1>5, <1>6 DEF RowInv
  <2> QED BY <2>1, <2>2 DEF RowInv
<1>9. PendingInv'
  <2>1. ASSUME NEW k \in KeySet, External(k), UnderWay(turns'[k]) PROVE FALSE
    BY <1>2, <1>5, <1>6, <2>1 DEF PendingInv
  <2> QED BY <1>2, <2>1 DEF PendingInv, External, controllerForAgent
<1>10. AppliedOnlyAsAccepted'
  <2> SUFFICES ASSUME NEW k \in KeySet, turns'[k].receipt = "applied"
               PROVE  \E i \in DOMAIN journal' :
                        /\ journal'[i].key = k /\ journal'[i].tick = turns'[k].target
                        /\ journal'[i].applied /\ journal'[i].choice = turns'[k].action
    BY DEF AppliedOnlyAsAccepted
  <2>1. CASE /\ turns[k].receipt = "applied" /\ turns'[k].target = turns[k].target
             /\ turns'[k].action = turns[k].action
    <3>1. PICK i \in DOMAIN journal :
                        /\ journal[i].key = k /\ journal[i].tick = turns[k].target
                        /\ journal[i].applied /\ journal[i].choice = turns[k].action
      BY <1>2, <2>1 DEF AppliedOnlyAsAccepted
    <3>2. i \in 1 .. n /\ i \in DOMAIN journal' /\ journal'[i] = journal[i]
      BY <1>2, <1>3, <1>4 DEF JournalInv, n
    <3> QED BY <2>1, <3>1, <3>2
  <2>2. CASE turns[k].receipt # "applied"
    <3>1. External(k) /\ k \in Range(due)
      BY <1>6, <2>2
    <3>2. PICK j \in 1 .. Len(due) :
            /\ due[j] = k /\ turns'[k].target = tick + 1 /\ turns'[k].action = turns[k].action
            /\ D[j].applied /\ D[j].choice = turns[k].action
      BY <1>5, <2>2, <3>1
    <3>4. n + j \in DOMAIN journal' /\ journal'[n + j] = D[j]
      BY <1>3, <1>4
    <3> QED BY <1>3, <3>2, <3>4
  <2>3. turns[k].receipt = "applied" => turns'[k].target = turns[k].target /\ turns'[k].action = turns[k].action
    BY <1>5, <1>6
  <2> QED BY <2>1, <2>2, <2>3
<1>11. JournalInv'
  <2>1. ASSUME NEW i \in 1 .. Len(journal')
        PROVE  \/ i \in 1 .. n /\ journal'[i] = journal[i] /\ journal[i].tick <= tick
               \/ i > n /\ journal'[i].tick = tick + 1
    <3>1. CASE i \in 1 .. n
      BY <1>2, <1>4, <3>1 DEF JournalInv, n
    <3>2. CASE i \notin 1 .. n
      <4>1. i - n \in 1 .. Len(due) /\ n + (i - n) = i /\ i > n
        BY <1>3, <1>4, <3>2
      <4> QED BY <1>3, <1>4, <4>1
    <3> QED BY <3>1, <3>2
  <2>2. \A i \in 1 .. n : journal[i].tick \in Int
    <3>1. \A r \in LlmCallRecords : r.tick \in Int
      BY DEF LlmCallRecords
    <3>2. \A i \in 1 .. n : journal[i] \in LlmCallRecords
      BY <1>2 DEF JournalInv, n
    <3> QED BY <3>1, <3>2
  <2>3. ASSUME NEW i \in 1 .. Len(journal'), NEW j \in 1 .. Len(journal'), i <= j
        PROVE  journal'[i].tick <= journal'[j].tick
    <3>1. CASE i \in 1 .. n /\ j \in 1 .. n
      BY <1>2, <1>4, <2>3, <3>1 DEF JournalInv, n
    <3>2. CASE i \notin 1 .. n \/ j \notin 1 .. n
      <4>1. n \in Nat /\ Len(journal') \in Nat /\ tick \in Nat
        BY <1>2, <1>3, <1>4, TrialAssumption DEF CountInv
      <4>2. j \notin 1 .. n
        BY <2>3, <3>2, <4>1
      <4>3. journal'[j].tick = tick + 1
        BY <2>1, <4>2
      <4>4. journal'[i].tick \in Int /\ journal'[i].tick <= tick + 1
        BY <2>1, <2>2, <4>1
      <4> QED BY <4>1, <4>3, <4>4
    <3> QED BY <3>1, <3>2
  <2>4. \A i \in 1 .. Len(journal') : journal'[i].tick <= tick'
    BY <1>2, <2>1, <2>2 DEF CountInv
  <2> QED BY <1>4, <2>3, <2>4 DEF JournalInv
<1>12. CountInv' /\ EntryInv' /\ WaitInv'
  <2>1. due' \in Seq(KeySet)
    BY <1>2 DEF discoverTier2DecisionOpportunities, SeqOf
  <2>2. tick' \in 0 .. LastTick
    BY <1>2, TrialAssumption DEF CountInv
  <2> QED BY <1>2, <2>1, <2>2 DEF CountInv, EntryInv, WaitInv
<1> QED BY <1>8, <1>9, <1>10, <1>11, <1>12 DEF LabInv

LEMMA LabStep == LabInv /\ TurnInv /\ TurnInv' /\ [Next]_vars => LabInv'
<1> SUFFICES ASSUME LabInv, TurnInv, TurnInv', [Next]_vars PROVE LabInv'
  OBVIOUS
<1>1. CASE applyTick
  BY <1>1, TickLab
<1>2. CASE prepare
  BY <1>2, PrepareStep
<1>3. CASE ~applyTick /\ UNCHANGED <<entries, waiting>>
  BY <1>3, Moves, SideStep
<1>4. CASE ~applyTick /\ entries' = <<>> /\ waiting' = FALSE
  <2>1. /\ RowInv' /\ PendingInv' /\ JournalInv' /\ AppliedOnlyAsAccepted'
        /\ UNCHANGED <<tick, due>>
    BY <1>4, Moves, MovedRows
  <2> QED BY <1>4, <2>1 DEF LabInv, CountInv, EntryInv, WaitInv
<1>5. CASE tickThrows
  <2>1. entries' = <<>> /\ waiting' = FALSE
    BY <1>5 DEF tickThrows
  <2> QED BY <1>1, <1>4, <2>1
<1>6. CASE \/ crash \/ crashInExpiry \/ crashInOffer \/ crashInSealing
           \/ \E agent \in Cohort : crashInRevocation(agent)
  <2>1. entries' = <<>> /\ waiting' = FALSE
    BY <1>6 DEF crash, crashInExpiry, crashInOffer, crashInSealing, crashInRevocation, restart
  <2> QED BY <1>1, <1>4, <2>1
<1>7. CASE \/ passTime \/ finalizePostTick \/ UNCHANGED vars
           \/ \E k \in KeySet : fireShadowTimer(k) \/ \E action \in Options : submit(k, action)
           \/ \E agent \in Cohort : turnForIdentity(agent) \/ revokeCredential(agent)
  <2>1. UNCHANGED <<entries, waiting>>
    BY <1>7 DEF passTime, finalizePostTick, fireShadowTimer, submit, turnForIdentity, revokeCredential,
                sidecar, vars
  <2> QED BY <1>1, <1>3, <2>1
<1> QED BY <1>1, <1>2, <1>5, <1>6, <1>7 DEF Next, advance

-----------------------------------------------------------------------------
(* What a revocation leaves behind                                          *)

(* A turn the coming tick has to settle and cannot.                         *)
Blocked == \E k \in KeySet : External(k) /\ k \in Range(due) /\ stuck(turns[k])

(* An action accepted before its credential was revoked, and still queued.  *)
Forsaken(k) == External(k) /\ AgentOf[k] \notin credentials /\ turns[k].receipt = "queued"

(* The proposals of the coming tick do not have it, nor will they.          *)
Spurned(k) ==
  /\ ~(waiting /\ next = k)
  /\ \A i \in 1 .. Len(entries) : due[i] = k => entries[i] = Refused

RevokedInv == Blocked \/ \A k \in KeySet : Forsaken(k) => Spurned(k)

(* A revocation goes through unless a half-expired turn stops its loop.     *)
LEMMA RevocationEnds ==
  ASSUME LabInv, TurnInv, NEW agent, revokeCredential(agent),
         NEW k \in KeySet, External(k), AgentOf[k] = agent, turns[k].receipt = "queued",
         turns'[k].receipt = "queued"
  PROVE  Blocked
<1> DEFINE D == turnsOf(agent)
<1>1. PICK E \in loopEnds(D) : turns' = expired(E)
  BY DEF revokeCredential, expireOpenTurnsForAgent
<1>2. RowSound(turns[k]) /\ k \in D
  BY DEF TurnInv, turnsOf, RowSound, Row, pending, FinalReceipts
<1>3. k \notin E
  <2>1. expireTurn(turns[k]).receipt # "queued"
    BY <1>2, ExpiredSound DEF FinalReceipts
  <2> QED BY <1>1, <2>1 DEF expired
<1>4. PICK j \in D \ E : stuck(turns[j])
  BY <1>1, <1>2, <1>3 DEF loopEnds
<1>5. j \in KeySet /\ External(j) /\ UnderWay(turns[j])
  BY <1>4 DEF turnsOf, External, controllerForAgent, stuck, UnderWay
<1> QED BY <1>4, <1>5 DEF Blocked, LabInv, PendingInv

(* What is spurned is not proposed.                                         *)
LEMMA SpurningStep ==
  ASSUME LabInv, TurnInv, prepare, NEW k \in KeySet, Forsaken(k), Forsaken(k)', Spurned(k)
  PROVE  Spurned(k)'
<1>1. UNCHANGED due /\ CountInv
  BY DEF prepare, proposeNative, proposeShadow, proposeExternal, waitForAcceptedSubmission, LabInv
<1>2. ASSUME NEW result, entries' = Append(entries, result), waiting' = FALSE, k # next \/ result = Refused
      PROVE  Spurned(k)'
  <2>1. /\ Len(entries) \in Nat /\ Len(entries') = Len(entries) + 1
        /\ \A i \in 1 .. Len(entries) : entries'[i] = entries[i]
        /\ entries'[Len(entries) + 1] = result
    BY <1>1, <1>2 DEF CountInv
  <2>2. ASSUME NEW i \in 1 .. Len(entries'), due[i] = k PROVE entries'[i] = Refused
    <3>1. CASE i \in 1 .. Len(entries)
      BY <2>1, <2>2, <3>1 DEF Spurned
    <3>2. CASE i = Len(entries) + 1
      BY <1>2, <2>1, <2>2, <3>2 DEF next
    <3> QED BY <2>1, <3>1, <3>2
  <2> QED BY <1>1, <1>2, <2>2 DEF Spurned
<1>3. CASE proposeNative \/ proposeShadow
  <2>1. (\E result : entries' = Append(entries, result)) /\ waiting' = FALSE
    BY <1>3 DEF proposeNative, proposeShadow, record, asking
  <2>2. k # next
    BY <1>3 DEF proposeNative, proposeShadow, Forsaken, External
  <2> HIDE DEF next
  <2> QED BY <1>2, <2>1, <2>2
<1>4. CASE proposeExternal /\ conflictingTurn(next)
  <2>1. entries' = Append(entries, Refused) /\ waiting' = FALSE
    BY <1>4 DEF proposeExternal, record, asking
  <2> QED BY <1>2, <2>1
<1>5. CASE proposeExternal /\ ~conflictingTurn(next)
  <2>1. k # next
    BY <1>5 DEF Forsaken, TurnInv, RowSound, conflictingTurn
  <2>2. UNCHANGED <<entries, due>>
    BY <1>1, <1>5 DEF proposeExternal
  <2>3. next' = next
    BY <2>2 DEF next
  <2> HIDE DEF next
  <2> QED BY <2>1, <2>2, <2>3 DEF Spurned
<1>6. CASE waitForAcceptedSubmission
  <2>1. (\E result : entries' = Append(entries, result)) /\ waiting' = FALSE /\ waiting
    BY <1>6 DEF waitForAcceptedSubmission, record
  <2>2. k # next
    BY <2>1 DEF Spurned
  <2> HIDE DEF next
  <2> QED BY <1>2, <2>1, <2>2
<1> QED BY <1>3, <1>4, <1>5, <1>6 DEF prepare

LEMMA RevokedStep == LabInv /\ TurnInv /\ RevokedInv /\ [Next]_vars => RevokedInv'
<1> SUFFICES ASSUME LabInv, TurnInv, RevokedInv, [Next]_vars PROVE RevokedInv'
  OBVIOUS
<1>1. CASE \/ applyTick \/ tickThrows \/ crash \/ crashInExpiry \/ crashInOffer \/ crashInSealing
           \/ \E agent \in Cohort : crashInRevocation(agent)
  <2>1. entries' = <<>> /\ waiting' = FALSE
    BY <1>1 DEF applyTick, tickThrows, crash, crashInExpiry, crashInOffer, crashInSealing,
                crashInRevocation, restart
  <2> QED BY <2>1 DEF RevokedInv, Spurned
<1>2. ASSUME ~applyTick, prepare \/ UNCHANGED <<entries, waiting>>,
             UNCHANGED credentials \/ \E agent : revokeCredential(agent)
      PROVE  RevokedInv'
  <2>1. (\A k \in KeySet : Moved(k)) /\ UNCHANGED <<mode, tick, due, journal>>
    BY <1>2, Moves
  <2>2. CASE Blocked
    <3>1. ASSUME NEW k \in KeySet, External(k), k \in Range(due), stuck(turns[k])
          PROVE  External(k)' /\ k \in Range(due)' /\ stuck(turns'[k])
      <4>1. stuck(turns'[k])
        BY <2>1, <3>1 DEF Moved, Quiet, Answered, Opened, stuck
      <4> QED BY <2>1, <3>1, <4>1 DEF External, controllerForAgent
    <3> QED BY <2>2, <3>1 DEF Blocked, RevokedInv
  <2>3. CASE ~Blocked
    <3>1. ASSUME NEW k \in KeySet, Forsaken(k)'
          PROVE  Spurned(k)'
      <4>1. External(k) /\ turns[k].receipt = "queued" /\ turns'[k].receipt = "queued"
            /\ AgentOf[k] \notin credentials'
        BY <2>1, <3>1 DEF Moved, Quiet, Answered, Opened, Forsaken, External, controllerForAgent
      <4>2. AgentOf[k] \notin credentials
        <5>1. ASSUME NEW agent, revokeCredential(agent), AgentOf[k] \in credentials PROVE FALSE
          <6>1. AgentOf[k] = agent
            BY <4>1, <5>1 DEF revokeCredential
          <6> QED BY <2>3, <4>1, <5>1, <6>1, RevocationEnds
        <5> QED BY <1>2, <4>1, <5>1
      <4>3. Forsaken(k) /\ Spurned(k)
        BY <2>3, <4>1, <4>2 DEF RevokedInv, Forsaken
      <4>4. CASE UNCHANGED <<entries, waiting>>
        BY <2>1, <4>3, <4>4 DEF Spurned, next
      <4> QED BY <1>2, <3>1, <4>3, <4>4, SpurningStep
    <3> QED BY <3>1 DEF RevokedInv
  <2> QED BY <2>2, <2>3
<1>3. CASE prepare
  <2>1. UNCHANGED credentials
    BY <1>3 DEF prepare, proposeNative, proposeShadow, proposeExternal, waitForAcceptedSubmission
  <2> QED BY <1>1, <1>2, <1>3, <2>1
<1>4. CASE \/ passTime \/ finalizePostTick \/ UNCHANGED vars
           \/ \E k \in KeySet : fireShadowTimer(k) \/ \E action \in Options : submit(k, action)
           \/ \E agent \in Cohort : turnForIdentity(agent) \/ revokeCredential(agent)
  <2>1. UNCHANGED <<entries, waiting>>
    BY <1>4 DEF passTime, finalizePostTick, fireShadowTimer, submit, turnForIdentity, revokeCredential,
                sidecar, vars
  <2>2. UNCHANGED credentials \/ \E agent : revokeCredential(agent)
    BY <1>4 DEF passTime, finalizePostTick, fireShadowTimer, submit, turnForIdentity, vars
  <2> QED BY <1>1, <1>2, <2>1, <2>2
<1> QED BY <1>1, <1>3, <1>4 DEF Next, advance

(* The columns of the trial and what only the process remembers.            *)
TrialInv ==
  /\ [mode |-> mode, tick |-> tick, crashes |-> crashes, halted |-> halted, unsealed |-> unsealed] \in TrialRow
  /\ due \in discoverTier2DecisionOpportunities /\ waiting \in BOOLEAN
  /\ credentials \subseteq CredentialRows /\ timers \subseteq KeySet

LEMMA TrialStep == TrialInv /\ CountInv /\ [Next]_vars => TrialInv'
<1> SUFFICES ASSUME TrialInv, CountInv, [Next]_vars PROVE TrialInv'
  OBVIOUS
<1> USE DEF TrialInv, TrialRow, CredentialRows
<1>1. CASE UNCHANGED <<mode, tick, due, unsealed, crashes, halted, credentials>>
           /\ waiting' \in BOOLEAN /\ timers' \subseteq KeySet
  BY <1>1
<1>2. CASE proposeNative \/ proposeExternal \/ waitForAcceptedSubmission
  BY <1>1, <1>2 DEF proposeNative, proposeExternal, waitForAcceptedSubmission
<1>3. CASE proposeShadow
  <2>1. asking => Len(entries) < Len(due)
    BY DEF asking, prepared, CountInv
  <2>2. timers' \subseteq KeySet
    BY <1>3, <2>1, NextIsDue DEF proposeShadow, openShadowTurn
  <2> QED BY <1>1, <1>3, <2>2 DEF proposeShadow
<1>4. CASE applyTick
  <2>1. tick + 1 \in 0 .. LastTick
    BY <1>4, TrialAssumption DEF applyTick, running, CountInv
  <2> QED BY <1>4, <2>1 DEF applyTick
<1>5. CASE tickThrows
  BY <1>5 DEF tickThrows
<1>6. CASE finalizePostTick
  BY <1>6 DEF finalizePostTick
<1>7. CASE \/ crash \/ crashInExpiry \/ crashInOffer \/ crashInSealing
           \/ \E agent \in Cohort : crashInRevocation(agent)
  <2>1. restart /\ credentials' \subseteq credentials
    BY <1>7 DEF crash, crashInExpiry, crashInOffer, crashInSealing, crashInRevocation
  <2>2. crashes + 1 \in 0 .. Crashes
    BY <2>1, TrialAssumption DEF restart
  <2> QED BY <2>1, <2>2 DEF restart
<1>8. CASE \/ passTime \/ \E k \in KeySet : fireShadowTimer(k) \/ \E action \in Options : submit(k, action)
           \/ \E agent \in Cohort : turnForIdentity(agent) \/ revokeCredential(agent)
  BY <1>8 DEF passTime, fireShadowTimer, submit, turnForIdentity, revokeCredential, sidecar
<1>9. CASE UNCHANGED vars
  BY <1>1, <1>9 DEF vars
<1> QED BY <1>2, <1>3, <1>4, <1>5, <1>6, <1>7, <1>8, <1>9 DEF Next, advance, prepare

-----------------------------------------------------------------------------
(* Strict replay                                                            *)

(* The recorded call a replayed proposal is answered from is its own, and   *)
(* so is the recorded submission: what the code counts are the calls, and   *)
(* the submissions, that come before it.                                    *)
LEMMA JournalReplays ==
  ASSUME JournalInv, soloTicks, NEW i \in 1 .. Len(journal)
  PROVE  replayed(i) = journal[i].result
<1> DEFINE n == Len(journal)
           earlier == {j \in 1 .. n : journal[j].tick < journal[i].tick}
           same == {j \in 1 .. i : /\ journal[j].tick = journal[i].tick
                                   /\ isExternal(journal[j]) = isExternal(journal[i])}
           before_i == {j \in submissions : journal[j].tick < journal[i].tick}
           rank(j) == {h \in submissions : h < j}
<1>1. /\ DOMAIN journal = 1 .. n /\ n \in Nat /\ \A j \in 1 .. n : journal[j].tick \in Int
      /\ \A h, j \in 1 .. n : h <= j => journal[h].tick <= journal[j].tick
  <2>1. \A r \in LlmCallRecords : r.tick \in Int
    BY DEF LlmCallRecords
  <2>2. DOMAIN journal = 1 .. n /\ n \in Nat /\ \A j \in 1 .. n : journal[j] \in LlmCallRecords
    BY DEF JournalInv
  <2> QED BY <2>1, <2>2 DEF JournalInv
<1>2. ASSUME NEW j \in 1 .. n, j # i, journal[j].tick = journal[i].tick
      PROVE  ~isExternal(journal[j]) /\ ~isExternal(journal[i])
  BY <1>1, <1>2 DEF soloTicks
<1>3. IsFiniteSet(1 .. n) /\ IsFiniteSet(1 .. i) /\ Cardinality(1 .. i) = i
  BY <1>1, FS_Interval
<1>4. nextLlmExpectationOrdinal(i) = i
  <2>1. earlier \cup same = 1 .. i /\ earlier \cap same = {}
    <3>1. ASSUME NEW j \in earlier PROVE j \in 1 .. i
      BY <1>1
    <3>2. ASSUME NEW j \in 1 .. i PROVE j \in earlier \/ j \in same
      <4>1. j \in 1 .. n /\ journal[j].tick <= journal[i].tick
        BY <1>1
      <4>2. CASE journal[j].tick < journal[i].tick
        BY <4>1, <4>2
      <4>3. CASE journal[j].tick = journal[i].tick
        BY <1>2, <4>1, <4>3 DEF isExternal
      <4> QED BY <1>1, <4>1, <4>2, <4>3
    <3>3. ASSUME NEW j \in earlier, j \in same PROVE FALSE
      BY <1>1, <3>3
    <3> QED BY <3>1, <3>2, <3>3
  <2>2. IsFiniteSet(earlier) /\ IsFiniteSet(same)
    <3>1. earlier \in SUBSET (1 .. n) /\ same \in SUBSET (1 .. i)
      OBVIOUS
    <3> HIDE DEF earlier, same
    <3> QED BY <1>3, <3>1, FS_Subset
  <2>3. callsBefore(i) = Cardinality(earlier)
    BY <1>1 DEF callsBefore
  <2>4. nextLlmExpectationOrdinal(i) = Cardinality(earlier) + Cardinality(same)
    BY <2>3 DEF nextLlmExpectationOrdinal
  <2> HIDE DEF earlier, same
  <2>5. /\ Cardinality(earlier) \in Nat /\ Cardinality(same) \in Nat
        /\ Cardinality(1 .. i) = Cardinality(earlier) + Cardinality(same) - Cardinality({})
    BY <2>1, <2>2, FS_Union, FS_CardinalityType
  <2> QED BY <1>3, <2>4, <2>5, FS_EmptySet
<1>5. ASSUME i \in submissions
      PROVE  submissionAt(submissionOrdinal(i)) = i /\ submissionOrdinal(i) <= Cardinality(submissions)
  <2>1. submissions \subseteq 1 .. n /\ \A j \in submissions : rank(j) \subseteq submissions
    BY <1>1 DEF submissions
  <2>2. IsFiniteSet(submissions) /\ \A j \in submissions : IsFiniteSet(rank(j)) /\ Cardinality(rank(j)) \in Nat
    <3>1. IsFiniteSet(submissions)
      BY <1>3, <2>1, FS_Subset
    <3>2. ASSUME NEW j \in submissions PROVE IsFiniteSet(rank(j)) /\ Cardinality(rank(j)) \in Nat
      <4> HIDE DEF rank
      <4> QED BY <2>1, <3>1, FS_Subset, FS_CardinalityType
    <3> QED BY <3>1, <3>2
  <2>3. before_i = rank(i)
    <3>1. ASSUME NEW j \in submissions PROVE journal[j].tick < journal[i].tick <=> j < i
      <4>1. j \in 1 .. n /\ isExternal(journal[i])
        BY <1>5, <2>1 DEF submissions
      <4>2. j # i => journal[j].tick # journal[i].tick
        BY <1>2, <4>1
      <4> QED BY <1>1, <4>1, <4>2
    <3> QED BY <3>1
  <2>4. submissionOrdinal(i) = Cardinality(rank(i)) + 1
    BY <2>3 DEF submissionOrdinal
(* Two submissions have different ranks.                                    *)
  <2>5. ASSUME NEW h \in submissions, NEW j \in submissions, h < j
        PROVE  Cardinality(rank(h)) < Cardinality(rank(j))
    <3>1. h \in 1 .. n /\ j \in 1 .. n /\ h \in rank(j) /\ h \notin rank(h) /\ rank(h) \in SUBSET rank(j)
      <4>1. h \in 1 .. n /\ j \in 1 .. n
        BY <2>1
      <4>2. h \in rank(j) /\ h \notin rank(h)
        BY <1>1, <2>5, <4>1
      <4>3. ASSUME NEW g \in rank(h) PROVE g \in rank(j)
        BY <1>1, <2>1, <2>5, <4>1
      <4> QED BY <4>1, <4>2, <4>3
    <3> HIDE DEF rank
    <3>2. Cardinality(rank(h)) <= Cardinality(rank(j)) /\ Cardinality(rank(h)) # Cardinality(rank(j))
      BY <2>2, <3>1, FS_Subset
    <3> QED BY <2>2, <3>2
  <2>6. \A j \in submissions : Cardinality(rank(j)) = Cardinality(rank(i)) => j = i
    <3> HIDE DEF rank
    <3>1. ASSUME NEW j \in submissions, Cardinality(rank(j)) = Cardinality(rank(i)), j # i PROVE FALSE
      <4>1. j \in 1 .. n /\ Cardinality(rank(j)) \in Nat
        BY <2>1, <2>2
      <4>2. j < i \/ i < j
        BY <1>1, <3>1, <4>1
      <4> QED BY <1>5, <2>5, <3>1, <4>1, <4>2
    <3> QED BY <3>1
  <2>7. submissionAt(submissionOrdinal(i)) = i
    <3>1. submissionAt(submissionOrdinal(i)) =
            CHOOSE j \in submissions : Cardinality(rank(j)) = submissionOrdinal(i) - 1
      BY DEF submissionAt
    <3> HIDE DEF rank
    <3>2. Cardinality(rank(i)) \in Nat
      BY <1>5, <2>2
    <3>3. submissionOrdinal(i) - 1 = Cardinality(rank(i))
      BY <2>4, <3>2
    <3> QED BY <1>5, <2>6, <3>1, <3>3
  <2>8. Cardinality(rank(i)) < Cardinality(submissions)
    <3>1. i \in submissions /\ i \notin rank(i) /\ rank(i) \in SUBSET submissions
      BY <1>1, <1>5
    <3> HIDE DEF rank
    <3> QED BY <2>2, <3>1, FS_Subset, FS_CardinalityType
  <2> HIDE DEF rank
  <2>9. Cardinality(submissions) \in Nat /\ Cardinality(rank(i)) \in Nat
    BY <1>5, <2>2, FS_CardinalityType
  <2> QED BY <2>4, <2>7, <2>8, <2>9
<1>6. isExternal(journal[i]) /\ journal[i].result # Refused => i \in submissions
  BY <1>1 DEF submissions
<1> QED BY <1>4, <1>5, <1>6 DEF replayed, sameRequest

-----------------------------------------------------------------------------
(* What holds of turns, receipts and journal in every state: a receipt says *)
(* "applied" only of the very action its controller submitted, on the tick  *)
(* the turn was for; every external turn has its final receipt when its     *)
(* tick is over, even one a crash left half-expired; and strict replay finds*)
(* every committed proposal again as long as an external one is alone in its*)
(* tick (agent-lab-store.ts, tier2-decision-phase.ts,                       *)
(* agent-lab-provider.ts, replay-llm-provider.ts).                          *)
THEOREM LabSoundHolds == Spec => []LabSound
<1>1. Init => TurnInv /\ LabInv /\ TrialInv
  <2>1. ASSUME Init PROVE TrialInv
    <3>1. 0 \in 0 .. LastTick /\ 0 \in 0 .. Crashes
      BY TrialAssumption
    <3>2. [mode |-> mode, tick |-> tick, crashes |-> crashes, halted |-> halted, unsealed |-> unsealed] \in TrialRow
      BY <2>1, <3>1 DEF Init, TrialRow, initializeTrial
    <3> QED BY <2>1, <3>2 DEF Init, TrialInv, issuedCredentials
  <2> QED BY <2>1, InitStep, InitLab
<1>2. TurnInv /\ LabInv /\ TrialInv /\ [Next]_vars => TurnInv' /\ LabInv' /\ TrialInv'
  BY TurnStep, LabStep, TrialStep DEF LabInv
<1>3. TurnInv /\ LabInv /\ TrialInv => LabSound
  <2> SUFFICES ASSUME TurnInv, LabInv, TrialInv PROVE LabSound
    OBVIOUS
  <2>1. TypeOK
    <3>1. Range(journal) \subseteq LlmCallRecords
      BY DEF LabInv, JournalInv, Range
    <3> QED BY <3>1 DEF TypeOK, TrialInv, LabInv, RowInv, CountInv
  <2>2. TurnsEndWithTheirTick
    <3> SUFFICES ASSUME NEW k \in KeySet, External(k), turns[k].status # "none", turns[k].target <= tick
                 PROVE  turns[k].receipt \in FinalReceipts
      BY DEF TurnsEndWithTheirTick, External
    <3>1. ~UnderWay(turns[k])
      BY DEF LabInv, PendingInv, CountInv
    <3> QED BY <3>1 DEF TurnInv, RowSound, Row, UnderWay, FinalReceipts
  <2>3. ReplayReproduces
    <3>1. JournalInv /\ DOMAIN journal = 1 .. Len(journal)
      BY DEF LabInv, JournalInv
    <3> QED BY <3>1, JournalReplays DEF ReplayReproduces
  <2> QED BY <2>1, <2>2, <2>3 DEF LabSound, LabInv
<1> QED BY <1>1, <1>2, <1>3, PTL DEF Spec

-----------------------------------------------------------------------------
(* From the statement that revokes a citizen's credential on, no action of  *)
(* its controller is applied any more: one queued before ends with its      *)
(* expiry, is refused by the next preparation, or is behind a turn no tick  *)
(* gets past (revokeCredential, openTurn, finalizeTurn of                   *)
(* agent-lab-store.ts).                                                     *)
THEOREM RevokedNeverAppliedHolds == Spec => RevokedNeverApplied
<1> DEFINE NeverApplied ==
             \A k \in KeySet : AgentOf[k] \notin credentials /\ turns[k].receipt # "applied"
               => turns'[k].receipt # "applied"
<1>1. Init => TurnInv /\ LabInv /\ RevokedInv
  <2>1. Init => RevokedInv
    BY DEF Init, RevokedInv, Forsaken, unanswered
  <2> QED BY <2>1, InitStep, InitLab
<1>2. TurnInv /\ LabInv /\ RevokedInv /\ [Next]_vars => TurnInv' /\ LabInv' /\ RevokedInv'
  BY TurnStep, LabStep, RevokedStep
<1>3. TurnInv /\ LabInv /\ RevokedInv /\ [Next]_vars => [NeverApplied]_vars
  <2> SUFFICES ASSUME TurnInv, LabInv, RevokedInv, [Next]_vars, NEW k \in KeySet,
                      AgentOf[k] \notin credentials, turns[k].receipt # "applied"
               PROVE  turns'[k].receipt # "applied"
    OBVIOUS
  <2>1. CASE ~applyTick
    BY <2>1, Moves DEF Moved, Quiet, Answered, Opened
  <2>2. CASE applyTick
    <3> SUFFICES ASSUME turns'[k].receipt = "applied" PROVE FALSE
      OBVIOUS
    <3>1. PICK j \in 1 .. Len(entries) :
            due[j] = k /\ External(k) /\ turns[k].receipt = "queued" /\ entries[j] # Refused
      <4>1. PICK verdicts \in registryVerdicts : turns' = finalizeTurns(decided(verdicts))
        BY <2>2 DEF applyTick
      <4>2. External(k) /\ k \in Range(due)
        BY <4>1 DEF finalizeTurns, External
      <4>3. Len(entries) = Len(due)
        BY <2>2 DEF applyTick, prepared
      <4> QED BY <2>2, <4>1, <4>2, <4>3, TickRows
    <3>2. ~Blocked
      BY <2>2 DEF applyTick, settles, Blocked, External
    <3> QED BY <3>1, <3>2 DEF RevokedInv, Forsaken, Spurned
  <2> QED BY <2>1, <2>2
<1> QED BY <1>1, <1>2, <1>3, PTL DEF Spec, RevokedNeverApplied
=============================================================================
