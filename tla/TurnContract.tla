---------------------------- MODULE TurnContract ----------------------------
(* What the Agent Lab promises whoever controls a citizen from outside: a   *)
(* turn is offered once, takes at most one answer, and ends once, with a    *)
(* verdict nobody changes afterwards.                                       *)
CONSTANTS Turns, Answers, NoAnswer
VARIABLES stage, answer, verdict

Unanswered == {"fallback"}
Verdicts == {"shadowed", "applied", "rejected", "fallback"}

Init ==
  /\ stage = [t \in Turns |-> "unoffered"]
  /\ answer = [t \in Turns |-> NoAnswer]
  /\ verdict = [t \in Turns |-> "none"]

Offer(t) ==
  /\ stage[t] = "unoffered"
  /\ stage' = [stage EXCEPT ![t] = "open"] /\ UNCHANGED <<answer, verdict>>

Answer(t) ==
  /\ stage[t] = "open" /\ \E a \in Answers : answer' = [answer EXCEPT ![t] = a]
  /\ \/ stage' = [stage EXCEPT ![t] = "queued"] /\ UNCHANGED verdict
     \/ /\ stage' = [stage EXCEPT ![t] = "ended"]
        /\ verdict' = [verdict EXCEPT ![t] = "shadowed"]

(* Several turns may end in one step: a deadline, a revocation or a tick    *)
(* concerns all that are under way, and a turn may be offered to a citizen  *)
(* nobody controls any more, which ends it at once.                         *)
End(group) ==
  /\ group # {} /\ \A t \in group : stage[t] # "ended"
  /\ stage' = [t \in Turns |-> IF t \in group THEN "ended" ELSE stage[t]]
  /\ \E v \in [group -> Verdicts \ {"shadowed"}] :
       /\ \A t \in group : stage[t] # "queued" => v[t] \in Unanswered
       /\ verdict' = [t \in Turns |-> IF t \in group THEN v[t] ELSE verdict[t]]
  /\ UNCHANGED answer

Next == \/ \E t \in Turns : Offer(t) \/ Answer(t)
        \/ \E group \in SUBSET Turns : End(group)

Spec == Init /\ [][Next]_<<stage, answer, verdict>>
=============================================================================
