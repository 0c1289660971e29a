---------------------------- MODULE TalkProtocol ----------------------------
(***************************************************************************)
(* What a negotiation promises its two parties, for any number of talks:   *)
(* the parties speak in strict alternation, the first one first; each      *)
(* message may put terms on the table; a talk is agreed only on the terms  *)
(* the other party put there last, by the party whose turn it is; and a    *)
(* talk that has ended, agreed or failed, never changes again.             *)
(***************************************************************************)
EXTENDS Integers, Sequences

CONSTANTS Terms, NoTerms, MaxTurns
VARIABLES talkState, onTable, turn, agreed

talkVars == <<talkState, onTable, turn, agreed>>
NothingOnTable == [first |-> NoTerms, second |-> NoTerms]
offeredTo(i) == IF turn[i] % 2 = 0 THEN onTable[i].second ELSE onTable[i].first

Init == talkState = <<>> /\ onTable = <<>> /\ turn = <<>> /\ agreed = <<>>

remains(i) ==
  /\ talkState'[i] = talkState[i] /\ onTable'[i] = onTable[i]
  /\ turn'[i] = turn[i] /\ agreed'[i] = agreed[i]

speaks(i) ==
  LET fromFirst == turn[i] % 2 = 0
  IN /\ talkState[i] = "open" /\ turn[i] < MaxTurns /\ talkState'[i] = "open"
     /\ turn'[i] = turn[i] + 1 /\ agreed'[i] = NoTerms
     /\ IF fromFirst THEN onTable'[i].second = onTable[i].second
        ELSE onTable'[i].first = onTable[i].first

agrees(i) ==
  /\ talkState[i] = "open" /\ offeredTo(i) # NoTerms
  /\ talkState'[i] = "agreed" /\ agreed'[i] = offeredTo(i)
  /\ turn'[i] = turn[i] + 1 /\ onTable'[i] = NothingOnTable

fails(i) ==
  /\ talkState[i] = "open" /\ talkState'[i] = "failed" /\ agreed'[i] = NoTerms
  /\ turn'[i] \in {turn[i], turn[i] + 1} /\ turn'[i] <= MaxTurns
  /\ onTable'[i] = NothingOnTable

begins(i) ==
  /\ talkState'[i] = "open" /\ onTable'[i] = NothingOnTable
  /\ turn'[i] = 0 /\ agreed'[i] = NoTerms

Next ==
  /\ Len(talkState) <= Len(talkState')
  /\ \A i \in DOMAIN talkState' :
       IF i \in DOMAIN talkState THEN remains(i) \/ speaks(i) \/ agrees(i) \/ fails(i)
       ELSE begins(i)

Spec == Init /\ [][Next]_talkVars
=============================================================================
