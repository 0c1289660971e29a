----------------------------- MODULE MCNewsRoom ------------------------------
(* A paper of one author and two stories an edition, four kinds of events. *)
EXTENDS NewsRoom

CONSTANT a1

newsKind(id, topic, polarity, points) ==
  [id |-> id, topic |-> topic, polarity |-> polarity, points |-> points, genesisOnly |-> FALSE]

sale    == newsKind(1, "market", 1, 2000)
formed  == newsKind(2, "economy", 1, 2000)
stocked == newsKind(3, "market", -1, 3500)
missed  == newsKind(4, "employment", -1, 2000)
founded == [newsKind(5, "economy", 1, 5000) EXCEPT !.genesisOnly = TRUE]

MCJournalists == <<a1>>
MCKinds == {sale, formed, missed, stocked, founded}
MCEventSets == {{sale, formed, founded}, {sale, stocked, missed}}
MCSeed == [x \in OpinionAxes |-> IF x = "economicOptimism" THEN 99 ELSE 0]
=============================================================================
