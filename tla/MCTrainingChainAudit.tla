-------------------------- MODULE MCTrainingChainAudit --------------------------
(* Two training replays and one for the holdout; the ranking that changes    *)
(* picks other players in replay 1 and nobody in replay 2.                   *)
EXTENDS TrainingChainAudit

CONSTANTS before, after, alice, bob

MCPicks == [k \in {before, after} |->
              [r \in Replays |-> IF k = before THEN alice
                                 ELSE IF r = 2 THEN NoOne ELSE bob]]
MCSamples == [s \in {alice, bob} |->
                [t \in Cadences |-> IF s = alice THEN 24 \div t ELSE 36 \div t]]
MCLimit == [split \in Splits |-> 2]
=============================================================================
