------------------------- MODULE MCSessionLifecycle -------------------------
EXTENDS SessionLifecycle, TLC

CONSTANTS w1, w2

MCGateAuto == [s \in 1..LastStage |-> "auto"]
MCGateLastReview == [s \in 1..LastStage |-> IF s = LastStage THEN "review" ELSE "auto"]
MCGateManual == [s \in 1..LastStage |-> IF s = 2 THEN "manual" ELSE "condition"]

\* the workers are interchangeable
Symmetry == Permutations(Workers)
=============================================================================
