------------------------------ MODULE MCRouter ------------------------------
EXTENDS Router

CONSTANTS m1, m2, m3, p1, p2

MCRegistry ==
  (m1 :> [provider |-> p1, tier |-> "standard", quality |-> 2, cost |-> 3]) @@
  (m2 :> [provider |-> p2, tier |-> "standard", quality |-> 3, cost |-> 2]) @@
  (m3 :> [provider |-> p1, tier |-> "economy", quality |-> 1, cost |-> 1])
=============================================================================
