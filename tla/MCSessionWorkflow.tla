------------------------- MODULE MCSessionWorkflow --------------------------
EXTENDS SessionWorkflow

\* two gates, an action and a fan-out between two agents
MCKind == <<"agent", "manual", "action", "fan_out", "review", "agent">>

\* two subtasks of the fan-out
MCBranches == {<<4, 1>>, <<4, 2>>}

\* no fault, one, or two; a worker that dies meets a crash or a stop, and slow
\* launches come alone
Pairs ==
    {W \in SUBSET (Faults \ {"slow", "worker"}) : Cardinality(W) = 2}
        \cup {{"worker", "crash"}, {"worker", "stop"}}
MCWorlds == {{}} \cup {{f} : f \in Faults} \cup Pairs
=============================================================================
