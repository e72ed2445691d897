------------------------------ MODULE MCFlows -------------------------------
(***************************************************************************)
(* The two walks on which the conductor itself takes a session through its *)
(* flow: over the stages of a graph (FlowGraph), or over the items of a    *)
(* for_each stage (ForEachLoop). A session is on one of them.              *)
(***************************************************************************)
EXTENDS FlowGraph, ForEachLoop

CONSTANTS a1, a2

Later == {e \in Stages \X Stages : e[1] < e[2]}

\* conditional and plain edges among `edges`, conditions that fail on an empty
\* config or that do not
Mixed(edges) ==
    LET flows == {[plain |-> {e \in DOMAIN k : k[e] = "plain"},
                   cond |-> {e \in DOMAIN k : k[e] = "cond"}, blank |-> {}] :
                     k \in [edges -> {"none", "plain", "cond"}]}
    IN  flows \cup {[f EXCEPT !.blank = f.cond] : f \in flows}

\* plain edges alone, in any direction
Plain == {[plain |-> E, cond |-> {}, blank |-> {}] :
            E \in SUBSET {e \in Stages \X Stages : e[1] # e[2]}}

\* depends_on of every stage
Declared == {DependsOn(dep) :
               dep \in {d \in [Stages -> SUBSET Stages] :
                          \A s \in Stages : d[s] \subseteq 1..(s - 1)}}

\* the shipped conditional.yaml from its review on: 2 goes back to it
Conditional ==
    [plain |-> {<<2, 1>>}, cond |-> {<<1, 2>>, <<1, 3>>, <<1, 4>>}, blank |-> {}]

GraphFlows ==
    Plain \cup Mixed(Later) \cup Mixed(Later \cup {<<3, 2>>}) \cup {Conditional}
AttendedFlows == Declared \cup {Conditional}

---------------------------------------------------------------------------
VARIABLE walks   \* "graph" or "for_each"

graph == vars
all == <<walks, graph, loopVars>>

\* the walk that is not taken rests at a first state of its own
GraphRests == flow = Conditional /\ ~attended
LoopRests ==
    /\ forEach = [items |-> 0, policy |-> "stop", cap |-> 9, agent |-> FALSE]
    /\ ~tended
    /\ ~kicked

\* bound: an operator interferes with lists of at most two items
LoopKept == tended => forEach.items <= 2

EitherInit ==
    /\ Init
    /\ LoopInit
    /\ \/ walks = "graph" /\ LoopRests
       \/ walks = "for_each" /\ GraphRests /\ LoopKept

Graph0 == walks = "graph" /\ UNCHANGED <<walks, loopVars>>
Loop0 == walks = "for_each" /\ UNCHANGED <<walks, graph>>

EitherNext ==
    \/ \E a \in Advances :
          \/ AdvanceStart(a) /\ Graph0
          \/ AdvanceNext(a) /\ Graph0
          \/ AdvanceWaits(a) /\ Graph0
          \/ AdvanceCompletesFlow(a) /\ Graph0
    \/ \E s \in Stages : Rewind(s) /\ Graph0
    \/ Crash /\ Graph0
    \/ Resume /\ Graph0
    \/ Enter /\ Loop0
    \/ EnterEmpty /\ Loop0
    \/ Skip /\ Loop0
    \/ BudgetExceeded /\ Loop0
    \/ Spawn /\ Loop0
    \/ Launched /\ Loop0
    \/ ChildCompleted /\ Loop0
    \/ ChildFailed /\ Loop0
    \/ Finish /\ Loop0
    \/ VerifyPasses /\ Loop0
    \/ CompleteFlow /\ Loop0
    \/ Reconcile /\ Loop0
    \/ DispatchFails /\ Loop0
    \/ SpawnFails /\ Loop0
    \/ LaunchFails /\ Loop0
    \/ VerifyFails /\ Loop0
    \/ \E k \in DOMAIN child : ChildEnds(k) /\ Loop0
    \/ Watchdog /\ Loop0
    \/ PollGone /\ Loop0
    \/ WriteGone /\ Loop0
    \/ Stop /\ Loop0
    \/ ResumeRow /\ Loop0
    \/ Restart /\ Loop0

\* the fairness of the two walks
EitherSpec ==
    /\ EitherInit /\ [][EitherNext]_all
    /\ \A a \in Advances :
          WF_all((AdvanceNext(a) \/ AdvanceWaits(a) \/ AdvanceCompletesFlow(a)) /\ Graph0)
    /\ WF_all(LoopStep /\ Loop0)

---------------------------------------------------------------------------
\* the variables of both walks have their types
TypesOK == TypeOK /\ LoopTypeOK
=============================================================================
