----------------------------- MODULE FlowGraph ------------------------------
(***************************************************************************)
(* The stages of a flow that declares edges or depends_on                  *)
(* (core/services/flow-graph.ts), and one session that walks them          *)
(* (StageAdvanceService.advanceGraph, stage-advance/advance.ts; the        *)
(* flow_state row, repositories/flow-state.ts).                            *)
(*                                                                         *)
(* An advance waits once, for the capture of PLAN.md: it has read the      *)
(* stage and the session's config before, and reads the flow state after.  *)
(* What an agent leaves in the config decides which conditions hold.       *)
(* Launches, gates and retries of the stage are SessionLifecycle's: here   *)
(* "ready" stands for a stage that is dispatched or runs.                  *)
(***************************************************************************)
EXTENDS Naturals, FiniteSets

CONSTANTS
    LastStage,  \* the stages are numbered in the order the flow lists them
    Flows,      \* the graphs a session may walk
    Attended,   \* those in which an operator, or a crash, interferes
    Advances    \* bound: advances in flight at the same time

Stages == 1..LastStage
First == 1

\* The edges of a flow, as parseGraphFlow leaves them: those without a
\* condition, those with one, and those whose condition does not fail on an
\* empty config (evaluateCondition: a thrown error counts as true).
Graph == [plain: SUBSET (Stages \X Stages), cond: SUBSET (Stages \X Stages),
          blank: SUBSET (Stages \X Stages)]

ASSUME FlowsAssumption ==
    /\ LastStage \in Nat \ {0}
    /\ Flows \subseteq Graph
    /\ \A f \in Flows : f.blank \subseteq f.cond
    /\ Attended \subseteq Flows
    /\ Advances # {}

VARIABLES
    flow,      \* the graph of the session's flow
    attended,  \* does an operator, or a crash, interfere?
    stage,     \* the row's stage ...
    status,    \* ... and status
    start,     \* the stage the walk began at: the first, or a rewind's target
    done,      \* flow_state.completedStages
    skipped,   \* flow_state.skippedStages
    readied,   \* stage_ready events of every stage, 2 for more than one
    advance    \* what each advance in flight read before its wait

walk == <<stage, status, start, done, skipped, readied>>
vars == <<flow, attended, stage, status, start, done, skipped, readied, advance>>

---------------------------------------------------------------------------
(* The graph                                                               *)

\* parseGraphFlow without explicit edges: dep[s] are the stages s depends on,
\* and a stage that names none depends on the one listed before it.
DependsOn(dep) ==
    [plain |-> {e \in Stages \X Stages :
                  \/ e[1] \in dep[e[2]]
                  \/ dep[e[2]] = {} /\ e[2] = e[1] + 1},
     cond |-> {}, blank |-> {}]

Edges == flow.plain \cup flow.cond
Targets(edges) == {e[2] : e \in edges}
From(edges, s) == {e \in edges : e[1] = s}
Preds(s) == {e[1] : e \in {d \in Edges : d[2] = s}}

\* what a breadth-first search from `seeds` visits: the least closed set
Reach(seeds) ==
    {s \in Stages :
        \A C \in SUBSET Stages :
            /\ seeds \subseteq C
            /\ \A e \in Edges : e[1] \in C => e[2] \in C
            => s \in C}

\* mutant: a join opens with the first of its predecessors
ResolveAnyBranch(s, met) ==
    LET chosen == Targets(IF met # {} THEN met ELSE From(flow.plain, s)) IN
    {n \in chosen \ (done \cup {s} \cup skipped) :
        (Preds(n) \ skipped) \cap (done \cup {s}) # {}}

\* mutant: stages that were completed before are not left out
ResolveAgain(s, met) ==
    LET chosen == Targets(IF met # {} THEN met ELSE From(flow.plain, s)) IN
    {n \in chosen \ skipped : Preds(n) \ skipped \subseteq done \cup {s}}

\* mutant: the stage that is being left does not count as completed
ResolveBeforehand(s, met) ==
    LET chosen == Targets(IF met # {} THEN met ELSE From(flow.plain, s)) IN
    {n \in chosen \ (done \cup {s} \cup skipped) : Preds(n) \ skipped \subseteq done}

\* resolveNextStages, where `met` are the conditional edges that hold: they
\* go before the plain ones, and a join waits for what is not skipped
ResolveNextStages(s, met) ==
    LET chosen == Targets(IF met # {} THEN met ELSE From(flow.plain, s)) IN
    {n \in chosen \ (done \cup {s} \cup skipped) :
        Preds(n) \ skipped \subseteq done \cup {s}}

\* mutant: also what the chosen branch leads to
ComputeSkippedFully(s, chosen) ==
    skipped \cup Reach(Targets(From(Edges, s)) \ chosen)

\* computeSkippedStages
ComputeSkippedStages(s, chosen) ==
    skipped \cup (Reach(Targets(From(Edges, s)) \ chosen) \ Reach(chosen))

\* its caller counts the successors on an empty config (getSuccessors)
Skips(s, chosen) ==
    IF Cardinality(From(flow.plain, s)) + Cardinality(From(flow.blank, s)) > 1
    THEN ComputeSkippedStages(s, chosen)
    ELSE skipped

---------------------------------------------------------------------------
NoAdvance == [of |-> 0, met |-> {}]
Idle(a) == advance[a].of = 0

Init ==
    /\ flow \in Flows
    /\ attended \in BOOLEAN
    /\ attended => flow \in Attended
    /\ stage = First
    /\ status = "ready"
    /\ start = First
    /\ done = {}
    /\ skipped = {}
    /\ readied = [s \in Stages |-> IF s = First THEN 1 ELSE 0]
    /\ advance = [a \in Advances |-> NoAdvance]

\* advanceImpl up to the capture: the hand-off of a stage that is over or,
\* where an operator is at work, session/advance at any time
AdvanceStart(a) ==
    /\ Idle(a)
    /\ \/ attended
       \/ status = "ready" /\ \A b \in Advances : Idle(b)
    /\ \E met \in SUBSET From(flow.cond, stage) :
          advance' = [advance EXCEPT ![a] = [of |-> stage, met |-> met]]
    /\ UNCHANGED <<flow, attended, walk>>

Returns(a) ==
    /\ ~Idle(a)
    /\ advance' = [advance EXCEPT ![a] = NoAdvance]
    /\ UNCHANGED <<flow, attended, start>>

\* markStageCompleted
Completes(s) == done' = done \cup {s}

\* resolveNextStages on what the advance read before its wait
Ready(a) == ResolveNextStages(advance[a].of, advance[a].met)

\* advanceGraph: the first of the stages that are ready is entered
AdvanceNext(a) ==
    /\ Returns(a)
    /\ \E n \in Ready(a) :
          /\ stage' = n
          /\ readied' = [readied EXCEPT ![n] = IF @ = 0 THEN 1 ELSE 2]
    /\ status' = "ready"
    /\ Completes(advance[a].of)
    /\ skipped' = Skips(advance[a].of, Ready(a))

\* getSuccessors on the config: plain edges count beside those that hold
Successors(a) ==
    Targets(From(flow.plain, advance[a].of) \cup advance[a].met)

AdvanceWaits(a) ==
    /\ Returns(a)
    /\ Ready(a) = {}
    /\ Successors(a) # {}
    /\ status' = "waiting"
    /\ Completes(advance[a].of)
    /\ UNCHANGED <<stage, skipped, readied>>

AdvanceCompletesFlow(a) ==
    /\ Returns(a)
    /\ Ready(a) = {}
    /\ Successors(a) = {}
    /\ status' = "completed"
    /\ Completes(advance[a].of)
    /\ UNCHANGED <<stage, skipped, readied>>

\* The conductor dies between the writes of an advance; the stage is driven
\* again after the restart.
Crash ==
    /\ attended
    /\ \/ \E a \in Advances :
             /\ ~Idle(a)
             /\ Completes(advance[a].of)
             /\ \/ skipped' = skipped
                \/ Ready(a) # {} /\ skipped' = Skips(advance[a].of, Ready(a))
       \/ UNCHANGED <<done, skipped>>
    /\ advance' = [a \in Advances |-> NoAdvance]
    /\ UNCHANGED <<flow, attended, stage, status, start, readied>>

\* mutant: the stage before the target
RewindBefore(s) ==
    /\ attended
    /\ s # stage
    /\ stage' = s - 1
    /\ start' = s
    /\ status' = "ready"
    /\ done' = {}
    /\ skipped' = {}
    /\ readied' = [n \in Stages |-> IF n = s THEN 1 ELSE 0]
    /\ UNCHANGED <<flow, attended, advance>>

\* SessionService.resume to another stage: the flow state is deleted
Rewind(s) ==
    /\ attended
    /\ s # stage
    /\ stage' = s
    /\ start' = s
    /\ status' = "ready"
    /\ done' = {}
    /\ skipped' = {}
    /\ readied' = [n \in Stages |-> IF n = s THEN 1 ELSE 0]
    /\ UNCHANGED <<flow, attended, advance>>

\* ... and of the stage the row is at: the flow state stays
Resume ==
    /\ attended
    /\ status = "waiting"
    /\ status' = "ready"
    /\ UNCHANGED <<flow, attended, stage, start, done, skipped, readied, advance>>

AdvanceStep(a) ==
    AdvanceStart(a) \/ AdvanceNext(a) \/ AdvanceWaits(a) \/ AdvanceCompletesFlow(a)

Next ==
    \/ \E a \in Advances : AdvanceStep(a)
    \/ \E s \in Stages : Rewind(s)
    \/ Crash \/ Resume

Spec == Init /\ [][Next]_vars

\* An advance returns from its capture; a stage may run for ever.
FairSpec ==
    /\ Spec
    /\ \A a \in Advances :
          WF_vars(AdvanceNext(a) \/ AdvanceWaits(a) \/ AdvanceCompletesFlow(a))

---------------------------------------------------------------------------
(* Properties                                                              *)

TypeOK ==
    /\ flow \in Graph
    /\ attended \in BOOLEAN
    /\ stage \in Stages
    /\ status \in {"ready", "waiting", "completed"}
    /\ start \in Stages
    /\ done \subseteq Stages
    /\ skipped \subseteq Stages
    /\ readied \in [Stages -> 0..2]
    /\ advance \in [Advances -> [of: Stages \cup {0}, met: SUBSET (Stages \X Stages)]]

\* A join waits: whatever stage the session is at, unless the walk began
\* there, the stages it depends on were completed or skipped, also after
\* advances that raced each other, a rewind or a crash (resolveNextStages).
JoinsWait == stage # start => Preds(stage) \subseteq done \cup skipped

\* Nobody interferes: no stage is run twice, not even in a flow whose edges
\* lead back (resolveNextStages, markStageCompleted).
RunsOnce == ~attended => \A s \in Stages : readied[s] <= 1

\* Nobody interferes: what was skipped lies behind the session for good; no
\* edge leads there from the stage it is at, so no join it can still come to
\* is opened by a branch that may yet run (computeSkippedStages).
SkippedIsDead == ~attended => Reach({stage}) \cap skipped = {}

\* Nobody interferes: a flow without joins never waits at one (advanceGraph).
Tree ==
    /\ \A s \in Stages : Cardinality(Preds(s)) <= 1
    /\ Preds(First) = {}
TreesNeverWait == ~attended /\ Tree => status # "waiting"

\* Nobody interferes: the walk comes to an end in every graph, cycles and
\* all; no session is advanced for ever (advanceGraph).
WalkEnds == ~attended => <>[](\A a \in Advances : Idle(a))

\* ... because every advance completes a stage that was not: each step of such
\* a walk, the start of an advance or its return, leaves fewer to be made.
InFlight == \E a \in Advances : ~Idle(a)
StepsLeft == 2 * Cardinality(Stages \ done) - (IF InFlight THEN 1 ELSE 0)
WalkShrinks == [][~attended => StepsLeft' \in Nat /\ StepsLeft' < StepsLeft]_vars
=============================================================================
