-------------------------- MODULE FlowGraphProofs ---------------------------
(***************************************************************************)
(* What advanceGraph guarantees on every graph of every size, for any      *)
(* number of advances in flight; and what it guarantees a session that     *)
(* nobody interferes with.                                                 *)
(***************************************************************************)
EXTENDS MCFlows, ForEachLoopProofs, FiniteSetTheorems, TLAPS

---------------------------------------------------------------------------
(* The graph                                                               *)

\* Edges join stages.
LEMMA EdgesAreEdges ==
    ASSUME flow \in Graph
    PROVE  Edges \subseteq Stages \X Stages
BY DEF Edges, Graph

\* A search from fewer seeds visits less.
LEMMA ReachGrows ==
    ASSUME NEW S, NEW T, S \subseteq T
    PROVE  Reach(S) \subseteq Reach(T)
BY DEF Reach

\* It visits its seeds, and what an edge leads to from what it visits.
LEMMA ReachHasSeeds ==
    ASSUME NEW S, NEW s \in Stages, s \in S
    PROVE  s \in Reach(S)
BY DEF Reach

LEMMA ReachFollowsEdges ==
    ASSUME flow \in Graph, NEW s, NEW n, <<s, n>> \in Edges
    PROVE  Reach({n}) \subseteq Reach({s})
<1> SUFFICES ASSUME NEW x \in Stages, x \in Reach({n}),
                    NEW C \in SUBSET Stages, {s} \subseteq C,
                    \A e \in Edges : e[1] \in C => e[2] \in C
             PROVE  x \in C
  BY DEF Reach
<1>1. {n} \subseteq C
  BY <<s, n>>[1] = s, <<s, n>>[2] = n
<1> QED
  BY <1>1 DEF Reach

\* Where a stage leads is one of the graph's edges.
LEMMA TargetsAreSuccessors ==
    ASSUME flow \in Graph, NEW s, NEW met \in SUBSET From(flow.cond, s),
           NEW n \in Targets(IF met # {} THEN met ELSE From(flow.plain, s))
    PROVE  <<s, n>> \in Edges /\ n \in Stages /\ s \in Preds(n)
<1>1. PICK e \in From(flow.plain, s) \cup From(flow.cond, s) : e[2] = n
  BY DEF Targets
<1>2. e \in Edges /\ e[1] = s /\ e \in Stages \X Stages
  BY <1>1, EdgesAreEdges DEF From, Edges
<1>3. e = <<s, n>>
  BY <1>1, <1>2
<1> QED
  BY <1>1, <1>2, <1>3 DEF Preds

\* Skipping only adds, and never what the chosen stages lead to.
LEMMA SkipsGrow ==
    ASSUME NEW s, NEW chosen
    PROVE  /\ skipped \subseteq Skips(s, chosen)
           /\ Skips(s, chosen) \cap Reach(chosen) \subseteq skipped
           /\ skipped \subseteq Stages => Skips(s, chosen) \subseteq Stages
<1>1. Reach(Targets(From(Edges, s)) \ chosen) \subseteq Stages
  BY DEF Reach
<1> QED
  BY <1>1 DEF Skips, ComputeSkippedStages

---------------------------------------------------------------------------
(* Types                                                                   *)

LEMMA ReadyAreStages ==
    ASSUME TypeOK, NEW a \in Advances
    PROVE  Ready(a) \subseteq Stages
<1>1. advance[a].met \subseteq Stages \X Stages /\ flow.plain \subseteq Stages \X Stages
  BY DEF TypeOK, Graph
<1> QED
  BY <1>1 DEF Ready, ResolveNextStages, Targets, From

\* Every variable keeps its type; in particular the stage a session is at is
\* one of the flow's, whichever graph it walks (advanceGraph, resume).
THEOREM FlowTypeCorrect == Spec => []TypeOK
<1> USE FlowsAssumption
<1>1. Init => TypeOK
  BY DEF Init, TypeOK, First, Stages, NoAdvance
<1>2. TypeOK /\ [Next]_vars => TypeOK'
  <2> SUFFICES ASSUME TypeOK, [Next]_vars
               PROVE  TypeOK'
    OBVIOUS
  <2>1. ASSUME NEW a \in Advances, AdvanceStart(a)
        PROVE  TypeOK'
    <3>1. PICK met \in SUBSET From(flow.cond, stage) :
             advance' = [advance EXCEPT ![a] = [of |-> stage, met |-> met]]
      BY <2>1 DEF AdvanceStart
    <3>2. met \subseteq Stages \X Stages
      BY DEF From, TypeOK, Graph
    <3> QED
      BY <2>1, <3>1, <3>2 DEF AdvanceStart, TypeOK, walk
  <2>2. ASSUME NEW a \in Advances, Returns(a), Completes(advance[a].of)
        PROVE  /\ advance' \in [Advances -> [of: Stages \cup {0}, met: SUBSET (Stages \X Stages)]]
               /\ done' \subseteq Stages
               /\ flow' = flow /\ attended' = attended /\ start' = start
    <3>1. advance[a].of \in Stages
      BY <2>2 DEF Returns, Idle, TypeOK
    <3> QED
      BY <2>2, <3>1 DEF Returns, Completes, NoAdvance, TypeOK
  <2>3. ASSUME NEW a \in Advances, AdvanceNext(a)
        PROVE  TypeOK'
    <3>1. PICK n \in Ready(a) :
             /\ stage' = n
             /\ readied' = [readied EXCEPT ![n] = IF @ = 0 THEN 1 ELSE 2]
      BY <2>3 DEF AdvanceNext
    <3>2. n \in Stages /\ skipped' \subseteq Stages /\ status' = "ready"
      BY <2>3, ReadyAreStages, SkipsGrow DEF AdvanceNext, TypeOK
    <3>3. readied' \in [Stages -> 0..2]
      BY <3>1, <3>2 DEF TypeOK
    <3> QED
      BY <2>2, <2>3, <3>1, <3>2, <3>3 DEF AdvanceNext, TypeOK
  <2>4. ASSUME NEW a \in Advances, AdvanceWaits(a) \/ AdvanceCompletesFlow(a)
        PROVE  TypeOK'
    BY <2>2, <2>4 DEF AdvanceWaits, AdvanceCompletesFlow, TypeOK
  <2>5. ASSUME Crash
        PROVE  TypeOK'
    <3>1. \A a \in Advances : ~Idle(a) => advance[a].of \in Stages
      BY DEF Idle, TypeOK
    <3>2. done' \subseteq Stages /\ skipped' \subseteq Stages
      BY <2>5, <3>1, SkipsGrow DEF Crash, Completes, TypeOK
    <3> QED
      BY <2>5, <3>2 DEF Crash, TypeOK, NoAdvance
  <2>6. ASSUME NEW s \in Stages, Rewind(s)
        PROVE  TypeOK'
    BY <2>6 DEF Rewind, TypeOK
  <2>7. CASE Resume
    BY <2>7 DEF Resume, TypeOK
  <2>8. CASE UNCHANGED vars
    BY <2>8 DEF vars, walk, TypeOK
  <2> QED
    BY <2>1, <2>3, <2>4, <2>5, <2>6, <2>7, <2>8 DEF Next, AdvanceStep
<1> QED
  BY <1>1, <1>2, PTL DEF Spec

---------------------------------------------------------------------------
(* Joins                                                                   *)

\* On every graph, with any number of advances that race, rewinds, resumes
\* and crashes, a stage is entered only when all it depends on is completed
\* or skipped (resolveNextStages, on the flow state as it is at that moment).
THEOREM JoinsDoWait == Spec => []JoinsWait
<1>1. Init => JoinsWait
  BY DEF Init, JoinsWait
<1>2. JoinsWait /\ [Next]_vars => JoinsWait'
  <2> SUFFICES ASSUME JoinsWait, [Next]_vars
               PROVE  JoinsWait'
    OBVIOUS
  <2>1. ASSUME flow' = flow
        PROVE  \A s : Preds(s)' = Preds(s)
    BY <2>1 DEF Preds, Edges
  <2>2. ASSUME flow' = flow, stage' = stage, start' = start,
               done \subseteq done', skipped \subseteq skipped'
        PROVE  JoinsWait'
    BY <2>1, <2>2 DEF JoinsWait
  <2>3. ASSUME NEW a \in Advances, AdvanceStart(a)
        PROVE  JoinsWait'
    BY <2>2, <2>3 DEF AdvanceStart, walk
  <2>4. ASSUME NEW a \in Advances, AdvanceNext(a)
        PROVE  JoinsWait'
    <3>1. PICK n \in Ready(a) : stage' = n
      BY <2>4 DEF AdvanceNext
    <3>2. Preds(n) \ skipped \subseteq done \cup {advance[a].of}
      BY DEF Ready, ResolveNextStages
    <3>3. done' = done \cup {advance[a].of} /\ skipped \subseteq skipped'
      BY <2>4, SkipsGrow DEF AdvanceNext, Completes
    <3> QED
      BY <2>1, <2>4, <3>1, <3>2, <3>3 DEF JoinsWait, AdvanceNext, Returns
  <2>5. ASSUME NEW a \in Advances, AdvanceWaits(a) \/ AdvanceCompletesFlow(a)
        PROVE  JoinsWait'
    BY <2>2, <2>5 DEF AdvanceWaits, AdvanceCompletesFlow, Returns, Completes
  <2>6. CASE Crash
    <3>1. done \subseteq done' /\ skipped \subseteq skipped'
      BY <2>6, SkipsGrow DEF Crash, Completes
    <3> QED
      BY <2>2, <2>6, <3>1 DEF Crash
  <2>7. ASSUME NEW s \in Stages, Rewind(s)
        PROVE  JoinsWait'
    BY <2>7 DEF Rewind, JoinsWait
  <2>8. CASE Resume
    BY <2>2, <2>8 DEF Resume
  <2>9. CASE UNCHANGED vars
    BY <2>2, <2>9 DEF vars, walk
  <2> QED
    BY <2>3, <2>4, <2>5, <2>6, <2>7, <2>8, <2>9 DEF Next, AdvanceStep
<1> QED
  BY <1>1, <1>2, PTL DEF Spec

---------------------------------------------------------------------------
(* A session that nobody interferes with                                   *)

\* One advance at a time, on the stage the session is at: what it read is
\* still so. No stage was readied but those behind the session and its own,
\* and what is behind it was entered by its predecessors.
Alone ==
    ~attended =>
        /\ \A a, b \in Advances : ~Idle(a) /\ ~Idle(b) => a = b
        /\ \A a \in Advances : ~Idle(a) =>
              /\ advance[a].of = stage
              /\ advance[a].met \subseteq From(flow.cond, stage)
              /\ status = "ready"
        /\ \A s \in Stages : readied[s] <= 1 /\ (readied[s] = 1 => s \in done \cup {stage})
        /\ status = "ready" => stage \notin done
        /\ start = First
        /\ \A s \in done : s = First \/ Preds(s) \subseteq done \cup skipped

WalkInv == TypeOK /\ JoinsWait /\ Alone /\ SkippedIsDead

\* The stages an advance finds ready, when nobody interferes: successors of
\* the session's stage that were not entered before.
LEMMA ReadyAreAhead ==
    ASSUME WalkInv, ~attended, NEW a \in Advances, ~Idle(a), NEW n \in Ready(a)
    PROVE  /\ n \in Stages /\ n \notin done \cup {stage} /\ n \notin skipped
           /\ readied[n] = 0
           /\ Reach({n}) \subseteq Reach({stage})
<1>1. /\ advance[a].of = stage /\ flow \in Graph
      /\ advance[a].met \in SUBSET From(flow.cond, stage)
  BY DEF WalkInv, Alone, TypeOK
<1>2. /\ n \in Targets(IF advance[a].met # {} THEN advance[a].met
                       ELSE From(flow.plain, stage))
      /\ n \notin done \cup {stage} /\ n \notin skipped
  BY <1>1 DEF Ready, ResolveNextStages
<1>3. <<stage, n>> \in Edges /\ n \in Stages
  BY <1>1, <1>2, TargetsAreSuccessors
<1>4. readied[n] = 0
  <2>1. readied[n] \in 0..2 /\ readied[n] <= 1 /\ readied[n] # 1
    BY <1>2, <1>3 DEF WalkInv, Alone, TypeOK
  <2> QED
    BY <2>1
<1> QED
  BY <1>1, <1>2, <1>3, <1>4, ReachFollowsEdges

\* In a flow without joins, an advance finds a stage whenever one follows.
LEMMA TreesGoOn ==
    ASSUME FlowsAssumption, WalkInv, ~attended, Tree,
           NEW a \in Advances, ~Idle(a), Successors(a) # {}
    PROVE  Ready(a) # {}
<1>1. /\ advance[a].of = stage /\ stage \in Stages /\ status = "ready"
      /\ advance[a].met \in SUBSET From(flow.cond, stage)
      /\ flow \in Graph
  BY DEF WalkInv, Alone, TypeOK
<1> DEFINE chosen == Targets(IF advance[a].met # {} THEN advance[a].met
                             ELSE From(flow.plain, stage))
<1>2. PICK n : n \in chosen
  BY <1>1 DEF Successors, Targets
<1>3. <<stage, n>> \in Edges /\ n \in Stages /\ stage \in Preds(n)
  BY <1>1, <1>2, TargetsAreSuccessors
<1>4. Preds(n) = {stage}
  <2>1. Preds(n) \subseteq Stages
    BY <1>1, EdgesAreEdges DEF Preds
  <2>2. IsFiniteSet(Preds(n)) /\ Cardinality(Preds(n)) <= 1
    <3>1. LastStage \in Int
      BY DEF FlowsAssumption
    <3>2. IsFiniteSet(Stages)
      BY <3>1, 1 \in Int, FS_Interval DEF Stages
    <3> QED
      BY <1>3, <2>1, <3>2, FS_Subset DEF Tree
  <2>3. ASSUME NEW p \in Preds(n), p # stage
        PROVE  FALSE
    <3>1. IsFiniteSet({stage}) /\ Cardinality({stage}) = 1
      BY FS_Singleton
    <3>2. Cardinality({stage} \cup {p}) = 2
      <4>1. p \notin {stage}
        BY <2>3
      <4>2. Cardinality({stage} \cup {p}) = Cardinality({stage}) + 1
        BY <3>1, <4>1, FS_AddElement
      <4> QED
        BY <3>1, <4>2
    <3>3. {stage} \cup {p} \in SUBSET Preds(n)
      BY <1>3, <2>3
    <3>4. Cardinality({stage} \cup {p}) <= Cardinality(Preds(n))
      BY <2>2, <3>3, FS_Subset
    <3>5. Cardinality(Preds(n)) \in Nat
      BY <2>2, FS_CardinalityType
    <3> QED
      BY <2>2, <3>2, <3>4, <3>5
  <2> QED
    BY <1>3, <2>3
<1>5. stage \notin done /\ stage \notin skipped /\ n \notin skipped
  <2>1. stage \in Reach({stage})
    BY <1>1, ReachHasSeeds
  <2>2. n \in Reach({stage})
    BY <1>1, <1>3, ReachFollowsEdges, ReachHasSeeds
  <2> QED
    BY <1>1, <2>1, <2>2 DEF WalkInv, Alone, SkippedIsDead
<1>6. n # First /\ start = First
  BY <1>3 DEF Tree, WalkInv, Alone
<1>7. n \notin done
  BY <1>4, <1>5, <1>6 DEF WalkInv, Alone
<1>8. n # stage
  BY <1>4, <1>5, <1>6 DEF WalkInv, JoinsWait
<1>9. n \in Ready(a)
  BY <1>1, <1>2, <1>4, <1>5, <1>7, <1>8 DEF Ready, ResolveNextStages
<1> QED
  BY <1>9

LEMMA WalkInvHolds == Spec => []WalkInv
<1> USE FlowsAssumption
<1>1. Init => Alone /\ SkippedIsDead
  BY DEF Init, Alone, SkippedIsDead, Idle, NoAdvance, First
<1>2. TypeOK /\ TypeOK' /\ JoinsWait /\ Alone /\ SkippedIsDead /\ [Next]_vars
        => Alone' /\ SkippedIsDead'
  <2> SUFFICES ASSUME WalkInv, TypeOK', [Next]_vars, ~attended'
               PROVE  Alone' /\ SkippedIsDead'
    BY DEF WalkInv, Alone, SkippedIsDead
  <2>1. ~attended /\ flow' = flow
    BY DEF Next, AdvanceStep, AdvanceStart, AdvanceNext, AdvanceWaits,
           AdvanceCompletesFlow, Returns, Crash, Rewind, Resume, vars
  <2>2. /\ \A s : Preds(s)' = Preds(s)
        /\ \A S : Reach(S)' = Reach(S)
        /\ \A s : From(flow.cond, s)' = From(flow.cond, s)
    BY <2>1 DEF Preds, Reach, Edges, From
  <2>3. ASSUME NEW a \in Advances, AdvanceStart(a)
        PROVE  Alone' /\ SkippedIsDead'
    <3>1. status = "ready" /\ \A b \in Advances : Idle(b)
      BY <2>1, <2>3 DEF AdvanceStart
    <3>2. PICK met \in SUBSET From(flow.cond, stage) :
             advance' = [advance EXCEPT ![a] = [of |-> stage, met |-> met]]
      BY <2>3 DEF AdvanceStart
    <3>3. \A b \in Advances : ~Idle(b)' => /\ b = a /\ advance'[b].of = stage
                                           /\ advance'[b].met = met
      BY <3>1, <3>2 DEF Idle, WalkInv, TypeOK
    <3>4. UNCHANGED walk
      BY <2>3 DEF AdvanceStart
    <3> QED
      BY <2>1, <2>2, <3>1, <3>3, <3>4 DEF Alone, SkippedIsDead, WalkInv, walk
  <2>4. ASSUME NEW a \in Advances, Returns(a)
        PROVE  /\ \A b \in Advances : Idle(b)'
               /\ advance[a].of = stage /\ stage \notin done /\ stage \in Stages
               /\ start' = First
               /\ stage = First \/ Preds(stage) \subseteq done \cup skipped
    BY <2>1, <2>4 DEF Returns, Idle, NoAdvance, WalkInv, Alone, TypeOK, JoinsWait
  <2>5. ASSUME NEW a \in Advances, AdvanceNext(a)
        PROVE  Alone' /\ SkippedIsDead'
    <3>1. PICK n \in Ready(a) :
             /\ stage' = n
             /\ readied' = [readied EXCEPT ![n] = IF @ = 0 THEN 1 ELSE 2]
      BY <2>5 DEF AdvanceNext
    <3>2. /\ n \in Stages /\ n \notin done \cup {stage} /\ n \notin skipped
          /\ readied[n] = 0
          /\ Reach({n}) \subseteq Reach({stage})
      BY <2>1, <2>5, <3>1, ReadyAreAhead DEF AdvanceNext, Returns
    <3>3. /\ done' = done \cup {stage}
          /\ skipped \subseteq skipped'
          /\ skipped' \cap Reach(Ready(a)) \subseteq skipped
      BY <2>4, <2>5, SkipsGrow DEF AdvanceNext, Completes
    <3>4. Reach({n}) \subseteq Reach(Ready(a))
      BY <3>1, ReachGrows, {n} \subseteq Ready(a)
    <3>5. SkippedIsDead'
      BY <2>1, <2>2, <3>1, <3>2, <3>3, <3>4 DEF SkippedIsDead, WalkInv
    <3>6. \A s \in Stages : readied'[s] <= 1 /\ (readied'[s] = 1 => s \in done' \cup {stage'})
      <4>1. readied'[n] = 1 /\ \A s \in Stages \ {n} : readied'[s] = readied[s]
        BY <3>1, <3>2 DEF WalkInv, TypeOK
      <4> QED
        BY <2>1, <3>1, <3>3, <4>1 DEF WalkInv, Alone
    <3>7. \A s \in done' : s = First \/ Preds(s) \subseteq done' \cup skipped'
      BY <2>1, <2>4, <2>5, <3>3 DEF WalkInv, Alone, AdvanceNext
    <3>8. stage' \notin done'
      BY <3>1, <3>2, <3>3
    <3> QED
      BY <2>1, <2>2, <2>4, <2>5, <3>5, <3>6, <3>7, <3>8 DEF Alone, AdvanceNext
  <2>6. ASSUME NEW a \in Advances, AdvanceWaits(a) \/ AdvanceCompletesFlow(a)
        PROVE  Alone' /\ SkippedIsDead'
    <3>1. /\ Returns(a) /\ UNCHANGED <<stage, skipped, readied>>
          /\ status' # "ready" /\ done' = done \cup {stage}
      BY <2>4, <2>6 DEF AdvanceWaits, AdvanceCompletesFlow, Completes
    <3>2. \A s \in done' : s = First \/ Preds(s) \subseteq done' \cup skipped'
      BY <2>1, <2>4, <3>1 DEF WalkInv, Alone
    <3> QED
      BY <2>1, <2>2, <2>4, <3>1, <3>2 DEF Alone, SkippedIsDead, WalkInv
  <2>7. CASE UNCHANGED vars
    <3>1. \A b \in Advances : Idle(b)' = Idle(b)
      BY <2>7 DEF vars, Idle
    <3> QED
      BY <2>2, <2>7, <3>1 DEF vars, walk, Alone, SkippedIsDead, WalkInv
  <2> QED
    BY <2>1, <2>3, <2>5, <2>6, <2>7
    DEF Next, AdvanceStep, Crash, Rewind, Resume
<1> QED
  BY <1>1, <1>2, FlowTypeCorrect, JoinsDoWait, PTL DEF Spec, WalkInv

\* When nobody interferes no stage of any flow is entered twice, also where
\* edges lead back (resolveNextStages leaves out what is completed).
THEOREM StagesRunOnce == Spec => []RunsOnce
<1>1. WalkInv => RunsOnce
  BY DEF WalkInv, Alone, RunsOnce
<1> QED
  BY <1>1, WalkInvHolds, PTL

\* When nobody interferes, what is skipped cannot be reached any more from
\* the stage the session is at (computeSkippedStages spares what the chosen
\* branch leads to, and every later stage is on that branch).
THEOREM SkippedStaysDead == Spec => []SkippedIsDead
<1>1. WalkInv => SkippedIsDead
  BY DEF WalkInv
<1> QED
  BY <1>1, WalkInvHolds, PTL

\* When nobody interferes, a flow without joins never waits at one: the only
\* predecessor of the next stage is the one the session leaves.
THEOREM TreesDoNotWait == Spec => []TreesNeverWait
<1>1. Init => TreesNeverWait
  BY DEF Init, TreesNeverWait
<1>2. WalkInv /\ TreesNeverWait /\ [Next]_vars => TreesNeverWait'
  <2> SUFFICES ASSUME WalkInv, TreesNeverWait, [Next]_vars, ~attended', Tree'
               PROVE  status' # "waiting"
    BY DEF TreesNeverWait
  <2>1. ~attended /\ flow' = flow
    BY DEF Next, AdvanceStep, AdvanceStart, AdvanceNext, AdvanceWaits,
           AdvanceCompletesFlow, Returns, Crash, Rewind, Resume, vars
  <2>2. Tree /\ status # "waiting"
    BY <2>1 DEF Tree, Preds, Edges, TreesNeverWait
  <2>3. ASSUME NEW a \in Advances, AdvanceWaits(a)
        PROVE  FALSE
    BY <2>1, <2>2, <2>3, FlowsAssumption, TreesGoOn DEF AdvanceWaits, Returns
  <2> QED
    BY <2>1, <2>2, <2>3
    DEF Next, AdvanceStep, AdvanceStart, AdvanceNext, AdvanceCompletesFlow,
        Crash, Rewind, Resume, walk, vars
<1> QED
  BY <1>1, <1>2, WalkInvHolds, PTL DEF Spec

---------------------------------------------------------------------------
(* The walk ends                                                           *)

\* A stage that is completed for the first time is one less to be completed.
LEMMA OneLessToDo ==
    ASSUME FlowsAssumption, NEW S \in SUBSET Stages, NEW s \in Stages, s \notin S
    PROVE  /\ Cardinality(Stages \ S) \in Nat /\ Cardinality(Stages \ S) > 0
           /\ Cardinality(Stages \ (S \cup {s})) = Cardinality(Stages \ S) - 1
<1>1. IsFiniteSet(Stages)
  <2>1. LastStage \in Int
    BY DEF FlowsAssumption
  <2> QED
    BY <2>1, 1 \in Int, FS_Interval DEF Stages
<1>2. IsFiniteSet(Stages \ S) /\ Cardinality(Stages \ S) \in Nat
  BY <1>1, FS_Subset, FS_CardinalityType
<1>3. Cardinality(Stages \ S) # 0
  BY <1>2, FS_EmptySet
<1>4. Stages \ (S \cup {s}) = (Stages \ S) \ {s}
  OBVIOUS
<1>5. Cardinality((Stages \ S) \ {s}) = Cardinality(Stages \ S) - 1
  BY <1>2, FS_RemoveElement
<1> QED
  BY <1>2, <1>3, <1>4, <1>5

\* When nobody interferes every step of a walk, over whichever graph, leaves
\* fewer steps to be made, so that it takes no more than twice as many as
\* there are stages: an advance begins at a stage that is not completed, and
\* completes it (advanceGraph, markStageCompleted). No fairness is needed.
THEOREM WalksShrink == Spec => WalkShrinks
<1> USE FlowsAssumption
<1>1. WalkInv /\ WalkInv' /\ [Next]_vars
        => [~attended => StepsLeft' \in Nat /\ StepsLeft' < StepsLeft]_vars
  <2> SUFFICES ASSUME WalkInv, WalkInv', Next, ~attended
               PROVE  StepsLeft' \in Nat /\ StepsLeft' < StepsLeft
    OBVIOUS
  <2>1. stage \in Stages /\ done \subseteq Stages /\ Stages' = Stages
    BY DEF WalkInv, TypeOK
  <2>2. ASSUME NEW a \in Advances, AdvanceStart(a)
        PROVE  StepsLeft' \in Nat /\ StepsLeft' < StepsLeft
    <3>1. status = "ready" /\ ~InFlight /\ done' = done
      BY <2>2 DEF AdvanceStart, InFlight, walk
    <3>2. InFlight'
      <4>1. advance'[a].of = stage
        BY <2>2 DEF AdvanceStart, WalkInv, TypeOK
      <4>2. stage # 0
        BY <2>1 DEF Stages
      <4> QED
        BY <4>1, <4>2 DEF InFlight, Idle
    <3>3. stage \notin done
      BY <3>1 DEF WalkInv, Alone
    <3>4. Cardinality(Stages \ done) \in Nat /\ Cardinality(Stages \ done) > 0
      BY <2>1, <3>3, OneLessToDo
    <3> QED
      BY <3>1, <3>2, <3>4 DEF StepsLeft
  <2>3. ASSUME NEW a \in Advances, Returns(a), Completes(advance[a].of)
        PROVE  StepsLeft' \in Nat /\ StepsLeft' < StepsLeft
    <3>1. advance[a].of = stage /\ status = "ready" /\ InFlight
      BY <2>3 DEF Returns, InFlight, WalkInv, Alone
    <3>2. ~InFlight'
      BY <2>3 DEF Returns, InFlight, Idle, NoAdvance, WalkInv, Alone, TypeOK
    <3>3. stage \notin done /\ done' = done \cup {stage}
      BY <2>3, <3>1 DEF WalkInv, Alone, Completes
    <3>4. /\ Cardinality(Stages \ done) \in Nat /\ Cardinality(Stages \ done) > 0
          /\ Cardinality(Stages \ done') = Cardinality(Stages \ done) - 1
      BY <2>1, <3>3, OneLessToDo
    <3> QED
      BY <3>1, <3>2, <3>4 DEF StepsLeft
  <2> QED
    BY <2>2, <2>3 DEF Next, AdvanceStep, AdvanceNext, AdvanceWaits, AdvanceCompletesFlow,
                      Crash, Rewind, Resume
<1> QED
  BY <1>1, WalkInvHolds, PTL DEF Spec, WalkShrinks

---------------------------------------------------------------------------
(* The two walks together (MCFlows)                                        *)

\* A session that is on one of the walks does on each what that walk alone
\* would do: a step on one leaves the other where it rests.
THEOREM EachWalkIsItself == EitherSpec => Spec /\ LoopSpec
<1>1. EitherInit => Init /\ LoopInit
  BY DEF EitherInit
<1>2. [EitherNext]_all => [Next]_vars /\ [LoopNext]_loopVars
  <2>1. CASE UNCHANGED all
    BY <2>1 DEF all, graph
  <2>2. ASSUME EitherNext, Graph0
        PROVE  Next
    BY <2>2 DEF EitherNext, Next, AdvanceStep, Loop0, Graph0
  <2>3. ASSUME EitherNext, Loop0
        PROVE  LoopNext
    BY <2>3 DEF EitherNext, LoopNext, LoopStep, Loop0, Graph0
  <2>4. EitherNext => Graph0 \/ Loop0
    BY DEF EitherNext
  <2>5. /\ Graph0 => UNCHANGED loopVars
        /\ Loop0 => UNCHANGED vars
    BY DEF Graph0, Loop0, graph
  <2> QED
    BY <2>1, <2>2, <2>3, <2>4, <2>5
<1> QED
  BY <1>1, <1>2, PTL DEF EitherSpec, Spec, LoopSpec

\* The variables of both walks have their types, whichever the session is on.
THEOREM WalksHaveTheirTypes == EitherSpec => []TypesOK
<1>1. TypeOK /\ LoopTypeOK => TypesOK
  BY DEF TypesOK
<1> QED
  BY <1>1, EachWalkIsItself, FlowTypeCorrect, LoopTypesHold, PTL
=============================================================================
