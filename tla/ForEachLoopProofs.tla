-------------------------- MODULE ForEachLoopProofs --------------------------
(***************************************************************************)
(* What a for_each loop guarantees for lists of any length, any budget and *)
(* any number of deaths of the conductor.                                  *)
(***************************************************************************)
EXTENDS ForEachLoop, FiniteSetTheorems, SequenceTheorems, TLAPS

---------------------------------------------------------------------------
(* The invariant                                                           *)

AtItem == loop.at \in {"launch", "wait"}
Walking == AtItem \/ loop.at = "head"
Stops == forEach.policy = "stop"

\* the completed children this dispatch counts as its own
Paid == Completed \cap loop.spawned

\* A dispatch takes up what a checkpoint says, or begins with nothing; only a
\* death of the conductor leaves a checkpoint to take up.
Checkpointed ==
    /\ boot => cp /\ loop.at = "none" /\ restarts > 0
    /\ loop.at = "dispatch" => cp \/ child = << >>
    /\ loop.at = "dispatch" /\ restarts = 0 => child = << >>
    /\ Walking /\ restarts = 0 => loop.spawned = DOMAIN child

\* The child of the item under way is the last one.
AtLast ==
    AtItem => /\ loop.i \in Items
              /\ Current \in loop.spawned
              /\ child[Current].index = loop.i
              /\ loop.at = "launch" => child[Current].status = "ready"

\* What was skipped or walked over without a failure is completed.
Walked ==
    /\ Walking => /\ loop.done \subseteq Indices(Paid)
                  /\ ~loop.bad => 1..(loop.i - 1) \subseteq Indices(Paid)
    /\ loop.at \in {"verify", "advance"} => Items \subseteq Indices(Completed)

\* Where a failure stops the loop the items are begun in their order.
InOrder ==
    Stops => /\ ~loop.bad
             /\ \A k \in DOMAIN child :
                   \A j \in Items : j < child[k].index => j \in Indices(Completed)
             /\ loop.at = "head" =>
                   \A k \in Completed : child[k].index \in loop.done \/ child[k].index < loop.i
             /\ AtItem => \A k \in DOMAIN child : child[k].index <= loop.i

\* ... and a loop that may go on has left no child running but those that a
\* death left behind.
FewAlive ==
    Stops => /\ Cardinality(Alive) <= restarts + 1
             /\ loop.at # "wait" /\ (loop.at = "none" => cp) => Cardinality(Alive) <= restarts
             /\ loop.at = "wait" => Cardinality(Alive \ {Current}) <= restarts

LoopInv ==
    LoopTypeOK /\ Checkpointed /\ AtLast /\ Walked /\ InOrder /\ FewAlive /\ LoopIsComplete

---------------------------------------------------------------------------
(* The children                                                            *)

LEMMA ChildrenAreFinite ==
  ASSUME LoopTypeOK
  PROVE  /\ Len(child) \in Nat /\ DOMAIN child = 1..Len(child)
         /\ restarts \in Nat /\ forEach.items \in Nat
         /\ loop.i \in Nat /\ loop.i >= 1
         /\ \A K \in SUBSET DOMAIN child : IsFiniteSet(K) /\ Cardinality(K) \in Nat
<1>1. /\ Len(child) \in Nat /\ DOMAIN child = 1..Len(child)
      /\ restarts \in Nat /\ forEach.items \in Nat
      /\ loop.i \in Nat /\ loop.i >= 1
  BY LoopAssumption DEF LoopTypeOK
<1>2. IsFiniteSet(DOMAIN child)
  BY <1>1, FS_Interval
<1> QED
  BY <1>1, <1>2, FS_Subset, FS_CardinalityType

LEMMA ChildrenHaveItems ==
  ASSUME LoopTypeOK, NEW k \in DOMAIN child
  PROVE  /\ child[k].index \in Items /\ child[k].index \in Nat
         /\ child[k].status \in {"ready", "running"} \cup Ended
<1> DEFINE R == [index : Items, status : {"ready", "running"} \cup Ended]
<1>1. child \in Seq(R)
  BY DEF LoopTypeOK
<1>2. child[k] \in R
  <2> HIDE DEF R
  <2> QED
    BY <1>1
<1>3. Items \subseteq Nat
  BY ChildrenAreFinite DEF Items
<1> QED
  BY <1>2, <1>3

\* Fewer children alive, and none that was not.
LEMMA FewerAlive ==
  ASSUME LoopTypeOK, NEW A, NEW B, B \subseteq DOMAIN child, A \subseteq B
  PROVE  Cardinality(A) <= Cardinality(B) /\ Cardinality(A) \in Nat /\ Cardinality(B) \in Nat
BY ChildrenAreFinite, FS_Subset

\* One more child alive.
LEMMA OneMoreAlive ==
  ASSUME LoopTypeOK, NEW A, NEW k, A \subseteq DOMAIN child
  PROVE  Cardinality(A) <= Cardinality(A \ {k}) + 1 /\ Cardinality(A) \in Nat
<1>1. IsFiniteSet(A) /\ Cardinality(A) \in Nat
  BY ChildrenAreFinite
<1>2. CASE k \in A
  <2>1. /\ IsFiniteSet(A \ {k}) /\ Cardinality(A \ {k}) = Cardinality(A) - 1
    BY <1>1, <1>2, FS_RemoveElement
  <2>2. Cardinality(A \ {k}) \in Nat
    BY <2>1, FS_CardinalityType
  <2> QED
    BY <1>1, <2>1, <2>2
<1>3. CASE k \notin A
  <2>1. A \ {k} = A
    BY <1>3
  <2> QED
    BY <1>1, <2>1
<1> QED
  BY <1>2, <1>3

\* No more items than children.
LEMMA ItemsOfChildren ==
  ASSUME LoopTypeOK, NEW K \in SUBSET DOMAIN child
  PROVE  Cardinality(Indices(K)) <= Cardinality(K) /\ Cardinality(Indices(K)) \in Nat
<1> DEFINE f == [k \in K |-> child[k].index]
<1>1. IsFiniteSet(K) /\ Cardinality(K) \in Nat
  BY ChildrenAreFinite
<1>2. f \in Surjection(K, Indices(K))
  BY DEF Surjection, Indices
<1>3. IsFiniteSet(Indices(K)) /\ Cardinality(Indices(K)) <= Cardinality(K)
  BY <1>1, <1>2, FS_Surjection
<1> QED
  BY <1>3, FS_CardinalityType

LEMMA RecordWritten ==
  ASSUME NEW I, NEW S, NEW x \in [index : I, status : S], NEW s \in S
  PROVE  LET e == [x EXCEPT !.status = s] IN
         e \in [index : I, status : S] /\ e.status = s /\ e.index = x.index
OBVIOUS

\* A child changes its status: nothing else about the children does.
LEMMA StatusWritten ==
  ASSUME LoopTypeOK, NEW k \in DOMAIN child, NEW s \in {"running"} \cup Ended
  PROVE  child' = [child EXCEPT ![k].status = s] =>
         /\ child' \in Seq([index : Items, status : {"ready", "running"} \cup Ended])
         /\ DOMAIN child' = DOMAIN child /\ Len(child') = Len(child)
         /\ child'[k].status = s
         /\ \A j \in DOMAIN child : child'[j].index = child[j].index
         /\ \A j \in DOMAIN child \ {k} : child'[j] = child[j]
<1>0. child' = [child EXCEPT ![k].status = s]
         => child' = [child EXCEPT ![k] = [child[k] EXCEPT !.status = s]]
  OBVIOUS
<1> DEFINE R == [index : Items, status : {"ready", "running"} \cup Ended]
<1>1. child \in Seq(R) /\ s \in {"ready", "running"} \cup Ended
  BY DEF LoopTypeOK
<1>2. child[k] \in R
  <2> HIDE DEF R
  <2> QED
    BY <1>1
<1> DEFINE e == [child[k] EXCEPT !.status = s]
<1>3. e \in R /\ e.status = s /\ e.index = child[k].index
  BY <1>1, <1>2, RecordWritten, Zenon
<1>4. child' = [child EXCEPT ![k].status = s] => child' = [child EXCEPT ![k] = e]
  BY <1>0, Zenon
<1> HIDE DEF e, R
<1>5. child' = [child EXCEPT ![k] = e] =>
         /\ child' \in Seq(R)
         /\ DOMAIN child' = DOMAIN child /\ Len(child') = Len(child)
         /\ child'[k] = e /\ \A j \in DOMAIN child \ {k} : child'[j] = child[j]
  BY <1>1, <1>3
<1>6. child' = [child EXCEPT ![k] = e] =>
         \A j \in DOMAIN child : child'[j].index = child[j].index
  BY <1>3, <1>5
<1> QED
  BY <1>3, <1>4, <1>5, <1>6, Zenon DEF R

---------------------------------------------------------------------------
(* Steps of one kind                                                       *)

\* The dispatch returns, and leaves a checkpoint only if nobody waits.
LEMMA Returned ==
  ASSUME LoopInv, loop.at # "none", loop' = NoDispatch,
         UNCHANGED <<forEach, tended, child, boot, poller, restarts>>,
         row' \in [status : Statuses, error : BOOLEAN, handle : BOOLEAN],
         row'.status = "completed" => Items \subseteq Indices(Completed),
         kicked' \in BOOLEAN, cp' \in BOOLEAN,
         cp' => loop.at # "wait"
  PROVE  LoopInv'
<1>1. LoopTypeOK
  BY DEF LoopInv
<1>2. NoDispatch \in [at : {"none", "dispatch", "head", "launch", "wait", "verify", "advance"},
                 i : 1..(forEach.items + 1), done : SUBSET Items, bad : BOOLEAN,
                 spawned : SUBSET DOMAIN child]
  BY <1>1, ChildrenAreFinite DEF NoDispatch
<1>3. loop'.at = "none" /\ ~loop'.bad
  BY DEF NoDispatch
<1>4. LoopTypeOK'
  BY <1>1, <1>2, <1>3 DEF LoopTypeOK, Items, Ended, Statuses, Current
<1>5. Checkpointed' /\ AtLast' /\ Walked'
  BY <1>3 DEF LoopInv, Checkpointed, AtLast, Walked, Walking, AtItem
<1>6. InOrder'
  BY <1>3 DEF LoopInv, InOrder, Stops, AtItem, Items, Indices, Completed
<1>7. FewAlive'
  BY <1>3 DEF LoopInv, FewAlive, Stops, Alive, Current
<1>8. LoopIsComplete'
  BY DEF LoopIsComplete, Items, Indices, Completed
<1> QED
  BY <1>4, <1>5, <1>6, <1>7, <1>8 DEF LoopInv

\* What goes on beside the loop writes the row, but never completes it.
LEMMA Beside ==
  ASSUME LoopInv,
         UNCHANGED <<forEach, tended, cp, child, loop, boot, restarts>>,
         row' \in [status : Statuses, error : BOOLEAN, handle : BOOLEAN],
         row'.status = "completed" => row.status = "completed",
         kicked' \in BOOLEAN, poller' \in {"off", "on", "gone"}
  PROVE  LoopInv'
<1>1. LoopTypeOK'
  BY DEF LoopInv, LoopTypeOK, Items, Ended, Statuses, Current
<1>2. /\ Checkpointed' /\ AtLast' /\ Walked' /\ InOrder' /\ FewAlive'
  BY DEF LoopInv, Checkpointed, AtLast, Walked, InOrder, FewAlive, Walking, AtItem,
         Stops, Alive, Current, Items, Indices, Completed, Paid
<1>3. LoopIsComplete'
  BY DEF LoopInv, LoopIsComplete, Items, Indices, Completed
<1> QED
  BY <1>1, <1>2, <1>3 DEF LoopInv

---------------------------------------------------------------------------
(* The steps of the loop                                                   *)

LEMMA LoopBegins == LoopInit => LoopInv
<1> SUFFICES ASSUME LoopInit PROVE LoopInv
  OBVIOUS
<1>1. loop = [at |-> "dispatch", i |-> 1, done |-> {}, bad |-> FALSE, spawned |-> {}]
  BY DEF LoopInit, NoDispatch
<1>2. forEach.items \in Nat
  BY LoopAssumption DEF LoopInit
<1>3. LoopTypeOK
  <2>1. loop \in [at : {"none", "dispatch", "head", "launch", "wait", "verify", "advance"},
                 i : 1..(forEach.items + 1), done : SUBSET Items, bad : BOOLEAN,
                 spawned : SUBSET DOMAIN child] /\ loop.at # "wait"
    BY <1>1, <1>2
  <2>2. child \in Seq([index : Items, status : {"ready", "running"} \cup Ended])
    BY DEF LoopInit
  <2>3. row \in [status : Statuses, error : BOOLEAN, handle : BOOLEAN]
    BY DEF LoopInit, Statuses
  <2>4. restarts \in 0..MaxRestarts
    BY LoopAssumption DEF LoopInit
  <2>5. /\ cp \in BOOLEAN /\ boot \in BOOLEAN /\ poller \in {"off", "on", "gone"}
        /\ tended \in BOOLEAN /\ kicked \in BOOLEAN
        /\ forEach \in [items : 0..MaxItems, policy : {"stop", "continue"},
                  cap : Caps, agent : BOOLEAN]
    BY Zenon DEF LoopInit
  <2> QED
    BY <2>1, <2>2, <2>3, <2>4, <2>5, Zenon DEF LoopTypeOK
<1>4. Alive = {} /\ DOMAIN child = {}
  BY DEF LoopInit, Alive
<1>5. Checkpointed /\ AtLast /\ Walked /\ InOrder /\ LoopIsComplete
  BY <1>1, <1>4 DEF LoopInit, Checkpointed, AtLast, Walked, InOrder, LoopIsComplete, Walking,
                    AtItem
<1>6. FewAlive
  BY <1>1, <1>4, FS_EmptySet DEF LoopInit, FewAlive
<1> QED
  BY <1>3, <1>5, <1>6 DEF LoopInv

\* A dispatch takes up the children that completed: they are all there are
\* when it is the first.
LEMMA LoopEntered ==
  ASSUME LoopInv, Enter
  PROVE  LoopInv'
<1> DEFINE prior == IF cp THEN Completed ELSE {}
<1>1. LoopTypeOK /\ Checkpointed /\ Walked /\ InOrder /\ FewAlive
  BY DEF LoopInv
<1>2. prior = Completed
  BY <1>1 DEF Checkpointed, Completed, Enter
<1>3. loop' = [at |-> "head", i |-> 1, done |-> Indices(Completed), bad |-> FALSE,
               spawned |-> Completed]
  BY <1>2 DEF Enter, NoDispatch
<1> HIDE DEF prior
<1>4. /\ loop'.at = "head" /\ loop'.i = 1 /\ loop'.done = Indices(Completed)
      /\ loop'.bad = FALSE /\ loop'.spawned = Completed
  BY <1>3
<1>5. Completed \subseteq DOMAIN child /\ Indices(Completed) \subseteq Items
  BY <1>1, ChildrenHaveItems DEF Completed, Indices
<1>6. loop' \in [at : {"none", "dispatch", "head", "launch", "wait", "verify", "advance"},
                 i : 1..(forEach.items + 1), done : SUBSET Items, bad : BOOLEAN,
                 spawned : SUBSET DOMAIN child]
  BY <1>1, <1>3, <1>5, ChildrenAreFinite
<1>7. /\ loop.at = "dispatch" /\ cp' = TRUE
      /\ row' = [row EXCEPT !.status = "running", !.handle = TRUE]
      /\ UNCHANGED <<forEach, tended, child, kicked, boot, poller, restarts>>
  BY DEF Enter
<1>8. row' \in [status : Statuses, error : BOOLEAN, handle : BOOLEAN] /\ row'.status = "running"
  BY <1>1, <1>7 DEF LoopTypeOK, Statuses
<1>9. LoopTypeOK' /\ LoopIsComplete'
  BY <1>1, <1>4, <1>6, <1>7, <1>8 DEF LoopTypeOK, LoopIsComplete, Items, Ended, Statuses
<1>10. Completed' = Completed /\ Indices(Completed)' = Indices(Completed) /\ Items' = Items
  BY <1>7 DEF Completed, Indices, Items
<1>11. Paid' = Completed /\ Indices(Paid)' = Indices(Completed)
  <2>1. Paid' = Completed
    BY <1>4, <1>10 DEF Paid
  <2> QED
    BY <2>1, <1>7 DEF Indices
<1>12. Checkpointed' /\ AtLast'
  <2>1. restarts = 0 => Completed = DOMAIN child
    BY <1>1, <1>7 DEF Checkpointed, Completed
  <2>2. ~boot
    BY <1>1, <1>7 DEF Checkpointed
  <2> QED
    BY <1>4, <1>7, <2>1, <2>2 DEF Checkpointed, AtLast, AtItem, Walking
<1>13. Walked'
  <2>1. 1..(loop'.i - 1) = {}
    BY <1>4
  <2> QED
    BY <1>4, <1>11, <2>1 DEF Walked
<1>14. InOrder'
  BY <1>1, <1>4, <1>7, <1>10 DEF InOrder, Stops, AtItem, Indices
<1>15. FewAlive'
  BY <1>1, <1>4, <1>7 DEF FewAlive, Stops, Alive
<1> QED
  BY <1>9, <1>12, <1>13, <1>14, <1>15 DEF LoopInv

\* The list of no items goes straight to the hand-off.
LEMMA LoopEnteredEmpty ==
  ASSUME LoopInv, EnterEmpty
  PROVE  LoopInv'
<1>1. LoopTypeOK /\ Checkpointed /\ FewAlive /\ InOrder
  BY DEF LoopInv
<1>2. /\ loop.at = "dispatch" /\ forEach.items = 0 /\ cp' = FALSE
      /\ loop' = [loop EXCEPT !.at = "verify"]
      /\ UNCHANGED <<forEach, tended, row, child, kicked, boot, poller, restarts>>
  BY DEF EnterEmpty
<1>3. /\ loop' \in [at : {"none", "dispatch", "head", "launch", "wait", "verify", "advance"},
                 i : 1..(forEach.items + 1), done : SUBSET Items, bad : BOOLEAN,
                 spawned : SUBSET DOMAIN child]
      /\ loop'.at = "verify"
  BY <1>1, <1>2 DEF LoopTypeOK
<1>4. Items = {} /\ Items' = {}
  BY <1>2 DEF Items
<1>5. LoopTypeOK'
  <2>1. Items' = Items
    BY <1>4
  <2>2. child' \in Seq([index : Items', status : {"ready", "running"} \cup Ended])
    BY <1>1, <1>2, <2>1 DEF LoopTypeOK
  <2>3. /\ loop' \in [at : {"none", "dispatch", "head", "launch", "wait", "verify", "advance"},
                      i : 1..(forEach'.items + 1), done : SUBSET Items', bad : BOOLEAN,
                      spawned : SUBSET DOMAIN child']
        /\ loop'.at # "wait"
    BY <1>2, <1>3, <2>1
  <2>4. cp' \in BOOLEAN
    BY <1>2
  <2> QED
    BY <1>1, <1>2, <2>2, <2>3, <2>4 DEF LoopTypeOK
<1>6. Checkpointed' /\ AtLast' /\ Walked' /\ LoopIsComplete'
  BY <1>1, <1>2, <1>3, <1>4 DEF Checkpointed, AtLast, Walked, AtItem, Walking, LoopIsComplete
<1>7. FewAlive'
  BY <1>1, <1>2, <1>3 DEF FewAlive, Stops, Alive
<1>8. InOrder'
  <2>1. DOMAIN child = {}
    BY <1>1, <1>4, ChildrenAreFinite DEF LoopTypeOK
  <2>2. loop'.bad = loop.bad
    BY <1>1, <1>2 DEF LoopTypeOK
  <2> QED
    BY <1>1, <1>2, <1>3, <2>1, <2>2 DEF InOrder, Stops, AtItem
<1> QED
  BY <1>5, <1>6, <1>7, <1>8 DEF LoopInv

\* The loop goes on to the next item.
LEMMA WentOn ==
  ASSUME LoopInv, NEW b \in BOOLEAN, Walking, loop.i \in Items,
         loop' = [loop EXCEPT !.at = "head", !.i = loop.i + 1, !.bad = b],
         UNCHANGED <<forEach, tended, row, cp, child, kicked, boot, poller, restarts>>,
         ~b => ~loop.bad /\ loop.i \in Indices(Paid),
         Stops => ~b /\ Cardinality(Alive) <= restarts
  PROVE  LoopInv'
<1>1. LoopTypeOK /\ Checkpointed /\ AtLast /\ Walked /\ InOrder /\ FewAlive /\ LoopIsComplete
  BY DEF LoopInv
<1>2. /\ loop' \in [at : {"none", "dispatch", "head", "launch", "wait", "verify", "advance"},
                 i : 1..(forEach.items + 1), done : SUBSET Items, bad : BOOLEAN,
                 spawned : SUBSET DOMAIN child]
      /\ loop'.at = "head" /\ loop'.i = loop.i + 1 /\ loop'.bad = b
      /\ loop'.done = loop.done /\ loop'.spawned = loop.spawned
  <2>1. loop.i + 1 \in 1..(forEach.items + 1)
    BY <1>1, ChildrenAreFinite DEF Items
  <2> QED
    BY <1>1, <2>1 DEF LoopTypeOK
<1>3. LoopTypeOK'
  BY <1>1, <1>2 DEF LoopTypeOK, Items, Ended, Statuses
<1>4. /\ Completed' = Completed /\ Indices(Completed)' = Indices(Completed) /\ Items' = Items
      /\ Paid' = Paid /\ Indices(Paid)' = Indices(Paid)
  BY <1>2 DEF Completed, Indices, Items, Paid
<1>5. Checkpointed' /\ AtLast' /\ LoopIsComplete'
  BY <1>1, <1>2, <1>4 DEF Checkpointed, AtLast, AtItem, Walking, LoopIsComplete
<1>6. loop.i \in Nat \ {0} /\ (loop.i + 1) - 1 = loop.i
  BY <1>1, ChildrenAreFinite
<1>7. Walked'
  <2>1. ASSUME ~b PROVE 1..(loop'.i - 1) \subseteq Indices(Paid)
    <3>1. 1..(loop.i - 1) \subseteq Indices(Paid) /\ loop.i \in Indices(Paid)
      BY <1>1, <2>1 DEF Walked
    <3>2. \A j \in 1..loop.i : j \in 1..(loop.i - 1) \/ j = loop.i
      BY <1>6
    <3> QED
      BY <1>2, <1>6, <3>1, <3>2
  <2>2. loop'.done \subseteq Indices(Paid)
    BY <1>1, <1>2 DEF Walked
  <2> QED
    BY <1>2, <1>4, <2>1, <2>2 DEF Walked
<1>8. InOrder'
  <2>1. ASSUME Stops, NEW k \in Completed
        PROVE  child[k].index \in loop.done \/ child[k].index < loop.i + 1
    <3>1. k \in DOMAIN child /\ child[k].index \in Nat
      BY <1>1, ChildrenHaveItems DEF Completed
    <3>2. CASE loop.at = "head"
      BY <1>1, <1>6, <2>1, <3>1, <3>2 DEF InOrder
    <3>3. CASE AtItem
      BY <1>1, <1>6, <2>1, <3>1, <3>3 DEF InOrder
    <3> QED
      BY <3>2, <3>3 DEF Walking
  <2> QED
    BY <1>1, <1>2, <1>4, <2>1 DEF InOrder, Stops, AtItem
<1>9. FewAlive'
  BY <1>1, <1>2 DEF FewAlive, Stops, Alive
<1> QED
  BY <1>1, <1>3, <1>5, <1>7, <1>8, <1>9 DEF LoopInv

\* The child of an item is created: nobody is completed or alive by that.
LEMMA ChildSpawned ==
  ASSUME LoopInv, Spawn
  PROVE  LoopInv'
<1> DEFINE R == [index : Items, status : {"ready", "running"} \cup Ended]
           n == Len(child)
           new == [index |-> loop.i, status |-> "ready"]
<1>1. LoopTypeOK /\ Checkpointed /\ Walked /\ InOrder /\ FewAlive /\ LoopIsComplete
  BY DEF LoopInv
<1>2. /\ loop.at = "head" /\ loop.i \in Items /\ loop.i \notin loop.done
      /\ child' = Append(child, new)
      /\ loop' = [loop EXCEPT !.at = "launch", !.spawned = loop.spawned \cup {n + 1}]
      /\ UNCHANGED <<forEach, tended, row, cp, kicked, boot, poller, restarts>>
  BY DEF Spawn, Runs
<1>3. /\ n \in Nat /\ DOMAIN child = 1..n /\ loop.i \in Nat /\ loop.i >= 1
  BY <1>1, ChildrenAreFinite
<1>4. new \in R /\ new.index = loop.i /\ new.status = "ready"
  BY <1>2
<1>5. /\ child' \in Seq(R) /\ Len(child') = n + 1 /\ DOMAIN child' = 1..(n + 1)
      /\ child'[n + 1] = new /\ \A j \in 1..n : child'[j] = child[j]
  <2>1. child \in Seq(R)
    BY <1>1 DEF LoopTypeOK
  <2> HIDE DEF R, new
  <2> QED
    BY <1>2, <1>3, <1>4, <2>1
<1>6. /\ loop' \in [at : {"none", "dispatch", "head", "launch", "wait", "verify", "advance"},
                 i : 1..(forEach.items + 1), done : SUBSET Items, bad : BOOLEAN,
                 spawned : SUBSET (1..(n + 1))]
      /\ loop'.at = "launch" /\ loop'.i = loop.i /\ loop'.bad = loop.bad
      /\ loop'.done = loop.done /\ loop'.spawned = loop.spawned \cup {n + 1}
  <2>1. loop.spawned \cup {n + 1} \in SUBSET (1..(n + 1))
    BY <1>1, <1>3 DEF LoopTypeOK
  <2> QED
    BY <1>1, <1>2, <2>1 DEF LoopTypeOK
<1> HIDE DEF R, n, new
<1>7. LoopTypeOK'
  BY <1>1, <1>2, <1>5, <1>6 DEF LoopTypeOK, Items, Ended, Statuses, R
<1>8. \A j \in 1..(n + 1) : j \in 1..n \/ j = n + 1
  BY <1>3
<1>9. 1..n \subseteq 1..(n + 1) /\ n + 1 \in 1..(n + 1) /\ n + 1 \notin 1..n
  BY <1>3
<1>10. Completed' = Completed /\ Alive' = Alive
  BY <1>3, <1>4, <1>5, <1>8, <1>9 DEF Completed, Alive
<1>11. Completed \subseteq 1..n
  BY <1>3 DEF Completed
<1>12. Paid' = Paid
  BY <1>6, <1>9, <1>10, <1>11 DEF Paid
<1>13. /\ Indices(Completed)' = Indices(Completed) /\ Indices(Paid)' = Indices(Paid)
       /\ Items' = Items
  <2>1. Paid \subseteq 1..n
    BY <1>11 DEF Paid
  <2>2. ASSUME NEW K \in SUBSET (1..n)
        PROVE  {child'[k].index : k \in K} = {child[k].index : k \in K}
    BY <1>5
  <2>3. Indices(Completed)' = Indices(Completed)
    BY <1>10, <1>11, <2>2 DEF Indices
  <2>4. Indices(Paid)' = Indices(Paid)
    BY <1>12, <2>1, <2>2 DEF Indices
  <2> QED
    BY <1>2, <2>3, <2>4 DEF Items
<1>14. Checkpointed'
  <2>1. restarts = 0 => loop.spawned = 1..n
    BY <1>1, <1>2, <1>3 DEF Checkpointed, Walking
  <2>2. ~boot
    BY <1>1, <1>2 DEF Checkpointed
  <2>3. restarts = 0 => loop'.spawned = 1..(n + 1)
    BY <2>1, <1>6, <1>8, <1>9
  <2> QED
    BY <1>2, <1>5, <1>6, <2>2, <2>3 DEF Checkpointed, Walking, AtItem
<1>15. AtLast'
  BY <1>2, <1>4, <1>5, <1>6, <1>13 DEF AtLast, AtItem, Current
<1>16. Walked' /\ LoopIsComplete'
  BY <1>1, <1>2, <1>6, <1>13 DEF Walked, Walking, AtItem, LoopIsComplete
<1>17. InOrder'
  <2> SUFFICES ASSUME Stops PROVE InOrder'
    BY <1>2 DEF InOrder, Stops
  <2>1. ~loop.bad /\ 1..(loop.i - 1) \subseteq Indices(Completed)
    <3>1. Indices(Paid) \subseteq Indices(Completed)
      BY DEF Indices, Paid
    <3> QED
      BY <1>1, <1>2, <3>1 DEF InOrder, Walked, Walking
  <2>2. \A j \in Items : j < loop.i => j \in Indices(Completed)
    <3>1. \A j \in Items : j < loop.i => j \in 1..(loop.i - 1)
      BY <1>1, <1>3, ChildrenAreFinite DEF Items
    <3> QED
      BY <2>1, <3>1
  <2>3. \A k \in 1..n : child[k].index <= loop.i
    <3> SUFFICES ASSUME NEW k \in 1..n, child[k].index > loop.i PROVE FALSE
      <4>1. \A k \in 1..n : child[k].index \in Nat
        BY <1>1, <1>3, ChildrenHaveItems
      <4> QED
        BY <1>3, <4>1
    <3>1. loop.i \in Indices(Completed)
      BY <1>1, <1>2, <1>3 DEF InOrder
    <3>2. PICK c \in Completed : child[c].index = loop.i
      BY <3>1 DEF Indices
    <3>3. loop.i \in loop.done \/ loop.i < loop.i
      BY <1>1, <1>2, <3>2 DEF InOrder
    <3> QED
      BY <1>2, <1>3, <3>3
  <2>4. ASSUME NEW k \in 1..(n + 1)
        PROVE  /\ child'[k].index <= loop.i
               /\ \A j \in Items : j < child'[k].index => j \in Indices(Completed)
    <3>1. CASE k \in 1..n
      BY <1>1, <1>3, <1>5, <2>3, <3>1 DEF InOrder
    <3>2. CASE k = n + 1
      BY <1>3, <1>4, <1>5, <2>2, <3>2
    <3> QED
      BY <1>8, <3>1, <3>2
  <2> QED
    BY <1>2, <1>5, <1>6, <1>13, <2>1, <2>4 DEF InOrder, AtItem
<1>18. FewAlive'
  BY <1>1, <1>2, <1>6, <1>10 DEF FewAlive, Stops
<1> QED
  BY <1>7, <1>14, <1>15, <1>16, <1>17, <1>18 DEF LoopInv

\* The child of the item is launched: it alone is alive then of those that no
\* death left behind.
LEMMA ChildLaunched ==
  ASSUME LoopInv, Launched
  PROVE  LoopInv'
<1>1. LoopTypeOK /\ Checkpointed /\ AtLast /\ Walked /\ InOrder /\ FewAlive /\ LoopIsComplete
  BY DEF LoopInv
<1>2. /\ loop.at = "launch" /\ loop' = [loop EXCEPT !.at = "wait"]
      /\ child' = [child EXCEPT ![Current].status = "running"]
      /\ UNCHANGED <<forEach, tended, row, cp, kicked, boot, poller, restarts>>
  BY DEF Launched
<1>3. /\ Current \in DOMAIN child /\ loop.i \in Items /\ child[Current].index = loop.i
      /\ child[Current].status = "ready" /\ Current \in loop.spawned
  BY <1>1, <1>2 DEF AtLast, AtItem, LoopTypeOK
<1>4. /\ child' \in Seq([index : Items, status : {"ready", "running"} \cup Ended])
      /\ DOMAIN child' = DOMAIN child /\ Len(child') = Len(child)
      /\ child'[Current].status = "running"
      /\ \A j \in DOMAIN child : child'[j].index = child[j].index
      /\ \A j \in DOMAIN child \ {Current} : child'[j] = child[j]
  BY <1>1, <1>2, <1>3, StatusWritten, Zenon
<1>5. /\ loop' \in [at : {"none", "dispatch", "head", "launch", "wait", "verify", "advance"},
                 i : 1..(forEach.items + 1), done : SUBSET Items, bad : BOOLEAN,
                 spawned : SUBSET DOMAIN child]
      /\ loop'.at = "wait" /\ loop'.i = loop.i /\ loop'.bad = loop.bad
      /\ loop'.done = loop.done /\ loop'.spawned = loop.spawned
  BY <1>1, <1>2 DEF LoopTypeOK
<1>a. Current' = Current
  BY <1>4 DEF Current
<1>b. UNCHANGED <<forEach, tended, row, cp, kicked, boot, poller, restarts>>
  BY <1>2
<1>6. Completed' = Completed /\ Alive' \subseteq Alive \cup {Current}
  <2>1. \A j \in DOMAIN child : j # Current => child'[j].status = child[j].status
    BY <1>4
  <2> QED
    BY <1>3, <1>4, <2>1 DEF Completed, Alive
<1>7. /\ Indices(Completed)' = Indices(Completed) /\ Paid' = Paid
      /\ Indices(Paid)' = Indices(Paid) /\ Items' = Items
  <2>1. Completed \subseteq DOMAIN child /\ Paid' = Paid /\ Paid \subseteq DOMAIN child
    BY <1>5, <1>6 DEF Completed, Paid
  <2> QED
    BY <1>b, <1>4, <1>6, <2>1 DEF Indices, Items
<1>8. LoopTypeOK'
  BY <1>1, <1>b, <1>3, <1>4, <1>5, <1>a DEF LoopTypeOK, Items, Ended, Statuses
<1>9. Checkpointed' /\ AtLast' /\ Walked' /\ LoopIsComplete'
  BY <1>1, <1>2, <1>3, <1>4, <1>5, <1>a, <1>7
  DEF Checkpointed, AtLast, Walked, Walking, AtItem, LoopIsComplete
<1>10. InOrder'
  BY <1>1, <1>2, <1>4, <1>5, <1>7 DEF InOrder, Stops, AtItem
<1>11. FewAlive'
  <2>1. Alive \subseteq DOMAIN child /\ Alive' \subseteq DOMAIN child
    BY <1>4 DEF Alive
  <2>2. Alive' \ {Current} \subseteq Alive
    BY <1>6
  <2>3. Cardinality(Alive' \ {Current}) <= Cardinality(Alive) /\ Cardinality(Alive) \in Nat
        /\ Cardinality(Alive' \ {Current}) \in Nat
    BY <1>1, <2>1, <2>2, FewerAlive
  <2>4. Cardinality(Alive') <= Cardinality(Alive' \ {Current}) + 1 /\ Cardinality(Alive') \in Nat
    BY <1>1, <2>1, OneMoreAlive
  <2>5. Stops => Cardinality(Alive) <= restarts
    BY <1>1, <1>2 DEF FewAlive
  <2>6. restarts \in Nat
    BY <1>1, ChildrenAreFinite
  <2> QED
    BY <1>b, <1>5, <1>a, <2>3, <2>4, <2>5, <2>6 DEF FewAlive, Stops
<1> QED
  BY <1>8, <1>9, <1>10, <1>11 DEF LoopInv

\* A child ends, whether somebody waits for it or not.
LEMMA ChildEnded ==
  ASSUME LoopInv, NEW k \in DOMAIN child, ChildEnds(k)
  PROVE  LoopInv'
<1>1. LoopTypeOK /\ Checkpointed /\ AtLast /\ Walked /\ InOrder /\ FewAlive /\ LoopIsComplete
  BY DEF LoopInv
<1>2. /\ loop.at # "head" /\ child[k].status = "running"
      /\ UNCHANGED <<forEach, tended, row, cp, loop, kicked, boot, poller, restarts>>
  BY DEF ChildEnds, Yields
<1>3. PICK s \in Ended : child' = [child EXCEPT ![k].status = s]
  BY DEF ChildEnds
<1>4. /\ child' \in Seq([index : Items, status : {"ready", "running"} \cup Ended])
      /\ DOMAIN child' = DOMAIN child /\ Len(child') = Len(child)
      /\ child'[k].status = s
      /\ \A j \in DOMAIN child : child'[j].index = child[j].index
      /\ \A j \in DOMAIN child \ {k} : child'[j] = child[j]
  <2>1. s \in {"running"} \cup Ended
    OBVIOUS
  <2> QED
    BY <1>1, <1>3, <2>1, StatusWritten, Zenon
<1>5. Current' = Current /\ Items' = Items
  BY <1>2, <1>4 DEF Current, Items
<1>6. Completed \subseteq Completed' /\ Alive' \subseteq Alive
  <2>1. \A j \in DOMAIN child : j # k => child'[j].status = child[j].status
    BY <1>4
  <2> QED
    BY <1>2, <1>4, <2>1 DEF Completed, Alive, Ended
<1>7. /\ Indices(Completed) \subseteq Indices(Completed)'
      /\ Indices(Paid) \subseteq Indices(Paid)'
  <2>1. Completed \subseteq DOMAIN child /\ Paid \subseteq Paid' /\ Paid \subseteq DOMAIN child
    BY <1>2, <1>6 DEF Completed, Paid
  <2> QED
    BY <1>4, <1>6, <2>1 DEF Indices
<1>8. LoopTypeOK'
  <2>1. loop.at = "wait" => child'[Current].index = loop.i
    BY <1>1, <1>4 DEF AtLast, AtItem, LoopTypeOK
  <2> QED
    BY <1>1, <1>2, <1>4, <1>5, <2>1 DEF LoopTypeOK, Items, Ended, Statuses
<1>9. Checkpointed' /\ Walked' /\ LoopIsComplete'
  <2>1. child = << >> => child' = << >>
    BY <1>4
  <2> QED
    BY <1>1, <1>2, <1>4, <1>5, <1>7, <2>1
    DEF Checkpointed, Walked, Walking, AtItem, LoopIsComplete
<1>10. AtLast'
  <2> SUFFICES ASSUME AtItem PROVE AtLast'
    BY <1>2 DEF AtLast, AtItem
  <2>1. /\ loop.i \in Items /\ Current \in loop.spawned /\ child[Current].index = loop.i
        /\ Current \in DOMAIN child
        /\ loop.at = "launch" => child[Current].status = "ready"
    BY <1>1 DEF AtLast, LoopTypeOK
  <2>2. loop.at = "launch" => Current # k
    BY <1>2, <2>1
  <2> QED
    BY <1>2, <1>4, <1>5, <2>1, <2>2 DEF AtLast, AtItem
<1>11. InOrder'
  BY <1>1, <1>2, <1>4, <1>5, <1>7 DEF InOrder, Stops, AtItem
<1>12. FewAlive'
  <2>1. Alive \subseteq DOMAIN child /\ Alive \ {Current} \subseteq DOMAIN child
    BY DEF Alive
  <2>2. /\ Cardinality(Alive') <= Cardinality(Alive)
        /\ Cardinality(Alive' \ {Current}) <= Cardinality(Alive \ {Current})
        /\ Cardinality(Alive') \in Nat /\ Cardinality(Alive' \ {Current}) \in Nat
        /\ Cardinality(Alive) \in Nat /\ Cardinality(Alive \ {Current}) \in Nat
    <3>1. Alive' \ {Current} \subseteq Alive \ {Current}
      BY <1>6
    <3> QED
      BY <1>1, <1>6, <2>1, <3>1, FewerAlive
  <2>3. restarts \in Nat
    BY <1>1, ChildrenAreFinite
  <2> HIDE DEF Alive
  <2> QED
    BY <1>1, <1>2, <1>5, <2>2, <2>3 DEF FewAlive, Stops
<1> QED
  BY <1>8, <1>9, <1>10, <1>11, <1>12 DEF LoopInv

\* Behind the last item, or in the hand-off.
LEMMA HandedOn ==
  ASSUME LoopInv, NEW at \in {"verify", "advance"},
         loop.at \in {"head", "verify"}, loop' = [loop EXCEPT !.at = at],
         UNCHANGED <<forEach, tended, row, child, kicked, boot, poller, restarts>>,
         cp' \in BOOLEAN, Items \subseteq Indices(Completed)
  PROVE  LoopInv'
<1>1. LoopTypeOK /\ Checkpointed /\ InOrder /\ FewAlive /\ LoopIsComplete
  BY DEF LoopInv
<1>2. /\ loop' \in [at : {"none", "dispatch", "head", "launch", "wait", "verify", "advance"},
                 i : 1..(forEach.items + 1), done : SUBSET Items, bad : BOOLEAN,
                 spawned : SUBSET DOMAIN child]
      /\ loop'.at = at /\ loop'.bad = loop.bad
  BY <1>1 DEF LoopTypeOK
<1>3. LoopTypeOK'
  <2>1. loop'.at # "wait"
    BY <1>2
  <2>2. UNCHANGED <<forEach, tended, row, child, kicked, boot, poller, restarts>>
    OBVIOUS
  <2> QED
    BY <1>1, <1>2, <2>1, <2>2, Zenon DEF LoopTypeOK, Items, Ended, Statuses
<1>4. Items' = Items /\ Indices(Completed)' = Indices(Completed) /\ Alive' = Alive
  BY DEF Items, Indices, Completed, Alive
<1>5. Checkpointed' /\ AtLast' /\ Walked' /\ LoopIsComplete'
  BY <1>1, <1>2, <1>4 DEF Checkpointed, AtLast, Walked, Walking, AtItem, LoopIsComplete
<1>6. InOrder'
  BY <1>1, <1>2, <1>4 DEF InOrder, Stops, AtItem
<1>7. FewAlive'
  BY <1>1, <1>2, <1>4 DEF FewAlive, Stops
<1> QED
  BY <1>3, <1>5, <1>6, <1>7 DEF LoopInv

\* The conductor dies: the child that was waited for is left behind.
LEMMA LoopDied ==
  ASSUME LoopInv, Restart
  PROVE  LoopInv'
<1>1. LoopTypeOK /\ Checkpointed /\ InOrder /\ FewAlive /\ LoopIsComplete
  BY DEF LoopInv
<1>2. /\ restarts < MaxRestarts /\ restarts' = restarts + 1 /\ loop' = NoDispatch
      /\ kicked' = FALSE /\ boot' = (row.status = "running" /\ cp)
      /\ poller' \in {"on", "off"}
      /\ UNCHANGED <<forEach, tended, row, cp, child>>
  BY DEF Restart, Dies
<1>3. /\ loop' \in [at : {"none", "dispatch", "head", "launch", "wait", "verify", "advance"},
                 i : 1..(forEach.items + 1), done : SUBSET Items, bad : BOOLEAN,
                 spawned : SUBSET DOMAIN child]
      /\ loop'.at = "none" /\ loop'.bad = FALSE
  BY <1>1, <1>2, ChildrenAreFinite DEF NoDispatch
<1>4. restarts \in Nat /\ restarts' \in 0..MaxRestarts /\ restarts' > 0
  BY <1>1, <1>2, ChildrenAreFinite, LoopAssumption
<1>5. LoopTypeOK'
  <2>1. boot' \in BOOLEAN
    BY <1>1, <1>2, Zenon DEF LoopTypeOK
  <2> QED
    BY <1>1, <1>2, <1>3, <1>4, <2>1 DEF LoopTypeOK, Items, Ended, Statuses
<1>6. Items' = Items /\ Indices(Completed)' = Indices(Completed) /\ Alive' = Alive
  BY <1>2 DEF Items, Indices, Completed, Alive
<1>7. Checkpointed' /\ AtLast' /\ Walked' /\ LoopIsComplete'
  BY <1>1, <1>2, <1>3, <1>4, <1>6
  DEF Checkpointed, AtLast, Walked, Walking, AtItem, LoopIsComplete
<1>8. InOrder'
  BY <1>1, <1>2, <1>3, <1>6 DEF InOrder, Stops, AtItem
<1>9. FewAlive'
  <2>1. Alive \subseteq DOMAIN child
    BY DEF Alive
  <2>2. Cardinality(Alive) \in Nat
    BY <1>1, <2>1, ChildrenAreFinite
  <2> QED
    BY <1>1, <1>2, <1>3, <1>4, <1>6, <2>2 DEF FewAlive, Stops
<1> QED
  BY <1>5, <1>7, <1>8, <1>9 DEF LoopInv

\* Boot dispatches the session again.
LEMMA LoopReconciled ==
  ASSUME LoopInv, Reconcile
  PROVE  LoopInv'
<1>1. LoopTypeOK /\ Checkpointed /\ InOrder /\ FewAlive /\ LoopIsComplete
  BY DEF LoopInv
<1>2. /\ boot /\ boot' = FALSE
      /\ row' = [row EXCEPT !.status = "ready", !.handle = FALSE]
      /\ loop' = [at |-> "dispatch", i |-> 1, done |-> {}, bad |-> FALSE, spawned |-> {}]
      /\ UNCHANGED <<forEach, tended, cp, child, kicked, poller, restarts>>
  BY DEF Reconcile, NoDispatch
<1>3. /\ loop' \in [at : {"none", "dispatch", "head", "launch", "wait", "verify", "advance"},
                 i : 1..(forEach.items + 1), done : SUBSET Items, bad : BOOLEAN,
                 spawned : SUBSET DOMAIN child]
      /\ loop'.at = "dispatch" /\ loop'.bad = FALSE
  BY <1>1, <1>2, ChildrenAreFinite
<1>4. row' \in [status : Statuses, error : BOOLEAN, handle : BOOLEAN] /\ row'.status = "ready"
  BY <1>1, <1>2 DEF LoopTypeOK, Statuses
<1>5. LoopTypeOK'
  BY <1>1, <1>2, <1>3, <1>4 DEF LoopTypeOK, Items, Ended, Statuses
<1>6. cp /\ loop.at = "none" /\ restarts \in Nat \ {0}
  BY <1>1, <1>2, ChildrenAreFinite DEF Checkpointed
<1>7. Items' = Items /\ Indices(Completed)' = Indices(Completed) /\ Alive' = Alive
  BY <1>2 DEF Items, Indices, Completed, Alive
<1>8. Checkpointed' /\ AtLast' /\ Walked' /\ LoopIsComplete'
  BY <1>2, <1>3, <1>4, <1>6
  DEF Checkpointed, AtLast, Walked, Walking, AtItem, LoopIsComplete
<1>9. InOrder'
  BY <1>1, <1>2, <1>3, <1>7 DEF InOrder, Stops, AtItem
<1>10. FewAlive'
  BY <1>1, <1>2, <1>3, <1>6, <1>7 DEF FewAlive, Stops
<1> QED
  BY <1>5, <1>8, <1>9, <1>10 DEF LoopInv

\* An iteration fails: the loop goes on, or its dispatch returns.
LEMMA IterationFailed ==
  ASSUME LoopInv, loop.at \in {"head", "launch", "wait"}, loop.i \in Items, IterationFails,
         UNCHANGED <<forEach, tended, child, boot, poller, restarts>>
  PROVE  LoopInv'
<1>1. LoopTypeOK
  BY DEF LoopInv
<1>2. CASE forEach.policy = "stop"
  <2>1. cp' = FALSE /\ row' = Failed /\ loop' = NoDispatch /\ kicked' = FALSE
    BY <1>2 DEF IterationFails, DispatchReturns
  <2>2. /\ row' \in [status : Statuses, error : BOOLEAN, handle : BOOLEAN]
        /\ row'.status = "failed"
    BY <1>1, <2>1 DEF Failed, LoopTypeOK, Statuses
  <2> QED
    BY <2>1, <2>2, Returned
<1>3. CASE forEach.policy = "continue"
  <2>1. /\ loop' = [loop EXCEPT !.at = "head", !.i = loop.i + 1, !.bad = TRUE]
        /\ UNCHANGED <<row, cp, kicked>>
    BY <1>3 DEF IterationFails
  <2>2. Walking /\ ~Stops
    BY <1>3 DEF Walking, AtItem, Stops
  <2> QED
    BY <2>1, <2>2, WentOn
<1> QED
  BY <1>2, <1>3 DEF IterationFails

LEMMA LoopGoesOn ==
  ASSUME LoopInv, LoopStep
  PROVE  LoopInv'
<1>1. /\ LoopTypeOK /\ Checkpointed /\ AtLast /\ Walked /\ InOrder /\ FewAlive
      /\ LoopIsComplete
  BY DEF LoopInv
<1>2. CASE Skip
  <2>1. /\ loop.at = "head" /\ loop.i \in Items /\ loop.i \in loop.done
        /\ loop' = [loop EXCEPT !.i = loop.i + 1]
        /\ UNCHANGED <<forEach, tended, row, cp, child, kicked, boot, poller, restarts>>
    BY <1>2 DEF Skip
  <2>2. loop' = [loop EXCEPT !.at = "head", !.i = loop.i + 1, !.bad = loop.bad]
        /\ loop.bad \in BOOLEAN
    BY <1>1, <2>1 DEF LoopTypeOK
  <2>3. Walking /\ loop.i \in Indices(Paid)
    BY <1>1, <2>1 DEF Walked, Walking
  <2>4. Stops => ~loop.bad /\ Cardinality(Alive) <= restarts
    BY <1>1, <2>1 DEF InOrder, FewAlive
  <2> QED
    BY <2>1, <2>2, <2>3, <2>4, WentOn
<1>3. CASE BudgetExceeded
  <2>1. /\ loop.at = "head" /\ row' = Failed /\ cp' = FALSE /\ loop' = NoDispatch
        /\ kicked' = FALSE
        /\ UNCHANGED <<forEach, tended, child, boot, poller, restarts>>
    BY <1>3 DEF BudgetExceeded, Runs, DispatchReturns
  <2>2. /\ row' \in [status : Statuses, error : BOOLEAN, handle : BOOLEAN]
        /\ row'.status = "failed"
    BY <1>1, <2>1 DEF Failed, LoopTypeOK, Statuses
  <2> QED
    BY <2>1, <2>2, Returned
<1>4. CASE ChildCompleted
  <2>1. /\ loop.at = "wait" /\ child[Current].status = "completed"
        /\ loop' = [loop EXCEPT !.at = "head", !.i = loop.i + 1]
        /\ UNCHANGED <<forEach, tended, row, cp, child, kicked, boot, poller, restarts>>
    BY <1>4 DEF ChildCompleted
  <2>2. loop' = [loop EXCEPT !.at = "head", !.i = loop.i + 1, !.bad = loop.bad]
        /\ loop.bad \in BOOLEAN
    BY <1>1, <2>1 DEF LoopTypeOK
  <2>3. /\ Walking /\ loop.i \in Items /\ Current \in loop.spawned
        /\ Current \in DOMAIN child /\ child[Current].index = loop.i
    BY <1>1, <2>1 DEF AtLast, Walking, AtItem, LoopTypeOK
  <2>4. loop.i \in Indices(Paid)
    BY <2>1, <2>3 DEF Indices, Paid, Completed
  <2>5. Stops => ~loop.bad /\ Cardinality(Alive) <= restarts
    <3>1. Alive \ {Current} = Alive
      BY <2>1 DEF Alive
    <3> QED
      BY <1>1, <2>1, <3>1 DEF InOrder, FewAlive
  <2> QED
    BY <2>1, <2>2, <2>3, <2>4, <2>5, WentOn
<1>5. CASE ChildFailed
  <2>1. loop.at = "wait" /\ loop.i \in Items
    BY <1>1, <1>5 DEF ChildFailed, AtLast, AtItem
  <2> QED
    BY <1>5, <2>1, IterationFailed DEF ChildFailed
<1>6. CASE Finish
  <2>1. /\ loop.at = "head" /\ loop.i \notin Items /\ cp' = FALSE
        /\ UNCHANGED <<forEach, tended, child, boot, poller, restarts>>
    BY <1>6 DEF Finish
  <2>2. CASE loop.bad
    <3>1. row' = Failed /\ loop' = NoDispatch /\ kicked' = FALSE
      BY <1>6, <2>2 DEF Finish, DispatchReturns
    <3>2. /\ row' \in [status : Statuses, error : BOOLEAN, handle : BOOLEAN]
          /\ row'.status = "failed"
      BY <1>1, <3>1 DEF Failed, LoopTypeOK, Statuses
    <3> QED
      BY <2>1, <3>1, <3>2, Returned
  <2>3. CASE ~loop.bad
    <3>1. loop' = [loop EXCEPT !.at = "verify"] /\ UNCHANGED <<row, kicked>>
      BY <1>6, <2>3 DEF Finish
    <3>2. loop.i = forEach.items + 1
      BY <1>1, <2>1, ChildrenAreFinite DEF LoopTypeOK, Items
    <3>3. 1..(loop.i - 1) = Items
      BY <1>1, <3>2, ChildrenAreFinite DEF Items
    <3>4. Items \subseteq Indices(Completed)
      <4>1. Indices(Paid) \subseteq Indices(Completed)
        BY DEF Indices, Paid
      <4> QED
        BY <1>1, <2>1, <2>3, <3>3, <4>1 DEF Walked, Walking
    <3> QED
      BY <2>1, <3>1, <3>4, HandedOn
  <2> QED
    BY <2>2, <2>3
<1>7. CASE VerifyPasses
  <2>1. /\ loop.at = "verify"
        /\ UNCHANGED <<forEach, tended, row, cp, child, boot, poller, restarts>>
    BY <1>7 DEF VerifyPasses
  <2>2. cp' \in BOOLEAN /\ row' \in [status : Statuses, error : BOOLEAN, handle : BOOLEAN]
    BY <1>1, <2>1 DEF LoopTypeOK
  <2>3. CASE row.error
    <3>1. loop' = NoDispatch /\ kicked' = FALSE
      BY <1>7, <2>3 DEF VerifyPasses, DispatchReturns
    <3>2. row'.status = "completed" => Items \subseteq Indices(Completed)
      BY <1>1, <2>1 DEF LoopIsComplete
    <3> QED
      BY <2>1, <2>2, <3>1, <3>2, Returned
  <2>4. CASE ~row.error
    <3>1. loop' = [loop EXCEPT !.at = "advance"] /\ UNCHANGED kicked
      BY <1>7, <2>4 DEF VerifyPasses
    <3>2. Items \subseteq Indices(Completed)
      BY <1>1, <2>1 DEF Walked
    <3> QED
      BY <2>1, <2>2, <3>1, <3>2, HandedOn
  <2> QED
    BY <2>3, <2>4
<1>8. CASE CompleteFlow
  <2>1. /\ loop.at = "advance" /\ row' = [row EXCEPT !.status = "completed"]
        /\ loop' = NoDispatch /\ kicked' = FALSE
        /\ UNCHANGED <<forEach, tended, cp, child, boot, poller, restarts>>
    BY <1>8 DEF CompleteFlow, DispatchReturns
  <2>2. /\ row' \in [status : Statuses, error : BOOLEAN, handle : BOOLEAN] /\ cp' \in BOOLEAN
    BY <1>1, <2>1 DEF LoopTypeOK, Statuses
  <2>3. Items \subseteq Indices(Completed)
    BY <1>1, <2>1 DEF Walked
  <2> QED
    BY <2>1, <2>2, <2>3, Returned
<1> QED
  BY <1>2, <1>3, <1>4, <1>5, <1>6, <1>7, <1>8, LoopEntered, LoopEnteredEmpty, ChildSpawned,
     ChildLaunched, LoopReconciled DEF LoopStep

LEMMA LoopInvHolds ==
  ASSUME LoopInv, [LoopNext]_loopVars
  PROVE  LoopInv'
<1>1. LoopTypeOK /\ AtLast /\ Walked /\ LoopIsComplete
  BY DEF LoopInv
<1>2. row \in [status : Statuses, error : BOOLEAN, handle : BOOLEAN]
  BY <1>1 DEF LoopTypeOK
<1>3. /\ Failed \in [status : Statuses, error : BOOLEAN, handle : BOOLEAN]
      /\ Failed.status = "failed"
  BY <1>2 DEF Failed, Statuses
<1>4. CASE DispatchFails
  <2>1. /\ loop.at = "dispatch" /\ loop' = NoDispatch /\ kicked' = FALSE
        /\ row' \in {row, Failed}
        /\ UNCHANGED <<forEach, tended, cp, child, boot, poller, restarts>>
    BY <1>4 DEF DispatchFails, DispatchReturns
  <2>2. /\ row' \in [status : Statuses, error : BOOLEAN, handle : BOOLEAN]
        /\ row'.status = "completed" => Items \subseteq Indices(Completed)
    BY <1>1, <1>2, <1>3, <2>1 DEF LoopIsComplete
  <2>3. cp' \in BOOLEAN
    BY <1>1, <2>1 DEF LoopTypeOK
  <2> QED
    BY <2>1, <2>2, <2>3, Returned
<1>5. CASE SpawnFails
  BY <1>5, IterationFailed DEF SpawnFails, Runs
<1>6. CASE LaunchFails
  <2>1. loop.at = "launch" /\ loop.i \in Items
    BY <1>1, <1>6 DEF LaunchFails, AtLast, AtItem
  <2> QED
    BY <1>6, <2>1, IterationFailed DEF LaunchFails
<1>7. CASE VerifyFails
  <2>1. /\ loop.at = "verify" /\ row' = [row EXCEPT !.status = "blocked"]
        /\ loop' = NoDispatch /\ kicked' = FALSE
        /\ UNCHANGED <<forEach, tended, cp, child, boot, poller, restarts>>
    BY <1>7 DEF VerifyFails, DispatchReturns
  <2>2. /\ row' \in [status : Statuses, error : BOOLEAN, handle : BOOLEAN]
        /\ row'.status = "blocked" /\ cp' \in BOOLEAN
    BY <1>1, <2>1 DEF LoopTypeOK, Statuses
  <2> QED
    BY <2>1, <2>2, Returned
<1>8. CASE Watchdog \/ PollGone \/ WriteGone \/ Stop \/ ResumeRow
  <2>1. UNCHANGED <<forEach, tended, cp, child, loop, boot, restarts>>
    BY <1>8 DEF Watchdog, PollGone, WriteGone, Stop, ResumeRow
  <2>2. kicked' \in BOOLEAN /\ poller' \in {"off", "on", "gone"}
    BY <1>1, <1>8 DEF Watchdog, PollGone, WriteGone, Stop, ResumeRow, LoopTypeOK
  <2>3. /\ row' \in [status : Statuses, error : BOOLEAN, handle : BOOLEAN]
        /\ row'.status = "completed" => row.status = "completed"
    <3>1. CASE WriteGone
      <4> DEFINE f == Failed
                 g == [f EXCEPT !.handle = FALSE]
      <4>1. f \in [status : Statuses, error : BOOLEAN, handle : BOOLEAN] /\ f.status = "failed"
        BY <1>3
      <4>2. row' = g
        BY <3>1, Zenon DEF WriteGone
      <4> HIDE DEF f
      <4>3. g \in [status : Statuses, error : BOOLEAN, handle : BOOLEAN] /\ g.status = f.status
        BY <4>1
      <4> HIDE DEF g
      <4> QED
        BY <4>1, <4>2, <4>3
    <3>2. CASE Stop
      <4>1. row' = [status |-> "stopped", error |-> FALSE, handle |-> FALSE]
        BY <3>2 DEF Stop
      <4> QED
        BY <4>1 DEF Statuses
    <3>3. CASE ResumeRow
      <4>1. row' = [status |-> "ready", error |-> FALSE, handle |-> FALSE]
        BY <3>3 DEF ResumeRow
      <4> QED
        BY <4>1 DEF Statuses
    <3>4. CASE Watchdog \/ PollGone
      BY <1>2, <1>3, <3>4 DEF Watchdog, PollGone
    <3> QED
      BY <1>8, <3>1, <3>2, <3>3, <3>4
  <2> QED
    BY <2>1, <2>2, <2>3, Beside
<1>9. CASE UNCHANGED loopVars
  BY <1>1, <1>2, <1>9, Beside DEF loopVars, LoopTypeOK
<1> QED
  BY <1>4, <1>5, <1>6, <1>7, <1>8, <1>9, LoopGoesOn, ChildEnded, LoopDied DEF LoopNext

LEMMA LoopIsSafe == LoopSpec => []LoopInv
<1>1. LoopInit => LoopInv
  BY LoopBegins
<1>2. LoopInv /\ [LoopNext]_loopVars => LoopInv'
  BY LoopInvHolds
<1> QED
  BY <1>1, <1>2, PTL DEF LoopSpec

---------------------------------------------------------------------------
(* The theorems                                                            *)

\* Types, and that a loop waits for the child of the item it is at
\* (dispatchForEachSpawn).
THEOREM LoopTypesHold == LoopSpec => []LoopTypeOK
<1>1. LoopInv => LoopTypeOK
  BY DEF LoopInv
<1> QED
  BY <1>1, LoopIsSafe, PTL

\* A completed session has a completed child for every item of its list
\* (spawn-loop.ts), whoever interferes and however often the conductor dies.
THEOREM CompletedMeansEveryItem == LoopSpec => []LoopIsComplete
<1>1. LoopInv => LoopIsComplete
  BY DEF LoopInv
<1> QED
  BY <1>1, LoopIsSafe, PTL

\* Where a failure stops the loop, at most one child is alive for each death
\* of the conductor, and one more.
THEOREM ChildrenOneByOne == LoopSpec => []OneAtATime
<1>1. LoopInv => OneAtATime
  BY DEF LoopInv, FewAlive, OneAtATime, Stops
<1> QED
  BY <1>1, LoopIsSafe, PTL

\* Only Spawn creates a child.
LEMMA OnlySpawnAdds ==
  ASSUME LoopInv, [LoopNext]_loopVars, Len(child') > Len(child)
  PROVE  Spawn
<1>1. LoopTypeOK /\ AtLast
  BY DEF LoopInv
<1>2. Len(child) \in Nat
  BY <1>1, ChildrenAreFinite
<1>3. child' # child
  BY <1>2
<1>4. CASE Launched
  <2>1. Current \in DOMAIN child
    BY <1>1, <1>4 DEF Launched, AtLast, AtItem, LoopTypeOK
  <2>2. Len(child') = Len(child)
    BY <1>1, <1>4, <2>1, StatusWritten, Zenon DEF Launched
  <2> QED
    BY <1>2, <2>2
<1>5. CASE \E k \in DOMAIN child : ChildEnds(k)
  <2>1. PICK k \in DOMAIN child, s \in Ended : child' = [child EXCEPT ![k].status = s]
    BY <1>5 DEF ChildEnds
  <2>2. s \in {"running"} \cup Ended
    BY Zenon
  <2>3. Len(child') = Len(child)
    BY <1>1, <2>1, <2>2, StatusWritten, Zenon
  <2> QED
    BY <1>2, <2>3
<1>6. CASE LoopStep
  BY <1>3, <1>4, <1>6
  DEF LoopStep, Enter, EnterEmpty, Skip, BudgetExceeded, ChildCompleted, ChildFailed, Finish,
      VerifyPasses, CompleteFlow, Reconcile
<1>7. CASE \/ DispatchFails \/ SpawnFails \/ LaunchFails \/ VerifyFails \/ Watchdog
           \/ PollGone \/ WriteGone \/ Stop \/ ResumeRow \/ Restart \/ UNCHANGED loopVars
  BY <1>3, <1>7
  DEF DispatchFails, SpawnFails, LaunchFails, VerifyFails, Watchdog, PollGone, WriteGone,
      Stop, ResumeRow, Restart, Dies, loopVars
<1> QED
  BY <1>5, <1>6, <1>7 DEF LoopNext

\* No item that has a completed child gets another where a failure stops the
\* loop, also in the loops that boot takes up (buildCompletedStateFromChildren).
THEOREM CompletedStaysCompleted == LoopSpec => NoRework
<1>1. ASSUME LoopInv, [LoopNext]_loopVars, forEach.policy = "stop",
             Len(child') > Len(child), loop.i \in Indices(Completed)
      PROVE  FALSE
  <2>1. loop.at = "head" /\ loop.i \in Items \ loop.done
    BY <1>1, OnlySpawnAdds DEF Spawn, Runs
  <2>2. PICK k \in Completed : child[k].index = loop.i
    BY <1>1 DEF Indices
  <2>3. loop.i \in loop.done \/ loop.i < loop.i
    BY <1>1, <2>1, <2>2 DEF LoopInv, InOrder, Stops
  <2>4. loop.i \in Nat
    BY <1>1, ChildrenAreFinite DEF LoopInv
  <2> QED
    BY <2>1, <2>3, <2>4
<1>2. LoopInv /\ [LoopNext]_loopVars =>
        [forEach.policy = "stop" /\ Len(child') > Len(child)
            => loop.i \notin Indices(Completed)]_loopVars
  BY <1>1
<1> QED
  BY <1>2, LoopIsSafe, PTL DEF LoopSpec, NoRework

\* No child is created once the completed items have used up the budget, which
\* a loop that boot takes up has inherited (enforceBudgetCap).
THEOREM BudgetIsKept == LoopSpec => BudgetHolds
<1>1. ASSUME LoopInv, [LoopNext]_loopVars, Len(child') > Len(child),
             forEach.policy = "stop" \/ restarts = 0
      PROVE  Cardinality(Indices(Completed)) < forEach.cap
  <2>1. LoopTypeOK /\ Checkpointed /\ Walked /\ InOrder
    BY <1>1 DEF LoopInv
  <2>2. loop.at = "head" /\ Affordable
    BY <1>1, OnlySpawnAdds DEF Spawn, Runs
  <2>3. Paid \subseteq DOMAIN child /\ loop.spawned \subseteq DOMAIN child
    BY <2>1 DEF Paid, Completed, LoopTypeOK
  <2>4. Indices(Completed) \subseteq Indices(Paid)
    <3>1. CASE restarts = 0
      BY <2>1, <2>2, <3>1 DEF Checkpointed, Walking, Paid, Completed, Indices
    <3>2. CASE Stops
      <4>1. ASSUME NEW k \in Completed
            PROVE  child[k].index \in Indices(Paid)
        <5>1. child[k].index \in loop.done \/ child[k].index < loop.i
          BY <2>1, <2>2, <3>2 DEF InOrder
        <5>2. child[k].index \in Nat \ {0} /\ loop.i \in Nat
          BY <2>1, ChildrenHaveItems, ChildrenAreFinite DEF Completed, Items
        <5>3. child[k].index \in loop.done \/ child[k].index \in 1..(loop.i - 1)
          BY <5>1, <5>2
        <5> QED
          BY <2>1, <2>2, <3>2, <5>3 DEF Walked, Walking, InOrder
      <4> QED
        BY <4>1 DEF Indices
    <3> QED
      BY <1>1, <3>1, <3>2 DEF Stops
  <2>5. Indices(Completed) = Indices(Paid)
    BY <2>4 DEF Indices, Paid
  <2> DEFINE K == {k \in loop.spawned : child[k].status \in Ended}
  <2>6. Cardinality(Indices(Paid)) <= Cardinality(Paid) /\ Cardinality(Indices(Paid)) \in Nat
    BY <2>1, <2>3, ItemsOfChildren
  <2>7. Cardinality(Paid) <= Cardinality(K) /\ Cardinality(Paid) \in Nat /\ Cardinality(K) \in Nat
    <3>1. Paid \subseteq K /\ K \subseteq DOMAIN child
      BY <2>3 DEF Paid, Completed, Ended
    <3> QED
      BY <2>1, <3>1, FewerAlive
  <2>8. Cardinality(K) < forEach.cap
    BY <2>2 DEF Affordable, Spend
  <2>9. forEach.cap \in Nat
    BY <2>1, LoopAssumption DEF LoopTypeOK
  <2> QED
    BY <2>5, <2>6, <2>7, <2>8, <2>9
<1>2. LoopInv /\ [LoopNext]_loopVars =>
        [Len(child') > Len(child) /\ (forEach.policy = "stop" \/ restarts = 0)
            => Cardinality(Indices(Completed)) < forEach.cap]_loopVars
  BY <1>1
<1> QED
  BY <1>2, LoopIsSafe, PTL DEF LoopSpec, BudgetHolds

---------------------------------------------------------------------------
(* The loop ends                                                           *)

\* A dispatch begins on a row that does not run, when no operator wrote to it,
\* and the checkpoint is gone before the hand-off.
Carried ==
    /\ RunningLoopIsCarried
    /\ ~tended /\ loop.at = "dispatch" => row.status # "running"
    /\ loop.at \in {"verify", "advance"} => ~cp

LEMMA CarriedOn ==
  ASSUME LoopInv, Carried, LoopNext
  PROVE  Carried'
<1>1. /\ LoopTypeOK /\ AtLast /\ Checkpointed
      /\ row \in [status : Statuses, error : BOOLEAN, handle : BOOLEAN]
      /\ tended \in BOOLEAN
  BY DEF LoopInv, LoopTypeOK
<1>2. /\ Failed.status = "failed"
      /\ [Failed EXCEPT !.handle = FALSE].status = "failed"
  BY <1>1 DEF Failed
<1>3. /\ NoDispatch.at = "none"
      /\ \A at : [loop EXCEPT !.at = at].at = at /\ [NoDispatch EXCEPT !.at = at].at = at
  BY <1>1 DEF LoopTypeOK, NoDispatch
<1>4. CASE Enter \/ EnterEmpty
  <2>1. CASE Enter
    <3>1. loop'.at = "head"
      BY <2>1 DEF Enter, NoDispatch
    <3> QED
      BY <3>1 DEF Carried, RunningLoopIsCarried
  <2>2. CASE EnterEmpty
    <3>1. loop'.at = "verify" /\ ~cp'
      BY <1>3, <2>2 DEF EnterEmpty
    <3> QED
      BY <3>1 DEF Carried, RunningLoopIsCarried
  <2> QED
    BY <1>4, <2>1, <2>2
<1>5. CASE Spawn \/ Skip \/ ChildCompleted
  <2>1. loop'.at \in {"head", "launch"} /\ UNCHANGED tended
    BY <1>1, <1>5 DEF Spawn, Runs, Skip, ChildCompleted, LoopTypeOK
  <2> QED
    BY <2>1 DEF Carried, RunningLoopIsCarried
<1>6. CASE Launched
  <2>1. /\ loop'.at = "wait" /\ UNCHANGED <<tended, row, cp, boot>>
        /\ child' = [child EXCEPT ![Current].status = "running"]
    BY <1>1, <1>6 DEF Launched, LoopTypeOK
  <2>2. Current \in DOMAIN child
    BY <1>1, <1>6 DEF Launched, AtLast, AtItem, LoopTypeOK
  <2>3. Current' = Current /\ child'[Current].status = "running"
    BY <1>1, <2>1, <2>2, StatusWritten DEF Current
  <2> QED
    BY <2>1, <2>3 DEF Carried, RunningLoopIsCarried
<1>7. ASSUME NEW k \in DOMAIN child, ChildEnds(k)
      PROVE  Carried'
  <2>1. PICK s \in Ended : child' = [child EXCEPT ![k].status = s]
    BY <1>7 DEF ChildEnds
  <2>2. UNCHANGED <<tended, row, cp, loop, boot>>
    BY <1>7 DEF ChildEnds
  <2>3. ASSUME loop.at = "wait"
        PROVE  child'[Current'].status # "ready"
    <3>1. /\ Len(child') = Len(child) /\ child'[k].status = s
          /\ \A j \in DOMAIN child \ {k} : child'[j] = child[j]
      BY <1>1, <2>1, StatusWritten
    <3>2. Current' = Current /\ Current \in DOMAIN child /\ child[Current].status # "ready"
      BY <1>1, <2>3, <3>1 DEF Current, AtLast, AtItem, LoopTypeOK, Carried, RunningLoopIsCarried
    <3> QED
      BY <3>1, <3>2 DEF Ended
  <2> QED
    BY <2>2, <2>3 DEF Carried, RunningLoopIsCarried
<1>8. ASSUME IterationFails, loop.at \in {"head", "launch", "wait"},
             UNCHANGED <<forEach, tended, child, boot, poller, restarts>>
      PROVE  Carried'
  <2>1. \/ cp' = FALSE /\ loop'.at = "none"
        \/ loop'.at = "head"
    BY <1>1, <1>3, <1>8 DEF IterationFails, DispatchReturns, LoopTypeOK
  <2> QED
    BY <2>1 DEF Carried, RunningLoopIsCarried
<1>9. CASE ChildFailed \/ SpawnFails \/ LaunchFails
  BY <1>8, <1>9 DEF ChildFailed, SpawnFails, LaunchFails, Runs
<1>10. CASE BudgetExceeded \/ Finish
  <2>1. cp' = FALSE /\ loop'.at \in {"none", "verify"}
    BY <1>3, <1>10 DEF BudgetExceeded, Finish, DispatchReturns
  <2> QED
    BY <2>1 DEF Carried, RunningLoopIsCarried
<1>11. CASE VerifyPasses \/ VerifyFails \/ CompleteFlow
  <2>1. ~cp /\ UNCHANGED cp /\ loop'.at \in {"none", "advance"}
    BY <1>3, <1>11 DEF VerifyPasses, VerifyFails, CompleteFlow, DispatchReturns, Carried
  <2> QED
    BY <2>1 DEF Carried, RunningLoopIsCarried
<1>12. CASE DispatchFails
  <2>1. /\ loop'.at = "none" /\ UNCHANGED tended
        /\ ~tended => row'.status # "running"
    BY <1>2, <1>3, <1>12 DEF DispatchFails, DispatchReturns, Carried
  <2> QED
    BY <2>1 DEF Carried, RunningLoopIsCarried
<1>13. CASE Watchdog \/ PollGone \/ WriteGone \/ Stop \/ ResumeRow
  <2>1. /\ UNCHANGED <<tended, cp, child, loop, boot>>
        /\ row' = row \/ row'.status # "running"
    <3>1. CASE Watchdog
      BY <1>2, <3>1, Zenon DEF Watchdog
    <3>2. CASE PollGone
      BY <3>2, Zenon DEF PollGone
    <3>3. CASE WriteGone
      BY <1>2, <3>3 DEF WriteGone
    <3>4. CASE Stop \/ ResumeRow
      <4>1. row'.status \in {"stopped", "ready"}
        BY <3>4 DEF Stop, ResumeRow
      <4> QED
        BY <3>4, <4>1 DEF Stop, ResumeRow
    <3> QED
      BY <1>13, <3>1, <3>2, <3>3, <3>4
  <2> QED
    BY <2>1 DEF Carried, RunningLoopIsCarried, Current
<1>14. CASE Restart
  <2>1. /\ loop'.at = "none" /\ UNCHANGED <<tended, row, cp>>
        /\ boot' = (row.status = "running" /\ cp)
    BY <1>3, <1>14 DEF Restart, Dies
  <2> QED
    BY <2>1 DEF Carried, RunningLoopIsCarried
<1>15. CASE Reconcile
  <2>1. loop'.at = "dispatch" /\ row'.status = "ready"
    BY <1>1, <1>3, <1>15 DEF Reconcile
  <2> QED
    BY <2>1 DEF Carried, RunningLoopIsCarried
<1> QED
  BY <1>4, <1>5, <1>6, <1>7, <1>9, <1>10, <1>11, <1>12, <1>13, <1>14, <1>15
  DEF LoopNext, LoopStep

\* A loop that runs with a checkpoint, and that no operator touched, is never
\* left to nobody: a dispatch is in flight or boot will dispatch it, whatever
\* the watchdog, the poller and the deaths of the conductor do; and a loop
\* never waits for a child that was not launched (dispatchForEachSpawn,
\* _reconcileForEachSessions).
THEOREM RunningLoopsAreCarried == LoopSpec => []RunningLoopIsCarried
<1>1. LoopInit => Carried
  BY DEF LoopInit, NoDispatch, Carried, RunningLoopIsCarried
<1>2. LoopInv /\ Carried /\ [LoopNext]_loopVars => Carried'
  <2>1. ASSUME Carried, UNCHANGED loopVars
        PROVE  Carried'
    BY <2>1 DEF loopVars, Carried, RunningLoopIsCarried, Current
  <2> QED
    BY <2>1, CarriedOn
<1>3. Carried => RunningLoopIsCarried
  BY DEF Carried
<1> QED
  BY <1>1, <1>2, <1>3, LoopIsSafe, PTL DEF LoopSpec

\* What is left of a dispatch is a number, by where it waits.
LEMMA LeftOfLoop ==
  ASSUME LoopTypeOK
  PROVE  /\ HeadsLeft \in Nat
         /\ loop.i \in Items => HeadsLeft >= 3
         /\ loop.at = "none" /\ ~boot => LoopStepsLeft = 0
         /\ LoopStepsLeft \in Nat
<1>1. forEach.items \in Nat /\ loop.i \in 1..(forEach.items + 1)
  BY ChildrenAreFinite DEF LoopTypeOK
<1>2. HeadsLeft \in Nat /\ (loop.i \in Items => HeadsLeft >= 3)
  BY <1>1 DEF HeadsLeft, Items
<1>3. LoopStepsLeft \in Nat
  BY <1>1, <1>2 DEF LoopStepsLeft
<1> QED
  BY <1>2, <1>3 DEF LoopStepsLeft

\* Every step of a loop, one that fails included, leaves its dispatch fewer
\* steps, unless the conductor dies: a dispatch over n items makes no more than
\* 3n + 4, whatever its children and the row do meanwhile.
THEOREM LoopsShrink == LoopSpec => LoopShrinks
<1> DEFINE Shrinks == LoopStepsLeft' \in Nat /\ LoopStepsLeft' < LoopStepsLeft
<1>1. LoopInv /\ LoopInv' /\ [LoopNext]_loopVars
        => [\/ UNCHANGED <<loop, boot>>
            \/ restarts' = restarts + 1
            \/ Shrinks]_loopVars
  <2> SUFFICES ASSUME LoopInv, LoopInv', LoopNext,
                      ~UNCHANGED <<loop, boot>>, restarts' # restarts + 1
               PROVE  Shrinks
    OBVIOUS
  <2>1. /\ LoopTypeOK /\ AtLast /\ Checkpointed /\ LoopTypeOK'
        /\ forEach.items \in Nat /\ loop.i \in Nat /\ loop.i >= 1
        /\ HeadsLeft \in Nat
    BY ChildrenAreFinite, LeftOfLoop DEF LoopInv
  <2>2. LoopStepsLeft' \in Nat
    <3>1. forEach'.items \in Nat /\ loop'.i \in 1..(forEach'.items + 1)
      BY <2>1, LoopAssumption DEF LoopTypeOK
    <3> QED
      BY <3>1 DEF LoopStepsLeft, HeadsLeft
  <2>3. ASSUME loop.at # "none", boot' = boot, forEach' = forEach, loop'.at = "none"
        PROVE  Shrinks
    <3>1. ~boot /\ ~boot'
      BY <2>1, <2>3 DEF Checkpointed
    <3>2. LoopStepsLeft' = 0
      BY <2>3, <3>1 DEF LoopStepsLeft
    <3>3. LoopStepsLeft > 0
      BY <2>1, <2>3, <3>1, SMTT(30) DEF LoopStepsLeft, LoopTypeOK
    <3> QED
      BY <2>2, <3>2, <3>3
  <2>4. ASSUME loop.at \in {"head", "launch", "wait"}, boot' = boot, forEach' = forEach,
               loop'.at = "head", loop'.i = loop.i + 1
        PROVE  Shrinks
    <3>1. ~boot /\ ~boot'
      BY <2>1, <2>4 DEF Checkpointed
    <3>2. HeadsLeft' = HeadsLeft - 3
      BY <2>1, <2>4 DEF HeadsLeft
    <3> QED
      BY <2>1, <2>2, <2>4, <3>1, <3>2 DEF LoopStepsLeft
  <2>5. NoDispatch.at = "none" /\ NoDispatch.i = 1
    BY DEF NoDispatch
  <2>6. CASE Enter \/ EnterEmpty
    <3>1. /\ loop.at = "dispatch" /\ UNCHANGED <<boot, forEach>> /\ ~boot
          /\ (loop'.i = 1 /\ loop'.at = "head") \/ loop'.at = "verify"
      BY <2>1, <2>6 DEF Enter, EnterEmpty, NoDispatch, Checkpointed, LoopTypeOK
    <3> QED
      BY <2>1, <2>2, <3>1 DEF LoopStepsLeft, HeadsLeft
  <2>7. CASE Skip \/ ChildCompleted
    <3>1. /\ loop.at \in {"head", "wait"} /\ loop'.at = "head" /\ loop'.i = loop.i + 1
          /\ UNCHANGED <<boot, forEach>>
      BY <2>1, <2>7 DEF Skip, ChildCompleted, LoopTypeOK
    <3> QED
      BY <2>4, <3>1
  <2>8. CASE Spawn \/ Launched
    <3>1. /\ UNCHANGED <<boot, forEach>> /\ loop'.i = loop.i /\ ~boot
          /\ \/ loop.at = "head" /\ loop'.at = "launch"
             \/ loop.at = "launch" /\ loop'.at = "wait"
      BY <2>1, <2>8 DEF Spawn, Launched, Runs, LoopTypeOK, Checkpointed
    <3>2. HeadsLeft' = HeadsLeft
      BY <3>1 DEF HeadsLeft
    <3> QED
      BY <2>1, <2>2, <3>1, <3>2 DEF LoopStepsLeft
  <2>9. CASE ChildFailed \/ SpawnFails \/ LaunchFails
    <3>1. /\ loop.at \in {"head", "launch", "wait"} /\ IterationFails
          /\ UNCHANGED <<boot, forEach>>
      BY <2>9 DEF ChildFailed, SpawnFails, LaunchFails, Runs
    <3>2. loop'.at = "none" \/ (loop'.at = "head" /\ loop'.i = loop.i + 1)
      BY <2>1, <2>5, <3>1 DEF IterationFails, DispatchReturns, LoopTypeOK
    <3> QED
      BY <2>3, <2>4, <3>1, <3>2
  <2>10. CASE BudgetExceeded \/ Finish \/ VerifyPasses \/ VerifyFails \/ CompleteFlow
              \/ DispatchFails
    <3>1. /\ loop.at \in {"dispatch", "head", "verify", "advance"} /\ UNCHANGED <<boot, forEach>>
          /\ \/ loop'.at = "none"
             \/ loop.at = "head" /\ loop'.at = "verify"
             \/ loop.at = "verify" /\ loop'.at = "advance"
      BY <2>1, <2>5, <2>10
      DEF BudgetExceeded, Runs, Finish, VerifyPasses, VerifyFails, CompleteFlow, DispatchFails,
          DispatchReturns, LoopTypeOK
    <3>2. CASE loop'.at = "none"
      BY <2>3, <3>1, <3>2
    <3>3. CASE loop'.at # "none"
      <4>1. ~boot /\ ~boot'
        BY <2>1, <3>1 DEF Checkpointed
      <4> QED
        BY <2>1, <2>2, <3>1, <3>3, <4>1 DEF LoopStepsLeft
    <3> QED
      BY <3>2, <3>3
  <2>11. CASE Reconcile
    <3>1. boot /\ ~boot' /\ loop'.at = "dispatch" /\ UNCHANGED forEach
      BY <2>11 DEF Reconcile, NoDispatch
    <3> QED
      BY <2>1, <2>2, <3>1 DEF LoopStepsLeft
  <2>12. ~Restart
    BY DEF Restart, Dies
  <2> QED
    BY <2>6, <2>7, <2>8, <2>9, <2>10, <2>11, <2>12
    DEF LoopNext, LoopStep, ChildEnds, Watchdog, PollGone, WriteGone, Stop, ResumeRow
<1> QED
  BY <1>1, LoopIsSafe, PTL DEF LoopSpec, LoopShrinks
=============================================================================
