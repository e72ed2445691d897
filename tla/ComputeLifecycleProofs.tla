----------------------- MODULE ComputeLifecycleProofs -----------------------
(***************************************************************************)
(* What the life of a template compute guarantees for any number of        *)
(* sessions, pods and dispatches: a pod has one session, a session whose   *)
(* dispatches never raced for its first pod has one pod, and no row is     *)
(* pulled from under a session that the page of the listing shows.         *)
(***************************************************************************)
EXTENDS ComputeLifecycle, TLAPS

---------------------------------------------------------------------------
(* The invariants                                                          *)

SessionRecords ==
  [status : Statuses, name : Rows, ref : BOOLEAN,
   handle : pods \cup {NoPod}, saved : Statuses \cup {NoStatus}]

DispatchRecords ==
  [pc : {"idle", "begun", "resolved", "read", "provisioning", "spawning"},
   handle : pods \cup {NoPod}, pod : pods \cup {NoPod}, saved : Statuses \cup {NoStatus}]

\* The session's config, one of its dispatches or one of its agents names it.
Holds(s, p) ==
  \/ ses[s].handle = p
  \/ \E d \in Slots : d[1] = s /\ (disp[d].handle = p \/ disp[d].pod = p)
  \/ <<s, p>> \in agents

OneHolder == \A s, t \in Sessions, p \in Pods : Holds(s, p) /\ Holds(t, p) => s = t

\* A dispatch that launches has a pod to launch in.
Reached == \A d \in Slots : disp[d].pc \in {"provisioning", "spawning"} => disp[d].pod # NoPod

PodInv == ComputeTypeOK /\ OneHolder /\ Reached

\* Until two dispatches of a session race, what its dispatches have read is still
\* so, one of them at most is to write a first handle, and the session's agents
\* are in its pod.
InStep ==
  \A s \in Sessions \ raced :
    /\ \A d \in Slots : d[1] = s =>
          /\ disp[d].pc = "read" => disp[d].handle = ses[s].handle
          /\ disp[d].pc = "provisioning" => ses[s].handle = NoPod /\ disp[d].handle = NoPod
          /\ disp[d].pc = "spawning" => disp[d].pod = ses[s].handle
    /\ \A d, e \in Slots :
          d[1] = s /\ e[1] = s /\ Unwritten(disp[d]) /\ Unwritten(disp[e]) => d = e
    /\ \A p \in Pods : <<s, p>> \in agents => p = ses[s].handle

SingleInv == PodInv /\ InStep

---------------------------------------------------------------------------
(* Names                                                                   *)

LEMMA Names ==
  /\ NoPod \notin Pods /\ NoRow \notin Rows /\ NoPod \notin pods
  /\ \A s \in Sessions : Clone(s) \in Rows
  /\ Shared \in Rows
BY ComputeAssumption DEF Rows, Clone, NoRow, Shared, pods

LEMMA SlotsOfSessions == \A d \in Slots : d[1] \in Sessions
BY ComputeAssumption

\* A collection takes the row it was asked for, and no pod.
LEMMA Collected ==
  ASSUME ComputeTypeOK, NEW n, NEW ss, Collect(n, ss)
  PROVE  /\ origin' = origin /\ rows' \subseteq rows
         /\ \A r \in rows \ rows' : r = n /\ Referencing(n, ss) = {}
<1>1. CASE n \in rows /\ Referencing(n, ss) = {}
  <2>1. /\ rows' = rows \ {n}
        /\ origin' = [p \in Pods |-> IF p = NoPod THEN NoRow ELSE origin[p]]
    BY <1>1 DEF Collect, RowPod
  <2>2. \A p \in Pods : p # NoPod
    BY Names
  <2>3. origin \in [Pods -> Rows \cup {NoRow}]
    BY DEF ComputeTypeOK
  <2>4. origin' = origin
    BY <2>1, <2>2, <2>3
  <2> QED
    BY <1>1, <2>1, <2>4
<1>2. CASE ~(n \in rows /\ Referencing(n, ss) = {})
  BY <1>2 DEF Collect
<1> QED
  BY <1>1, <1>2

---------------------------------------------------------------------------
(* Steps of one kind                                                       *)

\* What goes on without a dispatch leaves every pod with who has it.
LEMMA NoDispatchMoves ==
  ASSUME ComputeTypeOK, UNCHANGED <<origin, disp>>,
         raced \subseteq raced', raced' \subseteq Sessions,
         rows' \subseteq rows, agents' \subseteq agents,
         ses' \in [Sessions -> SessionRecords],
         \A s \in Sessions : ses'[s].handle = ses[s].handle,
         stopping' \in [Sessions -> [on : BOOLEAN, name : Rows \cup {NoRow}]]
  PROVE  /\ PodInv => PodInv'
         /\ SingleInv => SingleInv'
<1>1. pods' = pods
  BY DEF pods
<1>2. ComputeTypeOK'
  BY <1>1 DEF ComputeTypeOK, SessionRecords
<1>3. \A s \in Sessions, p \in Pods : Holds(s, p)' => Holds(s, p)
  BY DEF Holds
<1>4. PodInv => OneHolder' /\ Reached'
  BY <1>3 DEF PodInv, OneHolder, Reached
<1>5. InStep => InStep'
  BY DEF InStep, Unwritten
<1> QED
  BY <1>2, <1>4, <1>5 DEF PodInv, SingleInv

\* A dispatch moves on, and writes its session: any pod that is newly named is
\* one it had, or one nobody had.
Moves(d, x, y) ==
  /\ disp' = [disp EXCEPT ![d] = y] /\ ses' = [ses EXCEPT ![d[1]] = x]
  /\ x \in SessionRecords' /\ y \in DispatchRecords'
  /\ rows' \subseteq Rows /\ origin' \in [Pods -> Rows \cup {NoRow}] /\ pods \subseteq pods'
  /\ agents' \subseteq Sessions \X pods' /\ stopping' = stopping
  /\ \A p \in {x.handle, y.handle, y.pod} \cap Pods : p \in pods => Holds(d[1], p)
  /\ \A a \in agents' \ agents : a[1] = d[1] /\ Holds(d[1], a[2])
  /\ y.pc \in {"provisioning", "spawning"} => y.pod # NoPod

LEMMA DispatchMoves ==
  ASSUME PodInv, NEW d \in Slots, NEW x, NEW y, Moves(d, x, y), raced' \subseteq Sessions
  PROVE  PodInv'
<1> DEFINE s == d[1]
<1>0. /\ disp' = [disp EXCEPT ![d] = y] /\ ses' = [ses EXCEPT ![s] = x]
      /\ x \in SessionRecords' /\ y \in DispatchRecords'
      /\ rows' \subseteq Rows /\ origin' \in [Pods -> Rows \cup {NoRow}] /\ pods \subseteq pods'
      /\ agents' \subseteq Sessions \X pods' /\ stopping' = stopping
  BY DEF Moves
<1>a. /\ \A p \in {x.handle, y.handle, y.pod} \cap Pods : p \in pods => Holds(s, p)
      /\ \A a \in agents' \ agents : a[1] = s /\ Holds(s, a[2])
      /\ y.pc \in {"provisioning", "spawning"} => y.pod # NoPod
  BY DEF Moves
<1>1. ComputeTypeOK /\ OneHolder /\ Reached
  BY DEF PodInv
<1>2. s \in Sessions
  BY SlotsOfSessions
<1>3. ses \in [Sessions -> SessionRecords] /\ disp \in [Slots -> DispatchRecords]
  BY <1>1 DEF ComputeTypeOK, SessionRecords, DispatchRecords
<1>4. SessionRecords \subseteq SessionRecords' /\ DispatchRecords \subseteq DispatchRecords'
  BY <1>0 DEF SessionRecords, DispatchRecords
<1>5. /\ ses' \in [Sessions -> SessionRecords'] /\ disp' \in [Slots -> DispatchRecords']
      /\ ses'[s] = x /\ disp'[d] = y
      /\ \A t \in Sessions \ {s} : ses'[t] = ses[t]
      /\ \A e \in Slots \ {d} : disp'[e] = disp[e]
  BY <1>0, <1>2, <1>3, <1>4
<1>6. ComputeTypeOK'
  BY <1>0, <1>1, <1>5 DEF ComputeTypeOK, SessionRecords, DispatchRecords
<1>7. Reached'
  <2>1. ASSUME NEW e \in Slots, disp'[e].pc \in {"provisioning", "spawning"}
        PROVE  disp'[e].pod # NoPod
    <3>1. CASE e = d
      BY <1>5, <1>a, <2>1, <3>1
    <3>2. CASE e # d
      BY <1>1, <1>5, <2>1, <3>2 DEF Reached
    <3> QED
      BY <3>1, <3>2
  <2> QED
    BY <2>1 DEF Reached
<1>8. ASSUME NEW t \in Sessions, NEW p \in Pods, Holds(t, p)'
      PROVE  Holds(t, p) \/ (t = s /\ p \notin pods)
  <2> SUFFICES ASSUME p \in pods \/ t # s PROVE Holds(t, p)
    OBVIOUS
  <2>1. CASE ses'[t].handle = p
    <3>1. CASE t = s
      <4>1. x.handle = p /\ p \in pods
        BY <1>5, <2>1, <3>1
      <4> QED
        BY <1>a, <3>1, <4>1
    <3>2. CASE t # s
      <4>1. ses'[t] = ses[t]
        BY <1>5, <3>2
      <4> QED
        BY <2>1, <4>1 DEF Holds
    <3> QED
      BY <3>1, <3>2
  <2>2. CASE \E e \in Slots : e[1] = t /\ (disp'[e].handle = p \/ disp'[e].pod = p)
    <3>1. PICK e \in Slots : e[1] = t /\ (disp'[e].handle = p \/ disp'[e].pod = p)
      BY <2>2
    <3>2. CASE e = d
      BY <1>5, <1>a, <3>1, <3>2
    <3>3. CASE e # d
      <4>1. disp'[e] = disp[e]
        BY <1>5, <3>3
      <4> QED
        BY <3>1, <4>1 DEF Holds
    <3> QED
      BY <3>2, <3>3
  <2>3. CASE <<t, p>> \in agents'
    <3>1. CASE <<t, p>> \in agents
      BY <3>1 DEF Holds
    <3>2. CASE <<t, p>> \notin agents
      <4>1. t = s /\ Holds(s, p)
        <5> DEFINE a == <<t, p>>
        <5>1. a \in agents' \ agents /\ a[1] = t /\ a[2] = p
          BY <2>3, <3>2
        <5> HIDE DEF a
        <5> QED
          BY <1>a, <5>1
      <4> QED
        BY <4>1
    <3> QED
      BY <3>1, <3>2
  <2> QED
    BY <1>8, <2>1, <2>2, <2>3 DEF Holds
<1>9. \A t \in Sessions, p \in Pods : Holds(t, p) => p \in pods
  <2> SUFFICES ASSUME NEW t \in Sessions, NEW p \in Pods, Holds(t, p), p \notin pods
               PROVE  FALSE
    OBVIOUS
  <2>1. p # NoPod
    BY Names
  <2>2. ses[t].handle \in pods \cup {NoPod}
    BY <1>3 DEF SessionRecords
  <2>3. \A e \in Slots : /\ disp[e].handle \in pods \cup {NoPod}
                         /\ disp[e].pod \in pods \cup {NoPod}
    BY <1>3 DEF DispatchRecords
  <2>4. <<t, p>> \notin agents
    BY <1>1 DEF ComputeTypeOK
  <2>5. ses[t].handle # p
    BY <2>1, <2>2
  <2>6. \A e \in Slots : disp[e].handle # p /\ disp[e].pod # p
    BY <2>1, <2>3
  <2> QED
    BY <2>4, <2>5, <2>6, Zenon DEF Holds
<1>10. OneHolder'
  <2> SUFFICES ASSUME NEW t \in Sessions, NEW u \in Sessions, NEW p \in Pods,
                      Holds(t, p)', Holds(u, p)'
               PROVE  t = u
    BY DEF OneHolder
  <2>1. Holds(t, p) \/ (t = s /\ p \notin pods)
    BY <1>8
  <2>2. Holds(u, p) \/ (u = s /\ p \notin pods)
    BY <1>8
  <2> QED
    BY <1>1, <1>9, <2>1, <2>2 DEF OneHolder
<1> QED
  BY <1>6, <1>7, <1>10 DEF PodInv

\* A dispatch writes over a handle only when the session had none and the
\* dispatch had read so.
KeepsHandle(d, x) ==
  x.handle # ses[d[1]].handle => ses[d[1]].handle = NoPod /\ Unwritten(disp[d])

\* ... and stays in step with the session and its other dispatches.
KeepsStep(d, x, y) ==
  /\ y.pc = "read" => y.handle = x.handle
  /\ y.pc = "provisioning" => x.handle = NoPod /\ y.handle = NoPod
  /\ y.pc = "spawning" => y.pod = x.handle
  /\ \A p \in Pods : <<d[1], p>> \in agents' => p = x.handle
  /\ Unwritten(y) =>
        Unwritten(disp[d]) \/ \A e \in Slots : e[1] = d[1] => ~Unwritten(disp[e])

LEMMA DispatchKeepsStep ==
  ASSUME SingleInv, NEW d \in Slots, NEW x, NEW y, Moves(d, x, y), raced \subseteq raced',
         d[1] \notin raced' => KeepsHandle(d, x) /\ KeepsStep(d, x, y)
  PROVE  InStep'
<1> DEFINE s == d[1]
<1>0. /\ disp' = [disp EXCEPT ![d] = y] /\ ses' = [ses EXCEPT ![s] = x]
      /\ \A a \in agents' \ agents : a[1] = s
  BY DEF Moves
<1>1. ComputeTypeOK /\ InStep /\ Reached
  BY DEF SingleInv, PodInv
<1>2. s \in Sessions
  BY SlotsOfSessions
<1>3. /\ ses'[s] = x /\ disp'[d] = y
      /\ \A t \in Sessions \ {s} : ses'[t] = ses[t]
      /\ \A e \in Slots \ {d} : disp'[e] = disp[e]
  BY <1>0, <1>1, <1>2 DEF ComputeTypeOK
<1> SUFFICES ASSUME NEW t \in Sessions, t \notin raced'
             PROVE  /\ \A e \in Slots : e[1] = t =>
                          /\ disp'[e].pc = "read" => disp'[e].handle = ses'[t].handle
                          /\ disp'[e].pc = "provisioning"
                                => ses'[t].handle = NoPod /\ disp'[e].handle = NoPod
                          /\ disp'[e].pc = "spawning" => disp'[e].pod = ses'[t].handle
                    /\ \A e, f \in Slots :
                          e[1] = t /\ f[1] = t /\ Unwritten(disp'[e]) /\ Unwritten(disp'[f])
                            => e = f
                    /\ \A p \in Pods : <<t, p>> \in agents' => p = ses'[t].handle
  BY DEF InStep, Unwritten
<1>4. /\ \A e \in Slots : e[1] = t =>
           /\ disp[e].pc = "read" => disp[e].handle = ses[t].handle
           /\ disp[e].pc = "provisioning" => ses[t].handle = NoPod /\ disp[e].handle = NoPod
           /\ disp[e].pc = "spawning" => disp[e].pod = ses[t].handle
      /\ \A e, f \in Slots :
           e[1] = t /\ f[1] = t /\ Unwritten(disp[e]) /\ Unwritten(disp[f]) => e = f
      /\ \A p \in Pods : <<t, p>> \in agents => p = ses[t].handle
  BY <1>1 DEF InStep
<1>5. CASE t = s
  <2>1. KeepsHandle(d, x) /\ KeepsStep(d, x, y)
    BY <1>5
  <2>2. \A p \in Pods : <<t, p>> \in agents' => p = ses'[t].handle
    BY <1>3, <1>5, <2>1 DEF KeepsStep
  <2>3. ASSUME NEW e \in Slots, e[1] = t
        PROVE  /\ disp'[e].pc = "read" => disp'[e].handle = ses'[t].handle
               /\ disp'[e].pc = "provisioning"
                     => ses'[t].handle = NoPod /\ disp'[e].handle = NoPod
               /\ disp'[e].pc = "spawning" => disp'[e].pod = ses'[t].handle
    <3>1. CASE e = d
      BY <1>3, <1>5, <2>1, <3>1 DEF KeepsStep
    <3>2. CASE e # d /\ x.handle = ses[t].handle
      <4>1. disp'[e] = disp[e] /\ ses'[t].handle = ses[t].handle
        BY <1>3, <1>5, <3>2
      <4> QED
        BY <1>4, <2>3, <4>1
    <3>3. CASE e # d /\ x.handle # ses[t].handle
      <4>1. ses[t].handle = NoPod /\ Unwritten(disp[d])
        BY <1>5, <2>1, <3>3 DEF KeepsHandle
      <4>2. ~Unwritten(disp[e])
        BY <1>4, <1>5, <2>3, <3>3, <4>1
      <4>3. disp[e].pc \notin {"read", "provisioning"}
        BY <1>4, <2>3, <4>1, <4>2 DEF Unwritten
      <4>4. disp[e].pc # "spawning"
        BY <1>1, <1>4, <2>3, <4>1 DEF Reached
      <4>5. disp'[e] = disp[e]
        BY <1>3, <3>3
      <4> QED
        BY <4>3, <4>4, <4>5
    <3> QED
      BY <3>1, <3>2, <3>3
  <2>4. ASSUME NEW e \in Slots, NEW f \in Slots, e[1] = t, f[1] = t,
               Unwritten(disp'[e]), Unwritten(disp'[f])
        PROVE  e = f
    <3>1. CASE e # d /\ f # d
      <4>1. disp'[e] = disp[e] /\ disp'[f] = disp[f]
        BY <1>3, <3>1
      <4> QED
        BY <1>4, <2>4, <4>1
    <3>2. ASSUME NEW g \in Slots \ {d}, g[1] = t, Unwritten(disp'[g]), Unwritten(disp'[d])
          PROVE  FALSE
      <4>1. Unwritten(disp[g]) /\ Unwritten(y)
        BY <1>3, <3>2
      <4>2. Unwritten(disp[d])
        BY <1>5, <2>1, <3>2, <4>1 DEF KeepsStep
      <4> QED
        BY <1>4, <1>5, <3>2, <4>1, <4>2
    <3> QED
      BY <2>4, <3>1, <3>2
  <2> QED
    BY <2>2, <2>3, <2>4
<1>6. CASE t # s
  <2>1. ses'[t] = ses[t] /\ \A e \in Slots : e[1] = t => disp'[e] = disp[e]
    BY <1>3, <1>6
  <2>2. ASSUME NEW p \in Pods, <<t, p>> \in agents' PROVE <<t, p>> \in agents
    <3> DEFINE a == <<t, p>>
    <3>1. a[1] # s
      BY <1>6
    <3> HIDE DEF a
    <3> QED
      BY <1>0, <2>2, <3>1 DEF a
  <2> QED
    BY <1>4, <2>1, <2>2
<1> QED
  BY <1>5, <1>6

---------------------------------------------------------------------------
(* The steps of a session                                                  *)

\* A session's record is written, but not the handle in it.
LEMMA SessionWritten ==
  ASSUME ComputeTypeOK, NEW s \in Sessions, NEW x \in SessionRecords,
         x.handle = ses[s].handle, ses' = [ses EXCEPT ![s] = x]
  PROVE  /\ ses' \in [Sessions -> SessionRecords]
         /\ \A t \in Sessions : ses'[t].handle = ses[t].handle
<1>1. ses \in [Sessions -> SessionRecords]
  BY DEF ComputeTypeOK, SessionRecords
<1>2. /\ ses' \in [Sessions -> SessionRecords] /\ ses'[s] = x
      /\ \A t \in Sessions \ {s} : ses'[t] = ses[t]
  BY <1>1
<1> QED
  BY <1>2

\* The ways a record is written.
LEMMA RecordWrites ==
  ASSUME NEW f \in SessionRecords, NEW st \in Statuses, NEW b \in BOOLEAN,
         NEW sv \in Statuses \cup {NoStatus}
  PROVE  /\ LET g == [f EXCEPT !.status = st] IN
              g \in SessionRecords /\ g.handle = f.handle
         /\ LET g == [f EXCEPT !.status = st, !.ref = b] IN
              g \in SessionRecords /\ g.handle = f.handle
         /\ LET g == [f EXCEPT !.saved = sv, !.status = st] IN
              g \in SessionRecords /\ g.handle = f.handle
BY DEF SessionRecords

LEMMA RecordRestored ==
  ASSUME NEW f \in SessionRecords, NEW st \in Statuses
  PROVE  LET g == [f EXCEPT !.status = st, !.saved = NoStatus] IN
              g \in SessionRecords /\ g.handle = f.handle
BY DEF SessionRecords

LEMMA StatusIsWritten ==
  ASSUME ComputeTypeOK, NEW s \in Sessions, NEW st \in Statuses
  PROVE  ses' = [ses EXCEPT ![s].status = st] =>
         /\ ses' \in [Sessions -> SessionRecords]
         /\ \A t \in Sessions : ses'[t].handle = ses[t].handle
<1>1. ses' = [ses EXCEPT ![s].status = st]
        => ses' = [ses EXCEPT ![s] = [ses[s] EXCEPT !.status = st]]
  OBVIOUS
<1>2. ses[s] \in SessionRecords
  BY DEF ComputeTypeOK, SessionRecords
<1> DEFINE g == [ses[s] EXCEPT !.status = st]
<1>3. g \in SessionRecords /\ g.handle = ses[s].handle
  BY <1>2, RecordWrites, Zenon
<1>4. ses' = [ses EXCEPT ![s].status = st] => ses' = [ses EXCEPT ![s] = g]
  BY <1>1, Zenon
<1> HIDE DEF g
<1> QED
  BY <1>3, <1>4, SessionWritten, Zenon

\* What a step that is nobody's dispatch changes.
Beside ==
  /\ UNCHANGED <<origin, disp>>
  /\ rows' \subseteq rows /\ agents' \subseteq agents
  /\ ses' \in [Sessions -> SessionRecords]
  /\ \A s \in Sessions : ses'[s].handle = ses[s].handle
  /\ stopping' \in [Sessions -> [on : BOOLEAN, name : Rows \cup {NoRow}]]

LEMMA SessionStep ==
  ASSUME ComputeTypeOK, NEW s \in Sessions,
         \/ StageDone(s) \/ Complete(s) \/ Fail(s) \/ StopBegins(s) \/ StopEnds(s)
         \/ Kill(s) \/ Delete(s) \/ Undelete(s)
  PROVE  Beside
<1>1. /\ ses \in [Sessions -> SessionRecords] /\ ses[s] \in SessionRecords
      /\ stopping \in [Sessions -> [on : BOOLEAN, name : Rows \cup {NoRow}]]
      /\ ses[s].name \in Rows /\ ses[s].status \in Statuses
      /\ ses[s].saved \in Statuses \cup {NoStatus}
  BY DEF ComputeTypeOK, SessionRecords
<1>2. {"ready", "completed", "failed", "stopped", "deleting", "pending"} \subseteq Statuses
  BY DEF Statuses, Ends
<1>3. CASE StageDone(s)
  <2>1. PICK ref \in Refs(s) : ses' = [ses EXCEPT ![s].status = "ready", ![s].ref = ref]
    BY <1>3 DEF StageDone
  <2>2. ref \in BOOLEAN
    BY DEF Refs
  <2> DEFINE g == [ses[s] EXCEPT !.status = "ready", !.ref = ref]
  <2>3. g \in SessionRecords /\ g.handle = ses[s].handle
    BY <1>1, <1>2, <2>2 DEF SessionRecords
  <2>4. ses' = [ses EXCEPT ![s] = g]
    BY <2>1
  <2>5. UNCHANGED <<rows, origin, disp, stopping>> /\ agents' \subseteq agents
    BY <1>3 DEF StageDone, Ran
  <2> HIDE DEF g
  <2> QED
    BY <1>1, <2>3, <2>4, <2>5, SessionWritten DEF Beside
<1>4. CASE Complete(s)
  <2>1. /\ ses' = [ses EXCEPT ![s].status = "completed"] /\ Collect(ses[s].name, ses')
        /\ agents' \subseteq agents /\ UNCHANGED <<disp, stopping>>
    BY <1>4 DEF Complete, Ran
  <2>2. origin' = origin /\ rows' \subseteq rows
    BY <2>1, Collected
  <2>3. /\ ses' \in [Sessions -> SessionRecords]
        /\ \A t \in Sessions : ses'[t].handle = ses[t].handle
    BY <1>2, <2>1, StatusIsWritten
  <2> QED
    BY <1>1, <2>1, <2>2, <2>3 DEF Beside
<1>5. CASE Fail(s)
  <2>1. /\ ses' = [ses EXCEPT ![s].status = "failed"] /\ agents' \subseteq agents
        /\ UNCHANGED <<rows, origin, disp, stopping>>
    BY <1>5 DEF Fail, Ran
  <2>2. /\ ses' \in [Sessions -> SessionRecords]
        /\ \A t \in Sessions : ses'[t].handle = ses[t].handle
    BY <1>2, <2>1, StatusIsWritten
  <2> QED
    BY <1>1, <2>1, <2>2 DEF Beside
<1>6. CASE StopBegins(s)
  BY <1>1, <1>6 DEF StopBegins, Beside
<1>7. CASE StopEnds(s)
  <2>1. /\ ses' = [ses EXCEPT ![s].status = "stopped"] /\ Collect(stopping[s].name, ses')
        /\ stopping' = [stopping EXCEPT ![s] = NotStopping] /\ UNCHANGED <<agents, disp>>
    BY <1>7 DEF StopEnds
  <2>2. origin' = origin /\ rows' \subseteq rows
    BY <2>1, Collected
  <2>3. /\ ses' \in [Sessions -> SessionRecords]
        /\ \A t \in Sessions : ses'[t].handle = ses[t].handle
    BY <1>2, <2>1, StatusIsWritten
  <2>4. stopping' \in [Sessions -> [on : BOOLEAN, name : Rows \cup {NoRow}]]
    BY <1>1, <2>1 DEF NotStopping
  <2> QED
    BY <2>1, <2>2, <2>3, <2>4 DEF Beside
<1>8. CASE Kill(s)
  <2>1. /\ ses' = [ses EXCEPT ![s].status = "stopped"]
        /\ UNCHANGED <<rows, origin, agents, disp, stopping>>
    BY <1>8 DEF Kill
  <2>2. /\ ses' \in [Sessions -> SessionRecords]
        /\ \A t \in Sessions : ses'[t].handle = ses[t].handle
    BY <1>2, <2>1, StatusIsWritten
  <2> QED
    BY <1>1, <2>1, <2>2 DEF Beside
<1>9. CASE Delete(s)
  <2> DEFINE g == [ses[s] EXCEPT !.saved = ses[s].status, !.status = "deleting"]
  <2>0. ses[s].status \in Statuses \cup {NoStatus} /\ "deleting" \in Statuses
    BY <1>1, <1>2
  <2>1. g \in SessionRecords /\ g.handle = ses[s].handle
    BY <1>1, <2>0, RecordWrites, Zenon
  <2>2. ses' = [ses EXCEPT ![s].saved = ses[s].status, ![s].status = "deleting"]
        /\ UNCHANGED <<rows, origin, disp, stopping>> /\ agents' \subseteq agents
    BY <1>9 DEF Delete
  <2>3. ses' = [ses EXCEPT ![s] = g]
    BY <2>2
  <2> HIDE DEF g
  <2> QED
    BY <1>1, <2>1, <2>2, <2>3, SessionWritten DEF Beside
<1>10. CASE Undelete(s)
  <2> DEFINE st == IF ses[s].saved = NoStatus THEN "pending" ELSE ses[s].saved
             g == [ses[s] EXCEPT !.status = st, !.saved = NoStatus]
  <2>0. st \in Statuses
    BY <1>1, <1>2
  <2>2. ses' = [ses EXCEPT ![s].status = st, ![s].saved = NoStatus]
        /\ UNCHANGED <<rows, origin, agents, disp, stopping>>
    BY <1>10 DEF Undelete
  <2> HIDE DEF st
  <2>1. g \in SessionRecords /\ g.handle = ses[s].handle
    BY <1>1, <2>0, RecordRestored, Zenon
  <2>3. ses' = [ses EXCEPT ![s] = g]
    BY <2>2
  <2> HIDE DEF g
  <2> QED
    BY <1>1, <2>1, <2>2, <2>3, SessionWritten DEF Beside
<1> QED
  BY <1>3, <1>4, <1>5, <1>6, <1>7, <1>8, <1>9, <1>10

---------------------------------------------------------------------------
(* The steps of a dispatch                                                 *)

\* What a dispatch is to show of its step.
Dispatched(d) ==
  \E x, y :
    /\ Moves(d, x, y)
    /\ SingleInv /\ d[1] \notin raced => KeepsHandle(d, x)
    /\ SingleInv /\ d[1] \notin raced \cup raced' => KeepsStep(d, x, y)

LEMMA HoldsWhatItNames ==
  ASSUME PodInv, NEW d \in Slots
  PROVE  /\ d[1] \in Sessions
         /\ ses \in [Sessions -> SessionRecords] /\ ses[d[1]] \in SessionRecords
         /\ disp \in [Slots -> DispatchRecords] /\ disp[d] \in DispatchRecords
         /\ ses = [ses EXCEPT ![d[1]] = ses[d[1]]]
         /\ Holds(d[1], ses[d[1]].handle)
         /\ Holds(d[1], disp[d].handle) /\ Holds(d[1], disp[d].pod)
         /\ rows \subseteq Rows /\ origin \in [Pods -> Rows \cup {NoRow}]
         /\ agents \subseteq Sessions \X pods
<1>1. ComputeTypeOK
  BY DEF PodInv
<1>2. d[1] \in Sessions
  BY SlotsOfSessions
<1>3. /\ ses \in [Sessions -> SessionRecords] /\ disp \in [Slots -> DispatchRecords]
      /\ rows \subseteq Rows /\ origin \in [Pods -> Rows \cup {NoRow}]
      /\ agents \subseteq Sessions \X pods
  BY <1>1 DEF ComputeTypeOK, SessionRecords, DispatchRecords
<1>4. ses = [ses EXCEPT ![d[1]] = ses[d[1]]]
  BY <1>2, <1>3
<1>5. Holds(d[1], disp[d].handle) /\ Holds(d[1], disp[d].pod)
  BY DEF Holds
<1>6. Holds(d[1], ses[d[1]].handle)
  BY DEF Holds
<1> QED
  BY <1>2, <1>3, <1>4, <1>5, <1>6

\* A step without a new pod and without a new agent.
LEMMA QuietMove ==
  ASSUME PodInv, NEW d \in Slots, NEW x \in SessionRecords, NEW y \in DispatchRecords,
         disp' = [disp EXCEPT ![d] = y], ses' = [ses EXCEPT ![d[1]] = x],
         UNCHANGED <<origin, agents, stopping>>, rows' \subseteq Rows,
         {x.handle, y.handle, y.pod} \subseteq
            {NoPod, ses[d[1]].handle, disp[d].handle, disp[d].pod},
         y.pc \in {"provisioning", "spawning"} => y.pod # NoPod
  PROVE  Moves(d, x, y)
<1>1. pods' = pods /\ SessionRecords' = SessionRecords /\ DispatchRecords' = DispatchRecords
  BY DEF pods, SessionRecords, DispatchRecords
<1>2. \A p \in {x.handle, y.handle, y.pod} \cap Pods : Holds(d[1], p)
  BY HoldsWhatItNames, Names
<1>3. /\ origin' \in [Pods -> Rows \cup {NoRow}] /\ agents' \subseteq Sessions \X pods'
      /\ agents' \ agents = {}
  BY <1>1, HoldsWhatItNames
<1> QED
  BY <1>1, <1>2, <1>3 DEF Moves

\* The same where the session keeps its handle, and the dispatch is not to write
\* one, or was already.
LEMMA StaysInStep ==
  ASSUME SingleInv, NEW d \in Slots, d[1] \notin raced, NEW x, NEW y,
         x.handle = ses[d[1]].handle, agents' = agents,
         y.pc \notin {"read", "provisioning"}, y.pc = "spawning" => y.pod = x.handle
  PROVE  KeepsStep(d, x, y)
BY SlotsOfSessions DEF SingleInv, InStep, KeepsStep, Unwritten

LEMMA AgentsKept ==
  ASSUME SingleInv, NEW d \in Slots, d[1] \notin raced, NEW x, x.handle = ses[d[1]].handle,
         agents' = agents
  PROVE  \A p \in Pods : <<d[1], p>> \in agents' => p = x.handle
BY SlotsOfSessions DEF SingleInv, InStep

LEMMA DispatchFallen ==
  ASSUME PodInv, NEW d \in Slots, Fallen(d),
         UNCHANGED <<rows, origin, agents, stopping>>
  PROVE  Dispatched(d)
<1> DEFINE s == d[1]
<1>1. /\ s \in Sessions /\ ses[s] \in SessionRecords /\ rows \subseteq Rows
      /\ ses = [ses EXCEPT ![s] = ses[s]]
  BY HoldsWhatItNames
<1>2. NotDispatching \in DispatchRecords
  BY DEF DispatchRecords, NotDispatching
<1>3. disp' = [disp EXCEPT ![d] = NotDispatching]
  BY DEF Fallen
<1>4. PICK x \in SessionRecords : ses' = [ses EXCEPT ![s] = x] /\ x.handle = ses[s].handle
  <2>1. CASE ses' = ses
    BY <1>1, <2>1
  <2>2. CASE ses' # ses
    <3> DEFINE g == [ses[s] EXCEPT !.status = "failed"]
    <3>1. ses' = [ses EXCEPT ![s].status = "failed"]
      BY <2>2 DEF Fallen
    <3>2. ses' = [ses EXCEPT ![s] = g]
      BY <3>1
    <3>3. "failed" \in Statuses
      BY DEF Statuses, Ends
    <3>4. g \in SessionRecords /\ g.handle = ses[s].handle
      BY <1>1, <3>3, RecordWrites, Zenon
    <3> HIDE DEF g
    <3> QED
      BY <3>2, <3>4
  <2> QED
    BY <2>1, <2>2
<1>5. /\ NotDispatching.handle = NoPod /\ NotDispatching.pod = NoPod
      /\ NotDispatching.pc = "idle"
  BY DEF NotDispatching
<1>6. Moves(d, x, NotDispatching)
  BY <1>1, <1>2, <1>3, <1>4, <1>5, QuietMove
<1>7. SingleInv /\ d[1] \notin raced => KeepsStep(d, x, NotDispatching)
  BY <1>4, <1>5, StaysInStep
<1>8. KeepsHandle(d, x)
  BY <1>4 DEF KeepsHandle
<1> QED
  BY <1>6, <1>7, <1>8 DEF Dispatched

\* The ways the record of a dispatch is written.
LEMMA PcWritten ==
  ASSUME NEW f \in DispatchRecords,
         NEW pc \in {"idle", "begun", "resolved", "read", "provisioning", "spawning"}
  PROVE  LET g == [f EXCEPT !.pc = pc] IN
         g \in DispatchRecords /\ g.pc = pc /\ g.handle = f.handle /\ g.pod = f.pod
BY DEF DispatchRecords

LEMMA DispatchBegun ==
  ASSUME PodInv, NEW d \in Slots, Begin(d)
  PROVE  Dispatched(d)
<1> DEFINE s == d[1]
           y == [disp[d] EXCEPT !.pc = "begun"]
<1>1. UNCHANGED <<rows, origin, agents, stopping>>
  BY DEF Begin
<1>2. CASE ~RowThere(s)
  BY <1>1, <1>2, DispatchFallen DEF Begin
<1>3. CASE RowThere(s)
  <2>1. ses' = ses /\ disp' = [disp EXCEPT ![d].pc = "begun"]
    BY <1>3 DEF Begin
  <2>2. disp' = [disp EXCEPT ![d] = y]
    BY <2>1
  <2>3. y \in DispatchRecords /\ y.pc = "begun" /\ y.handle = disp[d].handle /\ y.pod = disp[d].pod
    BY HoldsWhatItNames, PcWritten
  <2> HIDE DEF y
  <2>4. Moves(d, ses[s], y)
    BY <1>1, <2>1, <2>2, <2>3, HoldsWhatItNames, QuietMove
  <2>5. SingleInv /\ d[1] \notin raced => KeepsStep(d, ses[s], y)
    BY <1>1, <2>3, StaysInStep
  <2> QED
    BY <2>4, <2>5 DEF Dispatched, KeepsHandle
<1> QED
  BY <1>2, <1>3

LEMMA StageResolved ==
  ASSUME PodInv, NEW d \in Slots, ResolveStage(d)
  PROVE  Dispatched(d)
<1> DEFINE s == d[1]
           y == [disp[d] EXCEPT !.pc = "resolved"]
           g == [ses[s] EXCEPT !.name = Clone(s)]
           x == IF ses[s].ref THEN g ELSE ses[s]
<1>1. /\ UNCHANGED <<origin, agents, stopping>> /\ disp' = [disp EXCEPT ![d].pc = "resolved"]
      /\ IF ses[s].ref
            THEN rows' = rows \cup {Clone(s)} /\ ses' = [ses EXCEPT ![s].name = Clone(s)]
            ELSE UNCHANGED <<rows, ses>>
  BY DEF ResolveStage
<1>2. disp' = [disp EXCEPT ![d] = y]
  BY <1>1
<1>3. y \in DispatchRecords /\ y.pc = "resolved" /\ y.handle = disp[d].handle /\ y.pod = disp[d].pod
  BY HoldsWhatItNames, PcWritten
<1>4. ses' = [ses EXCEPT ![s].name = Clone(s)] => ses' = [ses EXCEPT ![s] = g]
  OBVIOUS
<1>5. g \in SessionRecords /\ g.handle = ses[s].handle
  <2> DEFINE f == ses[s]
  <2>1. f \in SessionRecords /\ Clone(s) \in Rows
    BY HoldsWhatItNames, Names
  <2> HIDE DEF f
  <2>2. LET h == [f EXCEPT !.name = Clone(s)] IN h \in SessionRecords /\ h.handle = f.handle
    BY <2>1 DEF SessionRecords
  <2> QED
    BY <2>2, Zenon DEF f
<1> HIDE DEF y, g
<1>6. ses' = [ses EXCEPT ![s] = x]
  <2>1. CASE ses[s].ref
    BY <1>1, <1>4, <2>1, Zenon
  <2>2. CASE ~ses[s].ref
    BY <1>1, <2>2, HoldsWhatItNames, Zenon
  <2> QED
    BY <2>1, <2>2
<1>7. x \in SessionRecords /\ x.handle = ses[s].handle
  BY <1>5, HoldsWhatItNames
<1>8. rows' \subseteq Rows
  BY <1>1, HoldsWhatItNames, Names
<1> HIDE DEF x
<1>9. Moves(d, x, y)
  BY <1>1, <1>2, <1>3, <1>6, <1>7, <1>8, QuietMove
<1>10. SingleInv /\ d[1] \notin raced => KeepsStep(d, x, y)
  BY <1>1, <1>3, <1>7, StaysInStep
<1> QED
  BY <1>7, <1>9, <1>10 DEF Dispatched, KeepsHandle

\* A dispatch that reads a config without a handle, beside none that did.
LEMMA SessionRead ==
  ASSUME PodInv, NEW d \in Slots, ReadSession(d), NoteRaces
  PROVE  Dispatched(d)
<1> DEFINE s == d[1]
           y == [disp[d] EXCEPT !.pc = "read", !.handle = ses[s].handle, !.saved = ses[s].saved]
<1>1. UNCHANGED <<rows, origin, agents, stopping>>
  BY DEF ReadSession
<1>2. CASE ~RowThere(s)
  BY <1>1, <1>2, DispatchFallen DEF ReadSession
<1>3. CASE RowThere(s)
  <2>1. /\ ses' = ses
        /\ disp' = [disp EXCEPT ![d].pc = "read", ![d].handle = ses[s].handle,
                                ![d].saved = ses[s].saved]
    BY <1>3 DEF ReadSession
  <2>2. disp' = [disp EXCEPT ![d] = y]
    BY <2>1
  <2>3. ses[s].handle \in pods \cup {NoPod} /\ ses[s].saved \in Statuses \cup {NoStatus}
    BY HoldsWhatItNames DEF SessionRecords
  <2>4. /\ y \in DispatchRecords /\ y.pc = "read" /\ y.handle = ses[s].handle
        /\ y.pod = disp[d].pod
    <3> DEFINE f == disp[d]
               h == ses[s].handle
               sv == ses[s].saved
    <3>1. f \in DispatchRecords /\ h \in pods \cup {NoPod} /\ sv \in Statuses \cup {NoStatus}
      BY <2>3, HoldsWhatItNames
    <3> HIDE DEF f, h, sv
    <3>2. LET g == [f EXCEPT !.pc = "read", !.handle = h, !.saved = sv] IN
          g \in DispatchRecords /\ g.pc = "read" /\ g.handle = h /\ g.pod = f.pod
      BY <3>1 DEF DispatchRecords
    <3> QED
      BY <3>2, Zenon DEF f, h, sv
  <2> HIDE DEF y
  <2>5. Moves(d, ses[s], y)
    BY <1>1, <2>1, <2>2, <2>4, HoldsWhatItNames, QuietMove
  <2>6. ASSUME d[1] \notin raced'
        PROVE  \A e \in Slots : e[1] = d[1] => ~Unwritten(disp[e])
    <3>1. ~Races(d)
      BY <2>6 DEF NoteRaces
    <3>2. disp[d].pc = "resolved" /\ disp'[d].pc = "read"
      BY <2>2, <2>4, HoldsWhatItNames DEF ReadSession
    <3> QED
      BY <3>1, <3>2 DEF Races
  <2>7. SingleInv /\ d[1] \notin raced \cup raced' => KeepsStep(d, ses[s], y)
    BY <1>1, <2>4, <2>6, AgentsKept DEF KeepsStep
  <2> QED
    BY <2>5, <2>7 DEF Dispatched, KeepsHandle
<1> QED
  BY <1>2, <1>3

\* The one step that names a pod nobody had.
LEMMA PodReached ==
  ASSUME PodInv, NEW d \in Slots, ReachPod(d)
  PROVE  Dispatched(d)
<1> DEFINE s == d[1]
           known == disp[d].handle
<1>1. /\ disp[d].pc = "read" /\ UNCHANGED <<rows, agents, stopping>>
      /\ \/ Fallen(d) /\ UNCHANGED origin
         \/ /\ known # NoPod /\ UNCHANGED <<ses, origin>>
            /\ disp' = [disp EXCEPT ![d].pc = "spawning", ![d].pod = known]
         \/ /\ known = NoPod /\ ses' = ses
            /\ pods # Pods
            /\ origin' = [origin EXCEPT ![FreshPod] = ses[s].name]
            /\ disp' = [disp EXCEPT ![d].pc = "provisioning", ![d].pod = FreshPod]
  BY DEF ReachPod, RowPod
<1>2. CASE Fallen(d) /\ UNCHANGED origin
  BY <1>1, <1>2, DispatchFallen
<1>3. CASE /\ known # NoPod /\ UNCHANGED <<ses, origin>>
           /\ disp' = [disp EXCEPT ![d].pc = "spawning", ![d].pod = known]
  <2> DEFINE y == [disp[d] EXCEPT !.pc = "spawning", !.pod = known]
  <2>1. disp' = [disp EXCEPT ![d] = y]
    BY <1>3
  <2>2. /\ y \in DispatchRecords /\ y.pc = "spawning" /\ y.handle = disp[d].handle
        /\ y.pod = disp[d].handle
    <3> DEFINE f == disp[d]
    <3>1. f \in DispatchRecords
      BY HoldsWhatItNames
    <3> HIDE DEF f
    <3>2. LET g == [f EXCEPT !.pc = "spawning", !.pod = f.handle] IN
          g \in DispatchRecords /\ g.pc = "spawning" /\ g.handle = f.handle /\ g.pod = f.handle
      BY <3>1 DEF DispatchRecords
    <3> QED
      BY <3>2, Zenon DEF f
  <2> HIDE DEF y
  <2>3. Moves(d, ses[s], y)
    BY <1>1, <1>3, <2>1, <2>2, HoldsWhatItNames, QuietMove
  <2>4. SingleInv /\ d[1] \notin raced => KeepsStep(d, ses[s], y)
    <3> SUFFICES ASSUME SingleInv, d[1] \notin raced PROVE KeepsStep(d, ses[s], y)
      OBVIOUS
    <3>1. disp[d].handle = ses[s].handle
      BY <1>1, SlotsOfSessions DEF SingleInv, InStep
    <3> QED
      BY <1>1, <2>2, <3>1, StaysInStep
  <2> QED
    BY <2>3, <2>4 DEF Dispatched, KeepsHandle
<1>4. ASSUME known = NoPod, ses' = ses, NEW p \in Pods \ pods,
             origin' = [origin EXCEPT ![p] = ses[s].name],
             disp' = [disp EXCEPT ![d].pc = "provisioning", ![d].pod = p]
      PROVE  Dispatched(d)
  <2> DEFINE y == [disp[d] EXCEPT !.pc = "provisioning", !.pod = p]
  <2>1. disp' = [disp EXCEPT ![d] = y]
    BY <1>4
  <2>2. ses[s].name \in Rows /\ ses[s].name # NoRow
    BY HoldsWhatItNames, Names DEF SessionRecords
  <2>3. pods' = pods \cup {p} /\ origin' \in [Pods -> Rows \cup {NoRow}]
    <3>1. origin \in [Pods -> Rows \cup {NoRow}]
      BY HoldsWhatItNames
    <3> QED
      BY <1>4, <2>2, <3>1 DEF pods
  <2>4. /\ y \in DispatchRecords' /\ y.pc = "provisioning" /\ y.handle = NoPod /\ y.pod = p
    <3> DEFINE f == disp[d]
    <3>1. f \in DispatchRecords /\ f.handle = NoPod
      BY <1>4, HoldsWhatItNames
    <3>2. f \in DispatchRecords' /\ p \in pods'
      BY <2>3, <3>1 DEF DispatchRecords
    <3> HIDE DEF f
    <3>3. LET g == [f EXCEPT !.pc = "provisioning", !.pod = p] IN
          g \in DispatchRecords' /\ g.pc = "provisioning" /\ g.handle = f.handle /\ g.pod = p
      BY <3>2 DEF DispatchRecords
    <3> QED
      BY <3>1, <3>3, Zenon DEF f
  <2>5. p # NoPod
    BY <1>4, Names
  <2> HIDE DEF y
  <2>6. Moves(d, ses[s], y)
    <3>1. ses[s] \in SessionRecords' /\ ses' = [ses EXCEPT ![s] = ses[s]]
      BY <1>4, <2>3, HoldsWhatItNames DEF SessionRecords
    <3>2. rows' \subseteq Rows /\ agents' \subseteq Sessions \X pods' /\ agents' \ agents = {}
      BY <1>1, <2>3, HoldsWhatItNames
    <3>3. \A q \in {ses[s].handle, y.handle, y.pod} \cap Pods : q \in pods => Holds(s, q)
      BY <1>4, <2>4, Names, HoldsWhatItNames
    <3> QED
      BY <1>1, <2>1, <2>3, <2>4, <2>5, <3>1, <3>2, <3>3 DEF Moves
  <2>7. SingleInv /\ d[1] \notin raced => KeepsStep(d, ses[s], y)
    <3> SUFFICES ASSUME SingleInv, d[1] \notin raced PROVE KeepsStep(d, ses[s], y)
      OBVIOUS
    <3>1. disp[d].handle = ses[s].handle
      BY <1>1, SlotsOfSessions DEF SingleInv, InStep
    <3>2. Unwritten(disp[d])
      BY <1>1, <1>4 DEF Unwritten
    <3> QED
      BY <1>1, <1>4, <2>4, <3>1, <3>2, AgentsKept DEF KeepsStep
  <2> QED
    BY <2>6, <2>7 DEF Dispatched, KeepsHandle
<1>5. pods # Pods => FreshPod \in Pods \ pods
  <2>1. pods \subseteq Pods
    BY DEF pods
  <2>2. pods # Pods => \E p \in Pods : p \notin pods
    BY <2>1
  <2> QED
    BY <2>2 DEF FreshPod
<1> QED
  BY <1>1, <1>2, <1>3, <1>4, <1>5

\* The whole config is written back as it was read, with the new handle.
LEMMA HandlePersisted ==
  ASSUME PodInv, NEW d \in Slots, PersistHandle(d)
  PROVE  Dispatched(d)
<1> DEFINE s == d[1]
           y == [disp[d] EXCEPT !.pc = "spawning"]
           x == [ses[s] EXCEPT !.handle = disp[d].pod, !.saved = disp[d].saved]
<1>1. /\ disp[d].pc = "provisioning" /\ disp' = [disp EXCEPT ![d].pc = "spawning"]
      /\ ses' = [ses EXCEPT ![s].handle = disp[d].pod, ![s].saved = disp[d].saved]
      /\ UNCHANGED <<rows, origin, agents, stopping>>
  BY DEF PersistHandle
<1>2. disp' = [disp EXCEPT ![d] = y] /\ ses' = [ses EXCEPT ![s] = x]
  BY <1>1
<1>3. y \in DispatchRecords /\ y.pc = "spawning" /\ y.handle = disp[d].handle /\ y.pod = disp[d].pod
  BY HoldsWhatItNames, PcWritten
<1>4. disp[d].pod # NoPod
  BY <1>1 DEF PodInv, Reached
<1>5. x \in SessionRecords /\ x.handle = disp[d].pod
  <2> DEFINE f == ses[s]
             h == disp[d].pod
             sv == disp[d].saved
  <2>1. f \in SessionRecords /\ h \in pods \cup {NoPod} /\ sv \in Statuses \cup {NoStatus}
    BY HoldsWhatItNames DEF DispatchRecords
  <2> HIDE DEF f, h, sv
  <2>2. LET g == [f EXCEPT !.handle = h, !.saved = sv] IN g \in SessionRecords /\ g.handle = h
    BY <2>1 DEF SessionRecords
  <2> QED
    BY <2>2, Zenon DEF f, h, sv
<1> HIDE DEF x, y
<1>6. Moves(d, x, y)
  BY <1>1, <1>2, <1>3, <1>4, <1>5, HoldsWhatItNames, QuietMove
<1>7. SingleInv /\ d[1] \notin raced => KeepsHandle(d, x) /\ KeepsStep(d, x, y)
  <2> SUFFICES ASSUME SingleInv, d[1] \notin raced PROVE KeepsHandle(d, x) /\ KeepsStep(d, x, y)
    OBVIOUS
  <2>1. s \in Sessions \ raced
    BY SlotsOfSessions
  <2>2. ses[s].handle = NoPod /\ disp[d].handle = NoPod
    BY <1>1, <2>1 DEF SingleInv, InStep
  <2>3. \A p \in Pods : <<s, p>> \notin agents
    BY <2>1, <2>2, Names DEF SingleInv, InStep
  <2>4. Unwritten(disp[d]) /\ ~Unwritten(y)
    BY <1>1, <1>3, <2>2 DEF Unwritten
  <2> QED
    BY <1>1, <1>3, <1>5, <2>2, <2>3, <2>4 DEF KeepsStep, KeepsHandle
<1> QED
  BY <1>6, <1>7 DEF Dispatched

\* The agent is in the pod of the dispatch.
LEMMA AgentLaunched ==
  ASSUME PodInv, NEW d \in Slots, Launched(d)
  PROVE  Dispatched(d)
<1> DEFINE s == d[1]
           a == <<s, disp[d].pod>>
<1>1. /\ disp[d].pc = "spawning" /\ agents' = agents \cup {a}
      /\ UNCHANGED <<rows, origin, stopping>>
      /\ \/ Fallen(d)
         \/ /\ ses' = [ses EXCEPT ![s].status = "running"]
            /\ disp' = [disp EXCEPT ![d] = NotDispatching]
  BY DEF Launched
<1>2. /\ disp' = [disp EXCEPT ![d] = NotDispatching]
      /\ \/ ses' = ses
         \/ ses' = [ses EXCEPT ![s].status = "running"]
         \/ ses' = [ses EXCEPT ![s].status = "failed"]
  BY <1>1 DEF Fallen
<1>3. PICK x \in SessionRecords : ses' = [ses EXCEPT ![s] = x] /\ x.handle = ses[s].handle
  <2>1. ses[s] \in SessionRecords /\ ses = [ses EXCEPT ![s] = ses[s]]
    BY HoldsWhatItNames
  <2>2. CASE ses' = ses
    BY <2>1, <2>2
  <2>3. ASSUME NEW st \in {"running", "failed"}, ses' = [ses EXCEPT ![s].status = st]
        PROVE  \E x \in SessionRecords : ses' = [ses EXCEPT ![s] = x] /\ x.handle = ses[s].handle
    <3> DEFINE g == [ses[s] EXCEPT !.status = st]
    <3>1. ses' = [ses EXCEPT ![s] = g]
      BY <2>3
    <3>2. st \in Statuses
      BY DEF Statuses, Ends
    <3>3. g \in SessionRecords /\ g.handle = ses[s].handle
      BY <2>1, <3>2, RecordWrites, Zenon
    <3> HIDE DEF g
    <3> QED
      BY <3>1, <3>3
  <2> QED
    BY <1>2, <2>2, <2>3
<1>4. NotDispatching \in DispatchRecords
  BY DEF DispatchRecords, NotDispatching
<1>5. /\ NotDispatching.handle = NoPod /\ NotDispatching.pod = NoPod
      /\ NotDispatching.pc = "idle"
  BY DEF NotDispatching
<1>6. pods' = pods /\ SessionRecords' = SessionRecords /\ DispatchRecords' = DispatchRecords
  BY <1>1 DEF pods, SessionRecords, DispatchRecords
<1>7. disp[d].pod \in pods /\ a \in Sessions \X pods /\ a[1] = s /\ a[2] = disp[d].pod
  <2>1. disp[d].pod \in pods \cup {NoPod} /\ s \in Sessions
    BY HoldsWhatItNames DEF DispatchRecords
  <2>2. disp[d].pod # NoPod
    BY <1>1 DEF PodInv, Reached
  <2> QED
    BY <2>1, <2>2
<1>8. agents' \subseteq Sessions \X pods'
      /\ \A b \in agents' \ agents : b[1] = s /\ Holds(s, b[2])
  <2>1. agents' = agents \cup {a}
    BY <1>1
  <2> HIDE DEF a
  <2> QED
    BY <1>6, <1>7, <2>1, HoldsWhatItNames
<1>9. Moves(d, x, NotDispatching)
  <2>1. \A p \in {x.handle, NotDispatching.handle, NotDispatching.pod} \cap Pods : Holds(s, p)
    BY <1>3, <1>5, HoldsWhatItNames, Names
  <2>2. rows' \subseteq Rows /\ origin' \in [Pods -> Rows \cup {NoRow}]
    BY <1>1, HoldsWhatItNames
  <2> HIDE DEF a
  <2> QED
    BY <1>1, <1>2, <1>3, <1>4, <1>5, <1>6, <1>8, <2>1, <2>2 DEF Moves
<1>10. SingleInv /\ d[1] \notin raced => KeepsStep(d, x, NotDispatching)
  <2> SUFFICES ASSUME SingleInv, d[1] \notin raced,
                      NEW p \in Pods, <<s, p>> \in agents'
               PROVE  p = ses[s].handle
    BY <1>3, <1>5 DEF KeepsStep, Unwritten
  <2>1. s \in Sessions \ raced
    BY SlotsOfSessions
  <2>2. disp[d].pod = ses[s].handle
    BY <1>1, <2>1 DEF SingleInv, InStep
  <2>3. CASE <<s, p>> \in agents
    BY <2>1, <2>3 DEF SingleInv, InStep
  <2>4. CASE <<s, p>> = a
    BY <2>2, <2>4
  <2> QED
    BY <1>1, <2>3, <2>4
<1>11. KeepsHandle(d, x)
  BY <1>3 DEF KeepsHandle
<1> QED
  BY <1>9, <1>10, <1>11 DEF Dispatched

LEMMA SessionResumed ==
  ASSUME PodInv, NEW d \in Slots, Resume(d)
  PROVE  Dispatched(d)
<1> DEFINE s == d[1]
           pc == IF RowThere(s) THEN "begun" ELSE "idle"
           y == [disp[d] EXCEPT !.pc = pc]
           x == [ses[s] EXCEPT !.status = "ready"]
<1>1. /\ UNCHANGED <<rows, origin, agents, stopping>>
      /\ disp' = [disp EXCEPT ![d].pc = pc] /\ ses' = [ses EXCEPT ![s].status = "ready"]
  BY DEF Resume
<1>2. pc \in {"begun", "idle"}
  OBVIOUS
<1> HIDE DEF pc
<1>3. disp' = [disp EXCEPT ![d] = y] /\ ses' = [ses EXCEPT ![s] = x]
  BY <1>1
<1>4. y \in DispatchRecords /\ y.pc = pc /\ y.handle = disp[d].handle /\ y.pod = disp[d].pod
  <2> DEFINE f == disp[d]
  <2>1. f \in DispatchRecords
    BY HoldsWhatItNames
  <2> HIDE DEF f
  <2>2. LET g == [f EXCEPT !.pc = pc] IN
        g \in DispatchRecords /\ g.pc = pc /\ g.handle = f.handle /\ g.pod = f.pod
    BY <1>2, <2>1 DEF DispatchRecords
  <2> QED
    BY <2>2, Zenon DEF f
<1>5. x \in SessionRecords /\ x.handle = ses[s].handle
  <2>1. "ready" \in Statuses /\ ses[s] \in SessionRecords
    BY HoldsWhatItNames DEF Statuses
  <2> QED
    BY <2>1, RecordWrites, Zenon
<1> HIDE DEF x, y
<1>6. Moves(d, x, y)
  BY <1>1, <1>2, <1>3, <1>4, <1>5, HoldsWhatItNames, QuietMove
<1>7. SingleInv /\ d[1] \notin raced => KeepsStep(d, x, y)
  BY <1>1, <1>2, <1>4, <1>5, StaysInStep
<1> QED
  BY <1>5, <1>6, <1>7 DEF Dispatched, KeepsHandle

---------------------------------------------------------------------------
(* The invariants hold                                                     *)

LEMMA ComputeBegins == ComputeInit => PodInv /\ InStep
<1> SUFFICES ASSUME ComputeInit PROVE PodInv /\ InStep
  OBVIOUS
<1>1. pods = {} /\ origin \in [Pods -> Rows \cup {NoRow}]
  BY DEF ComputeInit, pods
<1>2. ses \in [Sessions -> [status : {"ready"}, name : {Shared}, ref : BOOLEAN,
                            handle : {NoPod}, saved : {NoStatus}]]
  BY DEF ComputeInit
<1>3. ses \in [Sessions -> SessionRecords] /\ \A s \in Sessions : ses[s].handle = NoPod
  BY <1>2, Names DEF SessionRecords, Statuses
<1>4. /\ NotDispatching \in DispatchRecords
      /\ NotDispatching.pc = "idle" /\ NotDispatching.handle = NoPod
      /\ NotDispatching.pod = NoPod
  BY DEF NotDispatching, DispatchRecords
<1>5. disp = [d \in Slots |-> NotDispatching]
  BY DEF ComputeInit
<1>6. disp \in [Slots -> DispatchRecords] /\ \A d \in Slots : disp[d] = NotDispatching
  BY <1>4, <1>5
<1>7. ComputeTypeOK
  <2>1. rows \subseteq Rows /\ agents \subseteq Sessions \X pods
    BY Names DEF ComputeInit
  <2>2. stopping \in [Sessions -> [on : BOOLEAN, name : Rows \cup {NoRow}]]
    BY DEF ComputeInit, NotStopping
  <2>3. raced \subseteq Sessions
    BY DEF ComputeInit
  <2> QED
    BY <1>1, <1>3, <1>6, <2>1, <2>2, <2>3 DEF ComputeTypeOK, SessionRecords, DispatchRecords
<1>8. \A s \in Sessions, p \in Pods : ~Holds(s, p)
  <2> SUFFICES ASSUME NEW s \in Sessions, NEW p \in Pods, Holds(s, p) PROVE FALSE
    OBVIOUS
  <2>1. p # NoPod /\ ses[s].handle = NoPod /\ agents = {}
    BY <1>3, Names DEF ComputeInit
  <2> QED
    BY <1>4, <1>6, <2>1 DEF Holds
<1>9. PodInv
  BY <1>4, <1>6, <1>7, <1>8 DEF PodInv, OneHolder, Reached
<1>10. InStep
  <2>1. agents = {}
    BY DEF ComputeInit
  <2> QED
    BY <1>4, <1>6, <2>1 DEF InStep, Unwritten
<1> QED
  BY <1>9, <1>10

\* Every step is a dispatch's, or beside the dispatches.
LEMMA StepsOfCompute ==
  ASSUME PodInv, [ComputeNext]_computeVars
  PROVE  Beside \/ \E d \in Slots : Dispatched(d)
<1>1. ComputeTypeOK
  BY DEF PodInv
<1>2. CASE UNCHANGED computeVars
  BY <1>1, <1>2 DEF computeVars, Beside, ComputeTypeOK, SessionRecords
<1>3. ASSUME NEW s \in Sessions,
             \/ StageDone(s) \/ Complete(s) \/ Fail(s) \/ StopBegins(s) \/ StopEnds(s)
             \/ Kill(s) \/ Delete(s) \/ Undelete(s)
      PROVE  Beside
  BY <1>1, <1>3, SessionStep
<1>4. ASSUME NEW d \in Slots, LaunchFails(d)
      PROVE  Dispatched(d)
  BY <1>4, DispatchFallen DEF LaunchFails
<1> QED
  BY <1>2, <1>3, <1>4, DispatchBegun, StageResolved, SessionRead, PodReached, HandlePersisted,
     AgentLaunched, SessionResumed DEF ComputeNext

\* Sessions that raced stay so.
LEMMA RacedGrows ==
  ASSUME ComputeTypeOK, [ComputeNext]_computeVars
  PROVE  raced \subseteq raced' /\ raced' \subseteq Sessions
<1>1. CASE NoteRaces
  BY <1>1, SlotsOfSessions DEF NoteRaces, ComputeTypeOK
<1>2. CASE UNCHANGED computeVars
  BY <1>2 DEF computeVars, ComputeTypeOK
<1> QED
  BY <1>1, <1>2 DEF ComputeNext

LEMMA PodInvHolds ==
  ASSUME PodInv, [ComputeNext]_computeVars
  PROVE  /\ PodInv'
         /\ SingleInv => SingleInv'
<1>0. raced \subseteq raced' /\ raced' \subseteq Sessions
  BY RacedGrows DEF PodInv
<1>1. CASE Beside
  BY <1>0, <1>1, NoDispatchMoves DEF Beside, PodInv
<1>2. ASSUME NEW d \in Slots, Dispatched(d)
      PROVE  PodInv' /\ (SingleInv => SingleInv')
  <2>1. PICK x, y : /\ Moves(d, x, y)
                    /\ SingleInv /\ d[1] \notin raced => KeepsHandle(d, x)
                    /\ SingleInv /\ d[1] \notin raced \cup raced' => KeepsStep(d, x, y)
    BY <1>2 DEF Dispatched
  <2>2. PodInv'
    BY <1>0, <2>1, DispatchMoves
  <2>3. SingleInv => InStep'
    BY <1>0, <2>1, DispatchKeepsStep
  <2> QED
    BY <2>2, <2>3 DEF SingleInv
<1> QED
  BY <1>1, <1>2, StepsOfCompute

LEMMA PodsAreSafe == ComputeSpec => []PodInv
<1>1. ComputeInit => PodInv
  BY ComputeBegins
<1>2. PodInv /\ [ComputeNext]_computeVars => PodInv'
  BY PodInvHolds
<1> QED
  BY <1>1, <1>2, PTL DEF ComputeSpec

---------------------------------------------------------------------------
(* Rows                                                                    *)

\* No step but a collection takes a row away.
LEMMA RowsAreCollected ==
  ASSUME ComputeTypeOK, ComputeNext, NEW r \in rows \ rows'
  PROVE  Referencing(r, ses') = {}
<1>1. ASSUME NEW s \in Sessions, Complete(s)
      PROVE  Referencing(r, ses') = {}
  BY <1>1, Collected DEF Complete
<1>2. ASSUME NEW s \in Sessions, StopEnds(s)
      PROVE  Referencing(r, ses') = {}
  BY <1>2, Collected DEF StopEnds
<1>3. ASSUME NEW s \in Sessions,
             \/ StageDone(s) \/ Fail(s) \/ StopBegins(s)
             \/ Kill(s) \/ Delete(s) \/ Undelete(s)
      PROVE  rows' = rows
  BY <1>3 DEF StageDone, Fail, StopBegins, Kill, Delete, Undelete
<1>4. ASSUME NEW d \in Slots,
             \/ Begin(d) \/ ResolveStage(d) \/ ReadSession(d) \/ ReachPod(d)
             \/ PersistHandle(d) \/ LaunchFails(d) \/ Launched(d) \/ Resume(d)
      PROVE  rows \subseteq rows'
  BY <1>4 DEF Begin, ResolveStage, ReadSession, ReachPod, PersistHandle, LaunchFails, Launched,
              Resume
<1> QED
  BY <1>1, <1>2, <1>3, <1>4 DEF ComputeNext

---------------------------------------------------------------------------
(* The theorems                                                            *)

\* Every step leaves rows, sessions, pods, agents and dispatches within their
\* types: handles and agents only ever name pods that were provisioned.
THEOREM ComputeTypesHold == ComputeSpec => []ComputeTypeOK
<1>1. PodInv => ComputeTypeOK
  BY DEF PodInv
<1> QED
  BY <1>1, PodsAreSafe, PTL

\* However many dispatches of a session run at once, and although pods are
\* named by the clock, no pod ever has two sessions: neither by the handles in
\* their configs nor by the agents that live in it.
THEOREM PodsAreOwn == ComputeSpec => []OwnPod
<1>1. PodInv => OwnPod
  <2> SUFFICES ASSUME PodInv, NEW s \in Sessions, NEW t \in Sessions, s # t
               PROVE  /\ ses[s].handle = NoPod \/ ses[s].handle # ses[t].handle
                      /\ \A p \in pods : ~({<<s, p>>, <<t, p>>} \subseteq agents)
    BY DEF OwnPod
  <2>1. ses \in [Sessions -> SessionRecords] /\ pods \subseteq Pods
    BY DEF PodInv, ComputeTypeOK, SessionRecords, pods
  <2>2. ses[s].handle \in pods \cup {NoPod}
    BY <2>1 DEF SessionRecords
  <2>3. \A p \in Pods : ~(Holds(s, p) /\ Holds(t, p))
    BY DEF PodInv, OneHolder
  <2>4. ses[s].handle = NoPod \/ ses[s].handle # ses[t].handle
    BY <2>1, <2>2, <2>3 DEF Holds
  <2>5. \A p \in pods : ~({<<s, p>>, <<t, p>>} \subseteq agents)
    BY <2>1, <2>3 DEF Holds
  <2> QED
    BY <2>4, <2>5
<1> QED
  BY <1>1, PodsAreSafe, PTL

\* What holds until the dispatches of a session race for its first pod.
LEMMA SinglesAreSafe == ComputeSpec => []SingleInv
<1>1. ComputeInit => SingleInv
  BY ComputeBegins DEF SingleInv
<1>2. SingleInv /\ [ComputeNext]_computeVars => SingleInv'
  BY PodInvHolds DEF SingleInv
<1> QED
  BY <1>1, <1>2, PTL DEF ComputeSpec

\* However many dispatches of a session overlap, and whatever stops, resumes and
\* restores it: its agents live in the pod its config names, where probes and
\* messages go, unless one dispatch read the config while another, which had
\* found no pod in it, was still to write its own.
THEOREM AgentsRunWhereItSays == ComputeSpec => []RunsWhereItSays
<1>1. SingleInv => RunsWhereItSays
  BY DEF SingleInv, InStep, RunsWhereItSays, pods
<1> QED
  BY <1>1, SinglesAreSafe, PTL

\* A session that has a pod of its compute keeps it from stage to stage and
\* from dispatch to dispatch: up to such a race its handle is written once.
THEOREM InstancesAreKept == ComputeSpec => OneInstance
<1>1. SingleInv /\ [ComputeNext]_computeVars
        => \A s \in Sessions \ raced :
             ses[s].handle # NoPod => ses'[s].handle = ses[s].handle
  <2> SUFFICES ASSUME SingleInv, [ComputeNext]_computeVars,
                      NEW s \in Sessions \ raced, ses[s].handle # NoPod
               PROVE  ses'[s].handle = ses[s].handle
    OBVIOUS
  <2>1. CASE Beside
    BY <2>1 DEF Beside
  <2>2. ASSUME NEW d \in Slots, Dispatched(d)
        PROVE  ses'[s].handle = ses[s].handle
    <3>1. PICK x, y : Moves(d, x, y) /\ (d[1] \notin raced => KeepsHandle(d, x))
      BY <2>2 DEF Dispatched
    <3>2. ses \in [Sessions -> SessionRecords]
      BY DEF SingleInv, PodInv, ComputeTypeOK, SessionRecords
    <3>3. CASE s = d[1]
      BY <3>1, <3>2, <3>3 DEF Moves, KeepsHandle
    <3>4. CASE s # d[1]
      BY <3>1, <3>2, <3>4 DEF Moves
    <3> QED
      BY <3>3, <3>4
  <2> QED
    BY <2>1, <2>2, StepsOfCompute DEF SingleInv
<1>2. SingleInv /\ [ComputeNext]_computeVars
        => [\A s \in Sessions \ raced :
              (ses[s].handle # NoPod /\ origin[ses[s].handle] = ses'[s].name)
                => ses'[s].handle = ses[s].handle]_computeVars
  BY <1>1
<1> QED
  BY <1>2, SinglesAreSafe, PTL DEF ComputeSpec, OneInstance

\* For every size of a page: no collection takes the row of a session that the
\* page shows and that is neither ended nor being deleted, whoever stopped or
\* completed beside it and whatever they had read before.
THEOREM RowsAreNotPulled == ComputeSpec => ListedKeepRows
<1>1. ASSUME ComputeTypeOK, ComputeNext, NEW s \in Sessions, s \in Listed(ses'), Pulled(s)
      PROVE  FALSE
  <2>1. Referencing(ses[s].name, ses') = {}
    BY <1>1, RowsAreCollected DEF Pulled
  <2> QED
    BY <1>1, <2>1 DEF Referencing, Pulled
<1>2. ComputeTypeOK /\ [ComputeNext]_computeVars
        => [\A s \in Sessions : s \in Listed(ses') => ~Pulled(s)]_computeVars
  BY <1>1
<1> QED
  BY <1>2, ComputeTypesHold, PTL DEF ComputeSpec, ListedKeepRows

=============================================================================
