-------------------------- MODULE ComputeLifecycle --------------------------
(***************************************************************************)
(* Remote computes of template lifecycle (k8s and its kin): the rows that  *)
(* describe them, the pods behind them, and the sessions that pin both.    *)
(* A dispatch clones the template its stage names, provisions a pod once,  *)
(* keeps the pod's handle in session.config and finds it there again; a    *)
(* stop and a completion collect the row when nobody references it.        *)
(*                                                                         *)
(* A run of awaits on the local database is one step; a step ends where    *)
(* the code waits for something slower (git, the cluster, arkd).  The       *)
(* flow, its stages and the dispatcher's callers are SessionLifecycle's:   *)
(* here a stage ends and the next one starts, in the order they like.      *)
(***************************************************************************)
EXTENDS Naturals, FiniteSets, SequencesExt

CONSTANTS
  Newest,      \* the sessions, the newest first, as listAcrossTenants has them
  Staged,      \* those whose flow has stages that name a compute template
  Limit,       \* the rows one listing returns (100)
  Pods,        \* the pod names there will ever be
  Slots,       \* <<session, number>>: the dispatches that may be under way at once
  Deletable,   \* bound: the sessions that users delete
  DeletedWhen  \* bound: the statuses they delete them in

Sessions == ToSet(Newest)

VARIABLES
  rows,      \* the names in the compute table, templates left out
  ses,       \* [Sessions -> their status, compute_name and config]
  origin,    \* [Pods -> the row each pod of the cluster was provisioned from]
  agents,    \* <<session, pod>>: the agent processes that are alive
  disp,      \* the dispatches under way
  stopping,  \* the stop under way of each session, with what it has read
  raced      \* history: the sessions two of whose dispatches have raced

computeVars == <<rows, ses, origin, agents, disp, stopping, raced>>

NoRow == "none"
NoPod == "none"
NoStatus == "none"
Shared == "shared"              \* a concrete row several sessions name
Clone(s) == s                   \* `<template>-<sessionId>`
Rows == {Shared} \cup {Clone(s) : s \in Sessions}

Ends == {"completed", "failed", "stopped"}
Statuses == Ends \cup {"pending", "ready", "running", "deleting"}

ASSUME ComputeAssumption ==
  /\ Newest \in Seq(Sessions) /\ IsInjective(Newest)
  /\ Staged \cup Deletable \subseteq Sessions
  /\ NoPod \notin Pods /\ {NoRow, Shared} \cap Sessions = {}
  /\ Limit \in Nat /\ Slots \subseteq Sessions \X Nat
  /\ DeletedWhen \subseteq Statuses

NotDispatching == [pc |-> "idle", handle |-> NoPod, saved |-> NoStatus, pod |-> NoPod]
NotStopping == [on |-> FALSE, name |-> NoRow]

pods == {p \in Pods : origin[p] # NoRow}

\* Whether the stage a session is at names the template.
Refs(s) == IF s \in Staged THEN BOOLEAN ELSE {FALSE}

\* "saved" is config._pre_delete_status, "handle" config.compute_handle.  The
\* sessions were started on the shared row.
ComputeInit ==
  /\ rows = {Shared}
  /\ ses \in {f \in [Sessions -> [status : {"ready"}, name : {Shared}, ref : BOOLEAN,
                                   handle : {NoPod}, saved : {NoStatus}]] :
               \A s \in Sessions : f[s].ref \in Refs(s)}
  /\ origin = [p \in Pods |-> NoRow] /\ agents = {}
  /\ disp = [d \in Slots |-> NotDispatching]
  /\ stopping = [s \in Sessions |-> NotStopping]
  /\ raced = {}

-----------------------------------------------------------------------------
(* Rows and their collection.                                              *)

\* attachExistingHandle: the pod a row knows of.  It would be its config's
\* pod_name, which nothing writes.
RowPod(n) == NoPod

\* listAcrossTenants: one page of the sessions that are not being deleted.
Age(s) == CHOOSE i \in DOMAIN Newest : Newest[i] = s

Listed(ss) ==
  LET there == {s \in Sessions : ss[s].status # "deleting"}
  IN {s \in there : Cardinality({t \in there : Age(t) < Age(s)}) < Limit}

\* mutant: only running sessions count
ReferencingRunning(n, ss) ==
  {s \in Listed(ss) : ss[s].name = n /\ ss[s].status = "running"}

Referencing(n, ss) == {s \in Listed(ss) : ss[s].name = n /\ ss[s].status \notin Ends}

\* garbageCollectComputeIfTemplate, on the sessions as they are then: the pod
\* the row knows of is destroyed, and the row deleted.
Collect(n, ss) ==
  IF n \in rows /\ Referencing(n, ss) = {}
    THEN /\ rows' = rows \ {n}
         /\ origin' = [p \in Pods |-> IF p = RowPod(n) THEN NoRow ELSE origin[p]]
    ELSE UNCHANGED <<rows, origin>>

-----------------------------------------------------------------------------
(* A dispatch.                                                             *)

RowThere(s) == ses[s].name \in rows

\* The dispatch is over and did not launch: its caller says so to the user,
\* or markDispatchFailed writes it on the row.
Fallen(d) ==
  LET s == d[1] IN
  /\ disp' = [disp EXCEPT ![d] = NotDispatching]
  /\ \/ UNCHANGED ses
     \/ /\ ses[s].status \notin {"failed", "completed"}
        /\ ses' = [ses EXCEPT ![s].status = "failed"]

\* validateSessionForDispatch: a session whose row is gone is refused.
Begin(d) ==
  LET s == d[1] IN
  /\ disp[d] = NotDispatching /\ ses[s].status = "ready"
  /\ IF RowThere(s)
       THEN disp' = [disp EXCEPT ![d].pc = "begun"] /\ UNCHANGED ses
       ELSE Fallen(d)
  /\ UNCHANGED <<rows, origin, agents, stopping>>

\* resolveForStage, after the repository was cloned: the template's clone for
\* this session, made on demand, is the session's compute from here on.
ResolveStage(d) ==
  LET s == d[1] IN
  /\ disp[d].pc = "begun"
  /\ disp' = [disp EXCEPT ![d].pc = "resolved"]
  /\ IF ses[s].ref
       THEN /\ rows' = rows \cup {Clone(s)}
            /\ ses' = [ses EXCEPT ![s].name = Clone(s)]
       ELSE UNCHANGED <<rows, ses>>
  /\ UNCHANGED <<origin, agents, stopping>>

\* The executor reads the session; everything below works on this copy.
ReadSession(d) ==
  LET s == d[1] IN
  /\ disp[d].pc = "resolved"
  /\ IF RowThere(s)
       THEN /\ disp' = [disp EXCEPT ![d].pc = "read", ![d].handle = ses[s].handle,
                                    ![d].saved = ses[s].saved]
            /\ UNCHANGED ses
       ELSE Fallen(d)
  /\ UNCHANGED <<rows, origin, agents, stopping>>

\* resolveTargetAndHandle, after the worktree was set up: the handle the
\* session has, else one the row knows of, else a new pod.  Its name is the
\* time in milliseconds, so it may be taken (Pods differ by nothing but their
\* names: the first that is free stands for any); the cluster then refuses it.
FreshPod == CHOOSE p \in Pods : p \notin pods

ReachPod(d) ==
  LET s == d[1]
      known == IF disp[d].handle # NoPod THEN disp[d].handle ELSE RowPod(ses[s].name)
  IN
  /\ disp[d].pc = "read"
  /\ \/ /\ ~RowThere(s) /\ Fallen(d) /\ UNCHANGED origin
     \/ /\ RowThere(s) /\ known # NoPod
        /\ disp' = [disp EXCEPT ![d].pc = "spawning", ![d].pod = known]
        /\ UNCHANGED <<ses, origin>>
     \/ /\ RowThere(s) /\ known = NoPod
        /\ \/ pods # {} /\ Fallen(d) /\ UNCHANGED origin
           \/ /\ pods # Pods
              /\ origin' = [origin EXCEPT ![FreshPod] = ses[s].name]
              /\ disp' = [disp EXCEPT ![d].pc = "provisioning", ![d].pod = FreshPod]
              /\ UNCHANGED ses
  /\ UNCHANGED <<rows, agents, stopping>>

\* mutant: the handle of a new pod is not persisted
PersistHandleNot(d) ==
  /\ disp[d].pc = "provisioning"
  /\ disp' = [disp EXCEPT ![d].pc = "spawning"]
  /\ UNCHANGED <<rows, ses, origin, agents, stopping>>

\* persistHandleState writes the whole config, as it was read, with the handle.
PersistHandle(d) ==
  LET s == d[1] IN
  /\ disp[d].pc = "provisioning"
  /\ disp' = [disp EXCEPT ![d].pc = "spawning"]
  /\ ses' = [ses EXCEPT ![s].handle = disp[d].pod, ![s].saved = disp[d].saved]
  /\ UNCHANGED <<rows, origin, agents, stopping>>

\* The pod ends early, or its port forward fails (the pod is there by then);
\* the lifecycle steps or the spawn fail.
LaunchFails(d) ==
  /\ disp[d].pc \in {"provisioning", "spawning"}
  /\ Fallen(d)
  /\ UNCHANGED <<rows, origin, agents, stopping>>

\* The agent runs, and finalizeLaunch writes so unless the session completed
\* in between (it kills a tmux pane then, which this agent does not have).
Launched(d) ==
  LET s == d[1] IN
  /\ disp[d].pc = "spawning"
  /\ agents' = agents \cup {<<s, disp[d].pod>>}
  /\ IF ses[s].status = "completed"
       THEN Fallen(d)
       ELSE /\ ses' = [ses EXCEPT ![s].status = "running"]
            /\ disp' = [disp EXCEPT ![d] = NotDispatching]
  /\ UNCHANGED <<rows, origin, stopping>>

-----------------------------------------------------------------------------
(* The session goes on, and ends.                                          *)

\* The agent that ran in the session's pod is done with its stage, and the
\* next one may or may not name the template.
Ran(s) == ses[s].status = "running" /\ agents' = agents \ {<<s, ses[s].handle>>}

StageDone(s) ==
  /\ Ran(s)
  /\ \E ref \in Refs(s) :
        ses' = [ses EXCEPT ![s].status = "ready", ![s].ref = ref]
  /\ UNCHANGED <<rows, origin, disp, stopping>>

Complete(s) ==
  /\ Ran(s)
  /\ ses' = [ses EXCEPT ![s].status = "completed"]
  /\ Collect(ses[s].name, ses')
  /\ UNCHANGED <<disp, stopping>>

Fail(s) ==
  /\ Ran(s)
  /\ ses' = [ses EXCEPT ![s].status = "failed"]
  /\ UNCHANGED <<rows, origin, disp, stopping>>

\* stop reads the session and kills its agent through the pod that the row
\* knows of; with no such pod killAgentViaTarget returns early, and true.  A
\* stopped session has no session_id, which "Already stopped" looks at.
StopBegins(s) ==
  /\ ~stopping[s].on /\ ses[s].status # "stopped"
  /\ stopping' = [stopping EXCEPT ![s] = [on |-> TRUE, name |-> ses[s].name]]
  /\ agents' = agents \ {<<s, RowPod(ses[s].name)>>}
  /\ UNCHANGED <<rows, ses, origin, disp>>

\* After the shutdown and the worktree: the row is written, and the compute
\* that was read at the beginning is collected.
StopEnds(s) ==
  /\ stopping[s].on
  /\ ses' = [ses EXCEPT ![s].status = "stopped"]
  /\ Collect(stopping[s].name, ses')
  /\ stopping' = [stopping EXCEPT ![s] = NotStopping]
  /\ UNCHANGED <<agents, disp>>

\* The executor's terminate does nothing for these agents.
Kill(s) ==
  /\ ses[s].status \notin Ends
  /\ ses' = [ses EXCEPT ![s].status = "stopped"]
  /\ UNCHANGED <<rows, origin, agents, disp, stopping>>

Delete(s) ==
  /\ s \in Deletable /\ ses[s].status \in DeletedWhen
  /\ agents' = agents \ {<<s, RowPod(ses[s].name)>>}
  /\ ses' = [ses EXCEPT ![s].saved = ses[s].status, ![s].status = "deleting"]
  /\ UNCHANGED <<rows, origin, disp, stopping>>

Undelete(s) ==
  /\ ses[s].status = "deleting"
  /\ ses' = [ses EXCEPT ![s].status = IF ses[s].saved = NoStatus THEN "pending" ELSE ses[s].saved,
                        ![s].saved = NoStatus]
  /\ UNCHANGED <<rows, origin, agents, disp, stopping>>

\* resume makes the session ready and dispatches it; a refusal is only told to
\* the caller.
Resume(d) ==
  LET s == d[1] IN
  /\ ses[s].status # "running" /\ disp[d] = NotDispatching
  /\ ses' = [ses EXCEPT ![s].status = "ready"]
  /\ disp' = [disp EXCEPT ![d].pc = IF RowThere(s) THEN "begun" ELSE "idle"]
  /\ UNCHANGED <<rows, origin, agents, stopping>>

\* A dispatch that has read a config without a handle, and is still to write
\* the one it gets.
Unwritten(f) == f.pc \in {"read", "provisioning"} /\ f.handle = NoPod

\* History: a dispatch reads the config of its session beside one of those.
Races(d) ==
  /\ disp[d].pc = "resolved" /\ disp'[d].pc = "read"
  /\ \E e \in Slots : e[1] = d[1] /\ Unwritten(disp[e])

NoteRaces == raced' = raced \cup {d[1] : d \in {e \in Slots : Races(e)}}

ComputeNext ==
  /\ \/ \E d \in Slots :
           \/ Begin(d) \/ ResolveStage(d) \/ ReadSession(d) \/ ReachPod(d)
           \/ PersistHandle(d) \/ LaunchFails(d) \/ Launched(d) \/ Resume(d)
     \/ \E s \in Sessions :
           \/ StageDone(s) \/ Complete(s) \/ Fail(s) \/ StopBegins(s) \/ StopEnds(s)
           \/ Kill(s) \/ Delete(s) \/ Undelete(s)
  /\ NoteRaces

ComputeSpec == ComputeInit /\ [][ComputeNext]_computeVars

-----------------------------------------------------------------------------
\* The types.
ComputeTypeOK ==
  /\ rows \subseteq Rows /\ origin \in [Pods -> Rows \cup {NoRow}]
  /\ agents \subseteq Sessions \X pods
  /\ ses \in [Sessions -> [status : Statuses, name : Rows, ref : BOOLEAN,
                           handle : pods \cup {NoPod}, saved : Statuses \cup {NoStatus}]]
  /\ disp \in [Slots -> [pc : {"idle", "begun", "resolved", "read", "provisioning", "spawning"},
                         handle : pods \cup {NoPod}, pod : pods \cup {NoPod},
                         saved : Statuses \cup {NoStatus}]]
  /\ stopping \in [Sessions -> [on : BOOLEAN, name : Rows \cup {NoRow}]]
  /\ raced \subseteq Sessions

\* A step takes the row of a session that stays, is not over and is not being
\* deleted.
Pulled(s) ==
  /\ ses[s].name \in rows /\ ses'[s].name = ses[s].name
  /\ ses'[s].status \notin Ends \cup {"deleting"}
  /\ ses[s].name \notin rows'

\* "We deliberately count *all* non-terminal sessions, not just running ones":
\* whoever stops or completes beside it, and with whatever it has read before,
\* a session loses its row to no collection while fewer sessions than a page
\* holds are newer than it (garbageCollectComputeIfTemplate).
ListedKeepRows == [][\A s \in Sessions : s \in Listed(ses') => ~Pulled(s)]_computeVars

\* Pods are named by the clock, yet no two sessions ever work in one pod: not
\* by their handles and not by their agents.
OwnPod ==
  \A s, t \in Sessions : s # t =>
    /\ ses[s].handle = NoPod \/ ses[s].handle # ses[t].handle
    /\ \A p \in pods : ~({<<s, p>>, <<t, p>>} \subseteq agents)

\* A running session has its agents in the pod its config names, where probes
\* and messages go, whatever stops, deletes, resumes and second dispatches came
\* before: all but one thing.  A dispatch that read the config while another,
\* which had found no pod in it, was yet to write its own splits the session.
RunsWhereItSays ==
  \A s \in Sessions \ raced : ses[s].status = "running" =>
    {p \in pods : <<s, p>> \in agents} \subseteq {ses[s].handle}

\* A session that has a pod of its compute keeps it: nothing else than such a
\* race makes one dispatch write over the handle of another.
OneInstance ==
  [][\A s \in Sessions \ raced :
       (ses[s].handle # NoPod /\ origin[ses[s].handle] = ses'[s].name)
         => ses'[s].handle = ses[s].handle]_computeVars

-----------------------------------------------------------------------------
(* What comments and documents promise, and the code does not keep.        *)

\* "multi-stage dispatch resume against the same provisioned compute": a session
\* that has a pod of its compute keeps it, however it is dispatched.
SameCompute ==
  [][\A s \in Sessions :
       (ses[s].handle # NoPod /\ origin[ses[s].handle] = ses'[s].name)
         => ses'[s].handle = ses[s].handle]_computeVars

\* "so a session that's paused / pending / waiting doesn't get its compute
\* pulled out from under it": no collection takes the row of a session that is
\* there, however many there are (Listed sees one page of them).
NeverPulled == [][\A s \in Sessions : ~Pulled(s)]_computeVars

\* Nothing is under way for the session.
Settled(s) == ~stopping[s].on /\ \A d \in Slots : d[1] = s => disp[d] = NotDispatching

\* The collection "actually releases the pod": no pod of an ended session
\* outlives its row.
PodsReleased ==
  \A s \in Sessions :
    (Settled(s) /\ ses[s].status \in Ends /\ ses[s].name \notin rows)
      => ses[s].handle \notin pods

\* "Kill the agent process via ... Isolation.attachAgent": a stop of a running
\* session kills its agent.
StopKills ==
  [][\A s \in Sessions :
       (Settled(s) /\ ses[s].status = "running" /\ stopping'[s].on)
         => <<s, ses[s].handle>> \notin agents']_computeVars

\* "Resume a stopped/paused session": the session is dispatched.
ResumeDispatches ==
  [][\A s \in Sessions :
       (ses[s].status = "stopped" /\ ses'[s].status = "ready")
         => \E d \in Slots : d[1] = s /\ disp'[d].pc # "idle"]_computeVars

\* "Switching between stages is a real handoff: cleanupSession on the prior
\* compute, launch on the new": a stage's agent is spawned on its compute.
StageOnItsCompute ==
  \A d \in Slots : disp[d].pc = "spawning" => origin[disp[d].pod] = ses[d[1]].name

\* "restores a soft-deleted session": the status to return to stays in the
\* config for as long as the session is being deleted.
UndeleteRestores ==
  [][\A s \in Sessions :
       (ses[s].saved \in {"ready", "running"} /\ ses'[s].status = "deleting")
         => ses'[s].saved # NoStatus]_computeVars

\* "undo available": what was live when it was deleted has its compute when it
\* is restored.
UndoKeepsCompute ==
  [][\A s \in Sessions :
       (/\ ses[s].status = "deleting" /\ ses'[s].status \in {"ready", "running"}
        /\ ses[s].saved # NoStatus /\ ses'[s].saved = NoStatus)
         => ses[s].name \in rows]_computeVars

\* "GC prunes the clone when the session reaches a terminal state."
ClonesPruned ==
  \A s \in Sessions :
    (Settled(s) /\ ses[s].status \in Ends) => Clone(s) \notin rows

=============================================================================
