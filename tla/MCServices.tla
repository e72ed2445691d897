----------------------------- MODULE MCServices -----------------------------
(***************************************************************************)
(* The parts around a session that run beside the conductor's walk: a      *)
(* channel of arkd's bus (ChannelBus), the process of an agent             *)
(* (AgentRuntime), the model router (Router), and the computes             *)
(* (ComputeLifecycle). They share no state, so one is active at a time and *)
(* the others rest at a first state of theirs.                             *)
(***************************************************************************)
EXTENDS ChannelBus, AgentRuntime, Router, ComputeLifecycle

CONSTANTS m1, m2, m3, p1, p2, s1, s2
MCRegistry ==
    (m1 :> [provider |-> p1, tier |-> "standard", quality |-> 2, cost |-> 3]) @@
    (m2 :> [provider |-> p2, tier |-> "standard", quality |-> 3, cost |-> 2]) @@
    (m3 :> [provider |-> p1, tier |-> "economy", quality |-> 1, cost |-> 1])
MCNewest == <<s2, s1>>
MCSlots == {<<s1, 1>>, <<s1, 2>>}

VARIABLE part   \* the part that is active

bus == vars
all == <<part, bus, runtimeVars, routerVars, computeVars>>

BusRests == channel = "hooks"
ComputesRest == ses = [s \in Sessions |-> [status |-> "ready", name |-> "shared",
                          ref |-> FALSE, handle |-> "none", saved |-> "none"]]

PartsInit ==
    /\ Init /\ RuntimeInit /\ RouterInit /\ ComputeInit
    /\ part \in {"bus", "agent", "router", "computes"}
    /\ part # "bus" => BusRests
    /\ part # "computes" => ComputesRest

Bus0 == part = "bus" /\ UNCHANGED <<part, runtimeVars, routerVars, computeVars>>
Agent0 == part = "agent" /\ UNCHANGED <<part, bus, routerVars, computeVars>>
Router0 == part = "router" /\ UNCHANGED <<part, bus, runtimeVars, computeVars>>
Computes0 == part = "computes" /\ UNCHANGED <<part, bus, runtimeVars, routerVars>>

BusStep ==
    \/ Bus0 /\ Publish
    \/ Bus0 /\ Open
    \/ Bus0 /\ OpenHalfClosed
    \/ Bus0 /\ OpenThrows
    \/ \E s \in Sockets :
          \/ Bus0 /\ Dies(s)
          \/ Bus0 /\ Close(s)

AgentStep ==
    \/ Agent0 /\ Interrupted
    \/ Agent0 /\ Aborted
    \/ Agent0 /\ Results
    \/ Agent0 /\ Told
    \/ Agent0 /\ SdkAsks
    \/ Agent0 /\ AgentReads
    \/ Agent0 /\ SdkStops
    \/ Agent0 /\ CompleteStage
    \/ Agent0 /\ StopHookAllows
    \/ Agent0 /\ StopHookBlocks
    \/ Agent0 /\ Compacts
    \/ Agent0 /\ SdkInterrupted
    \/ Agent0 /\ SdkAborted
    \/ Agent0 /\ SdkFails
    \/ \E n \in Steers : Agent0 /\ FireInterrupt(n)
    \/ Agent0 /\ Sigterm
    \/ Agent0 /\ Sigkill

RouterStep ==
    \/ \E p \in Providers : Router0 /\ CoolDown(p)
    \/ \E r \in Requests :
          \/ Router0 /\ ArriveBound(r)
          \/ Router0 /\ ArriveRouted(r)
          \/ Router0 /\ Choose(r)
          \/ Router0 /\ Transient(r)
          \/ Router0 /\ Refused(r)
          \/ Router0 /\ Headers(r)
          \/ Router0 /\ Chunk(r)
          \/ Router0 /\ BodyBreaks(r)
          \/ Router0 /\ Answered(r)
          \/ Router0 /\ Leave(r)
          \/ Router0 /\ HandlerReturned(r)

ComputesStep ==
    \/ \E d \in Slots :
          \/ Computes0 /\ Begin(d) /\ NoteRaces
          \/ Computes0 /\ ResolveStage(d) /\ NoteRaces
          \/ Computes0 /\ ReadSession(d) /\ NoteRaces
          \/ Computes0 /\ ReachPod(d) /\ NoteRaces
          \/ Computes0 /\ PersistHandle(d) /\ NoteRaces
          \/ Computes0 /\ LaunchFails(d) /\ NoteRaces
          \/ Computes0 /\ Launched(d) /\ NoteRaces
          \/ Computes0 /\ Resume(d) /\ NoteRaces
    \/ \E s \in Sessions :
          \/ Computes0 /\ StageDone(s) /\ NoteRaces
          \/ Computes0 /\ Complete(s) /\ NoteRaces
          \/ Computes0 /\ Fail(s) /\ NoteRaces
          \/ Computes0 /\ StopBegins(s) /\ NoteRaces
          \/ Computes0 /\ StopEnds(s) /\ NoteRaces
          \/ Computes0 /\ Kill(s) /\ NoteRaces
          \/ Computes0 /\ Delete(s) /\ NoteRaces
          \/ Computes0 /\ Undelete(s) /\ NoteRaces

PartsNext == BusStep \/ AgentStep \/ RouterStep \/ ComputesStep

\* the fairness of an agent's process; the others promise nothing
PartsSpec ==
    /\ PartsInit /\ [][PartsNext]_all
    /\ WF_all(Agent0 /\ Loop)
    /\ WF_all(Agent0 /\ SdkAsks)
    /\ WF_all(Agent0 /\ AgentReads)
    /\ WF_all(Agent0 /\ SdkStops)
    /\ WF_all(Agent0 /\ SdkInterrupted)

---------------------------------------------------------------------------
\* the variables of every part have their types; for the other properties see
\* the modules of the parts
TypesOK == TypeOK /\ RuntimeTypeOK /\ RouterTypeOK /\ ComputeTypeOK
=============================================================================
