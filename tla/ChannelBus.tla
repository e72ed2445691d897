----------------------------- MODULE ChannelBus -----------------------------
(***************************************************************************)
(* One channel of arkd's pub/sub (arkd/server/channel-bus.ts): publishers  *)
(* POST envelopes, readers attach WebSockets, and what nobody reads waits  *)
(* in a ring buffer.  "hooks" carries the frames SessionLifecycle handles, *)
(* to one reader; "user-input" broadcasts the operator's steers to every   *)
(* agent on the host.                                                      *)
(*                                                                         *)
(* arkd is one JavaScript process and every handler of the bus runs        *)
(* without a wait, so a handler is one action.  Envelopes are numbered in  *)
(* the order of their publication, sockets in the order they attached,     *)
(* which is the order a JavaScript Set iterates over them.                 *)
(***************************************************************************)
EXTENDS Naturals, Sequences

CONSTANTS
    MaxSockets,    \* bound: WebSockets upgraded
    MaxEnvelopes   \* bound: envelopes published

ASSUME BusAssumption == MaxSockets \in Nat /\ MaxEnvelopes \in Nat

VARIABLES
    channel,      \* the name of the channel
    published,    \* envelopes published so far
    ring,         \* those that wait for a reader, in order
    attached,     \* WebSockets that open() was called for
    socket,       \* what becomes of each
    subscribers,  \* those the bus counts as subscribed
    got,          \* the envelopes each socket accepted, in order
    ackedAt       \* envelopes published before a socket's ack, plus 1; 0: no ack

vars == <<channel, published, ring, attached, socket, subscribers, got, ackedAt>>

Channels == {"hooks", "user-input"}
Broadcast == channel = "user-input"

Sockets == 1..MaxSockets
Envelopes == 1..MaxEnvelopes

\* readyState OPEN and alive; OPEN but half-closed, so that send() returns
\* 0; no longer OPEN; and after the server's close callback
SocketStates == {"open", "half", "closing", "closed"}

Live(s) == socket[s] = "open"
Readers == {s \in subscribers : Live(s)}

Init ==
    /\ channel \in Channels
    /\ published = 0 /\ ring = <<>>
    /\ attached = 0 /\ socket = [s \in Sockets |-> "open"]
    /\ subscribers = {}
    /\ got = [s \in Sockets |-> <<>>]
    /\ ackedAt = [s \in Sockets |-> 0]

---------------------------------------------------------------------------
(* Publishing: enqueue()                                                   *)

First(s) == s \in Readers /\ \A t \in Readers : s <= t

\* mutant: the loop does not stop at the first delivery
ReachesAll(to) == to = Readers

\* mutant: a broadcast stops at the first delivery
ReachesFirst(to) == IF Readers = {} THEN to = {} ELSE \E s \in to : First(s) /\ to = {s}

\* broadcast to every live subscriber, else to the first in connect order
Reaches(to) == IF Broadcast \/ Readers = {} THEN to = Readers
               ELSE \E s \in to : First(s) /\ to = {s}

\* sockets found dead before the walk over the subscribers stops
Zombies == {s \in subscribers :
              ~Live(s) /\ (Broadcast \/ \A r \in Readers : s < r)}

\* what reaches nobody is buffered for the next subscriber
Publish ==
    /\ published < MaxEnvelopes
    /\ published' = published + 1
    /\ \E to \in SUBSET Sockets :
          /\ Reaches(to)
          /\ got' = [s \in Sockets |-> IF s \in to THEN Append(got[s], published + 1)
                                       ELSE got[s]]
          /\ ring' = IF to = {} THEN Append(ring, published + 1) ELSE ring
    /\ subscribers' = subscribers \ Zombies
    /\ UNCHANGED <<channel, attached, socket, ackedAt>>

---------------------------------------------------------------------------
(* Subscribing: open() drains the ring into the new socket and sends the   *)
(* ack; the socket may die anywhere in between.                            *)

Drained(k) == SubSeq(ring, 1, k)
Left(k) == SubSeq(ring, k + 1, Len(ring))

\* the new socket accepts the first k envelopes and is then in state st
Attach(k, st) ==
    /\ attached < MaxSockets
    /\ attached' = attached + 1
    /\ got' = [got EXCEPT ![attached + 1] = Drained(k)]
    /\ socket' = [socket EXCEPT ![attached + 1] = st]
    /\ UNCHANGED <<channel, published>>

\* mutant: the ring is not drained
OpenUndrained ==
    /\ Attach(0, "open")
    /\ subscribers' = subscribers \cup {attached + 1}
    /\ ackedAt' = [ackedAt EXCEPT ![attached + 1] = published + 1]
    /\ UNCHANGED ring

Open ==
    /\ Attach(Len(ring), "open")
    /\ subscribers' = subscribers \cup {attached + 1}
    /\ ring' = <<>>
    /\ ackedAt' = [ackedAt EXCEPT ![attached + 1] = published + 1]

\* send() answers 0 from some envelope or from the ack on; the drain does
\* not look at the answer
OpenHalfClosed ==
    /\ \E k \in 0..Len(ring) : Attach(k, "half")
    /\ subscribers' = subscribers \cup {attached + 1}
    /\ ring' = <<>>
    /\ UNCHANGED ackedAt

\* send() throws: the envelope goes back to the front of the ring
OpenThrows ==
    /\ \E k \in 0..Len(ring) : Attach(k, "closing") /\ ring' = Left(k)
    /\ UNCHANGED <<subscribers, ackedAt>>

---------------------------------------------------------------------------
(* The sockets                                                             *)

Dies(s) ==
    /\ s <= attached /\ socket[s] = "open"
    /\ \E st \in {"half", "closing"} : socket' = [socket EXCEPT ![s] = st]
    /\ UNCHANGED <<channel, published, ring, attached, subscribers, got, ackedAt>>

\* mutant: the close callback forgets the subscription
CloseSubscribed(s) ==
    /\ s <= attached /\ socket[s] # "closed"
    /\ socket' = [socket EXCEPT ![s] = "closed"]
    /\ UNCHANGED <<channel, published, ring, attached, subscribers, got, ackedAt>>

\* the close callback, once per socket
Close(s) ==
    /\ s <= attached /\ socket[s] # "closed"
    /\ socket' = [socket EXCEPT ![s] = "closed"]
    /\ subscribers' = subscribers \ {s}
    /\ UNCHANGED <<channel, published, ring, attached, got, ackedAt>>

Next ==
    \/ Publish \/ Open \/ OpenHalfClosed \/ OpenThrows
    \/ \E s \in Sockets : Dies(s) \/ Close(s)

Spec == Init /\ [][Next]_vars

---------------------------------------------------------------------------
(* Properties                                                              *)

\* Types; a socket whose close callback has run is not subscribed.
TypeOK ==
    /\ channel \in Channels
    /\ published \in 0..MaxEnvelopes
    /\ ring \in Seq(1..published)
    /\ attached \in 0..MaxSockets
    /\ socket \in [Sockets -> SocketStates]
    /\ subscribers \subseteq {s \in 1..attached : socket[s] # "closed"}
    /\ got \in [Sockets -> Seq(1..published)]
    /\ ackedAt \in [Sockets -> 0..published + 1]

Increasing(seq) == \A i, j \in DOMAIN seq : i < j => seq[i] < seq[j]
Elements(seq) == {seq[i] : i \in DOMAIN seq}

\* Every reader gets envelopes in the order they were published and none
\* twice, through buffering, death and replacement of readers; on hooks no
\* two readers get the same one (channel-bus.ts: "SINGLE-READER").
InOrderOnce ==
    /\ Increasing(ring)
    /\ \A s \in Sockets : Increasing(got[s])
    /\ \A s \in Sockets : Elements(got[s]) \cap Elements(ring) = {}
    /\ ~Broadcast => \A s, t \in Sockets :
          s # t => Elements(got[s]) \cap Elements(got[t]) = {}

\* Nothing waits in the ring beside a subscriber who would take it.
NothingWaits == ring # <<>> => subscribers = {}

\* Whatever is published after a reader's ack is delivered while that reader
\* lives: to it on a broadcast channel, to it or to another one on hooks
\* (channel-bus.ts, "Subscribe handshake").
AckIsGuarantee ==
    \A s \in Sockets : Live(s) /\ ackedAt[s] > 0 =>
        \A e \in ackedAt[s]..published :
            \E t \in Sockets : e \in Elements(got[t]) /\ (Broadcast => t = s)

\* channel-bus.ts, open(): a socket that closes during the drain costs no
\* envelope, what it did not take waits for the next subscriber.
DrainLosesNothing ==
    [][Elements(ring) \subseteq
          Elements(ring') \cup UNION {Elements(got'[s]) : s \in Sockets}]_vars

\* What holds in its place: an envelope that was published is in the ring or
\* was accepted by a socket, from then on, unless a drain sent it into a socket
\* that was half-closed; a send that throws, a socket that dies and a reader
\* that is replaced lose none.
Stored == Elements(ring) \cup UNION {Elements(got[s]) : s \in Sockets}
OnlyHalfClosedLoses ==
    [][\A e \in 1..published' :
          e \in Stored \/ e > published
             => e \in Stored' \/ (OpenHalfClosed /\ e \in Elements(ring))]_vars
=============================================================================
