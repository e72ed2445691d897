-------------------------- MODULE ChannelBusProofs --------------------------
(***************************************************************************)
(* What arkd's channel bus guarantees to any number of readers, for any    *)
(* number of envelopes, on both kinds of channel.                          *)
(***************************************************************************)
EXTENDS ChannelBus, SequenceTheorems, TLAPS

---------------------------------------------------------------------------
(* Sequences of envelopes                                                  *)

\* An envelope that is newer than all of seq may be appended to it.
LEMMA AppendNewest ==
    ASSUME NEW n \in Nat, NEW seq \in Seq(1..n), Increasing(seq)
    PROVE  /\ Append(seq, n + 1) \in Seq(1..(n + 1))
           /\ Increasing(Append(seq, n + 1))
           /\ Elements(Append(seq, n + 1)) = Elements(seq) \cup {n + 1}
<1>1. seq \in Seq(1..(n + 1))
  BY SeqMonotonic, 1..n \subseteq 1..(n + 1)
<1> DEFINE longer == Append(seq, n + 1)
<1>2. /\ longer \in Seq(1..(n + 1))
      /\ Len(seq) \in Nat
      /\ DOMAIN seq = 1..Len(seq)
      /\ DOMAIN longer = 1..(Len(seq) + 1)
      /\ \A i \in 1..Len(seq) : longer[i] = seq[i]
      /\ longer[Len(seq) + 1] = n + 1
  BY <1>1
<1>3. \A i \in 1..Len(seq) : seq[i] \in 1..n
  BY ElementOfSeq
<1>4. Increasing(longer)
  <2> SUFFICES ASSUME NEW i \in 1..(Len(seq) + 1), NEW j \in 1..(Len(seq) + 1),
                      i < j
               PROVE  longer[i] < longer[j]
    BY <1>2 DEF Increasing
  <2>1. i \in 1..Len(seq)
    BY <1>2
  <2>2. CASE j = Len(seq) + 1
    BY <2>1, <2>2, <1>2, <1>3
  <2>3. CASE j \in 1..Len(seq)
    BY <2>1, <2>3, <1>2 DEF Increasing
  <2> QED
    BY <2>2, <2>3, <1>2
<1>5. Elements(longer) = Elements(seq) \cup {n + 1}
  <2>1. \A i \in 1..(Len(seq) + 1) : i \in 1..Len(seq) \/ i = Len(seq) + 1
    BY <1>2
  <2>2. 1..Len(seq) \subseteq 1..(Len(seq) + 1) /\ Len(seq) + 1 \in 1..(Len(seq) + 1)
    BY <1>2
  <2> QED
    BY <2>1, <2>2, <1>2 DEF Elements
<1> QED
  BY <1>2, <1>4, <1>5

\* A contiguous part of an increasing sequence is one, of the same elements.
LEMMA PartOfIncreasing ==
    ASSUME NEW n \in Nat, NEW seq \in Seq(1..n), Increasing(seq),
           NEW a \in 1..(Len(seq) + 1), NEW b \in 0..Len(seq)
    PROVE  /\ SubSeq(seq, a, b) \in Seq(1..n)
           /\ Increasing(SubSeq(seq, a, b))
           /\ DOMAIN SubSeq(seq, a, b) = 1..Len(SubSeq(seq, a, b))
           /\ \A i \in DOMAIN SubSeq(seq, a, b) :
                 /\ i + a - 1 \in DOMAIN seq /\ i + a - 1 <= b
                 /\ SubSeq(seq, a, b)[i] = seq[i + a - 1]
<1> DEFINE part == SubSeq(seq, a, b)
<1>1. Len(seq) \in Nat /\ DOMAIN seq = 1..Len(seq) /\ a \in Int /\ b \in Int
  BY LenProperties
<1>2. \A i \in a..b : seq[i] \in 1..n
  BY <1>1, ElementOfSeq
<1>3. /\ part \in Seq(1..n)
      /\ Len(part) = IF a <= b THEN b - a + 1 ELSE 0
      /\ \A i \in 1..(b - a + 1) : part[i] = seq[a + i - 1]
  BY <1>1, <1>2, SubSeqProperties, SMTT(30)
<1> QED
  <2>1. DOMAIN part = 1..Len(part)
    BY <1>3, LenProperties
  <2>2. \A i \in DOMAIN part : /\ i \in 1..(b - a + 1)
                               /\ i + a - 1 \in DOMAIN seq /\ i + a - 1 <= b
                               /\ part[i] = seq[i + a - 1]
    <3> SUFFICES ASSUME NEW i \in 1..Len(part)
                 PROVE  /\ i \in 1..(b - a + 1)
                        /\ i + a - 1 \in DOMAIN seq /\ i + a - 1 <= b
                        /\ part[i] = seq[i + a - 1]
      BY <2>1
    <3> HIDE DEF part
    <3>1. a \in Int /\ b \in Int /\ i \in Int /\ 1 <= i /\ i <= b - a + 1
      BY <1>1, <1>3
    <3>2. i \in 1..(b - a + 1)
      BY <3>1
    <3>3. part[i] = seq[a + i - 1]
      BY <3>2, <1>3
    <3>4. a + i - 1 = i + a - 1 /\ 1 <= i + a - 1 /\ i + a - 1 <= b
      BY <3>1
    <3>5. i + a - 1 \in 1..Len(seq)
      BY <3>1, <3>4, <1>1
    <3> QED
      BY <3>2, <3>3, <3>4, <3>5, <1>1
  <2>3. Increasing(part)
    <3> SUFFICES ASSUME NEW i \in DOMAIN part, NEW j \in DOMAIN part, i < j
                 PROVE  part[i] < part[j]
      BY DEF Increasing
    <3>1. i + a - 1 < j + a - 1
      BY <2>1, <1>3, <1>1
    <3> QED
      BY <3>1, <2>2 DEF Increasing
  <2> QED
    BY <2>1, <2>2, <2>3, <1>3

\* What is left of an increasing sequence after its first k elements.
LEMMA TailOfIncreasing ==
    ASSUME NEW n \in Nat, NEW seq \in Seq(1..n), Increasing(seq), NEW k \in 0..Len(seq)
    PROVE  /\ SubSeq(seq, k + 1, Len(seq)) \in Seq(1..n)
           /\ Increasing(SubSeq(seq, k + 1, Len(seq)))
           /\ \A j \in DOMAIN SubSeq(seq, k + 1, Len(seq)) :
                 /\ j + k \in DOMAIN seq /\ j + k > k
                 /\ SubSeq(seq, k + 1, Len(seq))[j] = seq[j + k]
<1> DEFINE a == k + 1
           b == Len(seq)
           tail == SubSeq(seq, a, b)
<1>1. /\ a \in 1..(Len(seq) + 1) /\ b \in 0..Len(seq)
      /\ k \in Nat /\ \A j \in Nat : j + a - 1 = j + k
  BY LenProperties
<1>2. /\ tail \in Seq(1..n) /\ Increasing(tail)
      /\ DOMAIN tail = 1..Len(tail)
      /\ \A j \in DOMAIN tail : j + a - 1 \in DOMAIN seq /\ tail[j] = seq[j + a - 1]
  <2> HIDE DEF a, b
  <2> QED
    BY <1>1, PartOfIncreasing
<1>3. \A j \in DOMAIN tail : j \in Nat /\ j + k > k
  <2> HIDE DEF tail
  <2>1. Len(tail) \in Nat
    BY <1>2, LenProperties
  <2> QED
    BY <1>1, <1>2, <2>1
<1> QED
  <2> HIDE DEF tail
  <2>1. \A j \in DOMAIN tail : /\ j + k \in DOMAIN seq /\ j + k > k /\ tail[j] = seq[j + k]
    BY <1>1, <1>2, <1>3
  <2> QED
    BY <1>2, <2>1 DEF tail

---------------------------------------------------------------------------
(* The inductive invariant                                                 *)

\* Whatever was accepted was published before whatever waits.
OldBeforeWaiting ==
    \A s \in Sockets : \A i \in DOMAIN got[s], j \in DOMAIN ring :
        got[s][i] < ring[j]

\* A socket that has not attached has accepted nothing.
Unattached == \A s \in Sockets : s > attached => got[s] = <<>> /\ ackedAt[s] = 0

\* The bus keeps a reader it has sent the ack to while that reader lives.
AckedSubscribe ==
    \A s \in Sockets : Live(s) /\ ackedAt[s] > 0 => s \in subscribers

BusInv ==
    /\ TypeOK /\ InOrderOnce /\ NothingWaits /\ AckIsGuarantee
    /\ OldBeforeWaiting /\ Unattached /\ AckedSubscribe

\* Only old envelopes have been accepted or wait.
LEMMA ElementsArePublished ==
    ASSUME NEW n \in Nat, NEW seq \in Seq(1..n)
    PROVE  /\ Elements(seq) \subseteq 1..n
           /\ DOMAIN seq = 1..Len(seq) /\ Len(seq) \in Nat
           /\ \A i \in DOMAIN seq : seq[i] \in 1..n
BY ElementOfSeq, LenProperties DEF Elements

\* The bus starts in the invariant.
LEMMA InitInv == Init => BusInv
<1> SUFFICES ASSUME Init PROVE BusInv
  OBVIOUS
<1> USE DEF Init
<1>1. \A s \in Sockets : got[s] = <<>> /\ ackedAt[s] = 0
  OBVIOUS
<1>2. /\ DOMAIN <<>> = {} /\ Elements(<<>>) = {} /\ Increasing(<<>>)
      /\ <<>> \in Seq(1..0)
  BY DEF Elements, Increasing
<1>3. TypeOK
  BY <1>2, BusAssumption DEF TypeOK, SocketStates
<1> QED
  BY <1>1, <1>2, <1>3
  DEF BusInv, InOrderOnce, NothingWaits, AckIsGuarantee, OldBeforeWaiting,
      Unattached, AckedSubscribe

\* Publishing: either nobody reads and the envelope waits, or nothing
\* waited and it is the newest that its receivers accept.
LEMMA PublishInv == BusInv /\ Publish => BusInv'
<1> SUFFICES ASSUME BusInv, Publish PROVE BusInv'
  OBVIOUS
<1> DEFINE n == published + 1
<1>t. TypeOK
  BY DEF BusInv
<1>n. published \in Nat /\ n \in Nat /\ published' = n /\ n <= MaxEnvelopes
  BY <1>t, BusAssumption DEF TypeOK, Publish
<1>u. /\ UNCHANGED <<channel, attached, socket, ackedAt>>
      /\ subscribers' = subscribers \ Zombies
  BY DEF Publish
<1>p. PICK to \in SUBSET Sockets :
        /\ Reaches(to)
        /\ got' = [s \in Sockets |-> IF s \in to THEN Append(got[s], n) ELSE got[s]]
        /\ ring' = IF to = {} THEN Append(ring, n) ELSE ring
  BY DEF Publish
<1>r. to \subseteq Readers /\ (to = {} => Readers = {})
  BY <1>p DEF Reaches, First
<1>g. ASSUME NEW s \in Sockets
      PROVE  /\ got'[s] \in Seq(1..n)
             /\ Increasing(got'[s])
             /\ Elements(got[s]) \subseteq 1..published
             /\ Elements(got'[s]) = IF s \in to THEN Elements(got[s]) \cup {n}
                                    ELSE Elements(got[s])
  <2>1. got[s] \in Seq(1..published) /\ Increasing(got[s])
    BY DEF BusInv, TypeOK, InOrderOnce
  <2>2. Elements(got[s]) \subseteq 1..published
    BY <2>1, <1>n, ElementsArePublished
  <2>3. CASE s \in to
    BY <2>1, <2>2, <2>3, <1>p, <1>n, AppendNewest
  <2>4. CASE s \notin to
    <3>1. got'[s] = got[s]
      BY <1>p, <2>4
    <3>2. got[s] \in Seq(1..n)
      BY <2>1, <1>n, SeqMonotonic, 1..published \subseteq 1..n
    <3> QED
      BY <3>1, <3>2, <2>1, <2>2, <2>4
  <2> QED
    BY <2>3, <2>4
<1>b. /\ ring \in Seq(1..published) /\ Increasing(ring)
      /\ Elements(ring) \subseteq 1..published
  BY <1>n, ElementsArePublished DEF BusInv, TypeOK, InOrderOnce
<1>w. /\ ring' \in Seq(1..n) /\ Increasing(ring')
      /\ to = {} => Elements(ring') = Elements(ring) \cup {n} /\ subscribers' = {}
      /\ to # {} => ring' = <<>>
  <2>1. CASE to = {}
    <3>1. Readers = {} /\ Zombies = subscribers
      BY <1>r, <2>1 DEF Readers, Zombies
    <3> QED
      BY <3>1, <2>1, <1>p, <1>b, <1>n, <1>u, AppendNewest
  <2>2. CASE to # {}
    <3>1. subscribers # {}
      BY <1>r, <2>2 DEF Readers
    <3>2. ring' = <<>>
      BY <3>1, <2>2, <1>p DEF BusInv, NothingWaits
    <3> QED
      BY <3>2, <2>2 DEF Increasing
  <2> QED
    BY <2>1, <2>2
<1>1. TypeOK'
  <2>1. got' \in [Sockets -> Seq(1..n)]
    BY <1>g, <1>p
  <2>2. published' \in 0..MaxEnvelopes
    BY <1>n, BusAssumption
  <2>3. ackedAt' \in [Sockets -> 0..(n + 1)]
    <3>1. 0..(published + 1) \subseteq 0..(n + 1)
      BY <1>n
    <3> QED
      BY <3>1, <1>t, <1>u DEF TypeOK
  <2> QED
    BY <2>1, <2>2, <2>3, <1>t, <1>u, <1>w, <1>n DEF TypeOK
<1>2. InOrderOnce'
  <2>1. ASSUME NEW s \in Sockets
        PROVE  Elements(got'[s]) \cap Elements(ring') = {}
    <3>1. CASE to = {}
      <4>1. Elements(got[s]) \cap Elements(ring) = {}
        BY DEF BusInv, InOrderOnce
      <4> QED
        BY <4>1, <3>1, <1>g, <1>w, <1>n
    <3>2. CASE to # {}
      BY <3>2, <1>w DEF Elements
    <3> QED
      BY <3>1, <3>2
  <2>2. ASSUME ~Broadcast', NEW s \in Sockets, NEW t \in Sockets, s # t
        PROVE  Elements(got'[s]) \cap Elements(got'[t]) = {}
    <3>1. ~Broadcast
      BY <2>2, <1>u DEF Broadcast
    <3>2. Elements(got[s]) \cap Elements(got[t]) = {}
      BY <3>1, <2>2 DEF BusInv, InOrderOnce
    <3>3. ~(s \in to /\ t \in to)
      BY <3>1, <2>2, <1>p DEF Reaches
    <3>4. n \notin 1..published
      BY <1>n
    <3> QED
      BY <3>2, <3>3, <3>4, <1>g
  <2> QED
    BY <2>1, <2>2, <1>g, <1>w DEF InOrderOnce
<1>3. NothingWaits'
  BY <1>w DEF NothingWaits
<1>4. AckedSubscribe'
  <2> SUFFICES ASSUME NEW s \in Sockets, Live(s)', ackedAt'[s] > 0
               PROVE  s \in subscribers'
    BY DEF AckedSubscribe
  <2>1. Live(s) /\ s \in subscribers
    BY <1>u DEF Live, BusInv, AckedSubscribe
  <2> QED
    BY <2>1, <1>u DEF Zombies
<1>5. AckIsGuarantee'
  <2> SUFFICES ASSUME NEW s \in Sockets, Live(s)', ackedAt'[s] > 0,
                      NEW e \in ackedAt'[s]..published'
               PROVE  \E t \in Sockets : e \in Elements(got'[t])
                                          /\ (Broadcast' => t = s)
    BY DEF AckIsGuarantee
  <2>1. Live(s) /\ ackedAt[s] > 0 /\ s \in subscribers /\ ackedAt[s] \in Nat
    BY <1>u, <1>t, <1>n DEF Live, BusInv, AckedSubscribe, TypeOK
  <2>2. Broadcast' = Broadcast
    BY <1>u DEF Broadcast
  <2>3. CASE e = n
    <3>1. s \in Readers
      BY <2>1 DEF Readers
    <3>2. PICK t \in to : Broadcast => t = s
      <4>1. CASE Broadcast
        BY <4>1, <3>1, <1>p DEF Reaches
      <4>2. CASE ~Broadcast
        BY <4>2, <3>1, <1>r
      <4> QED
        BY <4>1, <4>2
    <3> QED
      BY <3>2, <2>2, <2>3, <1>g
  <2>4. CASE e # n
    <3>1. e \in ackedAt[s]..published
      BY <2>4, <2>1, <1>u, <1>n
    <3>2. PICK t \in Sockets : e \in Elements(got[t]) /\ (Broadcast => t = s)
      BY <3>1, <2>1 DEF BusInv, AckIsGuarantee
    <3> QED
      BY <3>2, <2>2, <1>g
  <2> QED
    BY <2>3, <2>4
<1>6. OldBeforeWaiting'
  <2> SUFFICES ASSUME NEW s \in Sockets,
                      NEW i \in DOMAIN got'[s], NEW j \in DOMAIN ring'
               PROVE  got'[s][i] < ring'[j]
    BY DEF OldBeforeWaiting
  <2>1. to = {}
    BY <1>w
  <2>2. got'[s] = got[s] /\ ring' = Append(ring, n)
    BY <2>1, <1>p
  <2>3. got[s][i] \in 1..published
    BY <2>2, <1>n, ElementsArePublished DEF BusInv, TypeOK
  <2>4. /\ DOMAIN ring = 1..Len(ring) /\ Len(ring) \in Nat
        /\ DOMAIN ring' = 1..(Len(ring) + 1)
        /\ \A m \in 1..Len(ring) : ring'[m] = ring[m]
        /\ ring'[Len(ring) + 1] = n
    <3>1. ring \in Seq(1..n)
      BY <1>b, <1>n, SeqMonotonic, 1..published \subseteq 1..n
    <3> QED
      BY <3>1, <2>2
  <2>5. CASE j = Len(ring) + 1
    BY <2>5, <2>4, <2>3, <2>2, <1>n
  <2>6. CASE j \in 1..Len(ring)
    BY <2>6, <2>4, <2>2 DEF BusInv, OldBeforeWaiting
  <2> QED
    BY <2>4, <2>5, <2>6
<1>7. Unattached'
  <2> SUFFICES ASSUME NEW s \in Sockets, s > attached
               PROVE  got'[s] = <<>> /\ ackedAt'[s] = 0
    BY <1>u DEF Unattached
  <2>1. s \notin to
    BY <1>r, <1>t DEF Readers, TypeOK
  <2> QED
    BY <2>1, <1>p, <1>u DEF BusInv, Unattached
<1> QED
  BY <1>1, <1>2, <1>3, <1>4, <1>5, <1>6, <1>7 DEF BusInv

\* Attaching: the new socket accepts a first part of the ring, and what then
\* waits is the rest of it or nothing.
LEMMA AttachInv ==
    ASSUME BusInv, NEW k \in 0..Len(ring), NEW st \in SocketStates,
           Attach(k, st), ring' \in {<<>>, Left(k)}
    PROVE  /\ got' \in [Sockets -> Seq(1..published)]
           /\ ring' \in Seq(1..published)
           /\ InOrderOnce' /\ OldBeforeWaiting'
           /\ \A s \in Sockets : s # attached + 1 => got'[s] = got[s]
           /\ \A s \in Sockets : Elements(got[s]) \subseteq Elements(got'[s])
           /\ attached + 1 \in Sockets
<1> DEFINE new == attached + 1
<1>t. TypeOK
  BY DEF BusInv
<1>n. /\ published \in Nat /\ attached \in Nat
      /\ new \in Sockets /\ attached < MaxSockets
  BY <1>t, BusAssumption DEF TypeOK, Attach, Sockets
<1>a. /\ got' = [got EXCEPT ![new] = Drained(k)]
      /\ UNCHANGED <<channel, published>>
  BY DEF Attach
<1>b. /\ ring \in Seq(1..published) /\ Increasing(ring)
      /\ Len(ring) \in Nat /\ DOMAIN ring = 1..Len(ring)
  BY <1>n, ElementsArePublished DEF BusInv, TypeOK, InOrderOnce
<1>d. /\ Drained(k) \in Seq(1..published) /\ Increasing(Drained(k))
      /\ \A i \in DOMAIN Drained(k) : /\ i \in DOMAIN ring /\ i <= k
                                      /\ Drained(k)[i] = ring[i]
  <2>1. 1 \in 1..(Len(ring) + 1) /\ k \in 0..Len(ring)
    BY <1>b
  <2>2. /\ Drained(k) \in Seq(1..published) /\ Increasing(Drained(k))
        /\ DOMAIN Drained(k) = 1..Len(Drained(k))
        /\ \A i \in DOMAIN Drained(k) : /\ i + 1 - 1 \in DOMAIN ring
                                        /\ i + 1 - 1 <= k
                                        /\ Drained(k)[i] = ring[i + 1 - 1]
    BY <2>1, <1>b, <1>n, PartOfIncreasing DEF Drained
  <2>3. \A i \in DOMAIN Drained(k) : i + 1 - 1 = i
    BY <2>2, ElementsArePublished, <1>n
  <2> QED
    BY <2>2, <2>3
<1>l. /\ ring' \in Seq(1..published) /\ Increasing(ring')
      /\ \A j \in DOMAIN ring' : /\ j + k \in DOMAIN ring /\ j + k > k
                                 /\ ring'[j] = ring[j + k]
  <2>1. CASE ring' = <<>>
    BY <2>1 DEF Increasing
  <2>2. CASE ring' = Left(k)
    <3>1. /\ Left(k) \in Seq(1..published) /\ Increasing(Left(k))
          /\ \A j \in DOMAIN Left(k) : /\ j + k \in DOMAIN ring /\ j + k > k
                                       /\ Left(k)[j] = ring[j + k]
      BY <1>b, <1>n, TailOfIncreasing DEF Left
    <3> QED
      BY <2>2, <3>1
  <2> QED
    BY <2>1, <2>2
<1>1. /\ got' \in [Sockets -> Seq(1..published)]
      /\ got'[new] = Drained(k)
      /\ \A s \in Sockets : s # new => got'[s] = got[s]
  BY <1>a, <1>d, <1>n, <1>t DEF TypeOK
<1>2. OldBeforeWaiting'
  <2> SUFFICES ASSUME NEW s \in Sockets,
                      NEW i \in DOMAIN got'[s], NEW j \in DOMAIN ring'
               PROVE  got'[s][i] < ring'[j]
    BY DEF OldBeforeWaiting
  <2>1. CASE s = new
    <3>1. /\ i \in DOMAIN ring /\ got'[s][i] = ring[i]
          /\ j + k \in DOMAIN ring /\ ring'[j] = ring[j + k] /\ i <= k /\ k < j + k
      BY <2>1, <1>1, <1>d, <1>l
    <3>2. i < j + k
      BY <3>1, <1>b
    <3> QED
      BY <3>1, <3>2, <1>b DEF Increasing
  <2>2. CASE s # new
    <3>1. got'[s] = got[s] /\ j + k \in DOMAIN ring /\ ring'[j] = ring[j + k]
      BY <2>2, <1>1, <1>l
    <3> QED
      BY <3>1 DEF BusInv, OldBeforeWaiting
  <2> QED
    BY <2>1, <2>2
<1>3. Elements(got[new]) = {}
  BY <1>n DEF BusInv, Unattached, Elements
<1>4. ASSUME NEW s \in Sockets, s # new
      PROVE  Elements(got'[s]) \cap Elements(Drained(k)) = {}
  <2> SUFFICES ASSUME NEW i \in DOMAIN got[s], NEW j \in DOMAIN Drained(k)
               PROVE  got[s][i] # Drained(k)[j]
    BY <1>1, <1>4 DEF Elements
  <2>1. j \in DOMAIN ring /\ Drained(k)[j] = ring[j]
    BY <1>d
  <2>2. got[s][i] < ring[j]
    BY <2>1 DEF BusInv, OldBeforeWaiting
  <2>3. got[s][i] \in Nat /\ ring[j] \in Nat
    BY <2>1, <1>b, <1>n, ElementsArePublished, SMTT(30) DEF BusInv, TypeOK
  <2> QED
    BY <2>1, <2>2, <2>3
<1>5. InOrderOnce'
  <2>1. \A s \in Sockets : Increasing(got'[s])
    BY <1>1, <1>d DEF BusInv, InOrderOnce
  <2>2. ASSUME NEW s \in Sockets
        PROVE  Elements(got'[s]) \cap Elements(ring') = {}
    <3> SUFFICES ASSUME NEW i \in DOMAIN got'[s], NEW j \in DOMAIN ring'
                 PROVE  got'[s][i] # ring'[j]
      BY DEF Elements
    <3>1. got'[s][i] < ring'[j]
      BY <1>2 DEF OldBeforeWaiting
    <3>2. got'[s] \in Seq(1..published)
      BY <1>1
    <3>3. got'[s][i] \in 1..published /\ ring'[j] \in 1..published
      BY <3>2, <1>l, <1>n, ElementsArePublished
    <3> QED
      BY <3>1, <3>3, <1>n
  <2>3. ASSUME ~Broadcast', NEW s \in Sockets, NEW t \in Sockets, s # t
        PROVE  Elements(got'[s]) \cap Elements(got'[t]) = {}
    <3>1. CASE s # new /\ t # new
      BY <3>1, <2>3, <1>1, <1>a DEF Broadcast, BusInv, InOrderOnce
    <3>2. CASE s = new
      BY <3>2, <2>3, <1>1, <1>4
    <3>3. CASE t = new
      BY <3>3, <2>3, <1>1, <1>4
    <3> QED
      BY <3>1, <3>2, <3>3
  <2> QED
    BY <2>1, <2>2, <2>3, <1>l DEF InOrderOnce
<1>6. \A s \in Sockets : Elements(got[s]) \subseteq Elements(got'[s])
  BY <1>1, <1>3
<1> QED
  BY <1>1, <1>2, <1>5, <1>6, <1>l, <1>n

\* The guarantee of the ack survives a step that publishes nothing, takes
\* nothing back, and gives no live socket an ack for what is published.
LEMMA AckKept ==
    ASSUME BusInv, published' = published, channel' = channel,
           \A s \in Sockets : Elements(got[s]) \subseteq Elements(got'[s]),
           \A s \in Sockets : Live(s)' /\ ackedAt'[s] > 0 =>
              \/ ackedAt'[s] = published + 1
              \/ Live(s) /\ ackedAt'[s] = ackedAt[s]
    PROVE  AckIsGuarantee'
<1> SUFFICES ASSUME NEW s \in Sockets, Live(s)', ackedAt'[s] > 0,
                    NEW e \in ackedAt'[s]..published'
             PROVE  \E t \in Sockets : e \in Elements(got'[t])
                                        /\ (Broadcast' => t = s)
  BY DEF AckIsGuarantee
<1>1. published \in Nat
  BY BusAssumption DEF BusInv, TypeOK
<1>2. ackedAt'[s] = ackedAt[s] /\ Live(s)
  BY <1>1
<1>3. PICK t \in Sockets : e \in Elements(got[t]) /\ (Broadcast => t = s)
  BY <1>2 DEF BusInv, AckIsGuarantee
<1> QED
  BY <1>3 DEF Broadcast

\* A reader that takes the whole ring and the ack.
LEMMA OpenInv == BusInv /\ Open => BusInv'
<1> SUFFICES ASSUME BusInv, Open PROVE BusInv'
  OBVIOUS
<1> DEFINE new == attached + 1
<1>t. TypeOK
  BY DEF BusInv
<1>n. /\ published \in Nat /\ attached \in Nat /\ attached < MaxSockets
      /\ Len(ring) \in Nat /\ "open" \in SocketStates
  BY <1>t, BusAssumption, ElementsArePublished
  DEF TypeOK, Open, Attach, SocketStates
<1>a. /\ Attach(Len(ring), "open") /\ ring' = <<>>
      /\ attached' = new /\ UNCHANGED <<channel, published>>
      /\ socket' = [socket EXCEPT ![new] = "open"]
      /\ subscribers' = subscribers \cup {new}
      /\ ackedAt' = [ackedAt EXCEPT ![new] = published + 1]
  BY DEF Open, Attach
<1>g. /\ got' \in [Sockets -> Seq(1..published)]
      /\ ring' \in Seq(1..published)
      /\ InOrderOnce' /\ OldBeforeWaiting'
      /\ \A s \in Sockets : s # new => got'[s] = got[s]
      /\ \A s \in Sockets : Elements(got[s]) \subseteq Elements(got'[s])
      /\ new \in Sockets
  <2>1. Len(ring) \in 0..Len(ring) /\ ring' \in {<<>>, Left(Len(ring))}
    BY <1>a, <1>n
  <2> QED
    BY <2>1, <1>a, <1>n, AttachInv
<1>1. TypeOK'
  BY <1>a, <1>g, <1>n, <1>t, BusAssumption DEF TypeOK, SocketStates
<1>2. AckIsGuarantee'
  <2>1. \A s \in Sockets : Live(s)' /\ ackedAt'[s] > 0 =>
           \/ ackedAt'[s] = published + 1
           \/ Live(s) /\ ackedAt'[s] = ackedAt[s]
    BY <1>a, <1>t DEF Live, TypeOK
  <2> QED
    BY <2>1, <1>a, <1>g, AckKept
<1>3. Unattached'
  BY <1>a, <1>g, <1>n, <1>t DEF BusInv, Unattached, TypeOK, Sockets
<1>4. AckedSubscribe'
  BY <1>a, <1>t DEF BusInv, AckedSubscribe, Live, TypeOK
<1> QED
  BY <1>1, <1>2, <1>3, <1>4, <1>g, <1>a DEF BusInv, NothingWaits

\* A reader that dies while the ring is drained into it, unnoticed.
LEMMA OpenHalfClosedInv == BusInv /\ OpenHalfClosed => BusInv'
<1> SUFFICES ASSUME BusInv, OpenHalfClosed PROVE BusInv'
  OBVIOUS
<1> DEFINE new == attached + 1
<1>t. TypeOK
  BY DEF BusInv
<1>k. PICK k \in 0..Len(ring) : Attach(k, "half")
  BY DEF OpenHalfClosed
<1>n. /\ published \in Nat /\ attached \in Nat /\ attached < MaxSockets
      /\ "half" \in SocketStates
  BY <1>t, <1>k, BusAssumption DEF TypeOK, Attach, SocketStates
<1>a. /\ ring' = <<>> /\ ackedAt' = ackedAt
      /\ attached' = new /\ UNCHANGED <<channel, published>>
      /\ socket' = [socket EXCEPT ![new] = "half"]
      /\ subscribers' = subscribers \cup {new}
  BY <1>k DEF OpenHalfClosed, Attach
<1>g. /\ got' \in [Sockets -> Seq(1..published)]
      /\ ring' \in Seq(1..published)
      /\ InOrderOnce' /\ OldBeforeWaiting'
      /\ \A s \in Sockets : s # new => got'[s] = got[s]
      /\ \A s \in Sockets : Elements(got[s]) \subseteq Elements(got'[s])
      /\ new \in Sockets
  BY <1>a, <1>k, <1>n, AttachInv
<1>1. TypeOK'
  BY <1>a, <1>g, <1>n, <1>t, BusAssumption DEF TypeOK, SocketStates
<1>s. \A s \in Sockets : Live(s)' => Live(s) /\ s # new
  BY <1>a, <1>t DEF Live, TypeOK
<1>2. AckIsGuarantee'
  BY <1>s, <1>a, <1>g, AckKept
<1>3. Unattached'
  <2> SUFFICES ASSUME NEW s \in Sockets, s > attached'
               PROVE  got'[s] = <<>> /\ ackedAt'[s] = 0
    BY DEF Unattached
  <2>1. s > attached /\ s # new
    BY <1>a, <1>n DEF Sockets
  <2>2. got[s] = <<>> /\ ackedAt[s] = 0
    BY <2>1 DEF BusInv, Unattached
  <2> QED
    BY <2>1, <2>2, <1>a, <1>g
<1>4. AckedSubscribe'
  BY <1>s, <1>a DEF BusInv, AckedSubscribe
<1> QED
  BY <1>1, <1>2, <1>3, <1>4, <1>g, <1>a DEF BusInv, NothingWaits

\* A reader whose socket throws: the rest of the ring waits again.
LEMMA OpenThrowsInv == BusInv /\ OpenThrows => BusInv'
<1> SUFFICES ASSUME BusInv, OpenThrows PROVE BusInv'
  OBVIOUS
<1> DEFINE new == attached + 1
<1>t. TypeOK
  BY DEF BusInv
<1>k. PICK k \in 0..Len(ring) : Attach(k, "closing") /\ ring' = Left(k)
  BY DEF OpenThrows
<1>n. /\ published \in Nat /\ attached \in Nat /\ attached < MaxSockets
      /\ "closing" \in SocketStates
  BY <1>t, <1>k, BusAssumption DEF TypeOK, Attach, SocketStates
<1>a. /\ ackedAt' = ackedAt /\ subscribers' = subscribers
      /\ attached' = new /\ UNCHANGED <<channel, published>>
      /\ socket' = [socket EXCEPT ![new] = "closing"]
  BY <1>k DEF OpenThrows, Attach
<1>g. /\ got' \in [Sockets -> Seq(1..published)]
      /\ ring' \in Seq(1..published)
      /\ InOrderOnce' /\ OldBeforeWaiting'
      /\ \A s \in Sockets : s # new => got'[s] = got[s]
      /\ \A s \in Sockets : Elements(got[s]) \subseteq Elements(got'[s])
      /\ new \in Sockets
  BY <1>a, <1>k, <1>n, AttachInv
<1>1. TypeOK'
  BY <1>a, <1>g, <1>n, <1>t, BusAssumption DEF TypeOK, SocketStates
<1>s. \A s \in Sockets : Live(s)' => Live(s) /\ s # new
  BY <1>a, <1>t DEF Live, TypeOK
<1>2. AckIsGuarantee'
  BY <1>s, <1>a, <1>g, AckKept
<1>3. Unattached'
  BY <1>a, <1>g, <1>n, <1>t DEF BusInv, Unattached, TypeOK, Sockets
<1>4. AckedSubscribe'
  BY <1>s, <1>a DEF BusInv, AckedSubscribe
<1>5. NothingWaits'
  <2>1. ring = <<>> => ring' = <<>>
    BY <1>k DEF Left
  <2> QED
    BY <2>1, <1>a DEF BusInv, NothingWaits
<1> QED
  BY <1>1, <1>2, <1>3, <1>4, <1>5, <1>g DEF BusInv

\* A socket that dies or closes takes guarantees away, never envelopes.
LEMMA SocketInv ==
    ASSUME NEW s \in Sockets, BusInv, Dies(s) \/ Close(s)
    PROVE  BusInv'
<1>t. TypeOK
  BY DEF BusInv
<1>a. /\ UNCHANGED <<channel, published, ring, attached, got, ackedAt>>
      /\ socket' \in [Sockets -> SocketStates]
      /\ socket'[s] # "open" /\ \A t \in Sockets : t # s => socket'[t] = socket[t]
      /\ subscribers' \subseteq subscribers
      /\ subscribers \subseteq subscribers' \cup {s}
      /\ socket'[s] = "closed" => s \notin subscribers'
  BY <1>t DEF Dies, Close, TypeOK, SocketStates
<1>1. TypeOK'
  BY <1>a, <1>t, BusAssumption, SMTT(30) DEF TypeOK, Sockets
<1>s. \A t \in Sockets : Live(t)' => Live(t) /\ t # s
  BY <1>a DEF Live
<1>2. AckIsGuarantee'
  BY <1>s, <1>a, AckKept
<1>3. AckedSubscribe'
  BY <1>s, <1>a DEF BusInv, AckedSubscribe
<1>4. InOrderOnce' /\ OldBeforeWaiting' /\ Unattached' /\ NothingWaits'
  BY <1>a DEF BusInv, InOrderOnce, OldBeforeWaiting, Unattached, NothingWaits, Broadcast
<1> QED
  BY <1>1, <1>2, <1>3, <1>4 DEF BusInv

\* Every step of the bus keeps the invariant.
LEMMA NextInv == BusInv /\ [Next]_vars => BusInv'
<1> SUFFICES ASSUME BusInv, [Next]_vars PROVE BusInv'
  OBVIOUS
<1>1. CASE UNCHANGED vars
  BY <1>1 DEF vars, BusInv, TypeOK, InOrderOnce, NothingWaits, AckIsGuarantee,
     OldBeforeWaiting, Unattached, AckedSubscribe, Live, Broadcast
<1>2. CASE Publish
  BY <1>2, PublishInv
<1>3. CASE Open
  BY <1>3, OpenInv
<1>4. CASE OpenHalfClosed
  BY <1>4, OpenHalfClosedInv
<1>5. CASE OpenThrows
  BY <1>5, OpenThrowsInv
<1>6. CASE \E s \in Sockets : Dies(s) \/ Close(s)
  BY <1>6, SocketInv
<1> QED
  BY <1>1, <1>2, <1>3, <1>4, <1>5, <1>6 DEF Next

\* The invariant holds in every reachable state.
THEOREM BusInvariant == Spec => []BusInv
BY InitInv, NextInv, PTL DEF Spec

\* A socket whose close callback has run is not subscribed, and no channel
\* holds an envelope that was not published.
THEOREM BusTypeCorrect == Spec => []TypeOK
<1>1. BusInv => TypeOK
  BY DEF BusInv
<1> QED
  BY <1>1, BusInvariant, PTL

\* enqueue() and open(): every reader gets envelopes in order and once, and
\* on hooks no two readers get the same one.
THEOREM ReadersInOrderOnce == Spec => []InOrderOnce
<1>1. BusInv => InOrderOnce
  BY DEF BusInv
<1> QED
  BY <1>1, BusInvariant, PTL

\* enqueue() and open(): the ring holds envelopes only while nobody is
\* subscribed.
THEOREM NothingWaitsForReaders == Spec => []NothingWaits
<1>1. BusInv => NothingWaits
  BY DEF BusInv
<1> QED
  BY <1>1, BusInvariant, PTL

\* The subscribe handshake: from its ack on, a live reader misses nothing.
THEOREM AckGuarantees == Spec => []AckIsGuarantee
<1>1. BusInv => AckIsGuarantee
  BY DEF BusInv
<1> QED
  BY <1>1, BusInvariant, PTL

---------------------------------------------------------------------------
(* What is lost                                                            *)

\* An envelope that waits is among the first k, or behind them.
LEMMA RingParts ==
    ASSUME TypeOK, NEW k \in 0..Len(ring)
    PROVE  Elements(ring) = Elements(Drained(k)) \cup Elements(Left(k))
<1>1. ring \in Seq(1..published) /\ DOMAIN ring = 1..Len(ring) /\ Len(ring) \in Nat
  BY LenProperties DEF TypeOK
<1>2. \A i \in DOMAIN ring : ring[i] \in 1..published
  BY <1>1, ElementOfSeq
<1>3. /\ Drained(k) \in Seq(1..published) /\ Len(Drained(k)) = k
      /\ \A i \in 1..k : Drained(k)[i] = ring[i]
  <2>1. \A i \in 1..k : ring[i] \in 1..published
    BY <1>1, <1>2
  <2>2. /\ SubSeq(ring, 1, k) \in Seq(1..published)
        /\ Len(SubSeq(ring, 1, k)) = IF 1 <= k THEN k - 1 + 1 ELSE 0
        /\ \A i \in 1..(k - 1 + 1) : SubSeq(ring, 1, k)[i] = ring[1 + i - 1]
    BY <1>1, <2>1, SubSeqProperties
  <2> QED
    BY <1>1, <2>2 DEF Drained
<1>4. /\ Left(k) \in Seq(1..published) /\ Len(Left(k)) = Len(ring) - k
      /\ \A i \in 1..(Len(ring) - k) : Left(k)[i] = ring[k + i]
  <2>1. \A i \in (k + 1)..Len(ring) : ring[i] \in 1..published
    BY <1>1, <1>2
  <2>2. /\ SubSeq(ring, k + 1, Len(ring)) \in Seq(1..published)
        /\ Len(SubSeq(ring, k + 1, Len(ring)))
              = IF k + 1 <= Len(ring) THEN Len(ring) - (k + 1) + 1 ELSE 0
        /\ \A i \in 1..(Len(ring) - (k + 1) + 1) :
              SubSeq(ring, k + 1, Len(ring))[i] = ring[k + 1 + i - 1]
    BY <1>1, <2>1, SubSeqProperties
  <2> QED
    BY <1>1, <2>2 DEF Left
<1>5. DOMAIN Drained(k) = 1..k /\ DOMAIN Left(k) = 1..(Len(ring) - k)
  BY <1>3, <1>4, LenProperties
<1>6. ASSUME NEW i \in DOMAIN ring
      PROVE  ring[i] \in Elements(Drained(k)) \cup Elements(Left(k))
  <2>1. CASE i <= k
    <3>1. i \in DOMAIN Drained(k) /\ Drained(k)[i] = ring[i]
      BY <1>1, <1>3, <1>5, <2>1
    <3> QED
      BY <3>1 DEF Elements
  <2>2. CASE i > k
    <3>1. i - k \in DOMAIN Left(k) /\ Left(k)[i - k] = ring[i]
      <4>1. i - k \in 1..(Len(ring) - k) /\ k + (i - k) = i
        BY <1>1, <2>2
      <4> QED
        BY <1>4, <1>5, <4>1
    <3> QED
      BY <3>1 DEF Elements
  <2> QED
    BY <1>1, <2>1, <2>2
<1>7. ASSUME NEW i \in DOMAIN Drained(k)
      PROVE  Drained(k)[i] \in Elements(ring)
  BY <1>1, <1>3, <1>5, <1>7 DEF Elements
<1>8. ASSUME NEW i \in DOMAIN Left(k)
      PROVE  Left(k)[i] \in Elements(ring)
  <2>1. k + i \in DOMAIN ring /\ Left(k)[i] = ring[k + i]
    BY <1>1, <1>4, <1>5
  <2> QED
    BY <2>1 DEF Elements
<1> QED
  BY <1>6, <1>7, <1>8 DEF Elements

\* No envelope is lost, unless a drain sends it into a socket that was
\* half-closed (channel-bus.ts, open()).
THEOREM OnlyAHalfClosedDrainLoses == Spec => OnlyHalfClosedLoses
<1>1. ASSUME BusInv, [Next]_vars, NEW e \in 1..published', e \in Stored \/ e > published
      PROVE  e \in Stored' \/ (OpenHalfClosed /\ e \in Elements(ring))
  <2>0. /\ TypeOK /\ Unattached /\ published \in Nat /\ attached \in Nat
        /\ ring \in Seq(1..published) /\ got \in [Sockets -> Seq(1..published)]
    BY <1>1, BusAssumption DEF BusInv, TypeOK
  <2>1. CASE Publish
    <3> DEFINE n == published + 1
    <3>1. PICK to \in SUBSET Sockets :
            /\ got' = [s \in Sockets |-> IF s \in to THEN Append(got[s], n) ELSE got[s]]
            /\ ring' = IF to = {} THEN Append(ring, n) ELSE ring
      BY <2>1, Zenon DEF Publish
    <3>2. \A seq \in Seq(1..published) : Elements(Append(seq, n)) = Elements(seq) \cup {n}
      <4> SUFFICES ASSUME NEW seq \in Seq(1..published)
                   PROVE  Elements(Append(seq, n)) = Elements(seq) \cup {n}
        OBVIOUS
      <4>1. /\ DOMAIN seq = 1..Len(seq) /\ Len(seq) \in Nat
            /\ DOMAIN Append(seq, n) = 1..(Len(seq) + 1)
            /\ \A i \in 1..Len(seq) : Append(seq, n)[i] = seq[i]
            /\ Append(seq, n)[Len(seq) + 1] = n
        OBVIOUS
      <4>2. \A i \in 1..(Len(seq) + 1) : i \in 1..Len(seq) \/ i = Len(seq) + 1
        BY <4>1
      <4>3. 1..Len(seq) \subseteq 1..(Len(seq) + 1) /\ Len(seq) + 1 \in 1..(Len(seq) + 1)
        BY <4>1
      <4> QED
        BY <4>1, <4>2, <4>3 DEF Elements
    <3>3. e = n \/ e \in Stored
      BY <1>1, <2>0, <2>1 DEF Publish
    <3>4. Elements(ring) \subseteq Elements(ring')
          /\ \A s \in Sockets : Elements(got[s]) \subseteq Elements(got'[s])
      BY <2>0, <3>1, <3>2
    <3>5. n \in Stored'
      <4>1. CASE to = {}
        <5>1. n \in Elements(ring')
          BY <2>0, <3>1, <3>2, <4>1
        <5> QED
          BY <5>1 DEF Stored, Elements
      <4>2. CASE to # {}
        <5>1. PICK s \in to : TRUE
          BY <4>2
        <5>2. s \in Sockets /\ n \in Elements(got'[s])
          BY <2>0, <3>1, <3>2, <5>1
        <5> QED
          BY <5>2 DEF Stored, Elements
      <4> QED
        BY <4>1, <4>2
    <3>6. Stored \subseteq Stored'
      BY <3>4 DEF Stored, Elements
    <3> QED
      BY <3>3, <3>5, <3>6
  <2>2. ASSUME NEW k \in 0..Len(ring), NEW st, Attach(k, st)
        PROVE  /\ e \in Stored
               /\ \A s \in Sockets : Elements(got[s]) \subseteq Elements(got'[s])
               /\ Elements(Drained(k)) \subseteq UNION {Elements(got'[s]) : s \in Sockets}
    <3>1. /\ attached + 1 \in Sockets /\ got[attached + 1] = << >>
          /\ published' = published
          /\ got' = [got EXCEPT ![attached + 1] = Drained(k)]
      BY <2>0, <2>2, BusAssumption DEF Attach, Sockets, Unattached
    <3>2. e \in Stored
      BY <1>1, <2>0, <3>1
    <3>3. \A s \in Sockets : Elements(got[s]) \subseteq Elements(got'[s])
      <4>1. Elements(<< >>) = {}
        BY DEF Elements
      <4> QED
        BY <2>0, <3>1, <4>1
    <3>4. Elements(Drained(k)) = Elements(got'[attached + 1])
      BY <2>0, <3>1
    <3> QED
      BY <3>1, <3>2, <3>3, <3>4
  <2>3. CASE Open
    <3>1. Attach(Len(ring), "open") /\ Len(ring) \in 0..Len(ring)
      BY <2>0, <2>3, LenProperties DEF Open
    <3>2. Elements(Left(Len(ring))) = {}
      BY <2>0 DEF Left, Elements
    <3> QED
      BY <2>0, <2>2, <3>1, <3>2, RingParts DEF Stored
  <2>4. CASE OpenHalfClosed
    <3>1. PICK k \in 0..Len(ring) : Attach(k, "half")
      BY <2>4 DEF OpenHalfClosed
    <3> QED
      BY <2>2, <2>4, <3>1 DEF Stored
  <2>5. CASE OpenThrows
    <3>1. PICK k \in 0..Len(ring) : Attach(k, "closing") /\ ring' = Left(k)
      BY <2>5 DEF OpenThrows
    <3> QED
      BY <2>0, <2>2, <3>1, RingParts DEF Stored
  <2>6. CASE UNCHANGED <<published, ring, got>>
    BY <1>1, <2>0, <2>6 DEF Stored
  <2> QED
    BY <1>1, <2>1, <2>3, <2>4, <2>5, <2>6 DEF Next, Dies, Close, vars
<1>2. BusInv /\ [Next]_vars
        => [\A e \in 1..published' :
              e \in Stored \/ e > published
                 => e \in Stored' \/ (OpenHalfClosed /\ e \in Elements(ring))]_vars
  BY <1>1
<1> QED
  BY <1>2, InitInv, NextInv, PTL DEF Spec, OnlyHalfClosedLoses
=============================================================================
