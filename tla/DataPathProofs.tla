--------------------------- MODULE DataPathProofs ---------------------------
(***************************************************************************)
(* The safety of DataPath for every number of chunks and consumers.        *)
(*                                                                         *)
(* The two parts have an invariant each.  RawInv adds to what is checked   *)
(* that nobody is counted before the port is known, and that a collection  *)
(* stops at its target.  WorkerInv is about where the chunks are; PipeInv  *)
(* says, for as long as the thread has not failed, in which order: they    *)
(* are numbered through from what has been parsed, over the messages of    *)
(* the thread, to what waits for it.                                       *)
(***************************************************************************)
EXTENDS DataPath, TLAPS

-----------------------------------------------------------------------------
(* The consumers of the raw data.                                          *)

RawInv ==
    /\ RawTypeOK
    /\ NoIdleListener
    /\ ~ready => count = 0
    /\ collecting => packetCount < Target

LEMMA RawInitOK == RawInit => RawInv
  <1> SUFFICES ASSUME RawInit PROVE RawInv
    OBVIOUS
  <1>1. Consumers = 0 /\ count = 0 /\ packetCount \in 0..Target /\ count \in 0..2
    BY TargetAssumption DEF RawInit, Consumers
  <1>2. ~listening /\ ~collecting /\ ~ready /\ {ready, listening, collecting} \subseteq BOOLEAN
    BY DEF RawInit
  <1>3. subscribers = {} /\ saving = {}
    BY DEF RawInit
  <1>4. NoIdleListener
    BY <1>1, <1>2 DEF NoIdleListener
  <1> QED BY <1>1, <1>2, <1>3, <1>4 DEF RawInv, RawTypeOK

\* What a consumer that starts, and one that stops, does to the count, when n is the number
\* of consumers afterwards.
LEMMA AttachOK ==
  ASSUME RawInv, AttachRawListener, ready' = ready, NEW n \in 0..2, n = Consumers + 1
  PROVE  /\ count' \in 0..2 /\ count' <= n /\ (listening' <=> count' > 0)
         /\ listening' \in BOOLEAN /\ (~ready' => count' = 0)
  <1>1. /\ count \in 0..2 /\ count <= Consumers /\ Consumers \in 0..2
        /\ ready \in BOOLEAN /\ listening \in BOOLEAN
    BY DEF RawInv, RawTypeOK, NoIdleListener, Consumers
  <1>2. CASE ready
    <2>1. count' = count + 1 /\ listening' = TRUE
      BY <1>2 DEF AttachRawListener
    <2> QED BY <1>1, <1>2, <2>1
  <1>3. CASE ~ready
    <2>1. count' = count /\ listening' = listening /\ count = 0
      BY <1>1, <1>3 DEF AttachRawListener, RawInv
    <2> QED BY <1>1, <1>3, <2>1 DEF RawInv, NoIdleListener
  <1> QED BY <1>2, <1>3

LEMMA DetachOK ==
  ASSUME RawInv, DetachRawListener, ready' = ready, NEW n \in 0..2, n + 1 = Consumers
  PROVE  /\ count' \in 0..2 /\ count' <= n /\ (listening' <=> count' > 0)
         /\ listening' \in BOOLEAN /\ (~ready' => count' = 0)
  <1>1. /\ count \in 0..2 /\ count <= Consumers /\ Consumers \in 0..2
        /\ ready \in BOOLEAN /\ listening \in BOOLEAN /\ (listening <=> count > 0)
    BY DEF RawInv, RawTypeOK, NoIdleListener, Consumers
  <1>2. CASE ready /\ count > 0
    <2>1. count' = count - 1 /\ listening' = (listening /\ count' # 0)
      BY <1>2 DEF DetachRawListener
    <2>2. count' \in 0..2 /\ count' <= n
      BY <1>1, <1>2, <2>1
    <2>3. listening' <=> count' # 0
      BY <1>1, <1>2, <2>1
    <2> QED BY <1>1, <1>2, <2>1, <2>2, <2>3
  <1>3. CASE ~(ready /\ count > 0)
    <2>1. count' = count /\ listening' = listening /\ count = 0
      BY <1>1, <1>3 DEF DetachRawListener, RawInv
    <2> QED BY <1>1, <1>3, <2>1
  <1> QED BY <1>2, <1>3

\* The count is right when the number of consumers is n.
CountOK(n) ==
    /\ count \in 0..2 /\ count <= n /\ (listening <=> count > 0)
    /\ listening \in BOOLEAN /\ (~ready => count = 0)

LEMMA CountIsEnough ==
  ASSUME RawInv, NEW n, n = Consumers', CountOK(n)', ready' \in BOOLEAN, collecting' \in BOOLEAN,
         subscribers' \subseteq Sockets, saving' \subseteq BOOLEAN, packetCount' \in 0..Target,
         collecting' => packetCount' < Target
  PROVE  RawInv'
  BY DEF RawInv, RawTypeOK, NoIdleListener, CountOK

LEMMA StreamOK ==
  ASSUME RawInv, NEW s \in Sockets, StartStream(s) \/ StopStream(s)
  PROVE  RawInv'
  <1> DEFINE n == IF collecting THEN 1 ELSE 0
  <1>1. /\ UNCHANGED <<ready, collecting, packetCount, saving>> /\ ready \in BOOLEAN
        /\ collecting \in BOOLEAN /\ packetCount \in 0..Target /\ saving \subseteq BOOLEAN
        /\ collecting => packetCount < Target
        /\ subscribers' \subseteq Sockets
    BY DEF RawInv, RawTypeOK, StartStream, StopStream
  <1>2. /\ n \in 0..1 /\ Consumers = (IF subscribers = {} THEN 0 ELSE 1) + n
        /\ Consumers' = (IF subscribers' = {} THEN 0 ELSE 1) + n
    BY <1>1 DEF Consumers
  <1>3. CountOK(Consumers)
    BY DEF RawInv, RawTypeOK, NoIdleListener, CountOK
  <1>4. CASE subscribers = {} /\ subscribers' # {}
    <2>1. AttachRawListener
      BY <1>4 DEF StartStream, StopStream
    <2>2. n + 1 \in 0..2 /\ n + 1 = Consumers + 1 /\ Consumers' = n + 1
      BY <1>2, <1>4
    <2> QED BY <1>1, <2>1, <2>2, AttachOK, CountIsEnough DEF CountOK
  <1>5. CASE subscribers # {} /\ subscribers' = {}
    <2>1. DetachRawListener
      BY <1>5 DEF StartStream, StopStream
    <2>2. n \in 0..2 /\ n + 1 = Consumers /\ Consumers' = n
      BY <1>2, <1>5
    <2> QED BY <1>1, <2>1, <2>2, DetachOK, CountIsEnough DEF CountOK
  <1>6. CASE subscribers # {} /\ subscribers' # {}
    <2>1. UNCHANGED <<count, listening>>
      BY <1>6 DEF StartStream, StopStream
    <2>2. Consumers' = Consumers
      BY <1>2, <1>6
    <2>3. CountOK(Consumers)'
      BY <1>1, <1>3, <2>1, <2>2 DEF CountOK
    <2> QED BY <1>1, <2>2, <2>3, CountIsEnough
  <1> QED BY <1>4, <1>5, <1>6 DEF StartStream, StopStream

\* The collection starts, or stops.
LEMMA CollectionOK ==
  ASSUME RawInv, UNCHANGED <<ready, subscribers>>, saving' \subseteq BOOLEAN,
         packetCount' \in 0..Target, collecting' => packetCount' < Target,
         \/ ~collecting /\ collecting' = TRUE /\ AttachRawListener
         \/ collecting /\ collecting' = FALSE /\ DetachRawListener
         \/ UNCHANGED <<collecting, count, listening>>
  PROVE  RawInv'
  <1> DEFINE n == IF subscribers = {} THEN 0 ELSE 1
  <1>1. /\ ready \in BOOLEAN /\ collecting \in BOOLEAN /\ subscribers \subseteq Sockets
        /\ n \in 0..1 /\ Consumers = n + (IF collecting THEN 1 ELSE 0)
        /\ Consumers' = n + (IF collecting' THEN 1 ELSE 0)
    BY DEF RawInv, RawTypeOK, Consumers
  <1>2. CountOK(Consumers)
    BY DEF RawInv, RawTypeOK, NoIdleListener, CountOK
  <1>3. CASE ~collecting /\ collecting' = TRUE /\ AttachRawListener
    <2>1. n + 1 \in 0..2 /\ n + 1 = Consumers + 1 /\ Consumers' = n + 1
      BY <1>1, <1>3
    <2> QED BY <1>1, <1>3, <2>1, AttachOK, CountIsEnough DEF CountOK
  <1>4. CASE collecting /\ collecting' = FALSE /\ DetachRawListener
    <2>1. n \in 0..2 /\ n + 1 = Consumers /\ Consumers' = n
      BY <1>1, <1>4
    <2> QED BY <1>1, <1>4, <2>1, DetachOK, CountIsEnough DEF CountOK
  <1>5. CASE UNCHANGED <<collecting, count, listening>>
    <2>1. Consumers' = Consumers
      BY <1>1, <1>5
    <2>2. CountOK(Consumers)'
      BY <1>2, <1>5, <2>1 DEF CountOK
    <2> QED BY <1>1, <1>5, <2>1, <2>2, CountIsEnough
  <1> QED BY <1>3, <1>4, <1>5

LEMMA UpdateConsentOK ==
  ASSUME RawInv, NEW consent \in BOOLEAN, UpdateConsent(consent)
  PROVE  RawInv'
  <1>1. saving' \subseteq BOOLEAN /\ UNCHANGED <<ready, count, listening, subscribers, collecting, packetCount>>
        /\ packetCount \in 0..Target /\ (collecting => packetCount < Target)
    BY DEF RawInv, RawTypeOK, UpdateConsent
  <1> QED BY <1>1, CollectionOK

LEMMA ConsentSavedOK ==
  ASSUME RawInv, NEW consent \in BOOLEAN, ConsentSaved(consent)
  PROVE  RawInv'
  <1>1. /\ saving' \subseteq BOOLEAN /\ UNCHANGED <<ready, subscribers>>
        /\ packetCount \in 0..Target /\ (collecting => packetCount < Target)
    BY DEF RawInv, RawTypeOK, ConsentSaved
  <1>2. CASE consent /\ StartCollection
    <2>1. ~collecting /\ collecting' = TRUE /\ AttachRawListener /\ packetCount' = 0
      BY <1>2 DEF StartCollection
    <2>2. packetCount' \in 0..Target /\ packetCount' < Target
      BY <2>1, TargetAssumption
    <2> QED BY <1>1, <2>1, <2>2, CollectionOK
  <1>3. CASE ~consent /\ StopCollection
    <2>1. collecting /\ collecting' = FALSE /\ DetachRawListener /\ packetCount' = packetCount
      BY <1>3 DEF StopCollection
    <2> QED BY <1>1, <2>1, CollectionOK
  <1>4. CASE UNCHANGED <<count, listening, collecting, packetCount>>
    BY <1>1, <1>4, CollectionOK
  <1> QED BY <1>2, <1>3, <1>4 DEF ConsentSaved

LEMMA RawDataOK == RawInv /\ RawData => RawInv'
  <1> SUFFICES ASSUME RawInv, RawData PROVE RawInv'
    OBVIOUS
  <1>1. /\ saving' \subseteq BOOLEAN /\ UNCHANGED <<ready, subscribers>>
        /\ packetCount \in 0..Target /\ (collecting => packetCount < Target)
    BY DEF RawInv, RawTypeOK, RawData
  <1>2. CASE HandlePacket
    <2>1. collecting /\ packetCount' = packetCount + 1
      BY <1>2 DEF HandlePacket
    <2>2. packetCount' \in 0..Target /\ (packetCount' # Target => packetCount' < Target)
      BY <1>1, <2>1, TargetAssumption
    <2>3. CASE packetCount' = Target
      <3>1. collecting' = FALSE /\ DetachRawListener
        BY <1>2, <2>3 DEF HandlePacket
      <3> QED BY <1>1, <2>1, <2>2, <3>1, CollectionOK
    <2>4. CASE packetCount' # Target
      <3>1. UNCHANGED <<collecting, count, listening>>
        BY <1>2, <2>4 DEF HandlePacket
      <3> QED BY <1>1, <2>2, <2>4, <3>1, CollectionOK
    <2> QED BY <2>3, <2>4
  <1>3. CASE UNCHANGED <<collecting, packetCount, count, listening>>
    BY <1>1, <1>3, CollectionOK
  <1> QED BY <1>2, <1>3 DEF RawData

LEMMA RawSameOK == RawInv /\ UNCHANGED rawVars => RawInv'
  BY DEF rawVars, consumerVars, RawInv, RawTypeOK, NoIdleListener, Consumers

LEMMA RawStepOK == RawInv /\ RawNext => RawInv'
  <1> SUFFICES ASSUME RawInv, RawNext PROVE RawInv'
    OBVIOUS
  <1>1. CASE BridgeReady
    <2>1. /\ ready' = TRUE /\ UNCHANGED <<count, listening>>
          /\ UNCHANGED <<subscribers, collecting, packetCount, saving>>
      BY <1>1 DEF BridgeReady, consumerVars
    <2>2. Consumers' = Consumers
      BY <2>1 DEF Consumers
    <2>3. {ready', listening', collecting'} \subseteq BOOLEAN
      BY <2>1 DEF RawInv, RawTypeOK
    <2> QED BY <2>1, <2>2, <2>3 DEF RawInv, RawTypeOK, NoIdleListener
  <1>2. CASE \E s \in Sockets : StartStream(s) \/ StopStream(s)
    BY <1>2, StreamOK
  <1>3. CASE \E consent \in BOOLEAN : UpdateConsent(consent) \/ ConsentSaved(consent)
    BY <1>3, UpdateConsentOK, ConsentSavedOK
  <1> QED BY <1>1, <1>2, <1>3 DEF RawNext

-----------------------------------------------------------------------------
(* The elements of sequences.                                              *)

LEMMA AppendElements ==
  ASSUME NEW S, NEW s \in Seq(S), NEW x \in S
  PROVE  /\ Append(s, x) \in Seq(S) /\ Len(Append(s, x)) = Len(s) + 1
         /\ ToSet(Append(s, x)) = ToSet(s) \cup {x}
         /\ IsInjective(s) /\ x \notin ToSet(s) => IsInjective(Append(s, x))
  <1>1. /\ Append(s, x) \in Seq(S) /\ Len(Append(s, x)) = Len(s) + 1 /\ Len(s) \in Nat
        /\ DOMAIN s = 1..Len(s) /\ DOMAIN Append(s, x) = 1..(Len(s) + 1)
        /\ \A i \in 1..Len(s) : Append(s, x)[i] = s[i]
        /\ Append(s, x)[Len(s) + 1] = x
    OBVIOUS
  <1>2. ToSet(Append(s, x)) = ToSet(s) \cup {x}
    BY <1>1 DEF ToSet
  <1>3. IsInjective(s) /\ x \notin ToSet(s) => IsInjective(Append(s, x))
    BY <1>1 DEF ToSet, IsInjective
  <1> QED BY <1>1, <1>2, <1>3

LEMMA TailElements ==
  ASSUME NEW S, NEW s \in Seq(S), s # <<>>
  PROVE  /\ Tail(s) \in Seq(S) /\ Len(Tail(s)) = Len(s) - 1 /\ Head(s) \in S
         /\ ToSet(s) = ToSet(Tail(s)) \cup {Head(s)}
         /\ IsInjective(s) => IsInjective(Tail(s)) /\ Head(s) \notin ToSet(Tail(s))
  <1>1. /\ Tail(s) \in Seq(S) /\ Len(Tail(s)) = Len(s) - 1 /\ Len(s) \in Nat \ {0}
        /\ DOMAIN s = 1..Len(s) /\ DOMAIN Tail(s) = 1..(Len(s) - 1)
        /\ \A i \in 1..(Len(s) - 1) : Tail(s)[i] = s[i + 1]
        /\ Head(s) = s[1] /\ Head(s) \in S
    OBVIOUS
  <1>2. ToSet(s) = ToSet(Tail(s)) \cup {Head(s)}
    <2>1. ASSUME NEW i \in 1..Len(s) PROVE i = 1 \/ (i - 1 \in 1..(Len(s) - 1) /\ (i - 1) + 1 = i)
      BY <1>1
    <2>2. ASSUME NEW i \in 1..(Len(s) - 1) PROVE i + 1 \in 1..Len(s)
      BY <1>1
    <2>3. ASSUME NEW x \in ToSet(s) PROVE x \in ToSet(Tail(s)) \cup {Head(s)}
      <3>1. PICK i \in 1..Len(s) : x = s[i]
        BY <1>1 DEF ToSet
      <3>2. CASE i = 1
        BY <1>1, <3>1, <3>2
      <3>3. CASE i # 1
        <4>1. i - 1 \in 1..(Len(s) - 1) /\ Tail(s)[i - 1] = s[i]
          BY <1>1, <2>1, <3>3
        <4> QED BY <1>1, <3>1, <4>1 DEF ToSet
      <3> QED BY <3>2, <3>3
    <2>4. ASSUME NEW x \in ToSet(Tail(s)) PROVE x \in ToSet(s)
      BY <1>1, <2>2, <2>4 DEF ToSet
    <2>5. Head(s) \in ToSet(s)
      BY <1>1 DEF ToSet
    <2> QED BY <2>3, <2>4, <2>5
  <1>3. IsInjective(s) => IsInjective(Tail(s)) /\ Head(s) \notin ToSet(Tail(s))
    BY <1>1 DEF ToSet, IsInjective
  <1> QED BY <1>1, <1>2, <1>3

LEMMA ConcatElements ==
  ASSUME NEW S, NEW s \in Seq(S), NEW t \in Seq(S)
  PROVE  /\ s \o t \in Seq(S) /\ Len(s \o t) = Len(s) + Len(t)
         /\ ToSet(s \o t) = ToSet(s) \cup ToSet(t)
         /\ IsInjective(s) /\ IsInjective(t) /\ ToSet(s) \cap ToSet(t) = {} => IsInjective(s \o t)
  <1>1. /\ s \o t \in Seq(S) /\ Len(s \o t) = Len(s) + Len(t) /\ Len(s) \in Nat /\ Len(t) \in Nat
        /\ DOMAIN s = 1..Len(s) /\ DOMAIN t = 1..Len(t) /\ DOMAIN (s \o t) = 1..(Len(s) + Len(t))
        /\ \A i \in 1..(Len(s) + Len(t)) :
              (s \o t)[i] = IF i <= Len(s) THEN s[i] ELSE t[i - Len(s)]
    OBVIOUS
  <1>2. ASSUME NEW i \in 1..(Len(s) + Len(t))
        PROVE  \/ i \in 1..Len(s) /\ (s \o t)[i] = s[i]
               \/ i - Len(s) \in 1..Len(t) /\ (s \o t)[i] = t[i - Len(s)] /\ ~(i \in 1..Len(s))
    BY <1>1
  <1>3. ToSet(s \o t) = ToSet(s) \cup ToSet(t)
    <2>1. ASSUME NEW i \in 1..Len(s) PROVE i \in 1..(Len(s) + Len(t)) /\ (s \o t)[i] = s[i]
      BY <1>1
    <2>2. ASSUME NEW i \in 1..Len(t)
          PROVE  i + Len(s) \in 1..(Len(s) + Len(t)) /\ (s \o t)[i + Len(s)] = t[i]
      BY <1>1
    <2>3. ASSUME NEW x \in ToSet(s \o t) PROVE x \in ToSet(s) \cup ToSet(t)
      <3>1. PICK i \in 1..(Len(s) + Len(t)) : x = (s \o t)[i]
        BY <1>1 DEF ToSet
      <3> QED BY <1>1, <1>2, <3>1 DEF ToSet
    <2>4. ASSUME NEW x \in ToSet(s) PROVE x \in ToSet(s \o t)
      BY <1>1, <2>1 DEF ToSet
    <2>5. ASSUME NEW x \in ToSet(t) PROVE x \in ToSet(s \o t)
      <3>1. PICK i \in 1..Len(t) : x = t[i]
        BY <1>1 DEF ToSet
      <3>2. i + Len(s) \in DOMAIN (s \o t) /\ (s \o t)[i + Len(s)] = x
        BY <1>1, <2>2, <3>1
      <3> QED BY <3>2 DEF ToSet
    <2> QED BY <2>3, <2>4, <2>5
  <1>4. ASSUME IsInjective(s), IsInjective(t), ToSet(s) \cap ToSet(t) = {}
        PROVE  IsInjective(s \o t)
    <2> SUFFICES ASSUME NEW i \in 1..(Len(s) + Len(t)), NEW k \in 1..(Len(s) + Len(t)),
                        (s \o t)[i] = (s \o t)[k]
                 PROVE  i = k
      BY <1>1 DEF IsInjective
    <2>1. CASE i \in 1..Len(s) /\ k \in 1..Len(s)
      BY <1>1, <1>2, <1>4, <2>1 DEF IsInjective
    <2>2. CASE i - Len(s) \in 1..Len(t) /\ k - Len(s) \in 1..Len(t)
                /\ ~(i \in 1..Len(s)) /\ ~(k \in 1..Len(s))
      <3>1. i - Len(s) = k - Len(s)
        BY <1>1, <1>2, <1>4, <2>2 DEF IsInjective
      <3> QED BY <1>1, <3>1
    <2>3. CASE i \in 1..Len(s) /\ ~(k \in 1..Len(s))
      BY <1>1, <1>2, <1>4, <2>3 DEF ToSet
    <2>4. CASE ~(i \in 1..Len(s)) /\ k \in 1..Len(s)
      BY <1>1, <1>2, <1>4, <2>4 DEF ToSet
    <2> QED BY <1>2, <2>1, <2>2, <2>3, <2>4
  <1> QED BY <1>1, <1>3, <1>4

LEMMA ConcatAssociative ==
  ASSUME NEW S, NEW s \in Seq(S), NEW t \in Seq(S), NEW u \in Seq(S)
  PROVE  s \o (t \o u) = (s \o t) \o u
  OBVIOUS

LEMMA EmptyElements == ToSet(<<>>) = {} /\ IsInjective(<<>>)
  BY DEF ToSet, IsInjective

LEMMA SingleElement ==
  ASSUME NEW x PROVE ToSet(<<x>>) = {x} /\ IsInjective(<<x>>)
  BY DEF ToSet, IsInjective

\* A sequence of the chunks 1..n also is one of the chunks 1..k for a greater k.
LEMMA SeqGrows ==
  ASSUME NEW S, NEW T, S \subseteq T, NEW s \in Seq(S)
  PROVE  s \in Seq(T)
  OBVIOUS

-----------------------------------------------------------------------------
(* The messages of the thread.                                             *)

\* A message holds a chunk or none, that the thread is ready none.
MessagesOf(n) ==
    {m \in [type : {"ready", "packets", "error"}, chunks : {<<>>} \cup {<<c>> : c \in 1..n}] :
        m.type = "ready" => m.chunks = <<>>}
ChunksIn(q) == UNION {ToSet(q[i].chunks) : i \in DOMAIN q}
MessagesApart(q) ==
    \A i, k \in DOMAIN q : i # k => ToSet(q[i].chunks) \cap ToSet(q[k].chunks) = {}

LEMMA MessageFacts ==
  ASSUME NEW n \in Nat, NEW m \in MessagesOf(n)
  PROVE  /\ m.chunks \in Seq(1..n) /\ IsInjective(m.chunks)
         /\ ToSet(m.chunks) \subseteq 1..n
  <1>1. m.chunks = <<>> \/ \E c \in 1..n : m.chunks = <<c>>
    BY DEF MessagesOf
  <1>2. CASE m.chunks = <<>>
    BY <1>2, EmptyElements
  <1>3. ASSUME NEW c \in 1..n, m.chunks = <<c>>
        PROVE  /\ m.chunks \in Seq(1..n) /\ IsInjective(m.chunks)
               /\ ToSet(m.chunks) \subseteq 1..n
    BY <1>3, SingleElement
  <1> QED BY <1>1, <1>2, <1>3

LEMMA AppendMessage ==
  ASSUME NEW S, NEW q \in Seq(S), NEW m \in S
  PROVE  /\ Append(q, m) \in Seq(S)
         /\ ChunksIn(Append(q, m)) = ChunksIn(q) \cup ToSet(m.chunks)
         /\ MessagesApart(q) /\ ToSet(m.chunks) \cap ChunksIn(q) = {} => MessagesApart(Append(q, m))
  <1>1. /\ Append(q, m) \in Seq(S) /\ Len(q) \in Nat
        /\ DOMAIN q = 1..Len(q) /\ DOMAIN Append(q, m) = 1..(Len(q) + 1)
        /\ \A i \in 1..Len(q) : Append(q, m)[i] = q[i]
        /\ Append(q, m)[Len(q) + 1] = m
    OBVIOUS
  <1>2. ASSUME NEW i \in 1..(Len(q) + 1) PROVE i \in 1..Len(q) \/ i = Len(q) + 1
    BY <1>1
  <1>3. ASSUME NEW i \in 1..Len(q) PROVE i \in 1..(Len(q) + 1) /\ i # Len(q) + 1
    BY <1>1
  <1>4. Len(q) + 1 \in 1..(Len(q) + 1)
    BY <1>1
  <1>5. ChunksIn(Append(q, m)) = ChunksIn(q) \cup ToSet(m.chunks)
    <2>1. ASSUME NEW x \in ChunksIn(Append(q, m)) PROVE x \in ChunksIn(q) \cup ToSet(m.chunks)
      <3>1. PICK i \in 1..(Len(q) + 1) : x \in ToSet(Append(q, m)[i].chunks)
        BY <1>1 DEF ChunksIn
      <3> QED BY <1>1, <1>2, <3>1 DEF ChunksIn
    <2>2. ASSUME NEW x \in ChunksIn(q) PROVE x \in ChunksIn(Append(q, m))
      <3>1. PICK i \in 1..Len(q) : x \in ToSet(q[i].chunks)
        BY <1>1 DEF ChunksIn
      <3>2. i \in DOMAIN Append(q, m) /\ x \in ToSet(Append(q, m)[i].chunks)
        BY <1>1, <1>3, <3>1
      <3> QED BY <3>2 DEF ChunksIn
    <2>3. ASSUME NEW x \in ToSet(m.chunks) PROVE x \in ChunksIn(Append(q, m))
      BY <1>1, <1>4, <2>3 DEF ChunksIn
    <2> QED BY <2>1, <2>2, <2>3
  <1>6. ASSUME MessagesApart(q), ToSet(m.chunks) \cap ChunksIn(q) = {}
        PROVE  MessagesApart(Append(q, m))
    <2>1. \A i \in 1..Len(q) : ToSet(q[i].chunks) \cap ToSet(m.chunks) = {}
      BY <1>1, <1>6 DEF ChunksIn
    <2> QED BY <1>1, <1>2, <1>6, <2>1 DEF MessagesApart
  <1> QED BY <1>1, <1>5, <1>6

LEMMA TailMessage ==
  ASSUME NEW S, NEW q \in Seq(S), q # <<>>
  PROVE  /\ Tail(q) \in Seq(S) /\ Head(q) \in S
         /\ ChunksIn(q) = ChunksIn(Tail(q)) \cup ToSet(Head(q).chunks)
         /\ MessagesApart(q) => /\ MessagesApart(Tail(q))
                                /\ ToSet(Head(q).chunks) \cap ChunksIn(Tail(q)) = {}
  <1>1. /\ Tail(q) \in Seq(S) /\ Len(q) \in Nat \ {0}
        /\ DOMAIN q = 1..Len(q) /\ DOMAIN Tail(q) = 1..(Len(q) - 1)
        /\ \A i \in 1..(Len(q) - 1) : Tail(q)[i] = q[i + 1]
        /\ Head(q) = q[1] /\ Head(q) \in S
    OBVIOUS
  <1>2. ASSUME NEW i \in 1..Len(q) PROVE i = 1 \/ (i - 1 \in 1..(Len(q) - 1) /\ (i - 1) + 1 = i)
    BY <1>1
  <1>3. ASSUME NEW i \in 1..(Len(q) - 1) PROVE i + 1 \in 1..Len(q) /\ i + 1 # 1
    BY <1>1
  <1>4. 1 \in 1..Len(q)
    BY <1>1
  <1>5. ChunksIn(q) = ChunksIn(Tail(q)) \cup ToSet(Head(q).chunks)
    <2>1. ASSUME NEW x \in ChunksIn(q) PROVE x \in ChunksIn(Tail(q)) \cup ToSet(Head(q).chunks)
      <3>1. PICK i \in 1..Len(q) : x \in ToSet(q[i].chunks)
        BY <1>1 DEF ChunksIn
      <3>2. CASE i # 1
        <4>1. i - 1 \in DOMAIN Tail(q) /\ Tail(q)[i - 1] = q[i]
          BY <1>1, <1>2, <3>2
        <4> QED BY <3>1, <4>1 DEF ChunksIn
      <3> QED BY <1>1, <3>1, <3>2
    <2>2. ASSUME NEW x \in ChunksIn(Tail(q)) PROVE x \in ChunksIn(q)
      <3>1. PICK i \in 1..(Len(q) - 1) : x \in ToSet(Tail(q)[i].chunks)
        BY <1>1 DEF ChunksIn
      <3>2. i + 1 \in DOMAIN q /\ x \in ToSet(q[i + 1].chunks)
        BY <1>1, <1>3, <3>1
      <3> QED BY <3>2 DEF ChunksIn
    <2>3. ASSUME NEW x \in ToSet(Head(q).chunks) PROVE x \in ChunksIn(q)
      BY <1>1, <1>4, <2>3 DEF ChunksIn
    <2> QED BY <2>1, <2>2, <2>3
  <1>6. ASSUME MessagesApart(q)
        PROVE  MessagesApart(Tail(q)) /\ ToSet(Head(q).chunks) \cap ChunksIn(Tail(q)) = {}
    <2>1. \A i \in 1..(Len(q) - 1) :
             Tail(q)[i] = q[i + 1] /\ i + 1 \in 1..Len(q) /\ i + 1 # 1
      BY <1>1, <1>3
    <2>2. ToSet(Head(q).chunks) \cap ChunksIn(Tail(q)) = {}
      <3> SUFFICES ASSUME NEW x \in ChunksIn(Tail(q)) PROVE x \notin ToSet(Head(q).chunks)
        OBVIOUS
      <3>1. PICK i \in 1..(Len(q) - 1) : x \in ToSet(Tail(q)[i].chunks)
        BY <1>1 DEF ChunksIn
      <3>2. /\ i + 1 \in DOMAIN q /\ 1 \in DOMAIN q /\ i + 1 # 1 /\ Tail(q)[i] = q[i + 1]
        BY <1>1, <1>4, <2>1
      <3>3. ToSet(q[i + 1].chunks) \cap ToSet(q[1].chunks) = {}
        BY <1>6, <3>2 DEF MessagesApart
      <3> QED BY <1>1, <3>1, <3>2, <3>3
    <2>3. \A i, k \in 1..(Len(q) - 1) : i # k => i + 1 # k + 1
      BY <1>1
    <2>4. MessagesApart(Tail(q))
      <3> SUFFICES ASSUME NEW i \in 1..(Len(q) - 1), NEW k \in 1..(Len(q) - 1), i # k
                   PROVE  ToSet(Tail(q)[i].chunks) \cap ToSet(Tail(q)[k].chunks) = {}
        BY <1>1 DEF MessagesApart
      <3>1. /\ i + 1 \in DOMAIN q /\ k + 1 \in DOMAIN q /\ i + 1 # k + 1
            /\ Tail(q)[i] = q[i + 1] /\ Tail(q)[k] = q[k + 1]
        BY <1>1, <2>1, <2>3
      <3>2. ToSet(q[i + 1].chunks) \cap ToSet(q[k + 1].chunks) = {}
        BY <1>6, <3>1 DEF MessagesApart
      <3> QED BY <3>1, <3>2
    <2> QED BY <2>2, <2>4
  <1> QED BY <1>1, <1>5, <1>6

LEMMA NoMessages == ChunksIn(<<>>) = {} /\ MessagesApart(<<>>)
  BY DEF ChunksIn, MessagesApart

-----------------------------------------------------------------------------
(* Where the chunks are.                                                   *)

Apart(A, B, C, D, E) ==
    /\ A \cap B = {} /\ A \cap C = {} /\ A \cap D = {} /\ A \cap E = {}
    /\ B \cap C = {} /\ B \cap D = {} /\ B \cap E = {}
    /\ C \cap D = {} /\ C \cap E = {} /\ D \cap E = {}

\* The chunks 1..n are in p, t, the messages m, d and l, each of them once.
OnePlace(p, t, m, d, l, n) ==
    /\ n \in Nat /\ p \in Seq(1..n) /\ t \in Seq(1..n) /\ m \in Seq(MessagesOf(n)) /\ d \in Seq(1..n)
    /\ IsInjective(p) /\ IsInjective(t) /\ MessagesApart(m) /\ IsInjective(d)
    /\ ToSet(p) \cup ToSet(t) \cup ChunksIn(m) \cup ToSet(d) \cup l = 1..n
    /\ Apart(ToSet(p), ToSet(t), ChunksIn(m), ToSet(d), l)

\* A chunk that arrives can be put at the end of one of the sequences.
LEMMA Arrives ==
  ASSUME NEW p, NEW t, NEW m, NEW d, NEW l, NEW n, OnePlace(p, t, m, d, l, n)
  PROVE  /\ OnePlace(Append(p, n + 1), t, m, d, l, n + 1)
         /\ OnePlace(p, Append(t, n + 1), m, d, l, n + 1)
         /\ OnePlace(p, t, m, Append(d, n + 1), l, n + 1)
  <1> DEFINE c == n + 1
  <1>1. n \in Nat /\ 1..n \subseteq 1..c /\ c \in 1..c /\ 1..c = (1..n) \cup {c} /\ c \notin 1..n
        /\ c \in Nat
    BY DEF OnePlace
  <1>2. MessagesOf(n) \subseteq MessagesOf(c)
    BY <1>1 DEF MessagesOf
  <1>3. /\ p \in Seq(1..c) /\ t \in Seq(1..c) /\ m \in Seq(MessagesOf(c)) /\ d \in Seq(1..c)
    BY <1>1, <1>2, SeqGrows DEF OnePlace
  <1>4. /\ ToSet(p) \cup ToSet(t) \cup ChunksIn(m) \cup ToSet(d) \cup l = 1..n
        /\ IsInjective(p) /\ IsInjective(t) /\ MessagesApart(m) /\ IsInjective(d)
        /\ Apart(ToSet(p), ToSet(t), ChunksIn(m), ToSet(d), l)
    BY DEF OnePlace
  <1> HIDE DEF c
  <1>5. c \notin ToSet(p) /\ c \notin ToSet(t) /\ c \notin ToSet(d) /\ c \notin ChunksIn(m) /\ c \notin l
    BY <1>1, <1>4
  <1>6. OnePlace(Append(p, c), t, m, d, l, c)
    <2>1. /\ Append(p, c) \in Seq(1..c) /\ ToSet(Append(p, c)) = ToSet(p) \cup {c}
          /\ IsInjective(Append(p, c))
      BY <1>1, <1>3, <1>4, <1>5, AppendElements
    <2> QED BY <1>1, <1>3, <1>4, <1>5, <2>1 DEF OnePlace, Apart
  <1>7. OnePlace(p, Append(t, c), m, d, l, c)
    <2>1. /\ Append(t, c) \in Seq(1..c) /\ ToSet(Append(t, c)) = ToSet(t) \cup {c}
          /\ IsInjective(Append(t, c))
      BY <1>1, <1>3, <1>4, <1>5, AppendElements
    <2> QED BY <1>1, <1>3, <1>4, <1>5, <2>1 DEF OnePlace, Apart
  <1>8. OnePlace(p, t, m, Append(d, c), l, c)
    <2>1. /\ Append(d, c) \in Seq(1..c) /\ ToSet(Append(d, c)) = ToSet(d) \cup {c}
          /\ IsInjective(Append(d, c))
      BY <1>1, <1>3, <1>4, <1>5, AppendElements
    <2> QED BY <1>1, <1>3, <1>4, <1>5, <2>1 DEF OnePlace, Apart
  <1> QED BY <1>6, <1>7, <1>8 DEF c

\* The moves of chunks that have arrived: all that are held back to the end of the two other
\* sequences or out with the thread, those posted out with the thread, ...
LEMMA MoveAll ==
  ASSUME NEW p, NEW t, NEW m, NEW d, NEW l, NEW n, OnePlace(p, t, m, d, l, n)
  PROVE  /\ OnePlace(<<>>, t \o p, m, d, l, n)
         /\ OnePlace(<<>>, t, m, d \o p, l, n)
         /\ OnePlace(<<>>, t, m, d, l \cup ToSet(p), n)
         /\ OnePlace(p, <<>>, m, d, l \cup ToSet(t), n)
  <1>1. /\ n \in Nat /\ p \in Seq(1..n) /\ t \in Seq(1..n) /\ m \in Seq(MessagesOf(n)) /\ d \in Seq(1..n)
        /\ IsInjective(p) /\ IsInjective(t) /\ MessagesApart(m) /\ IsInjective(d)
        /\ ToSet(p) \cup ToSet(t) \cup ChunksIn(m) \cup ToSet(d) \cup l = 1..n
        /\ Apart(ToSet(p), ToSet(t), ChunksIn(m), ToSet(d), l)
    BY DEF OnePlace
  <1>2. <<>> \in Seq(1..n) /\ ToSet(<<>>) = {} /\ IsInjective(<<>>)
    BY EmptyElements
  <1>3. OnePlace(<<>>, t \o p, m, d, l, n)
    <2>1. ToSet(t) \cap ToSet(p) = {}
      BY <1>1 DEF Apart
    <2>2. t \o p \in Seq(1..n) /\ ToSet(t \o p) = ToSet(t) \cup ToSet(p) /\ IsInjective(t \o p)
      BY <1>1, <2>1, ConcatElements
    <2> QED BY <1>1, <1>2, <2>2 DEF OnePlace, Apart
  <1>4. OnePlace(<<>>, t, m, d \o p, l, n)
    <2>1. ToSet(d) \cap ToSet(p) = {}
      BY <1>1 DEF Apart
    <2>2. d \o p \in Seq(1..n) /\ ToSet(d \o p) = ToSet(d) \cup ToSet(p) /\ IsInjective(d \o p)
      BY <1>1, <2>1, ConcatElements
    <2> QED BY <1>1, <1>2, <2>2 DEF OnePlace, Apart
  <1>5. OnePlace(<<>>, t, m, d, l \cup ToSet(p), n)
    BY <1>1, <1>2 DEF OnePlace, Apart
  <1>6. OnePlace(p, <<>>, m, d, l \cup ToSet(t), n)
    BY <1>1, <1>2 DEF OnePlace, Apart
  <1> QED BY <1>3, <1>4, <1>5, <1>6

\* ... the first one posted into a message, and what is in the first message to the parsed ones.
LEMMA MoveFirst ==
  ASSUME NEW p, NEW t, NEW m, NEW d, NEW l, NEW n, OnePlace(p, t, m, d, l, n),
         NEW type \in {"ready", "packets", "error"}
  PROVE  /\ OnePlace(p, t, Append(m, Message(type, <<>>)), d, l, n)
         /\ t # <<>> /\ type # "ready" =>
               OnePlace(p, Tail(t), Append(m, Message(type, <<Head(t)>>)), d, l, n)
         /\ m # <<>> => OnePlace(p, t, Tail(m), d \o Head(m).chunks, l, n)
  <1>1. /\ n \in Nat /\ p \in Seq(1..n) /\ t \in Seq(1..n) /\ m \in Seq(MessagesOf(n)) /\ d \in Seq(1..n)
        /\ IsInjective(p) /\ IsInjective(t) /\ MessagesApart(m) /\ IsInjective(d)
        /\ ToSet(p) \cup ToSet(t) \cup ChunksIn(m) \cup ToSet(d) \cup l = 1..n
        /\ Apart(ToSet(p), ToSet(t), ChunksIn(m), ToSet(d), l)
    BY DEF OnePlace
  <1>2. OnePlace(p, t, Append(m, Message(type, <<>>)), d, l, n)
    <2> DEFINE new == Message(type, <<>>)
    <2>1. new \in MessagesOf(n) /\ new.chunks = <<>>
      BY DEF Message, MessagesOf
    <2>2. ToSet(new.chunks) = {}
      BY <2>1, EmptyElements
    <2> HIDE DEF new
    <2>3. /\ Append(m, new) \in Seq(MessagesOf(n)) /\ ChunksIn(Append(m, new)) = ChunksIn(m)
          /\ MessagesApart(Append(m, new))
      <3>1. m \in Seq(MessagesOf(n)) /\ MessagesApart(m) /\ ToSet(new.chunks) \cap ChunksIn(m) = {}
        BY <1>1, <2>2
      <3>2. /\ Append(m, new) \in Seq(MessagesOf(n)) /\ MessagesApart(Append(m, new))
            /\ ChunksIn(Append(m, new)) = ChunksIn(m) \cup ToSet(new.chunks)
        BY <2>1, <3>1, AppendMessage
      <3> QED BY <2>2, <3>2
    <2>4. OnePlace(p, t, Append(m, new), d, l, n)
      BY <1>1, <2>3 DEF OnePlace
    <2> QED BY <2>4 DEF new
  <1>3. ASSUME t # <<>>, type # "ready"
        PROVE  OnePlace(p, Tail(t), Append(m, Message(type, <<Head(t)>>)), d, l, n)
    <2> DEFINE c == Head(t)
               new == Message(type, <<c>>)
    <2>1. /\ Tail(t) \in Seq(1..n) /\ c \in 1..n /\ ToSet(t) = ToSet(Tail(t)) \cup {c}
          /\ IsInjective(Tail(t)) /\ c \notin ToSet(Tail(t))
      BY <1>1, <1>3, TailElements
    <2> HIDE DEF c
    <2>2. new \in MessagesOf(n) /\ new.chunks = <<c>>
      BY <1>3, <2>1 DEF Message, MessagesOf
    <2>3. ToSet(new.chunks) = {c}
      BY <2>2, SingleElement
    <2> HIDE DEF new
    <2>4. c \notin ToSet(p) /\ c \notin ToSet(d) /\ c \notin ChunksIn(m) /\ c \notin l
      BY <1>1, <2>1 DEF Apart
    <2>5. /\ Append(m, new) \in Seq(MessagesOf(n)) /\ ChunksIn(Append(m, new)) = ChunksIn(m) \cup {c}
          /\ MessagesApart(Append(m, new))
      <3>1. m \in Seq(MessagesOf(n)) /\ MessagesApart(m) /\ ToSet(new.chunks) \cap ChunksIn(m) = {}
        BY <1>1, <2>3, <2>4
      <3> QED BY <2>2, <2>3, <3>1, AppendMessage
    <2>6. OnePlace(p, Tail(t), Append(m, new), d, l, n)
      BY <1>1, <2>1, <2>4, <2>5 DEF OnePlace, Apart
    <2> QED BY <2>6 DEF new, c
  <1>4. ASSUME m # <<>> PROVE OnePlace(p, t, Tail(m), d \o Head(m).chunks, l, n)
    <2> DEFINE s == Head(m).chunks
    <2>1. /\ Tail(m) \in Seq(MessagesOf(n)) /\ Head(m) \in MessagesOf(n)
          /\ ChunksIn(m) = ChunksIn(Tail(m)) \cup ToSet(s)
          /\ MessagesApart(Tail(m)) /\ ToSet(s) \cap ChunksIn(Tail(m)) = {}
      BY <1>1, <1>4, TailMessage
    <2>2. s \in Seq(1..n) /\ IsInjective(s)
      BY <1>1, <2>1, MessageFacts
    <2> HIDE DEF s
    <2>3. ToSet(d) \cap ToSet(s) = {}
      BY <1>1, <2>1 DEF Apart
    <2>4. d \o s \in Seq(1..n) /\ ToSet(d \o s) = ToSet(d) \cup ToSet(s) /\ IsInjective(d \o s)
      BY <1>1, <2>2, <2>3, ConcatElements
    <2>5. OnePlace(p, t, Tail(m), d \o s, l, n)
      BY <1>1, <2>1, <2>3, <2>4 DEF OnePlace, Apart
    <2> QED BY <2>5 DEF s
  <1> QED BY <1>2, <1>3, <1>4

Places == OnePlace(pendingChunks, toThread, toMain, processed, lost, received)

WorkerInv ==
    /\ worker \in {"starting", "ready", "none"} /\ thread \in {"new", "up", "terminating", "dead"}
    /\ parser \in {"none", "main", "worker"} /\ failed \in BOOLEAN
    /\ received <= Chunks /\ Len(pendingChunks) <= MaxPending
    /\ Places

LEMMA WorkerInitOK == WorkerInit => WorkerInv
  <1> SUFFICES ASSUME WorkerInit PROVE WorkerInv
    OBVIOUS
  <1>1. <<>> \in Seq(1..0) /\ <<>> \in Seq(MessagesOf(0)) /\ 1..0 = {} /\ Len(<<>>) = 0
    OBVIOUS
  <1>2. OnePlace(<<>>, <<>>, <<>>, <<>>, {}, 0)
    BY <1>1, EmptyElements, NoMessages DEF OnePlace, Apart
  <1>3. Places
    BY <1>2 DEF WorkerInit, Places
  <1>4. received <= Chunks /\ Len(pendingChunks) <= MaxPending
    BY <1>1, WorkerAssumption DEF WorkerInit
  <1> QED BY <1>3, <1>4 DEF WorkerInit, WorkerInv

\* What the main thread parses itself, or is told has been parsed, goes to the end of what is.
LEMMA ParsedType ==
  ASSUME WorkerInv, NEW by \in {"main", "worker"}, NEW s, Parsed(by, s)
  PROVE  processed' = processed \o s /\ parser' \in {"none", "main", "worker"}
  BY DEF WorkerInv, Parsed

LEMMA TerminateType ==
  ASSUME WorkerInv, TerminateWorker
  PROVE  worker' = "none" /\ thread' \in {"new", "up", "terminating", "dead"}
  BY DEF WorkerInv, TerminateWorker

LEMMA IncomingOK == WorkerInv /\ Incoming => WorkerInv'
  <1> SUFFICES ASSUME WorkerInv, Incoming PROVE WorkerInv'
    OBVIOUS
  <1> DEFINE c == received + 1
  <1>1. /\ received' = c /\ HandleIncomingChunk(c) /\ UNCHANGED <<toMain, lost, failed>>
        /\ received \in Nat /\ received < Chunks
    BY DEF Incoming, WorkerInv, Places, OnePlace
  <1>2. received' <= Chunks
    BY <1>1, WorkerAssumption
  <1>3. /\ OnePlace(Append(pendingChunks, c), toThread, toMain, processed, lost, c)
        /\ OnePlace(pendingChunks, Append(toThread, c), toMain, processed, lost, c)
        /\ OnePlace(pendingChunks, toThread, toMain, Append(processed, c), lost, c)
    BY Arrives DEF WorkerInv, Places
  <1>4. pendingChunks \in Seq(1..received) /\ Len(pendingChunks) \in Nat /\ Len(<<>>) = 0
        /\ Len(Append(pendingChunks, c)) = Len(pendingChunks) + 1
    BY DEF WorkerInv, Places, OnePlace
  <1> HIDE DEF c
  <1>5. CASE /\ worker = "ready"
             /\ toThread' = Append(toThread, c)
             /\ UNCHANGED <<worker, thread, pendingChunks, output>>
    BY <1>1, <1>2, <1>3, <1>5 DEF WorkerInv, Places, output
  <1>6. CASE /\ worker = "starting" /\ Len(pendingChunks) < MaxPending
             /\ pendingChunks' = Append(pendingChunks, c)
             /\ UNCHANGED <<worker, thread, toThread, output>>
    <2>1. Len(pendingChunks') <= MaxPending
      BY <1>4, <1>6, WorkerAssumption
    <2> QED BY <1>1, <1>2, <1>3, <1>6, <2>1 DEF WorkerInv, Places, output
  <1>7. CASE /\ worker = "starting" /\ Len(pendingChunks) = MaxPending
             /\ FallbackToMain(Append(pendingChunks, c), <<>>)
             /\ UNCHANGED toThread
    <2>1. /\ pendingChunks' = <<>> /\ TerminateWorker
          /\ Parsed("main", Append(pendingChunks, c) \o <<>>)
      BY <1>7 DEF FallbackToMain
    <2>2. Append(pendingChunks, c) \o <<>> = Append(pendingChunks, c)
      BY <1>3 DEF OnePlace
    <2>3. /\ worker' = "none" /\ thread' \in {"new", "up", "terminating", "dead"}
          /\ parser' \in {"none", "main", "worker"}
          /\ processed' = processed \o Append(pendingChunks, c)
      BY <2>1, <2>2, ParsedType, TerminateType
    <2>4. OnePlace(<<>>, toThread, toMain, processed \o Append(pendingChunks, c), lost, c)
      BY <1>3, MoveAll
    <2>5. Len(pendingChunks') <= MaxPending
      BY <1>4, <2>1, WorkerAssumption
    <2>6. Places'
      BY <1>1, <1>7, <2>1, <2>3, <2>4 DEF Places
    <2> QED BY <1>1, <1>2, <2>3, <2>5, <2>6 DEF WorkerInv
  <1>8. CASE /\ worker = "none"
             /\ Parsed("main", <<c>>)
             /\ UNCHANGED <<worker, thread, pendingChunks, toThread>>
    <2>1. processed' = processed \o <<c>> /\ parser' \in {"none", "main", "worker"}
      BY <1>8, ParsedType
    <2>2. processed \o <<c>> = Append(processed, c)
      BY DEF WorkerInv, Places, OnePlace
    <2>3. Places'
      BY <1>1, <1>3, <1>8, <2>1, <2>2 DEF Places
    <2> QED BY <1>1, <1>2, <1>8, <2>1, <2>3 DEF WorkerInv
  <1> QED BY <1>1, <1>5, <1>6, <1>7, <1>8 DEF HandleIncomingChunk

LEMMA ThreadOK == WorkerInv /\ (ThreadStarts \/ ThreadParses \/ ThreadDies) => WorkerInv'
  <1> SUFFICES ASSUME WorkerInv, ThreadStarts \/ ThreadParses \/ ThreadDies PROVE WorkerInv'
    OBVIOUS
  <1>1. /\ UNCHANGED <<worker, pendingChunks, received, output>>
        /\ thread' \in {"new", "up", "terminating", "dead"} /\ failed' \in BOOLEAN
    BY DEF ThreadStarts, ThreadParses, ThreadDies, WorkerInv
  <1>2. ASSUME Places' PROVE WorkerInv'
    BY <1>1, <1>2 DEF WorkerInv, output
  <1>3. CASE ThreadStarts
    <2>1. PICK type \in {"ready", "error"} : toMain' = Append(toMain, Message(type, <<>>))
      BY <1>3 DEF ThreadStarts
    <2>2. UNCHANGED <<toThread, lost>>
      BY <1>3 DEF ThreadStarts
    <2>3. OnePlace(pendingChunks, toThread, toMain', processed, lost, received)
      BY <2>1, MoveFirst DEF WorkerInv, Places
    <2> QED BY <1>1, <1>2, <2>2, <2>3 DEF Places, output
  <1>4. CASE ThreadParses
    <2>1. toThread # <<>> /\ toThread' = Tail(toThread) /\ lost' = lost
      BY <1>4 DEF ThreadParses
    <2>2. PICK type \in {"packets", "error"} :
             toMain' = Append(toMain, Message(type, <<Head(toThread)>>))
      BY <1>4 DEF ThreadParses
    <2>3. OnePlace(pendingChunks, toThread', toMain', processed, lost, received)
      BY <2>1, <2>2, MoveFirst DEF WorkerInv, Places
    <2> QED BY <1>1, <1>2, <2>1, <2>3 DEF Places, output
  <1>5. CASE ThreadDies
    <2>1. toThread' = <<>> /\ lost' = lost \cup ToSet(toThread)
          /\ toMain' \in {toMain, Append(toMain, Message("error", <<>>))}
      BY <1>5 DEF ThreadDies
    <2>2. OnePlace(pendingChunks, toThread', toMain, processed, lost', received)
      BY <2>1, MoveAll DEF WorkerInv, Places
    <2>3. OnePlace(pendingChunks, toThread', toMain', processed, lost', received)
      BY <2>1, <2>2, MoveFirst
    <2> QED BY <1>1, <1>2, <2>1, <2>3 DEF Places, output
  <1> QED BY <1>3, <1>4, <1>5

LEMMA MessageOK == WorkerInv /\ OnMessage => WorkerInv'
  <1> SUFFICES ASSUME WorkerInv, OnMessage PROVE WorkerInv'
    OBVIOUS
  <1> DEFINE m == Head(toMain)
  <1>1. /\ toMain # <<>> /\ toMain' = Tail(toMain) /\ UNCHANGED <<received, failed>>
        /\ toMain \in Seq(MessagesOf(received)) /\ m \in MessagesOf(received) /\ received \in Nat
    BY TailMessage DEF OnMessage, WorkerInv, Places, OnePlace
  <1>2. OnePlace(pendingChunks, toThread, Tail(toMain), processed \o m.chunks, lost, received)
    BY <1>1, MoveFirst DEF WorkerInv, Places
  <1>3. m.chunks \in Seq(1..received) /\ processed \in Seq(1..received)
        /\ pendingChunks \in Seq(1..received)
    BY <1>1, MessageFacts DEF WorkerInv, Places, OnePlace
  <1>4. Len(<<>>) <= MaxPending
    BY WorkerAssumption
  <1> HIDE DEF m
  <1>5. CASE OnReady
    <2>1. UNCHANGED <<thread, output>> /\ m.chunks = <<>>
      BY <1>1, <1>5 DEF OnReady, MessagesOf, m
    <2>2. processed \o m.chunks = processed
      BY <1>3, <2>1
    <2>3. OnePlace(pendingChunks, toThread, Tail(toMain), processed, lost, received)
      BY <1>2, <2>2
    <2>4. CASE worker = "none"
      <3>1. UNCHANGED <<worker, pendingChunks, toThread, lost>>
        BY <1>5, <2>4 DEF OnReady
      <3> QED BY <1>1, <2>1, <2>3, <3>1 DEF WorkerInv, Places, output
    <2>5. CASE worker # "none"
      <3>1. worker' = "ready" /\ FlushPendingChunks
        BY <1>5, <2>5 DEF OnReady
      <3>2. /\ OnePlace(<<>>, toThread \o pendingChunks, Tail(toMain), processed, lost, received)
            /\ OnePlace(<<>>, toThread, Tail(toMain), processed, lost \cup ToSet(pendingChunks), received)
        BY <2>3, MoveAll
      <3>3. Places' /\ pendingChunks' = <<>>
        BY <1>1, <2>1, <3>1, <3>2 DEF Places, FlushPendingChunks, output
      <3> QED BY <1>1, <1>4, <2>1, <3>1, <3>3 DEF WorkerInv, output
    <2> QED BY <2>4, <2>5
  <1>6. CASE OnPackets
    <2>1. Parsed("worker", m.chunks) /\ UNCHANGED <<worker, pendingChunks, thread, toThread, lost>>
      BY <1>6 DEF OnPackets, m
    <2>2. processed' = processed \o m.chunks /\ parser' \in {"none", "main", "worker"}
      BY <2>1, ParsedType
    <2>3. Places'
      BY <1>1, <1>2, <2>1, <2>2 DEF Places
    <2> QED BY <1>1, <2>1, <2>2, <2>3 DEF WorkerInv
  <1>7. CASE OnError
    <2>1. /\ pendingChunks' = <<>> /\ TerminateWorker /\ Parsed("main", pendingChunks \o m.chunks)
          /\ UNCHANGED <<toThread, lost>>
      BY <1>7 DEF OnError, FallbackToMain, m
    <2>2. /\ worker' = "none" /\ thread' \in {"new", "up", "terminating", "dead"}
          /\ parser' \in {"none", "main", "worker"}
          /\ processed' = processed \o (pendingChunks \o m.chunks)
      BY <2>1, ParsedType, TerminateType
    <2>3. processed \o (pendingChunks \o m.chunks) = (processed \o pendingChunks) \o m.chunks
      <3> DEFINE R == 1..received
                 u == m.chunks
      <3>1. u \in Seq(R) /\ processed \in Seq(R) /\ pendingChunks \in Seq(R)
        BY <1>3
      <3> HIDE DEF R, u
      <3>2. processed \o (pendingChunks \o u) = (processed \o pendingChunks) \o u
        BY <3>1, ConcatAssociative
      <3> QED BY <3>2 DEF u
    <2>4. OnePlace(<<>>, toThread, toMain, processed \o pendingChunks, lost, received)
      BY MoveAll DEF WorkerInv, Places
    <2>5. OnePlace(<<>>, toThread, Tail(toMain), (processed \o pendingChunks) \o m.chunks, lost, received)
      BY <1>1, <2>4, MoveFirst DEF m
    <2>6. Places'
      BY <1>1, <2>1, <2>2, <2>3, <2>5 DEF Places
    <2> QED BY <1>1, <1>4, <2>1, <2>2, <2>6 DEF WorkerInv
  <1> QED BY <1>5, <1>6, <1>7 DEF OnMessage

LEMMA WorkerSameOK == WorkerInv /\ UNCHANGED workerVars => WorkerInv'
  BY DEF WorkerInv, Places, workerVars, output

LEMMA WorkerInvTypes == WorkerInv => WorkerTypeOK
  <1> SUFFICES ASSUME WorkerInv PROVE WorkerTypeOK
    OBVIOUS
  <1>1. /\ received \in Nat /\ pendingChunks \in Seq(1..received) /\ toThread \in Seq(1..received)
        /\ processed \in Seq(1..received) /\ toMain \in Seq(MessagesOf(received)) /\ lost \subseteq 1..received
    BY DEF WorkerInv, Places, OnePlace
  <1>2. received \in 0..Chunks
    BY <1>1, WorkerAssumption DEF WorkerInv
  <1>3. MessagesOf(received)
           \subseteq [type : {"ready", "packets", "error"}, chunks : {<<>>} \cup {<<c>> : c \in 1..received}]
    BY DEF MessagesOf
  <1>4. toMain \in Seq([type : {"ready", "packets", "error"}, chunks : {<<>>} \cup {<<c>> : c \in 1..received}])
    BY <1>1, <1>3, SeqGrows
  <1> QED BY <1>1, <1>2, <1>4 DEF WorkerInv, WorkerTypeOK

LEMMA WorkerInvPlaces == WorkerInv => EveryChunkHasOnePlace
  <1> SUFFICES ASSUME WorkerInv PROVE EveryChunkHasOnePlace
    OBVIOUS
  <1> DEFINE A == ToSet(pendingChunks)
             B == ToSet(toThread)
             D == ToSet(processed)
             places == <<A, B, InMessages, D, lost>>
  <1>1. /\ A \cup B \cup InMessages \cup D \cup lost = 1..received
        /\ Apart(A, B, InMessages, D, lost)
        /\ IsInjective(pendingChunks) /\ IsInjective(toThread) /\ IsInjective(processed)
        /\ MessagesApart(toMain)
    BY DEF WorkerInv, Places, OnePlace, InMessages, ChunksIn
  <1> HIDE DEF A, B, D
  <1>2. ToSet(places) = {A, B, InMessages, D, lost}
    <2>1. /\ DOMAIN places = {1, 2, 3, 4, 5}
          /\ places[1] = A /\ places[2] = B /\ places[3] = InMessages /\ places[4] = D /\ places[5] = lost
      OBVIOUS
    <2> QED BY <2>1 DEF ToSet
  <1>3. UNION ToSet(places) = 1..received
    BY <1>1, <1>2
  <1>4. ASSUME NEW i \in DOMAIN places, NEW k \in DOMAIN places, i # k
        PROVE  places[i] \cap places[k] = {}
    <2>1. i \in {1, 2, 3, 4, 5} /\ k \in {1, 2, 3, 4, 5}
      BY <1>4
    <2>2. /\ places[1] = A /\ places[2] = B /\ places[3] = InMessages /\ places[4] = D /\ places[5] = lost
      OBVIOUS
    <2> HIDE DEF places
    <2> QED BY <1>1, <1>4, <2>1, <2>2 DEF Apart
  <1> QED BY <1>1, <1>3, <1>4 DEF EveryChunkHasOnePlace, MessagesApart, A, B, D

-----------------------------------------------------------------------------
(* Both parts.                                                             *)

IInv == RawInv /\ WorkerInv

LEMMA InitOK == Init => IInv
  BY RawInitOK, WorkerInitOK DEF Init, IInv

LEMMA StepOK == IInv /\ [Next]_vars => IInv'
  <1> SUFFICES ASSUME IInv, [Next]_vars PROVE IInv'
    OBVIOUS
  <1>1. CASE ReceiveData
    BY <1>1, RawDataOK, RawSameOK, IncomingOK DEF ReceiveData, IInv
  <1>2. CASE WorkerNext /\ UNCHANGED rawVars
    BY <1>2, RawSameOK, ThreadOK, MessageOK DEF WorkerNext, IInv
  <1>3. CASE RawNext /\ UNCHANGED workerVars
    BY <1>3, RawStepOK, WorkerSameOK DEF IInv
  <1>4. CASE UNCHANGED vars
    BY <1>4, RawSameOK, WorkerSameOK DEF vars, IInv
  <1> QED BY <1>1, <1>2, <1>3, <1>4 DEF Next

\* The inductive invariant of both listeners, the consumers and the two threads.
THEOREM PathInvariant == Spec => []IInv
  <1> QED BY InitOK, StepOK, PTL DEF Spec

\* The types of both parts, among them that no more is counted than the two consumers there
\* are and that a collection stops at its target.
THEOREM PathTypes == Spec => []TypeOK
  <1>1. IInv => TypeOK
    BY WorkerInvTypes DEF IInv, RawInv, TypeOK
  <1> QED BY <1>1, PathInvariant, PTL

\* The port is not listened to for nobody, for every number of sockets and whenever they and
\* the collection start and stop.
THEOREM NobodyNoListener == Spec => []NoIdleListener
  <1>1. IInv => NoIdleListener
    BY DEF IInv, RawInv
  <1> QED BY <1>1, PathInvariant, PTL

\* No chunk is parsed twice, and none is lost but with a thread that dies, also when its raw
\* listener is detached while it is told of the chunk.
THEOREM NoChunkTwice == Spec => []EveryChunkHasOnePlace
  <1>1. IInv => EveryChunkHasOnePlace
    BY WorkerInvPlaces DEF IInv
  <1> QED BY <1>1, PathInvariant, PTL

-----------------------------------------------------------------------------
(* The order of the chunks: the two threads are one pipe.                  *)

\* The elements of s are n + 1, n + 2, ...
Follows(s, n) == \A i \in 1..Len(s) : s[i] = n + i

LEMMA FollowsAppend ==
  ASSUME NEW S, NEW s \in Seq(S), NEW n \in Nat, Follows(s, n), NEW c \in S, c = n + Len(s) + 1
  PROVE  Follows(Append(s, c), n)
  <1>1. /\ Len(s) \in Nat /\ Len(Append(s, c)) = Len(s) + 1
        /\ \A i \in 1..Len(s) : Append(s, c)[i] = s[i]
        /\ Append(s, c)[Len(s) + 1] = c
    OBVIOUS
  <1> SUFFICES ASSUME NEW i \in 1..(Len(s) + 1) PROVE Append(s, c)[i] = n + i
    BY <1>1 DEF Follows
  <1>2. CASE i \in 1..Len(s)
    BY <1>1, <1>2 DEF Follows
  <1>3. CASE i = Len(s) + 1
    BY <1>1, <1>3
  <1> QED BY <1>1, <1>2, <1>3

LEMMA FollowsTail ==
  ASSUME NEW S, NEW s \in Seq(S), NEW n \in Nat, Follows(s, n), s # <<>>
  PROVE  Head(s) = n + 1 /\ Follows(Tail(s), n + 1)
  <1>1. /\ Len(s) \in Nat \ {0} /\ Len(Tail(s)) = Len(s) - 1
        /\ \A i \in 1..(Len(s) - 1) : Tail(s)[i] = s[i + 1]
        /\ Head(s) = s[1]
    OBVIOUS
  <1>2. Head(s) = n + 1
    BY <1>1 DEF Follows
  <1>3. ASSUME NEW i \in 1..(Len(s) - 1) PROVE Tail(s)[i] = (n + 1) + i
    <2>1. i + 1 \in 1..Len(s) /\ n + (i + 1) = (n + 1) + i
      BY <1>1
    <2> QED BY <1>1, <2>1 DEF Follows
  <1> QED BY <1>1, <1>2, <1>3 DEF Follows

LEMMA FollowsFirst ==
  ASSUME NEW S, NEW s \in Seq(S), Follows(s, 0)
  PROVE  s = Pipe!First(Len(s))
  <1>1. DOMAIN s = 1..Len(s) /\ s = [i \in 1..Len(s) |-> s[i]]
    OBVIOUS
  <1>2. \A i \in 1..Len(s) : s[i] = i
    BY DEF Follows
  <1> QED BY <1>1, <1>2 DEF Pipe!First

LEMMA FollowsNone == \A n : Follows(<<>>, n)
  BY DEF Follows

\* The main thread waits for the worker and holds everything back; or the thread works and the
\* chunks go through the queues; or the main thread parses, and what is left of the thread has
\* no chunk.
Waits ==
    /\ worker = "starting" /\ processed = <<>> /\ toThread = <<>>
    /\ Follows(pendingChunks, 0) /\ Len(pendingChunks) = received
    /\ \/ thread = "new" /\ toMain = <<>>
       \/ thread = "up" /\ toMain = <<Message("ready", <<>>)>>
       \/ thread = "dead" /\ toMain = <<Message("error", <<>>)>>

Works ==
    /\ worker = "ready" /\ thread = "up" /\ pendingChunks = <<>> /\ parser # "main"
    /\ Follows(processed, 0)
    /\ \A i \in 1..Len(toMain) : toMain[i] = Message("packets", <<Len(processed) + i>>)
    /\ Follows(toThread, Len(processed) + Len(toMain))
    /\ Len(processed) + Len(toMain) + Len(toThread) = received

FallenBack ==
    /\ worker = "none" /\ thread \in {"terminating", "dead"}
    /\ pendingChunks = <<>> /\ toThread = <<>> /\ parser # "worker"
    /\ Follows(processed, 0) /\ Len(processed) = received
    /\ \A i \in 1..Len(toMain) : toMain[i] \in {Message("ready", <<>>), Message("error", <<>>)}

PipeInv ==
    failed \/ ((parser = "none" <=> processed = <<>>) /\ (Waits \/ Works \/ FallenBack))

LEMMA PipeInitOK == WorkerInit => PipeInv /\ Pipe!Init
  <1> SUFFICES ASSUME WorkerInit PROVE PipeInv /\ Pipe!Init
    OBVIOUS
  <1>1. Len(<<>>) = 0 /\ 1..0 = {}
    OBVIOUS
  <1>2. CASE worker = "starting" /\ thread = "new"
    <2>1. Waits
      BY <1>1, <1>2, FollowsNone DEF WorkerInit, Waits
    <2> QED BY <2>1 DEF WorkerInit, PipeInv, Pipe!Init
  <1>3. CASE worker = "none" /\ thread = "dead"
    <2>1. FallenBack
      BY <1>1, <1>3, FollowsNone DEF WorkerInit, FallenBack
    <2> QED BY <2>1 DEF WorkerInit, PipeInv, Pipe!Init
  <1> QED BY <1>2, <1>3 DEF WorkerInit

\* A step by which the parsed chunks are the first k, seen as one of the pipe.
LEMMA PipeParses ==
  ASSUME WorkerInv, ~failed, ~failed', failed' \in BOOLEAN,
         NEW S, processed' \in Seq(S), Follows(processed', 0), Len(processed) <= Len(processed'),
         Len(processed') <= received',
         parser' \in IF parser = "none" /\ processed' # <<>> THEN {"main", "worker"} ELSE {parser},
         \/ received' = received + 1
         \/ received' = received /\ Len(processed) + 1 <= Len(processed')
  PROVE  Pipe!Send \/ Pipe!Deliver
  <1> DEFINE k == Len(processed')
  <1>1. /\ k \in Nat /\ processed' = Pipe!First(k) /\ (processed' # <<>> <=> k > 0)
        /\ received \in Nat /\ Len(processed) \in Nat
    BY FollowsFirst DEF WorkerInv, Places, OnePlace
  <1>2. Pipe!Parse(k)
    BY <1>1 DEF Pipe!Parse
  <1>3. failed' = FALSE /\ failed = FALSE
    BY DEF WorkerInv
  <1> HIDE DEF k
  <1>4. CASE received' = received + 1
    <2>1. k \in Len(processed)..received + 1
      BY <1>1, <1>4 DEF k
    <2> QED BY <1>2, <1>3, <1>4, <2>1 DEF Pipe!Send
  <1>5. CASE received' = received /\ Len(processed) + 1 <= k
    <2>1. k \in Len(processed) + 1..received
      BY <1>1, <1>5 DEF k
    <2> QED BY <1>2, <1>3, <1>5, <2>1 DEF Pipe!Deliver
  <1> QED BY <1>4, <1>5 DEF k

\* Nothing is left to show once the thread has failed.
LEMMA PipeBreaks ==
  ASSUME failed' = TRUE
  PROVE  PipeInv' /\ Pipe!Next
  BY DEF PipeInv, Pipe!Next, Pipe!Break

PipeStep == Pipe!Next \/ UNCHANGED Pipe!pipe

\* A chunk that waits is parsed by nobody yet.
LEMMA QueuedImplements ==
  ASSUME WorkerInv, PipeInv, ~failed, ~failed', failed' \in BOOLEAN, UNCHANGED output,
         received' = received + 1, Follows(processed, 0)
  PROVE  Pipe!Next
  <1>1. /\ processed \in Seq(1..received) /\ Len(processed) <= received + 1 /\ Len(processed) \in Nat
        /\ parser \in {"none", "main", "worker"} /\ (parser = "none" <=> processed = <<>>)
    <2>1. processed \in Seq(1..received) /\ received \in Nat
      BY DEF WorkerInv, Places, OnePlace
    <2>2. Len(processed) <= received + 1
      <3>1. CASE Waits
        BY <2>1, <3>1 DEF Waits
      <3>2. CASE Works
        <4>1. Len(toMain) \in Nat /\ Len(toThread) \in Nat /\ Len(processed) \in Nat
          BY DEF WorkerInv, Places, OnePlace
        <4> QED BY <2>1, <3>2, <4>1 DEF Works
      <3>3. CASE FallenBack
        BY <2>1, <3>3 DEF FallenBack
      <3> QED BY <3>1, <3>2, <3>3 DEF PipeInv
    <2> QED BY <2>1, <2>2 DEF PipeInv, WorkerInv
  <1>2. /\ processed' = processed /\ parser' = parser
    BY DEF output
  <1>3. parser' \in IF parser = "none" /\ processed' # <<>> THEN {"main", "worker"} ELSE {parser}
    BY <1>1, <1>2
  <1>4. Len(processed) <= Len(processed') /\ Len(processed') <= received'
        /\ processed' \in Seq(1..received) /\ Follows(processed', 0)
    BY <1>1, <1>2
  <1> QED BY <1>3, <1>4, PipeParses DEF Pipe!Next

LEMMA IncomingImplements ==
  ASSUME WorkerInv, PipeInv, ~failed, Incoming
  PROVE  PipeInv' /\ Pipe!Next
  <1> DEFINE c == received + 1
  <1>1. /\ received' = c /\ HandleIncomingChunk(c) /\ toMain' = toMain /\ failed' = failed
        /\ failed \in BOOLEAN /\ received \in Nat /\ c \in Nat /\ c \in 1..c /\ 1..received \subseteq 1..c
    BY DEF Incoming, WorkerInv, Places, OnePlace
  <1>2. /\ pendingChunks \in Seq(1..c) /\ toThread \in Seq(1..c) /\ processed \in Seq(1..c)
        /\ Len(pendingChunks) \in Nat /\ Len(toThread) \in Nat /\ Len(processed) \in Nat
        /\ Len(toMain) \in Nat
    <2>1. /\ pendingChunks \in Seq(1..received) /\ toThread \in Seq(1..received)
          /\ processed \in Seq(1..received) /\ toMain \in Seq(MessagesOf(received))
      BY DEF WorkerInv, Places, OnePlace
    <2> QED BY <1>1, <2>1, SeqGrows
  <1>3. parser = "none" <=> processed = <<>>
    BY DEF PipeInv
  <1> HIDE DEF c
  <1>4. CASE /\ worker = "ready"
             /\ toThread' = Append(toThread, c)
             /\ UNCHANGED <<worker, thread, pendingChunks, output>>
    <2>1. Works
      BY <1>4 DEF PipeInv, Waits, FallenBack
    <2>2. c = (Len(processed) + Len(toMain)) + Len(toThread) + 1
          /\ Len(processed) + Len(toMain) \in Nat
      <3>1. (Len(processed) + Len(toMain)) + Len(toThread) = received
        BY <2>1 DEF Works
      <3> QED BY <1>1, <1>2, <3>1 DEF c
    <2>3. Follows(toThread', Len(processed) + Len(toMain))
      BY <1>1, <1>2, <1>4, <2>1, <2>2, FollowsAppend DEF Works
    <2>4. Len(processed) + Len(toMain) + Len(toThread') = c
      BY <1>1, <1>2, <1>4, <2>2, AppendElements
    <2>5. Works'
      BY <1>1, <1>4, <2>1, <2>3, <2>4 DEF Works, output
    <2>6. Pipe!Next
      BY <1>1, <1>4, <2>1, QueuedImplements DEF Works, c
    <2> QED BY <1>3, <1>4, <2>5, <2>6 DEF PipeInv, output
  <1>5. CASE worker = "starting"
    <2>1. Waits /\ processed = <<>> /\ parser = "none"
      BY <1>3, <1>5 DEF PipeInv, Works, FallenBack, Waits
    <2> DEFINE p == Append(pendingChunks, c)
    <2>2. /\ p \in Seq(1..c) /\ Len(p) = c /\ p # <<>> /\ Follows(p, 0)
      <3>1. c = 0 + Len(pendingChunks) + 1
        BY <1>1, <2>1 DEF Waits, c
      <3>2. Follows(p, 0)
        BY <1>1, <1>2, <2>1, <3>1, FollowsAppend DEF Waits
      <3>3. p \in Seq(1..c) /\ Len(p) = Len(pendingChunks) + 1
        BY <1>1, <1>2, AppendElements
      <3>4. Len(p) = c /\ Len(p) > 0
        BY <1>1, <1>2, <3>1, <3>3
      <3> QED BY <3>2, <3>3, <3>4
    <2> HIDE DEF p
    <2>3. CASE /\ pendingChunks' = p
               /\ UNCHANGED <<worker, thread, toThread, output>>
      <3>1. Waits'
        BY <1>1, <2>1, <2>2, <2>3 DEF Waits, output
      <3>2. Pipe!Next
        BY <1>1, <2>1, <2>3, FollowsNone, QueuedImplements DEF c
      <3> QED BY <1>3, <2>3, <3>1, <3>2 DEF PipeInv, output
    <2>4. CASE FallbackToMain(p, <<>>) /\ UNCHANGED toThread
      <3>1. p \o <<>> = p /\ <<>> \o p = p
        BY <2>2
      <3>2. /\ TerminateWorker /\ pendingChunks' = <<>> /\ processed' = p /\ parser' = "main"
        BY <2>1, <2>2, <2>4, <3>1 DEF FallbackToMain, Parsed
      <3>3. worker' = "none" /\ thread' \in {"terminating", "dead"}
        BY <1>5, <2>1, <3>2 DEF TerminateWorker, Waits
      <3>4. \A i \in 1..Len(toMain) : toMain[i] \in {Message("ready", <<>>), Message("error", <<>>)}
        BY <2>1 DEF Waits
      <3>5. FallenBack'
        BY <1>1, <2>1, <2>2, <2>4, <3>2, <3>3, <3>4 DEF FallenBack, Waits
      <3>6. Len(processed) <= Len(processed') /\ Len(processed') <= received'
        BY <1>1, <1>2, <2>1, <2>2, <3>2
      <3>7. Pipe!Next
        <4>1. received' = received + 1 /\ ~failed' /\ failed' \in BOOLEAN
          BY <1>1 DEF c
        <4> QED BY <2>1, <2>2, <3>2, <3>6, <4>1, PipeParses DEF Pipe!Next
      <3> QED BY <2>2, <3>2, <3>5, <3>7 DEF PipeInv
    <2> QED BY <1>1, <1>5, <2>3, <2>4 DEF HandleIncomingChunk, p
  <1>6. CASE /\ worker = "none"
             /\ Parsed("main", <<c>>)
             /\ UNCHANGED <<worker, thread, pendingChunks, toThread>>
    <2>1. FallenBack
      BY <1>6 DEF PipeInv, Waits, Works
    <2>2. processed \o <<c>> = Append(processed, c) /\ <<c>> # <<>>
      BY <1>1, <1>2
    <2>3. processed' = Append(processed, c) /\ parser' = "main"
      BY <1>6, <2>2 DEF Parsed
    <2>4. c = 0 + Len(processed) + 1
      BY <1>1, <2>1 DEF FallenBack, c
    <2>5. /\ processed' \in Seq(1..c) /\ Len(processed') = Len(processed) + 1
          /\ Follows(processed', 0)
      BY <1>1, <1>2, <2>1, <2>3, <2>4, FollowsAppend, AppendElements DEF FallenBack
    <2>6. Len(processed') = c /\ processed' # <<>> /\ Len(processed) <= Len(processed')
      BY <1>2, <2>4, <2>5
    <2>7. FallenBack'
      BY <1>1, <1>6, <2>1, <2>3, <2>5, <2>6 DEF FallenBack
    <2>8. parser' \in IF parser = "none" /\ processed' # <<>> THEN {"main", "worker"} ELSE {parser}
      BY <2>1, <2>3, <2>6 DEF FallenBack, WorkerInv
    <2>9. Pipe!Next
      <3>1. received' = received + 1 /\ ~failed' /\ failed' \in BOOLEAN /\ Len(processed') <= received'
        BY <1>1, <2>6 DEF c
      <3> QED BY <2>5, <2>6, <2>8, <3>1, PipeParses DEF Pipe!Next
    <2> QED BY <2>3, <2>6, <2>7, <2>9 DEF PipeInv
  <1> QED BY <1>1, <1>4, <1>5, <1>6 DEF HandleIncomingChunk

\* The steps of the thread are not seen from outside, unless it fails.
LEMMA ThreadImplements ==
  ASSUME WorkerInv, PipeInv, ~failed, ThreadStarts \/ ThreadParses \/ ThreadDies
  PROVE  PipeInv' /\ PipeStep
  <1>1. /\ UNCHANGED <<worker, pendingChunks, received, processed, parser>>
        /\ failed' \in BOOLEAN /\ failed = FALSE
    BY DEF ThreadStarts, ThreadParses, ThreadDies, output, WorkerInv
  <1>2. CASE failed' = TRUE
    BY <1>2, PipeBreaks DEF PipeStep
  <1>3. CASE failed' = FALSE
    <2>1. PipeStep
      BY <1>1, <1>3 DEF PipeStep, Pipe!pipe
    <2>2. CASE ThreadStarts
      <3>1. Waits /\ toMain = <<>>
        BY <2>2 DEF ThreadStarts, PipeInv, Waits, Works, FallenBack
      <3>2. /\ Append(<<>>, Message("ready", <<>>)) = <<Message("ready", <<>>)>>
            /\ Append(<<>>, Message("error", <<>>)) = <<Message("error", <<>>)>>
        OBVIOUS
      <3>3. toThread' = toThread /\ Waits'
        BY <1>1, <2>2, <3>1, <3>2 DEF ThreadStarts, Waits
      <3> QED BY <1>1, <2>1, <3>3 DEF PipeInv
    <2>3. CASE ThreadParses
      <3> DEFINE n == Len(processed)
                 k == Len(toMain)
                 c == Head(toThread)
      <3>1. /\ toThread # <<>> /\ toThread' = Tail(toThread) /\ thread' = thread
            /\ toMain' = Append(toMain, Message("packets", <<c>>))
        BY <1>3, <2>3 DEF ThreadParses
      <3>2. Works
        BY <3>1 DEF PipeInv, Waits, FallenBack
      <3>3. /\ toThread \in Seq(1..received) /\ toMain \in Seq(MessagesOf(received))
            /\ n \in Nat /\ k \in Nat /\ n + k \in Nat /\ received \in Nat /\ Len(toThread) \in Nat
        BY DEF WorkerInv, Places, OnePlace
      <3>4. /\ c = (n + k) + 1 /\ Follows(Tail(toThread), (n + k) + 1)
            /\ Len(Tail(toThread)) = Len(toThread) - 1
        BY <3>1, <3>2, <3>3, FollowsTail, TailElements DEF Works
      <3>5. /\ Len(toMain') = k + 1 /\ \A i \in 1..k : toMain'[i] = toMain[i]
            /\ toMain'[k + 1] = Message("packets", <<c>>)
        BY <3>1, <3>3
      <3> HIDE DEF n, k, c
      <3>6. ASSUME NEW i \in 1..(k + 1) PROVE toMain'[i] = Message("packets", <<n + i>>)
        <4>1. CASE i \in 1..k
          BY <3>2, <3>5, <4>1 DEF Works, n, k
        <4>2. CASE i = k + 1
          <5>1. n + i = c
            BY <3>3, <3>4, <4>2
          <5> QED BY <3>5, <4>2, <5>1
        <4> QED BY <3>3, <4>1, <4>2
      <3>7. (n + k) + 1 = n + (k + 1) /\ n + (k + 1) + Len(Tail(toThread)) = received
        <4>1. (n + k) + Len(toThread) = received
          BY <3>2 DEF Works, n, k
        <4>2. (n + k) + 1 = n + (k + 1) /\ n + (k + 1) + (Len(toThread) - 1) = received
          BY <3>3, <4>1
        <4> QED BY <3>4, <4>2
      <3>8. Works'
        BY <1>1, <3>1, <3>2, <3>4, <3>5, <3>6, <3>7 DEF Works, n, k
      <3> QED BY <1>1, <2>1, <3>8 DEF PipeInv
    <2>4. CASE ThreadDies
      <3>1. thread = "terminating" /\ thread' = "dead" /\ toThread' = <<>> /\ toMain' = toMain
        BY <1>3, <2>4 DEF ThreadDies
      <3>2. FallenBack
        BY <3>1 DEF PipeInv, Waits, Works
      <3>3. FallenBack'
        BY <1>1, <3>1, <3>2 DEF FallenBack
      <3> QED BY <1>1, <2>1, <3>3 DEF PipeInv
    <2> QED BY <2>2, <2>3, <2>4
  <1> QED BY <1>1, <1>2, <1>3

\* The first message in each of the three states.
LEMMA FirstMessageWaits ==
  ASSUME WorkerInv, PipeInv, ~failed, OnMessage, Waits
  PROVE  PipeInv' /\ PipeStep
  <1>1. /\ toMain # <<>> /\ toMain' = Tail(toMain) /\ UNCHANGED <<received, failed>>
        /\ failed = FALSE /\ received \in Nat /\ 1..received \subseteq 1..received
        /\ pendingChunks \in Seq(1..received) /\ Len(pendingChunks) \in Nat
    BY DEF OnMessage, WorkerInv, Places, OnePlace
  <1>2. /\ <<>> \o pendingChunks = pendingChunks /\ pendingChunks \o <<>> = pendingChunks
        /\ Len(<<>>) = 0 /\ \A m : Head(<<m>>) = m /\ Tail(<<m>>) = <<>>
    BY <1>1
  <1>3. processed = <<>> /\ toThread = <<>> /\ parser = "none" /\ worker = "starting"
    BY DEF Waits, PipeInv
  <1>4. CASE thread = "up" /\ toMain = <<Message("ready", <<>>)>>
    <2>1. Head(toMain).type = "ready" /\ toMain' = <<>>
      BY <1>1, <1>2, <1>4 DEF Message
    <2>2. OnReady
      BY <2>1 DEF OnMessage, OnPackets, OnError
    <2>3. /\ worker' = "ready" /\ pendingChunks' = <<>> /\ toThread' = pendingChunks
          /\ thread' = "up" /\ processed' = <<>> /\ parser' = "none"
      BY <1>2, <1>3, <1>4, <2>2 DEF OnReady, FlushPendingChunks, output
    <2>4. /\ Len(processed') + Len(toMain') = 0
          /\ Len(processed') + Len(toMain') + Len(toThread') = received
          /\ 1..Len(toMain') = {}
      <3>1. Len(processed') = 0 /\ Len(toMain') = 0 /\ Len(toThread') = received
        BY <1>2, <2>1, <2>3 DEF Waits
      <3>2. Len(processed') + Len(toMain') = 0 /\ 1..Len(toMain') = {}
        BY <3>1
      <3>3. 0 + received = received
        BY <1>1
      <3> QED BY <3>1, <3>2, <3>3
    <2>5. Follows(toThread', Len(processed') + Len(toMain')) /\ Follows(processed', 0)
      BY <2>3, <2>4, FollowsNone DEF Waits
    <2>6. Works'
      BY <1>1, <2>3, <2>4, <2>5 DEF Works
    <2>7. PipeStep
      BY <1>1, <1>3, <2>3 DEF PipeStep, Pipe!pipe
    <2> QED BY <2>3, <2>6, <2>7 DEF PipeInv
  <1>5. CASE thread = "dead" /\ toMain = <<Message("error", <<>>)>>
    <2>1. Head(toMain).type = "error" /\ Head(toMain).chunks = <<>> /\ toMain' = <<>>
      BY <1>1, <1>2, <1>5 DEF Message
    <2>2. OnError
      BY <2>1 DEF OnMessage, OnPackets, OnReady
    <2>3. /\ worker' = "none" /\ thread' = "dead" /\ pendingChunks' = <<>> /\ toThread' = <<>>
          /\ processed' = pendingChunks
          /\ parser' = IF pendingChunks = <<>> THEN "none" ELSE "main"
      BY <1>2, <1>3, <1>5, <2>1, <2>2 DEF OnError, FallbackToMain, TerminateWorker, Parsed
    <2>4. Len(processed') = received /\ Follows(processed', 0) /\ 1..Len(toMain') = {}
      BY <1>2, <2>1, <2>3 DEF Waits
    <2>5. FallenBack'
      BY <1>1, <2>3, <2>4 DEF FallenBack
    <2>6. PipeInv'
      BY <2>3, <2>5 DEF PipeInv
    <2>7. CASE pendingChunks = <<>>
      BY <1>1, <1>3, <2>3, <2>6, <2>7 DEF PipeStep, Pipe!pipe
    <2>8. CASE pendingChunks # <<>>
      <3>1. Len(processed) + 1 <= Len(processed') /\ Len(processed) <= Len(processed')
            /\ Len(processed') <= received'
        BY <1>1, <1>2, <1>3, <2>3, <2>4, <2>8
      <3>2. Pipe!Send \/ Pipe!Deliver
        <4>1. processed' \in Seq(1..received) /\ ~failed' /\ failed' \in BOOLEAN /\ received' = received
          BY <1>1, <2>3
        <4>2. parser' \in IF parser = "none" /\ processed' # <<>> THEN {"main", "worker"} ELSE {parser}
          BY <1>3, <2>3, <2>8
        <4> QED BY <2>4, <3>1, <4>1, <4>2, PipeParses
      <3> QED BY <2>6, <3>2 DEF PipeStep, Pipe!Next
    <2> QED BY <2>7, <2>8
  <1> QED BY <1>1, <1>4, <1>5 DEF Waits

LEMMA FirstMessageWorks ==
  ASSUME WorkerInv, PipeInv, ~failed, OnMessage, Works
  PROVE  PipeInv' /\ PipeStep
  <1> DEFINE n == Len(processed)
             k == Len(toMain)
             c == n + 1
  <1>1. /\ toMain # <<>> /\ toMain' = Tail(toMain) /\ UNCHANGED <<received, failed>>
        /\ failed = FALSE /\ received \in Nat
        /\ processed \in Seq(1..received) /\ toMain \in Seq(MessagesOf(received))
        /\ toThread \in Seq(1..received) /\ Len(toThread) \in Nat
        /\ n \in Nat /\ k \in Nat \ {0}
    BY DEF OnMessage, WorkerInv, Places, OnePlace
  <1>2. /\ Head(toMain) = toMain[1] /\ 1 \in 1..k /\ Len(Tail(toMain)) = k - 1
        /\ \A i \in 1..(k - 1) : Tail(toMain)[i] = toMain[i + 1] /\ i + 1 \in 1..k
    BY <1>1
  <1>3. Head(toMain) = Message("packets", <<c>>)
    BY <1>2 DEF Works
  <1>4. Head(toMain).type = "packets" /\ Head(toMain).chunks = <<c>> /\ <<c>> # <<>>
    BY <1>3 DEF Message
  <1>5. OnPackets
    BY <1>4 DEF OnMessage, OnReady, OnError
  <1>6. /\ processed' = processed \o <<c>> /\ parser' = "worker"
        /\ UNCHANGED <<worker, pendingChunks, thread, toThread>>
    BY <1>4, <1>5 DEF OnPackets, Parsed
  <1>7. (n + k) + Len(toThread) = received
    BY DEF Works
  <1>8. c \in 1..received /\ c = 0 + n + 1 /\ n <= c /\ n + 1 <= c /\ c <= received
    BY <1>1, <1>7
  <1>9. processed \o <<c>> = Append(processed, c)
    BY <1>1, <1>8
  <1>10. /\ processed' \in Seq(1..received) /\ Len(processed') = c /\ processed' # <<>>
         /\ Follows(processed', 0)
    <2>1. Follows(Append(processed, c), 0)
      BY <1>1, <1>8, FollowsAppend DEF Works
    <2>2. /\ Append(processed, c) \in Seq(1..received) /\ Len(Append(processed, c)) = n + 1
          /\ Append(processed, c) # <<>>
      BY <1>1, <1>8, AppendElements
    <2> QED BY <1>6, <1>9, <2>1, <2>2
  <1> HIDE DEF n, k, c
  <1>11. ASSUME NEW i \in 1..(k - 1) PROVE toMain'[i] = Message("packets", <<c + i>>)
    <2>1. n + (i + 1) = c + i
      BY <1>1, <1>8
    <2>2. toMain'[i] = toMain[i + 1] /\ i + 1 \in 1..k
      BY <1>1, <1>2
    <2>3. toMain[i + 1] = Message("packets", <<n + (i + 1)>>)
      BY <2>2 DEF Works, n, k
    <2> QED BY <2>1, <2>2, <2>3
  <1>12. c + (k - 1) = n + k /\ c + (k - 1) + Len(toThread) = received
    <2>1. c = n + 1
      BY <1>1, <1>8
    <2>2. c + (k - 1) = n + k
      BY <1>1, <2>1
    <2> QED BY <1>7, <2>2
  <1>13. Works'
    BY <1>1, <1>2, <1>6, <1>10, <1>11, <1>12 DEF Works, n, k
  <1>14. parser' \in IF parser = "none" /\ processed' # <<>> THEN {"main", "worker"} ELSE {parser}
    BY <1>6, <1>10 DEF Works, WorkerInv
  <1>15. Pipe!Send \/ Pipe!Deliver
    <2>1. /\ ~failed' /\ failed' \in BOOLEAN /\ received' = received
          /\ Len(processed) <= Len(processed') /\ Len(processed) + 1 <= Len(processed')
          /\ Len(processed') <= received'
      BY <1>1, <1>8, <1>10 DEF n
    <2> QED BY <1>10, <1>14, <2>1, PipeParses
  <1> QED BY <1>6, <1>10, <1>13, <1>15 DEF PipeInv, PipeStep, Pipe!Next

LEMMA FirstMessageFallenBack ==
  ASSUME WorkerInv, PipeInv, ~failed, OnMessage, FallenBack
  PROVE  PipeInv' /\ PipeStep
  <1>1. /\ toMain # <<>> /\ toMain' = Tail(toMain) /\ UNCHANGED <<received, failed>>
        /\ processed \in Seq(1..received) /\ toMain \in Seq(MessagesOf(received))
        /\ Len(toMain) \in Nat \ {0}
    BY DEF OnMessage, WorkerInv, Places, OnePlace
  <1>2. /\ Head(toMain) = toMain[1] /\ 1 \in 1..Len(toMain) /\ Len(Tail(toMain)) = Len(toMain) - 1
        /\ \A i \in 1..(Len(toMain) - 1) : Tail(toMain)[i] = toMain[i + 1] /\ i + 1 \in 1..Len(toMain)
    BY <1>1
  <1>3. Head(toMain) \in {Message("ready", <<>>), Message("error", <<>>)}
    BY <1>2 DEF FallenBack
  <1>4. Head(toMain).type \in {"ready", "error"} /\ Head(toMain).chunks = <<>>
    BY <1>3 DEF Message
  <1>5. <<>> \o <<>> = <<>> /\ processed \o <<>> = processed
    BY <1>1
  <1>6. UNCHANGED <<worker, pendingChunks, thread, toThread, processed, parser>>
    <2>1. CASE OnReady
      BY <2>1 DEF OnReady, FallenBack, output
    <2>2. CASE OnError
      BY <1>4, <1>5, <2>2 DEF OnError, FallenBack, FallbackToMain, TerminateWorker, Parsed
    <2> QED BY <1>4, <2>1, <2>2 DEF OnMessage, OnPackets
  <1>7. \A i \in 1..Len(toMain') : toMain'[i] \in {Message("ready", <<>>), Message("error", <<>>)}
    BY <1>1, <1>2 DEF FallenBack
  <1>8. FallenBack'
    BY <1>1, <1>6, <1>7 DEF FallenBack
  <1> QED BY <1>1, <1>6, <1>8 DEF PipeInv, PipeStep, Pipe!pipe

LEMMA WorkerStepImplements ==
  ASSUME WorkerInv, PipeInv, Incoming \/ WorkerNext
  PROVE  PipeInv' /\ PipeStep
  <1>1. CASE failed
    <2>1. failed' = TRUE
      BY <1>1 DEF WorkerInv, Incoming, WorkerNext, ThreadStarts, ThreadParses, ThreadDies, OnMessage
    <2> QED BY <2>1, PipeBreaks DEF PipeStep
  <1>2. CASE ~failed
    <2>1. CASE Incoming
      BY <1>2, <2>1, IncomingImplements DEF PipeStep
    <2>2. CASE ThreadStarts \/ ThreadParses \/ ThreadDies
      BY <1>2, <2>2, ThreadImplements
    <2>3. CASE OnMessage
      BY <1>2, <2>3, FirstMessageWaits, FirstMessageWorks, FirstMessageFallenBack DEF PipeInv
    <2> QED BY <2>1, <2>2, <2>3 DEF WorkerNext
  <1> QED BY <1>1, <1>2

LEMMA PipeSameOK ==
  ASSUME PipeInv, UNCHANGED workerVars
  PROVE  PipeInv' /\ PipeStep
  BY DEF PipeInv, Waits, Works, FallenBack, Follows, workerVars, output, PipeStep, Pipe!pipe

LEMMA NextImplements == IInv /\ PipeInv /\ [Next]_vars => PipeInv' /\ [Pipe!Next]_(Pipe!pipe)
  <1> SUFFICES ASSUME IInv, PipeInv, [Next]_vars PROVE PipeInv' /\ PipeStep
    BY DEF PipeStep
  <1>1. CASE ReceiveData
    BY <1>1, WorkerStepImplements DEF ReceiveData, IInv
  <1>2. CASE WorkerNext
    BY <1>2, WorkerStepImplements DEF IInv
  <1>3. CASE UNCHANGED workerVars
    BY <1>3, PipeSameOK
  <1> QED BY <1>1, <1>2, <1>3 DEF Next, vars

\* What PipeInv says of the two threads, in every state.
THEOREM ChunksAreNumberedThrough == Spec => []PipeInv
  <1>1. Init => PipeInv
    BY PipeInitOK DEF Init
  <1>2. IInv /\ PipeInv /\ [Next]_vars => PipeInv'
    BY NextImplements
  <1> QED BY <1>1, <1>2, PathInvariant, PTL DEF Spec

\* The safety of ImplementsPipe: as long as the thread does not fail the chunks are parsed in
\* the order in which they came, each of them once, and by one parser, whichever thread does it
\* and whenever the main thread takes over.
THEOREM ThreadsArePipe == Spec => Pipe!Init /\ [][Pipe!Next]_(Pipe!pipe)
  <1>1. Init => Pipe!Init
    BY PipeInitOK DEF Init
  <1>2. IInv /\ PipeInv /\ [Next]_vars => [Pipe!Next]_(Pipe!pipe)
    BY NextImplements
  <1> QED BY <1>1, <1>2, PathInvariant, ChunksAreNumberedThrough, PTL DEF Spec
=============================================================================
