--------------------------- MODULE DiscoveryProofs ---------------------------
(***************************************************************************)
(* The safety of Discovery for every number of entities, links and names,  *)
(* and for queues of any length.                                           *)
(*                                                                         *)
(* What the broker will hold of an entity is what the last publication     *)
(* under way says of it, or what the broker holds when there is none.      *)
(* Promised says that this is what the manager last wanted, for every      *)
(* entity, at every moment; BrokerHoldsTheDiscovered is what remains of it *)
(* when nothing is under way.                                              *)
(***************************************************************************)
EXTENDS Discovery, SequenceTheorems, FunctionTheorems, FiniteSetTheorems, TLAPS

Messages == {Online} \cup [topic : Entities, payload : Names \cup {None}]

Silent(s, e) == \A i \in 1..Len(s) : s[i].topic # e

LastFor(s, e, v) ==
    \E i \in 1..Len(s) : s[i] = Publication(e, v) /\ \A j \in (i + 1)..Len(s) : s[j].topic # e

\* Once these publications have arrived the broker, which now holds held, holds v for e.
EndsIn(s, held, e, v) == LastFor(s, e, v) \/ (Silent(s, e) /\ held[e] = v)

Ends(e, v) == EndsIn(outbox, config, e, v)

Promised ==
    \A e \in Entities :
        \/ e \in lost /\ Silent(outbox, e)
        \/ /\ e \in discoveryPublished /\ renames[e] = <<>> => birth \/ Ends(e, name[e])
           /\ e \in revoked => Ends(e, None)

OnlineComes ==
    link = "up" =>
        session /\ (status = "online" \/ late \/ \E i \in 1..Len(outbox) : outbox[i] = Online)

IInv ==
    /\ TypeOK /\ outbox \in Seq(Messages)
    /\ discoveryPublished \cap revoked = {}
    /\ Promised /\ OnlineComes
    /\ birth => link = "up"

-----------------------------------------------------------------------------
(* Publications and sequences of them.                                     *)

LEMMA MessageFacts ==
  /\ Online \in Messages /\ Online.topic = "status"
  /\ \A e \in Entities, v \in Names \cup {None} :
        Publication(e, v) \in Messages /\ Publication(e, v) # Online
  /\ \A e, v : Publication(e, v).topic = e /\ Publication(e, v).payload = v
  /\ \A m \in Messages : m = Online \/ (m.topic \in Entities /\ m.payload \in Names \cup {None}
                                          /\ m = Publication(m.topic, m.payload))
  BY TopicAssumption DEF Messages, Online, Publication

LEMMA SeqOfSet ==
  ASSUME NEW T, IsFiniteSet(T)
  PROVE  LET s == SetToSeq(T)
         IN  /\ s \in Seq(T) /\ Len(s) \in Nat
             /\ \A i \in 1..Len(s) : s[i] \in T
             /\ \A i, j \in 1..Len(s) : s[i] = s[j] => i = j
             /\ \A x \in T : \E i \in 1..Len(s) : s[i] = x
  <1> DEFINE n == Cardinality(T)
             s == SetToSeq(T)
  <1>1. n \in Nat /\ \E f : f \in Bijection(1..n, T)
    BY FS_CardinalityType DEF ExistsBijection
  <1>2. \E f \in [1..n -> T] : IsInjective(f)
    <2>1. PICK f : f \in Bijection(1..n, T)
      BY <1>1
    <2> QED BY <2>1, Fun_BijectionProperties DEF Injection
  <1>3. s \in [1..n -> T] /\ IsInjective(s)
    BY <1>2 DEF SetToSeq
  <1> HIDE DEF s
  <1>4. s \in Injection(1..n, T)
    BY <1>3 DEF Injection
  <1> HIDE DEF n
  <1>5. Cardinality(1..n) = n
    BY <1>1, FS_Interval
  <1>6. s \in Surjection(1..n, T)
    BY <1>4, <1>5, FS_Injection DEF n
  <1>7. s \in Seq(T) /\ Len(s) = n
    BY <1>1, <1>3
  <1>8. /\ \A i, j \in 1..Len(s) : s[i] = s[j] => i = j
        /\ \A x \in T : \E i \in 1..Len(s) : s[i] = x
        /\ \A i \in 1..Len(s) : s[i] \in T
    BY <1>3, <1>6, <1>7, Fun_SurjectionProperties DEF IsInjective
  <1> QED BY <1>1, <1>7, <1>8 DEF s

LEMMA EmptyFacts ==
  /\ <<>> \in Seq(Messages) /\ <<Online>> \in Seq(Messages)
  /\ \A e : Silent(<<>>, e)
  /\ \A e \in Entities : Silent(<<Online>>, e)
  /\ \A e \in Entities, v \in Names \cup {None} :
        /\ <<Publication(e, v)>> \in Seq(Messages)
        /\ LastFor(<<Publication(e, v)>>, e, v)
        /\ \A d \in Entities \ {e} : Silent(<<Publication(e, v)>>, d)
  <1>1. <<>> \in Seq(Messages) /\ <<Online>> \in Seq(Messages)
    BY MessageFacts
  <1>2. \A e : Silent(<<>>, e)
    BY DEF Silent
  <1>3. \A e \in Entities : Silent(<<Online>>, e)
    BY MessageFacts, TopicAssumption DEF Silent
  <1>4. ASSUME NEW e \in Entities, NEW v \in Names \cup {None}
        PROVE  /\ <<Publication(e, v)>> \in Seq(Messages)
               /\ LastFor(<<Publication(e, v)>>, e, v)
               /\ \A d \in Entities \ {e} : Silent(<<Publication(e, v)>>, d)
    <2> DEFINE m == Publication(e, v)
    <2>1. m \in Messages /\ m.topic = e
      BY MessageFacts
    <2> HIDE DEF m
    <2>2. <<m>> \in Seq(Messages) /\ Len(<<m>>) = 1 /\ <<m>>[1] = m
      BY <2>1
    <2>3. \A j \in 2..1 : <<m>>[j].topic # e
      OBVIOUS
    <2>4. \E i \in 1..1 : <<m>>[i] = m /\ \A j \in (i + 1)..1 : <<m>>[j].topic # e
      BY <2>2
    <2>5. \A d \in Entities \ {e} : \A i \in 1..1 : <<m>>[i].topic # d
      BY <2>1, <2>2
    <2> QED BY <2>2, <2>4, <2>5 DEF LastFor, Silent, m
  <1> QED BY <1>1, <1>2, <1>3, <1>4

\* The configurations that publishDiscovery sends: one of each entity.
LEMMA Configurations ==
  ASSUME NEW S \in SUBSET Entities, NEW names \in [Entities -> Names]
  PROVE  LET s == SetToSeq({Publication(e, names[e]) : e \in S})
         IN  /\ s \in Seq(Messages)
             /\ \A e \in S : LastFor(s, e, names[e])
             /\ \A e \in Entities \ S : Silent(s, e)
  <1> DEFINE T == {Publication(e, names[e]) : e \in S}
             F == [e \in S |-> Publication(e, names[e])]
             s == SetToSeq(T)
  <1>1. IsFiniteSet(T)
    <2>1. IsFiniteSet(S)
      BY IdsAssumption, FS_Subset
    <2>2. F \in [S -> T] /\ \A t \in T : \E e \in S : F[e] = t
      OBVIOUS
    <2>3. F \in Surjection(S, T)
      BY <2>2 DEF Surjection
    <2> QED BY <2>1, <2>3, FS_Surjection
  <1>2. /\ s \in Seq(T) /\ Len(s) \in Nat
        /\ \A i \in 1..Len(s) : s[i] \in T
        /\ \A i, j \in 1..Len(s) : s[i] = s[j] => i = j
        /\ \A x \in T : \E i \in 1..Len(s) : s[i] = x
    BY <1>1, SeqOfSet
  <1>3. T \subseteq Messages
    BY MessageFacts
  <1> HIDE DEF s
  <1>4. \A i \in 1..Len(s) : \E d \in S : s[i] = Publication(d, names[d]) /\ s[i].topic = d
    <2> SUFFICES ASSUME NEW i \in 1..Len(s)
                 PROVE  \E d \in S : s[i] = Publication(d, names[d]) /\ s[i].topic = d
      OBVIOUS
    <2>1. PICK d \in S : s[i] = Publication(d, names[d])
      BY <1>2
    <2>2. s[i].topic = d
      BY <2>1, MessageFacts
    <2> QED BY <2>1, <2>2
  <1>5. s \in Seq(Messages)
    BY <1>2, <1>3
  <1>6. ASSUME NEW e \in S
        PROVE  LastFor(s, e, names[e])
    <2>1. PICK i \in 1..Len(s) : s[i] = Publication(e, names[e])
      BY <1>2
    <2>2. ASSUME NEW j \in (i + 1)..Len(s)
          PROVE  s[j].topic # e
      <3>1. j \in 1..Len(s) /\ j # i
        BY <1>2
      <3>2. s[j] # s[i]
        BY <1>2, <3>1
      <3> QED BY <1>4, <2>1, <3>1, <3>2
    <2> QED BY <2>1, <2>2 DEF LastFor
  <1>7. ASSUME NEW e \in Entities \ S
        PROVE  Silent(s, e)
    BY <1>4, <1>7 DEF Silent
  <1> QED BY <1>5, <1>6, <1>7 DEF s

LEMMA Appended ==
  ASSUME NEW s \in Seq(Messages), NEW t \in Seq(Messages), NEW e, NEW v
  PROVE  /\ s \o t \in Seq(Messages)
         /\ LastFor(t, e, v) => LastFor(s \o t, e, v)
         /\ Silent(t, e) /\ LastFor(s, e, v) => LastFor(s \o t, e, v)
         /\ Silent(t, e) /\ Silent(s, e) => Silent(s \o t, e)
         /\ (\E i \in 1..Len(s) : s[i] = Online) => \E i \in 1..Len(s \o t) : (s \o t)[i] = Online
         /\ (\E i \in 1..Len(t) : t[i] = Online) => \E i \in 1..Len(s \o t) : (s \o t)[i] = Online
  <1> DEFINE w == s \o t
  <1>1. /\ w \in Seq(Messages) /\ Len(w) = Len(s) + Len(t)
        /\ Len(s) \in Nat /\ Len(t) \in Nat
        /\ \A i \in 1..Len(w) : w[i] = IF i <= Len(s) THEN s[i] ELSE t[i - Len(s)]
    BY ConcatProperties, LenProperties
  <1> HIDE DEF w
  <1>2. \A i \in 1..Len(s) : i \in 1..Len(w) /\ w[i] = s[i]
    BY <1>1
  <1>3. \A i \in 1..Len(t) : i + Len(s) \in 1..Len(w) /\ w[i + Len(s)] = t[i]
    <2> SUFFICES ASSUME NEW i \in 1..Len(t)
                 PROVE  i + Len(s) \in 1..Len(w) /\ w[i + Len(s)] = t[i]
      OBVIOUS
    <2>1. i + Len(s) \in 1..Len(w) /\ ~(i + Len(s) <= Len(s)) /\ i + Len(s) - Len(s) = i
      BY <1>1
    <2> QED BY <1>1, <2>1
  <1>4. \A i \in 1..Len(w) : i \in 1..Len(s) \/ (i - Len(s) \in 1..Len(t) /\ w[i] = t[i - Len(s)])
    BY <1>1
  <1>5. ASSUME LastFor(t, e, v)
        PROVE  LastFor(w, e, v)
    <2>1. PICK i \in 1..Len(t) : t[i] = Publication(e, v) /\ \A j \in (i + 1)..Len(t) : t[j].topic # e
      BY <1>5 DEF LastFor
    <2> DEFINE k == i + Len(s)
    <2>2. k \in 1..Len(w) /\ w[k] = Publication(e, v)
      BY <1>3, <2>1
    <2>3. ASSUME NEW j \in (k + 1)..Len(w)
          PROVE  w[j].topic # e
      <3>1. j \in 1..Len(w) /\ j \notin 1..Len(s) /\ (j - Len(s) \in 1..Len(t) => j - Len(s) \in (i + 1)..Len(t))
        BY <1>1
      <3> QED BY <1>4, <2>1, <3>1
    <2> HIDE DEF k
    <2> QED BY <2>2, <2>3 DEF LastFor
  <1>6. ASSUME Silent(t, e), LastFor(s, e, v)
        PROVE  LastFor(w, e, v)
    <2>1. PICK i \in 1..Len(s) : s[i] = Publication(e, v) /\ \A j \in (i + 1)..Len(s) : s[j].topic # e
      BY <1>6 DEF LastFor
    <2>2. ASSUME NEW j \in (i + 1)..Len(w)
          PROVE  w[j].topic # e
      <3>1. j \in 1..Len(w) /\ (j \in 1..Len(s) => j \in (i + 1)..Len(s))
        BY <1>1
      <3> QED BY <1>2, <1>4, <1>6, <2>1, <3>1 DEF Silent
    <2> QED BY <1>2, <2>1, <2>2 DEF LastFor
  <1>7. ASSUME Silent(t, e), Silent(s, e)
        PROVE  Silent(w, e)
    BY <1>2, <1>4, <1>7 DEF Silent
  <1>8. /\ (\E i \in 1..Len(s) : s[i] = Online) => \E i \in 1..Len(w) : w[i] = Online
        /\ (\E i \in 1..Len(t) : t[i] = Online) => \E i \in 1..Len(w) : w[i] = Online
    BY <1>2, <1>3
  <1> QED BY <1>1, <1>5, <1>6, <1>7, <1>8 DEF w

-----------------------------------------------------------------------------
(* What every publication of the manager keeps.                            *)

LEMMA OutboxType ==
  ASSUME NEW s \in Seq(Messages)
  PROVE  \A m \in ToSet(s) : m = Online \/ (m.topic \in Entities /\ m.payload \in Names \cup {None})
  <1>1. \A m \in ToSet(s) : m \in Messages
    BY DEF ToSet
  <1> QED BY <1>1, MessageFacts

\* What is appended about e is what the broker will hold, and if nothing is, nothing changes.
LEMMA EndsAfter ==
  ASSUME NEW s \in Seq(Messages), NEW t \in Seq(Messages), NEW e, NEW v, NEW held
  PROVE  /\ LastFor(t, e, v) => EndsIn(s \o t, held, e, v)
         /\ Silent(t, e) /\ EndsIn(s, held, e, v) => EndsIn(s \o t, held, e, v)
         /\ Silent(t, e) /\ Silent(s, e) => Silent(s \o t, e)
  <1>1. /\ LastFor(t, e, v) => LastFor(s \o t, e, v)
        /\ Silent(t, e) /\ LastFor(s, e, v) => LastFor(s \o t, e, v)
        /\ Silent(t, e) /\ Silent(s, e) => Silent(s \o t, e)
    BY Appended
  <1> QED BY <1>1 DEF EndsIn

\* publishDiscovery of the entities in S.  An entity that is not among them keeps its name,
\* unless it is not published.
LEMMA PublishKeeps ==
  ASSUME IInv, option' = option, config' = config, lost' = lost,
         name' \in [Entities -> Names], birth' \in BOOLEAN,
         NEW S \in SUBSET {e \in Entities : option[e] # "hidden"},
         NEW before \in {<<>>, <<Online>>},
         outbox' = outbox \o (before \o SetToSeq({Publication(e, name'[e]) : e \in S})),
         discoveryPublished' = discoveryPublished \cup S,
         revoked' = revoked \ S,
         \A e \in Entities \ S : e \in discoveryPublished =>
            name'[e] = name[e] /\ renames'[e] = renames[e] /\ birth' = birth
  PROVE  /\ outbox' \in Seq(Messages)
         /\ \A m \in ToSet(outbox') : m = Online \/ (m.topic \in Entities /\ m.payload \in Names \cup {None})
         /\ discoveryPublished' \subseteq {e \in Entities : option'[e] # "hidden"}
         /\ revoked' \subseteq Entities /\ (discoveryPublished \cap revoked = {})'
         /\ Promised'
         /\ before = <<Online>> \/ (\E i \in 1..Len(outbox) : outbox[i] = Online) =>
               \E i \in 1..Len(outbox') : outbox'[i] = Online
  <1> DEFINE s == SetToSeq({Publication(e, name'[e]) : e \in S})
             t == before \o s
  <1>1. /\ TypeOK /\ outbox \in Seq(Messages) /\ discoveryPublished \cap revoked = {}
        /\ Promised /\ S \subseteq Entities
    BY DEF IInv
  <1>2. /\ s \in Seq(Messages)
        /\ \A e \in S : LastFor(s, e, name'[e])
        /\ \A e \in Entities \ S : Silent(s, e)
    BY <1>1, Configurations
  <1> HIDE DEF s
  <1>3. before \in Seq(Messages) /\ \A e \in Entities : Silent(before, e)
    BY EmptyFacts
  <1>4. t \in Seq(Messages) /\ outbox' = outbox \o t
    BY <1>2, <1>3, Appended DEF s
  <1>5. /\ \A e \in S : LastFor(t, e, name'[e])
        /\ \A e \in Entities \ S : Silent(t, e)
        /\ before = <<Online>> => \E i \in 1..Len(t) : t[i] = Online
    <2>1. before = <<Online>> => \E i \in 1..Len(before) : before[i] = Online
      OBVIOUS
    <2> QED BY <1>2, <1>3, <2>1, Appended
  <1> HIDE DEF t
  <1>6. /\ outbox' \in Seq(Messages)
        /\ before = <<Online>> \/ (\E i \in 1..Len(outbox) : outbox[i] = Online) =>
               \E i \in 1..Len(outbox') : outbox'[i] = Online
    <2> DEFINE w == outbox \o t
    <2>1. /\ w \in Seq(Messages)
          /\ before = <<Online>> \/ (\E i \in 1..Len(outbox) : outbox[i] = Online) =>
                 \E i \in 1..Len(w) : w[i] = Online
      BY <1>1, <1>4, <1>5, Appended
    <2>2. outbox' = w
      BY <1>4
    <2> HIDE DEF w
    <2> QED BY <2>1, <2>2
  \* What is said of e after it, of its name and of none.
  <1>7. ASSUME NEW e \in Entities, NEW v
        PROVE  /\ LastFor(t, e, v) => EndsIn(outbox', config', e, v)
               /\ Silent(t, e) /\ EndsIn(outbox, config, e, v) => EndsIn(outbox', config', e, v)
               /\ Silent(t, e) /\ Silent(outbox, e) => Silent(outbox', e)
    <2> DEFINE w == outbox \o t
    <2>1. /\ LastFor(t, e, v) => EndsIn(w, config, e, v)
          /\ Silent(t, e) /\ EndsIn(outbox, config, e, v) => EndsIn(w, config, e, v)
          /\ Silent(t, e) /\ Silent(outbox, e) => Silent(w, e)
      BY <1>1, <1>4, EndsAfter
    <2>2. outbox' = w
      BY <1>4
    <2> HIDE DEF w
    <2> QED BY <2>1, <2>2
  <1>8. ASSUME NEW e \in Entities
        PROVE  \/ e \in lost' /\ Silent(outbox', e)
               \/ /\ e \in discoveryPublished' /\ renames'[e] = <<>> =>
                        birth' \/ EndsIn(outbox', config', e, name'[e])
                  /\ e \in revoked' => EndsIn(outbox', config', e, None)
    <2>1. CASE e \in S
      BY <1>5, <1>7, <2>1
    <2>2. CASE e \notin S
      <3>1. Silent(t, e)
        BY <1>5, <2>2
      <3>2. \/ e \in lost /\ Silent(outbox, e)
            \/ /\ e \in discoveryPublished /\ renames[e] = <<>> =>
                     birth \/ EndsIn(outbox, config, e, name[e])
               /\ e \in revoked => EndsIn(outbox, config, e, None)
        BY <1>1 DEF Promised, Ends
      <3>3. e \in revoked' => e \in revoked
        OBVIOUS
      <3>4. e \in discoveryPublished' => /\ e \in discoveryPublished /\ name'[e] = name[e]
                                         /\ renames'[e] = renames[e] /\ birth' = birth
        BY <2>2
      <3>5. EndsIn(outbox, config, e, name[e]) => EndsIn(outbox', config', e, name[e])
        BY <1>7, <3>1
      <3>6. EndsIn(outbox, config, e, None) => EndsIn(outbox', config', e, None)
        BY <1>7, <3>1
      <3>7. Silent(outbox, e) => Silent(outbox', e)
        BY <1>7, <3>1
      <3> QED BY <3>2, <3>3, <3>4, <3>5, <3>6, <3>7
    <2> QED BY <2>1, <2>2
  <1>9. Promised'
    BY <1>8 DEF Promised, Ends
  <1>10. /\ discoveryPublished' \subseteq {e \in Entities : option'[e] # "hidden"}
         /\ revoked' \subseteq Entities /\ (discoveryPublished \cap revoked = {})'
    BY <1>1 DEF TypeOK
  <1> QED BY <1>6, <1>9, <1>10, OutboxType

\* The empty configuration of e is published and from now on it is revoked, or has a rename
\* to come.
LEMMA NonePublished ==
  ASSUME IInv, NEW e \in Entities, outbox' = outbox \o <<Publication(e, None)>>,
         UNCHANGED <<option, config, lost, name, birth>>,
         \A d \in Entities \ {e} : renames'[d] = renames[d],
         \/ renames'[e] # <<>> /\ UNCHANGED <<discoveryPublished, revoked>>
         \/ discoveryPublished' = discoveryPublished \ {e} /\ revoked' = revoked \cup {e}
  PROVE  /\ outbox' \in Seq(Messages)
         /\ \A m \in ToSet(outbox') : m = Online \/ (m.topic \in Entities /\ m.payload \in Names \cup {None})
         /\ discoveryPublished' \subseteq {d \in Entities : option'[d] # "hidden"}
         /\ revoked' \subseteq Entities /\ (discoveryPublished \cap revoked = {})'
         /\ Promised'
         /\ (\E i \in 1..Len(outbox) : outbox[i] = Online) =>
               \E i \in 1..Len(outbox') : outbox'[i] = Online
  <1> DEFINE t == <<Publication(e, None)>>
             w == outbox \o t
  <1>1. /\ TypeOK /\ outbox \in Seq(Messages) /\ discoveryPublished \cap revoked = {} /\ Promised
    BY DEF IInv
  <1>2. /\ t \in Seq(Messages) /\ LastFor(t, e, None)
        /\ \A d \in Entities \ {e} : Silent(t, d)
    BY EmptyFacts
  <1> HIDE DEF t
  <1>3. /\ w \in Seq(Messages)
        /\ (\E i \in 1..Len(outbox) : outbox[i] = Online) => \E i \in 1..Len(w) : w[i] = Online
    BY <1>1, <1>2, Appended
  <1>4. \A d \in Entities : \A v :
           /\ LastFor(t, d, v) => EndsIn(w, config, d, v)
           /\ Silent(t, d) /\ EndsIn(outbox, config, d, v) => EndsIn(w, config, d, v)
           /\ Silent(t, d) /\ Silent(outbox, d) => Silent(w, d)
    BY <1>1, <1>2, EndsAfter
  <1>5. outbox' = w
    BY DEF t
  <1> HIDE DEF w
  <1>6. ASSUME NEW d \in Entities
        PROVE  \/ d \in lost' /\ Silent(outbox', d)
               \/ /\ d \in discoveryPublished' /\ renames'[d] = <<>> =>
                        birth' \/ EndsIn(outbox', config', d, name'[d])
                  /\ d \in revoked' => EndsIn(outbox', config', d, None)
    <2>1. CASE d = e
      BY <1>1, <1>2, <1>4, <1>5, <2>1
    <2>2. CASE d # e
      <3>1. /\ renames'[d] = renames[d] /\ Silent(t, d)
            /\ d \in discoveryPublished' <=> d \in discoveryPublished
            /\ d \in revoked' <=> d \in revoked
        BY <1>2, <2>2
      <3>2. \/ d \in lost /\ Silent(outbox, d)
            \/ /\ d \in discoveryPublished /\ renames[d] = <<>> =>
                     birth \/ EndsIn(outbox, config, d, name[d])
               /\ d \in revoked => EndsIn(outbox, config, d, None)
        BY <1>1 DEF Promised, Ends
      <3> QED BY <1>4, <1>5, <3>1, <3>2
    <2> QED BY <2>1, <2>2
  <1>7. Promised'
    BY <1>6 DEF Promised, Ends
  <1>8. /\ discoveryPublished' \subseteq {d \in Entities : option'[d] # "hidden"}
        /\ revoked' \subseteq Entities /\ (discoveryPublished \cap revoked = {})'
    BY <1>1 DEF TypeOK
  <1> QED BY <1>3, <1>5, <1>7, <1>8, OutboxType

-----------------------------------------------------------------------------
(* The manager's actions.                                                  *)

LEMMA RenamesFacts ==
  ASSUME TypeOK, NEW e \in Entities
  PROVE  /\ renames[e] # <<>> => /\ Head(renames[e]) \in Names /\ Tail(renames[e]) \in Seq(Names)
                                 /\ Last(renames[e]) \in Names
         /\ \A n \in Names : Append(renames[e], n) \in Seq(Names) /\ Append(renames[e], n) # <<>>
  <1>1. renames[e] \in Seq(Names)
    BY DEF TypeOK
  <1>2. ASSUME renames[e] # <<>>
        PROVE  Last(renames[e]) \in Names
    <2>1. Len(renames[e]) \in 1..Len(renames[e])
      BY <1>1, <1>2, EmptySeq
    <2> QED BY <1>1, <2>1, ElementOfSeq DEF Last
  <1> QED BY <1>1, <1>2, HeadTailProperties, AppendProperties

LEMMA HandleStateReceivedOK ==
  ASSUME IInv, NEW e \in Ids, HandleStateReceived(e), birth' = birth, OthersUnchanged
  PROVE  IInv'
  <1> DEFINE targets == {d \in Entities : d = e \/ (d \in DOMAIN Links /\ Links[d] = e)}
             S == {d \in targets : Eligible(d, stateReceived')}
  <1>1. TypeOK
    BY DEF IInv
  <1>2. /\ stateReceived' = stateReceived \cup {e} /\ name' = name /\ renames' = renames
        /\ PublishDiscovery(S, name, <<>>)
    BY Zenon DEF HandleStateReceived
  <1>3. S \in SUBSET {d \in Entities : option[d] # "hidden"}
    BY DEF Eligible
  <1> HIDE DEF S
  <1>4. /\ outbox' = outbox \o (<<>> \o SetToSeq({Publication(d, name'[d]) : d \in S}))
        /\ discoveryPublished' = discoveryPublished \cup S /\ revoked' = revoked \ S
    BY <1>2 DEF PublishDiscovery, Publish
  <1>5. UNCHANGED <<option, link, session, oldSession, status, config, late, lost>>
    BY DEF OthersUnchanged, broker
  <1>6. name' \in [Entities -> Names] /\ birth' \in BOOLEAN
    BY <1>1, <1>2 DEF TypeOK
  <1>7. /\ outbox' \in Seq(Messages)
        /\ \A m \in ToSet(outbox') : m = Online \/ (m.topic \in Entities /\ m.payload \in Names \cup {None})
        /\ discoveryPublished' \subseteq {d \in Entities : option'[d] # "hidden"}
        /\ revoked' \subseteq Entities /\ (discoveryPublished \cap revoked = {})'
        /\ Promised'
        /\ (\E i \in 1..Len(outbox) : outbox[i] = Online) =>
               \E i \in 1..Len(outbox') : outbox'[i] = Online
    BY <1>2, <1>3, <1>4, <1>5, <1>6, PublishKeeps
  <1>8. TypeOK'
    BY <1>1, <1>2, <1>5, <1>6, <1>7 DEF TypeOK
  <1>9. OnlineComes'
    BY <1>5, <1>7 DEF IInv, OnlineComes
  <1>10. birth' => link' = "up"
    BY <1>5 DEF IInv
  <1> QED BY <1>7, <1>8, <1>9, <1>10 DEF IInv

LEMMA RenameTimerOK ==
  ASSUME IInv, NEW e \in Entities, RenameTimer(e), birth' = birth, OthersUnchanged
  PROVE  IInv'
  <1> DEFINE S == {e} \ {d \in Entities : option[d] = "hidden"}
  <1>1. TypeOK
    BY DEF IInv
  <1>2. /\ renames[e] # <<>>
        /\ name' = [name EXCEPT ![e] = Head(renames[e])]
        /\ renames' = [renames EXCEPT ![e] = Tail(renames[e])]
        /\ PublishDiscovery(S, name', <<>>) /\ stateReceived' = stateReceived
    BY DEF RenameTimer
  <1>3. S \in SUBSET {d \in Entities : option[d] # "hidden"}
    OBVIOUS
  <1>4. \A d \in Entities \ S : d \in discoveryPublished => d # e
    BY <1>1 DEF TypeOK
  <1> HIDE DEF S
  <1>5. /\ outbox' = outbox \o (<<>> \o SetToSeq({Publication(d, name'[d]) : d \in S}))
        /\ discoveryPublished' = discoveryPublished \cup S /\ revoked' = revoked \ S
    BY <1>2 DEF PublishDiscovery, Publish
  <1>6. UNCHANGED <<option, link, session, oldSession, status, config, late, lost>>
    BY DEF OthersUnchanged, broker
  <1>7. /\ name' \in [Entities -> Names] /\ renames' \in [Entities -> Seq(Names)]
        /\ birth' \in BOOLEAN
        /\ \A d \in Entities \ {e} : name'[d] = name[d] /\ renames'[d] = renames[d]
    BY <1>1, <1>2, RenamesFacts DEF TypeOK
  <1>8. \A d \in Entities \ S : d \in discoveryPublished =>
           name'[d] = name[d] /\ renames'[d] = renames[d] /\ birth' = birth
    BY <1>4, <1>7
  <1>9. /\ outbox' \in Seq(Messages)
        /\ \A m \in ToSet(outbox') : m = Online \/ (m.topic \in Entities /\ m.payload \in Names \cup {None})
        /\ discoveryPublished' \subseteq {d \in Entities : option'[d] # "hidden"}
        /\ revoked' \subseteq Entities /\ (discoveryPublished \cap revoked = {})'
        /\ Promised'
        /\ (\E i \in 1..Len(outbox) : outbox[i] = Online) =>
               \E i \in 1..Len(outbox') : outbox'[i] = Online
    BY <1>3, <1>5, <1>6, <1>7, <1>8, PublishKeeps
  <1>10. TypeOK'
    BY <1>1, <1>2, <1>6, <1>7, <1>9 DEF TypeOK
  <1>11. OnlineComes'
    BY <1>6, <1>9 DEF IInv, OnlineComes
  <1>12. birth' => link' = "up"
    BY <1>6 DEF IInv
  <1> QED BY <1>9, <1>10, <1>11, <1>12 DEF IInv

LEMMA RepublishOK ==
  ASSUME IInv, RepublishDiscovered, OthersUnchanged
  PROVE  IInv'
  <1> DEFINE S == discoveryPublished
  <1>1. TypeOK
    BY DEF IInv
  <1>2. /\ birth' = FALSE /\ UNCHANGED <<stateReceived, name, renames>>
        /\ PublishDiscovery(S, name, <<>>)
    BY DEF RepublishDiscovered
  <1>3. S \in SUBSET {d \in Entities : option[d] # "hidden"}
    BY <1>1 DEF TypeOK
  <1>4. /\ outbox' = outbox \o (<<>> \o SetToSeq({Publication(d, name'[d]) : d \in S}))
        /\ discoveryPublished' = discoveryPublished \cup S /\ revoked' = revoked \ S
    BY <1>2 DEF PublishDiscovery, Publish
  <1>5. UNCHANGED <<option, link, session, oldSession, status, config, late, lost>>
    BY DEF OthersUnchanged, broker
  <1>6. name' \in [Entities -> Names] /\ birth' \in BOOLEAN
    BY <1>1, <1>2 DEF TypeOK
  <1>7. /\ outbox' \in Seq(Messages)
        /\ \A m \in ToSet(outbox') : m = Online \/ (m.topic \in Entities /\ m.payload \in Names \cup {None})
        /\ discoveryPublished' \subseteq {d \in Entities : option'[d] # "hidden"}
        /\ revoked' \subseteq Entities /\ (discoveryPublished \cap revoked = {})'
        /\ Promised'
        /\ (\E i \in 1..Len(outbox) : outbox[i] = Online) =>
               \E i \in 1..Len(outbox') : outbox'[i] = Online
    BY <1>2, <1>3, <1>4, <1>5, <1>6, PublishKeeps
  <1>8. TypeOK'
    BY <1>1, <1>2, <1>5, <1>6, <1>7 DEF TypeOK
  <1>9. OnlineComes'
    BY <1>5, <1>7 DEF IInv, OnlineComes
  <1>10. birth' => link' = "up"
    BY <1>2 DEF IInv
  <1> QED BY <1>7, <1>8, <1>9, <1>10 DEF IInv

LEMMA NonePublishedOK ==
  ASSUME IInv, NEW e \in Entities,
         RevokeDiscovery(e) \/ \E n \in Names : HandleEntityRenamed(e, n),
         birth' = birth, OthersUnchanged
  PROVE  IInv'
  <1>1. TypeOK
    BY DEF IInv
  <1>2. /\ outbox' = outbox \o <<Publication(e, None)>> /\ UNCHANGED <<stateReceived, name>>
        /\ \/ /\ discoveryPublished' = discoveryPublished \ {e} /\ revoked' = revoked \cup {e}
              /\ renames' = renames
           \/ /\ UNCHANGED <<discoveryPublished, revoked>>
              /\ \E n \in Names : renames' = [renames EXCEPT ![e] = Append(renames[e], n)]
    BY DEF RevokeDiscovery, HandleEntityRenamed, Publish
  <1>3. UNCHANGED <<option, link, session, oldSession, status, config, late, lost>>
    BY DEF OthersUnchanged, broker
  <1>4. /\ renames' \in [Entities -> Seq(Names)]
        /\ \A d \in Entities \ {e} : renames'[d] = renames[d]
        /\ \/ renames'[e] # <<>> /\ UNCHANGED <<discoveryPublished, revoked>>
           \/ discoveryPublished' = discoveryPublished \ {e} /\ revoked' = revoked \cup {e}
    <2>1. CASE /\ discoveryPublished' = discoveryPublished \ {e} /\ revoked' = revoked \cup {e}
               /\ renames' = renames
      BY <1>1, <2>1 DEF TypeOK
    <2>2. ASSUME UNCHANGED <<discoveryPublished, revoked>>, NEW n \in Names,
                 renames' = [renames EXCEPT ![e] = Append(renames[e], n)]
          PROVE  /\ renames' \in [Entities -> Seq(Names)] /\ renames'[e] # <<>>
                 /\ \A d \in Entities \ {e} : renames'[d] = renames[d]
      <3> DEFINE q == Append(renames[e], n)
      <3>1. q \in Seq(Names) /\ q # <<>>
        BY <1>1, RenamesFacts
      <3>2. renames' = [renames EXCEPT ![e] = q]
        BY <2>2
      <3> HIDE DEF q
      <3> QED BY <1>1, <3>1, <3>2 DEF TypeOK
    <2> QED BY <1>2, <2>1, <2>2
  <1>5. /\ outbox' \in Seq(Messages)
        /\ \A m \in ToSet(outbox') : m = Online \/ (m.topic \in Entities /\ m.payload \in Names \cup {None})
        /\ discoveryPublished' \subseteq {d \in Entities : option'[d] # "hidden"}
        /\ revoked' \subseteq Entities /\ (discoveryPublished \cap revoked = {})'
        /\ Promised'
        /\ (\E i \in 1..Len(outbox) : outbox[i] = Online) =>
               \E i \in 1..Len(outbox') : outbox'[i] = Online
    BY <1>2, <1>3, <1>4, NonePublished
  <1>6. TypeOK'
    BY <1>1, <1>2, <1>3, <1>4, <1>5 DEF TypeOK
  <1>7. OnlineComes'
    BY <1>3, <1>5 DEF IInv, OnlineComes
  <1>8. birth' => link' = "up"
    BY <1>3 DEF IInv
  <1> QED BY <1>5, <1>6, <1>7, <1>8 DEF IInv

-----------------------------------------------------------------------------
(* The connection and the others.                                          *)

LEMMA ConnectOK ==
  ASSUME IInv, Connect
  PROVE  IInv'
  <1> DEFINE S == {e \in Entities : Eligible(e, stateReceived)}
  <1>1. TypeOK
    BY DEF IInv
  <1>2. /\ link' = "up" /\ session' = TRUE /\ late' = FALSE
        /\ status' = IF session THEN "offline" ELSE status
        /\ UNCHANGED <<option, stateReceived, name, renames, birth, oldSession, config, lost>>
        /\ PublishDiscovery(S, name, <<Online>>)
    BY DEF Connect, Discover
  <1>3. S \in SUBSET {d \in Entities : option[d] # "hidden"}
    BY DEF Eligible
  <1> HIDE DEF S
  <1>4. /\ outbox' = outbox \o (<<Online>> \o SetToSeq({Publication(d, name'[d]) : d \in S}))
        /\ discoveryPublished' = discoveryPublished \cup S /\ revoked' = revoked \ S
    BY <1>2 DEF PublishDiscovery, Publish
  <1>5. name' \in [Entities -> Names] /\ birth' \in BOOLEAN
    BY <1>1, <1>2 DEF TypeOK
  <1>6. /\ outbox' \in Seq(Messages)
        /\ \A m \in ToSet(outbox') : m = Online \/ (m.topic \in Entities /\ m.payload \in Names \cup {None})
        /\ discoveryPublished' \subseteq {d \in Entities : option'[d] # "hidden"}
        /\ revoked' \subseteq Entities /\ (discoveryPublished \cap revoked = {})'
        /\ Promised'
        /\ \E i \in 1..Len(outbox') : outbox'[i] = Online
    BY <1>2, <1>3, <1>4, <1>5, PublishKeeps
  <1>7. TypeOK'
    BY <1>1, <1>2, <1>5, <1>6 DEF TypeOK
  <1>8. OnlineComes'
    BY <1>2, <1>6 DEF OnlineComes
  <1>9. birth' => link' = "up"
    BY <1>2 DEF IInv
  <1> QED BY <1>6, <1>7, <1>8, <1>9 DEF IInv

\* What was under way, or could have been asked for, counts as lost.
LEMMA LoseOK ==
  ASSUME IInv, Lose
  PROVE  IInv'
  <1>1. /\ TypeOK /\ outbox \in Seq(Messages) /\ Promised /\ discoveryPublished \cap revoked = {}
        /\ Len(outbox) \in Nat
    BY LenProperties DEF IInv
  <1>2. /\ link' = "down" /\ outbox' = <<>> /\ birth' = FALSE
        /\ lost' = lost \cup Topics(outbox) \cup (IF birth THEN Entities ELSE {})
        /\ UNCHANGED <<option, stateReceived, discoveryPublished, name, renames, revoked,
                       session, oldSession, status, config, late>>
    BY DEF Lose, LostNow, manager, broker
  <1>3. \A e : Silent(outbox', e)
    BY <1>2, EmptyFacts
  <1>4. \A e \in Entities : ~Silent(outbox, e) => e \in Topics(outbox)
    <2> SUFFICES ASSUME NEW e \in Entities, NEW i \in 1..Len(outbox), outbox[i].topic = e
                 PROVE  e \in Topics(outbox)
      BY DEF Silent
    <2>1. outbox[i] \in ToSet(outbox)
      BY <1>1 DEF ToSet
    <2> QED BY <2>1, TopicAssumption DEF Topics
  <1>5. Topics(outbox) \subseteq Entities
    <2> SUFFICES ASSUME NEW m \in ToSet(outbox), m.topic # "status"
                 PROVE  m.topic \in Entities
      BY DEF Topics
    <2> QED BY <1>1, OutboxType, MessageFacts
  <1>6. ASSUME NEW e \in Entities, e \notin lost'
        PROVE  /\ e \in discoveryPublished /\ renames[e] = <<>> => EndsIn(<<>>, config, e, name[e])
               /\ e \in revoked => EndsIn(<<>>, config, e, None)
    <2>1. ~birth /\ e \notin lost /\ Silent(outbox, e)
      BY <1>2, <1>4, <1>6
    <2>2. \A v : ~LastFor(outbox, e, v)
      BY <2>1, MessageFacts DEF LastFor, Silent
    <2>3. \A v : EndsIn(outbox, config, e, v) => config[e] = v
      BY <2>2 DEF EndsIn
    <2>4. \A v : config[e] = v => EndsIn(<<>>, config, e, v)
      BY EmptyFacts DEF EndsIn
    <2> QED BY <1>1, <2>1, <2>3, <2>4 DEF Promised, Ends
  <1>7. Promised'
    <2> SUFFICES ASSUME NEW e \in Entities
                 PROVE  \/ e \in lost' /\ Silent(outbox', e)
                        \/ /\ e \in discoveryPublished' /\ renames'[e] = <<>> =>
                                 birth' \/ EndsIn(outbox', config', e, name'[e])
                           /\ e \in revoked' => EndsIn(outbox', config', e, None)
      BY DEF Promised, Ends
    <2> QED BY <1>2, <1>3, <1>6
  <1>8. outbox' \in Seq(Messages)
    BY <1>2
  <1>9. \A m \in ToSet(outbox') : m = Online \/ (m.topic \in Entities /\ m.payload \in Names \cup {None})
    BY <1>8, OutboxType
  <1>10. TypeOK'
    BY <1>1, <1>2, <1>5, <1>9 DEF TypeOK
  <1>11. OnlineComes' /\ (discoveryPublished \cap revoked = {})'
    BY <1>1, <1>2 DEF OnlineComes
  <1>12. birth' => link' = "up"
    BY <1>2
  <1> QED BY <1>7, <1>8, <1>10, <1>11, <1>12 DEF IInv

\* Nothing but the status and the sessions.
LEMMA WillsOK ==
  ASSUME IInv, Will \/ OldWill
  PROVE  IInv'
  <1>1. TypeOK /\ outbox \in Seq(Messages) /\ Promised /\ discoveryPublished \cap revoked = {}
        /\ OnlineComes
    BY DEF IInv
  <1>2. UNCHANGED <<option, stateReceived, discoveryPublished, name, renames, revoked, link, outbox,
                    birth, config, lost>>
    BY DEF Will, OldWill, manager
  <1>3. /\ status' = "offline"
        /\ \/ link = "down" /\ session' = FALSE /\ UNCHANGED <<oldSession, late>>
           \/ oldSession' = FALSE /\ late' = session /\ session' = session
    BY DEF Will, OldWill
  <1>4. Promised'
    BY <1>1, <1>2 DEF Promised, Ends
  <1>5. TypeOK'
    BY <1>1, <1>2, <1>3 DEF TypeOK
  <1>6. OnlineComes'
    BY <1>1, <1>2, <1>3 DEF OnlineComes
  <1>7. birth' => link' = "up"
    BY <1>2 DEF IInv
  <1> QED BY <1>1, <1>2, <1>4, <1>5, <1>6, <1>7 DEF IInv

LEMMA TailOf ==
  ASSUME NEW s \in Seq(Messages), s # <<>>, NEW e \in Entities, NEW v
  PROVE  /\ Head(s) \in Messages /\ Tail(s) \in Seq(Messages)
         /\ Silent(s, e) => Silent(Tail(s), e) /\ Head(s).topic # e
         /\ LastFor(s, e, v) =>
               LastFor(Tail(s), e, v) \/ (Head(s) = Publication(e, v) /\ Silent(Tail(s), e))
         /\ (\E i \in 1..Len(s) : s[i] = Online) =>
               Head(s) = Online \/ \E i \in 1..Len(Tail(s)) : Tail(s)[i] = Online
  <1> DEFINE t == Tail(s)
  <1>1. /\ Head(s) \in Messages /\ t \in Seq(Messages) /\ Len(t) = Len(s) - 1
        /\ \A i \in 1..Len(t) : t[i] = s[i + 1]
        /\ Head(s) = s[1] /\ Len(s) \in Nat \ {0}
    BY HeadTailProperties, EmptySeq
  <1> HIDE DEF t
  <1>2. \A i \in 1..Len(t) : i + 1 \in 1..Len(s) /\ i + 1 # 1
    BY <1>1
  <1>3. \A i \in 1..Len(s) : i # 1 => i - 1 \in 1..Len(t) /\ t[i - 1] = s[i]
    <2> SUFFICES ASSUME NEW i \in 1..Len(s), i # 1
                 PROVE  i - 1 \in 1..Len(t) /\ t[i - 1] = s[i]
      OBVIOUS
    <2>1. i - 1 \in 1..Len(t) /\ (i - 1) + 1 = i
      BY <1>1
    <2> QED BY <1>1, <2>1
  <1>4. Silent(s, e) => Silent(t, e) /\ Head(s).topic # e
    BY <1>1, <1>2 DEF Silent
  <1>5. ASSUME LastFor(s, e, v)
        PROVE  LastFor(t, e, v) \/ (Head(s) = Publication(e, v) /\ Silent(t, e))
    <2>1. PICK i \in 1..Len(s) : s[i] = Publication(e, v) /\ \A j \in (i + 1)..Len(s) : s[j].topic # e
      BY <1>5 DEF LastFor
    <2>2. CASE i = 1
      <3>1. \A j \in 1..Len(t) : j + 1 \in (i + 1)..Len(s)
        BY <1>1, <2>2
      <3> QED BY <1>1, <2>1, <2>2, <3>1 DEF Silent
    <2>3. CASE i # 1
      <3> DEFINE k == i - 1
      <3>1. k \in 1..Len(t) /\ t[k] = Publication(e, v)
        BY <1>3, <2>1, <2>3
      <3>2. ASSUME NEW j \in (k + 1)..Len(t)
            PROVE  t[j].topic # e
        <4>1. j \in 1..Len(t) /\ j + 1 \in (i + 1)..Len(s)
          BY <1>1, <2>3
        <4> QED BY <1>1, <2>1, <4>1
      <3> HIDE DEF k
      <3> QED BY <3>1, <3>2 DEF LastFor
    <2> QED BY <2>2, <2>3
  <1>6. (\E i \in 1..Len(s) : s[i] = Online) => Head(s) = Online \/ \E i \in 1..Len(t) : t[i] = Online
    BY <1>1, <1>3
  <1> QED BY <1>1, <1>4, <1>5, <1>6 DEF t

LEMMA DeliverOK ==
  ASSUME IInv, Deliver
  PROVE  IInv'
  <1> DEFINE m == Head(outbox)
  <1>1. /\ TypeOK /\ outbox \in Seq(Messages) /\ Promised /\ discoveryPublished \cap revoked = {}
        /\ OnlineComes
    BY DEF IInv
  <1>2. /\ outbox # <<>> /\ outbox' = Tail(outbox)
        /\ UNCHANGED <<option, stateReceived, discoveryPublished, name, renames, revoked,
                       link, birth, session, oldSession, late>>
        /\ \/ m = Online /\ status' = "online" /\ UNCHANGED <<config, lost>>
           \/ /\ m # Online /\ config' = [config EXCEPT ![m.topic] = m.payload]
              /\ lost' = lost \ {m.topic} /\ status' = status
    BY DEF Deliver, manager
  <1> HIDE DEF m
  <1>3. /\ m \in Messages /\ outbox' \in Seq(Messages)
        /\ (\E i \in 1..Len(outbox) : outbox[i] = Online) =>
              m = Online \/ \E i \in 1..Len(outbox') : outbox'[i] = Online
    <2> DEFINE t == Tail(outbox)
    <2>1. m \in Messages /\ t \in Seq(Messages)
      BY <1>1, <1>2, HeadTailProperties DEF m
    <2>2. (\E i \in 1..Len(outbox) : outbox[i] = Online) => m = Online \/ \E i \in 1..Len(t) : t[i] = Online
      <3>1. /\ Len(t) = Len(outbox) - 1 /\ \A i \in 1..Len(t) : t[i] = outbox[i + 1]
            /\ m = outbox[1] /\ Len(outbox) \in Nat
        BY <1>1, <1>2, HeadTailProperties, LenProperties DEF m
      <3> HIDE DEF t
      <3>2. ASSUME NEW i \in 1..Len(outbox), outbox[i] = Online, i # 1
            PROVE  \E k \in 1..Len(t) : t[k] = Online
        <4>1. i - 1 \in 1..Len(t) /\ (i - 1) + 1 = i
          BY <3>1, <3>2
        <4>2. t[i - 1] = outbox[i]
          BY <3>1, <4>1
        <4> QED BY <3>2, <4>1, <4>2
      <3> QED BY <3>1, <3>2
    <2> HIDE DEF t
    <2> QED BY <1>2, <2>1, <2>2 DEF t
  <1>4. ASSUME m # Online
        PROVE  m.topic \in Entities /\ m.payload \in Names \cup {None}
    BY <1>3, <1>4, MessageFacts
  <1>5. /\ config' \in [Entities -> Names \cup {None}] /\ lost' \subseteq Entities
        /\ \A e \in Entities : m.topic # e => config'[e] = config[e] /\ (e \in lost => e \in lost')
        /\ \A e \in Entities : m.topic = e => config'[e] = m.payload
    <2>1. m = Online => \A e \in Entities : m.topic # e
      BY MessageFacts, TopicAssumption
    <2> QED BY <1>1, <1>2, <1>4, <2>1 DEF TypeOK
  <1>6. ASSUME NEW e \in Entities, NEW v
        PROVE  /\ Silent(outbox, e) => Silent(outbox', e) /\ m.topic # e
               /\ EndsIn(outbox, config, e, v) => EndsIn(outbox', config', e, v)
    <2> DEFINE t == Tail(outbox)
    <2>1. /\ Silent(outbox, e) => Silent(t, e) /\ m.topic # e
          /\ LastFor(outbox, e, v) => LastFor(t, e, v) \/ (m = Publication(e, v) /\ Silent(t, e))
      BY <1>1, <1>2, TailOf DEF m
    <2>2. outbox' = t
      BY <1>2
    <2> HIDE DEF t
    <2>3. CASE Silent(outbox, e) /\ config[e] = v
      BY <1>5, <2>1, <2>2, <2>3 DEF EndsIn
    <2>4. CASE LastFor(outbox, e, v)
      <3>1. CASE LastFor(t, e, v)
        BY <2>1, <2>2, <3>1 DEF EndsIn
      <3>2. CASE m = Publication(e, v) /\ Silent(t, e)
        <4>1. m.topic = e /\ m.payload = v
          BY <3>2, MessageFacts
        <4>2. config'[e] = v
          BY <1>5, <4>1
        <4> QED BY <2>1, <2>2, <3>2, <4>2 DEF EndsIn
      <3> QED BY <2>1, <2>4, <3>1, <3>2
    <2> QED BY <2>1, <2>2, <2>3, <2>4 DEF EndsIn
  <1>7. ASSUME NEW e \in Entities
        PROVE  \/ e \in lost' /\ Silent(outbox', e)
               \/ /\ e \in discoveryPublished' /\ renames'[e] = <<>> =>
                        birth' \/ EndsIn(outbox', config', e, name'[e])
                  /\ e \in revoked' => EndsIn(outbox', config', e, None)
    <2>1. \/ e \in lost /\ Silent(outbox, e)
          \/ /\ e \in discoveryPublished /\ renames[e] = <<>> =>
                   birth \/ EndsIn(outbox, config, e, name[e])
             /\ e \in revoked => EndsIn(outbox, config, e, None)
      BY <1>1 DEF Promised, Ends
    <2>2. /\ Silent(outbox, e) => Silent(outbox', e) /\ m.topic # e
          /\ EndsIn(outbox, config, e, name[e]) => EndsIn(outbox', config', e, name[e])
          /\ EndsIn(outbox, config, e, None) => EndsIn(outbox', config', e, None)
      BY <1>6
    <2> QED BY <1>2, <1>5, <2>1, <2>2
  <1>8. Promised'
    BY <1>7 DEF Promised, Ends
  <1>9. \A x \in ToSet(outbox') : x = Online \/ (x.topic \in Entities /\ x.payload \in Names \cup {None})
    BY <1>3, OutboxType
  <1>10. TypeOK'
    BY <1>1, <1>2, <1>5, <1>9 DEF TypeOK
  <1>11. OnlineComes'
    BY <1>1, <1>2, <1>3 DEF OnlineComes
  <1> QED BY <1>1, <1>2, <1>3, <1>8, <1>10, <1>11 DEF IInv

LEMMA HomeAssistantConnectsOK ==
  ASSUME IInv, HomeAssistantConnects
  PROVE  IInv'
  <1>1. /\ TypeOK /\ outbox \in Seq(Messages) /\ Promised /\ discoveryPublished \cap revoked = {}
        /\ OnlineComes
    BY DEF IInv
  <1>2. /\ link = "up" /\ birth' = TRUE /\ lost' = lost \ discoveryPublished
        /\ UNCHANGED <<option, stateReceived, discoveryPublished, name, renames, revoked, link, outbox,
                       session, oldSession, status, config, late>>
    BY DEF HomeAssistantConnects, manager, broker
  <1>3. Promised'
    <2> SUFFICES ASSUME NEW e \in Entities
                 PROVE  \/ e \in lost' /\ Silent(outbox', e)
                        \/ /\ e \in discoveryPublished' /\ renames'[e] = <<>> =>
                                 birth' \/ EndsIn(outbox', config', e, name'[e])
                           /\ e \in revoked' => EndsIn(outbox', config', e, None)
      BY DEF Promised, Ends
    <2>1. \/ e \in lost /\ Silent(outbox, e)
          \/ e \in revoked => EndsIn(outbox, config, e, None)
      BY <1>1 DEF Promised, Ends
    <2>2. CASE e \in discoveryPublished
      BY <1>1, <1>2, <2>2
    <2>3. CASE e \notin discoveryPublished
      BY <1>2, <2>1, <2>3
    <2> QED BY <2>2, <2>3
  <1>4. TypeOK'
    BY <1>1, <1>2 DEF TypeOK
  <1>5. OnlineComes'
    BY <1>1, <1>2 DEF OnlineComes
  <1>6. birth' => link' = "up"
    BY <1>2 DEF IInv
  <1> QED BY <1>1, <1>2, <1>3, <1>4, <1>5, <1>6 DEF IInv

\* A broker that starts again has lost everything, and what is under way to it is true.
LEMMA BrokerForgetsOK ==
  ASSUME IInv, BrokerForgets
  PROVE  IInv'
  <1>1. /\ TypeOK /\ outbox \in Seq(Messages) /\ Promised /\ discoveryPublished \cap revoked = {}
    BY DEF IInv
  <1>2. /\ status' = None /\ config' = [e \in Entities |-> None]
        /\ session' = FALSE /\ oldSession' = FALSE /\ link' = "down" /\ birth' = FALSE
        /\ outbox' = <<>> \/ (link # "up" /\ outbox' = outbox)
        /\ lost' = Entities
        /\ UNCHANGED <<option, stateReceived, discoveryPublished, name, renames, revoked, late>>
    <2>1. outbox' = IF link = "up" THEN <<>> ELSE outbox
      BY DEF BrokerForgets
    <2>2. outbox' = <<>> \/ (link # "up" /\ outbox' = outbox)
      BY <2>1
    <2>3. /\ status' = None /\ config' = [e \in Entities |-> None]
          /\ session' = FALSE /\ oldSession' = FALSE /\ link' = "down" /\ birth' = FALSE
          /\ lost' = Entities
          /\ UNCHANGED <<option, stateReceived, discoveryPublished, name, renames, revoked, late>>
      BY DEF BrokerForgets, manager
    <2> QED BY <2>2, <2>3
  <1>3. outbox' \in Seq(Messages)
    <2>1. outbox' = <<>> \/ outbox' = outbox
      BY <1>2
    <2> QED BY <1>1, <2>1, EmptyFacts
  <1>4. \A m \in ToSet(outbox') : m = Online \/ (m.topic \in Entities /\ m.payload \in Names \cup {None})
    BY <1>3, OutboxType
  <1>5. Promised'
    <2> SUFFICES ASSUME NEW e \in Entities, ~Silent(outbox', e)
                 PROVE  /\ e \in discoveryPublished' /\ renames'[e] = <<>> =>
                                 birth' \/ EndsIn(outbox', config', e, name'[e])
                        /\ e \in revoked' => EndsIn(outbox', config', e, None)
      BY <1>2 DEF Promised, Ends
    <2>1. outbox' = outbox /\ link # "up" /\ ~Silent(outbox, e)
      BY <1>2, EmptyFacts
    <2>2. ~birth
      BY <2>1 DEF IInv
    <2>3. \A v : EndsIn(outbox, config, e, v) => EndsIn(outbox, config', e, v)
      BY <2>1 DEF EndsIn
    <2> QED BY <1>1, <1>2, <2>1, <2>2, <2>3 DEF Promised, Ends
  <1>6. TypeOK'
    BY <1>1, <1>2, <1>4 DEF TypeOK
  <1>7. OnlineComes'
    BY <1>2 DEF OnlineComes
  <1> QED BY <1>1, <1>2, <1>3, <1>5, <1>6, <1>7 DEF IInv

LEMMA RestartOK ==
  ASSUME IInv, Restart
  PROVE  IInv'
  <1>1. TypeOK
    BY DEF IInv
  <1>2. /\ stateReceived' = {} /\ discoveryPublished' = {} /\ revoked' = {}
        /\ name' = [e \in Entities |-> IF renames[e] = <<>> THEN name[e] ELSE Last(renames[e])]
        /\ renames' = [e \in Entities |-> <<>>]
        /\ link' = "down" /\ outbox' = <<Online>> /\ birth' = FALSE
        /\ session' = FALSE /\ oldSession' = (session \/ oldSession)
        /\ lost' = {}
        /\ UNCHANGED <<option, status, config, late>>
    BY DEF Restart
  <1>3. name' \in [Entities -> Names] /\ renames' \in [Entities -> Seq(Names)]
    BY <1>1, <1>2, RenamesFacts DEF TypeOK
  <1>4. /\ outbox' \in Seq(Messages)
        /\ \A m \in ToSet(outbox') : m = Online \/ (m.topic \in Entities /\ m.payload \in Names \cup {None})
    BY <1>2, EmptyFacts, OutboxType
  <1>5. (session \/ oldSession) \in BOOLEAN
    OBVIOUS
  <1>6. {birth', session', oldSession', late'} \subseteq BOOLEAN
    BY <1>1, <1>2, <1>5 DEF TypeOK
  <1>7. TypeOK'
    BY <1>1, <1>2, <1>3, <1>4, <1>6 DEF TypeOK
  <1> QED BY <1>2, <1>4, <1>7 DEF IInv, Promised, OnlineComes

LEMMA InitOK == Init => IInv
  <1> SUFFICES ASSUME Init PROVE IInv
    OBVIOUS
  <1>1. (CHOOSE n \in Names : TRUE) \in Names
    BY NamesAssumption
  <1>2. /\ outbox \in Seq(Messages)
        /\ \A m \in ToSet(outbox) : m = Online \/ (m.topic \in Entities /\ m.payload \in Names \cup {None})
    BY EmptyFacts, OutboxType DEF Init
  <1>3. name \in [Entities -> Names] /\ renames \in [Entities -> Seq(Names)]
    BY <1>1 DEF Init
  <1>4. {birth, session, oldSession, late} \subseteq BOOLEAN
    BY DEF Init
  <1>5. TypeOK
    BY <1>2, <1>3, <1>4 DEF Init, TypeOK
  <1> QED BY <1>2, <1>5 DEF Init, IInv, Promised, OnlineComes

-----------------------------------------------------------------------------
\* The last message under way about an entity, or what the broker holds when there is none,
\* is what the manager last wanted of it, through every interleaving of renames, revocations,
\* states, lost connections and restarts of the broker and of the process.
THEOREM DiscoveryInvariant == Spec => []IInv
  <1>1. IInv /\ [Next]_vars => IInv'
    <2> SUFFICES ASSUME IInv, [Next]_vars PROVE IInv'
      OBVIOUS
    <2>1. ASSUME NEW e \in Ids, HandleStateReceived(e), birth' = birth, OthersUnchanged
          PROVE  IInv'
      BY <2>1, HandleStateReceivedOK
    <2>2. ASSUME NEW e \in Entities, RenameTimer(e), birth' = birth, OthersUnchanged
          PROVE  IInv'
      BY <2>2, RenameTimerOK
    <2>3. ASSUME NEW e \in Entities, RevokeDiscovery(e) \/ \E n \in Names : HandleEntityRenamed(e, n),
                 birth' = birth, OthersUnchanged
          PROVE  IInv'
      BY <2>3, NonePublishedOK
    <2>4. CASE RepublishDiscovered /\ OthersUnchanged
      BY <2>4, RepublishOK
    <2>5. CASE Manage
      BY <2>1, <2>2, <2>3, <2>4, <2>5 DEF Manage
    <2>6. CASE UNCHANGED vars
      <3>1. IInv' <=> IInv
        BY <2>6 DEF vars, manager, broker, IInv, TypeOK, Promised, Ends, OnlineComes
      <3> QED BY <3>1
    <2> QED BY <2>5, <2>6, ConnectOK, LoseOK, WillsOK, DeliverOK, HomeAssistantConnectsOK,
               BrokerForgetsOK, RestartOK DEF Next
  <1> QED BY <1>1, InitOK, PTL DEF Spec

\* Types, and nothing that is internal or to be skipped counts as published.
THEOREM DiscoveryTypes == Spec => []TypeOK
  <1>1. IInv => TypeOK
    BY DEF IInv
  <1> QED BY <1>1, DiscoveryInvariant, PTL

\* Once everything has arrived, the broker holds what the manager last wanted.
THEOREM NothingStaleIsRetained == Spec => []BrokerHoldsTheDiscovered
  <1>1. IInv => BrokerHoldsTheDiscovered
    <2> SUFFICES ASSUME IInv, Quiet PROVE BrokerHoldsTheDiscovered
      BY DEF BrokerHoldsTheDiscovered
    <2>1. outbox = <<>> /\ link = "up" /\ ~birth /\ Promised /\ OnlineComes
      BY DEF IInv, Quiet
    <2>2. status = "online" \/ late
      BY <2>1 DEF OnlineComes
    <2>3. \A e \in Entities : \A v : Ends(e, v) => config[e] = v
      BY <2>1 DEF Ends, EndsIn, LastFor
    <2> QED BY <2>1, <2>2, <2>3 DEF Promised, BrokerHoldsTheDiscovered
  <1> QED BY <1>1, DiscoveryInvariant, PTL
=============================================================================
