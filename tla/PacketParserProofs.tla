------------------------- MODULE PacketParserProofs -------------------------
(***************************************************************************)
(* The safety of PacketParser for every size of its buffer, every stream   *)
(* and every set of chunks.                                                *)
(*                                                                         *)
(* Every operation on the offsets keeps an end of what the buffer held     *)
(* (Keeps), so what it holds stays an end of the stream (Holds); a packet  *)
(* is a piece of it and is consumed.  That it is a frame is a matter of    *)
(* what each strategy compared before it returned it.                      *)
(*                                                                         *)
(* That the packets are all the frames of the stream, however it is cut    *)
(* into chunks, is FramesInv: however the stream goes on, its frames are   *)
(* the packets returned and then those from the place the buffer is at     *)
(* (Leads), and none is left there when the loop returns.  What makes it   *)
(* inductive is that a step passes over a byte only where no frame can     *)
(* begin whatever comes next (Skipped), that the frame it returns is the   *)
(* shortest one at its place, and that of the lengths the sweep has tried  *)
(* before none is a frame's (Tried).                                       *)
(***************************************************************************)
EXTENDS PacketParser, SequenceTheorems, WellFoundedInduction, TLAPS

Indices == 0..MaxBufferSize - 1
Buffers == [bytes : [Indices -> Byte], read : Nat, write : Nat, scanned : Nat, base : Nat]

Fits(b) == b \in Buffers /\ b.read <= b.write /\ b.write <= MaxBufferSize

\* Between its offsets c has an end of what b has, at the same place of the stream.
Keeps(b, c) ==
    /\ Fits(c)
    /\ c.base + c.write = b.base + b.write
    /\ c.base + c.read >= b.base + b.read
    /\ \A i \in c.read..c.write - 1 : c.bytes[i] = b.bytes[i + c.base - b.base]

SkipTo(b, r, n) == [b EXCEPT !.read = r, !.scanned = n]

\* What b has between its offsets is the end of the stream s.
Holds(b, s) ==
    /\ Fits(b)
    /\ b.base + b.write = Len(s)
    /\ \A i \in b.read..b.write - 1 : b.bytes[i] = s[b.base + i + 1]

\* The packets ps are disjoint pieces of the first pos bytes of s, in their order.
Partition(ps, s, pos) ==
    /\ \A i \in 1..Len(ps) :
          /\ ps[i].at + Len(ps[i].bytes) <= pos
          /\ ps[i].bytes = SubSeq(s, ps[i].at + 1, ps[i].at + Len(ps[i].bytes))
    /\ \A i, j \in 1..Len(ps) : i < j => ps[i].at + Len(ps[i].bytes) <= ps[j].at

IInv == TypeOK /\ BufferIsTheTail /\ PacketsPartitionTheStream

-----------------------------------------------------------------------------
(* Numbers and sequences.                                                  *)

LEMMA LeastOf ==
  ASSUME NEW S \in SUBSET Nat, S # {}
  PROVE  Least(S) \in S /\ \A j \in S : Least(S) <= j
  <1>1. \E i \in S : \A j \in S : ~ (<<j, i>> \in OpToRel(<, Nat))
    BY NatLessThanWellFounded, WFMin
  <1>2. \A i, j \in Nat : j < i => <<j, i>> \in OpToRel(<, Nat)
    BY DEF OpToRel
  <1> DEFINE R == OpToRel(<, Nat)
  <1>3. PICK i \in S : \A j \in S : <<j, i>> \notin R
    BY <1>1
  <1>4. \A j \in Nat : j < i => <<j, i>> \in R
    BY <1>2
  <1> HIDE DEF R
  <1>5. \A j \in Nat : ~(j < i) => i <= j
    OBVIOUS
  <1>6. \A j \in S : i <= j
    BY <1>3, <1>4, <1>5
  <1> QED BY <1>6 DEF Least

LEMMA SizeIsPositive == MaxBufferSize \in Nat /\ MaxBufferSize > 0
  BY SizesAssumption

LEMMA PieceFacts ==
  ASSUME NEW f \in Seq(Byte), NEW a \in Nat, NEW n \in Nat, a + n <= Len(f)
  PROVE  /\ SubSeq(f, a + 1, a + n) \in Seq(Byte) /\ Len(SubSeq(f, a + 1, a + n)) = n
         /\ \A i \in 1..n : SubSeq(f, a + 1, a + n)[i] = f[a + i]
  <1> DEFINE g == SubSeq(f, a + 1, a + n)
             m == a + 1
             e == a + n
  <1>1. Len(f) \in Nat /\ \A i \in 1..Len(f) : f[i] \in Byte
    BY LenProperties, ElementOfSeq
  <1>2. \A i \in m..e : i \in 1..Len(f)
    BY <1>1
  <1>3. m \in Int /\ e \in Int
    OBVIOUS
  <1>4. e - m + 1 = n /\ (n # 0 => m <= e) /\ (n = 0 => ~(m <= e)) /\ \A i \in 1..n : m + i - 1 = a + i
    OBVIOUS
  <1> HIDE DEF m, e
  <1>5. \A i \in m..e : f[i] \in Byte
    BY <1>1, <1>2
  <1>6. /\ SubSeq(f, m, e) \in Seq(Byte)
        /\ Len(SubSeq(f, m, e)) = IF m <= e THEN e - m + 1 ELSE 0
        /\ \A i \in 1..e - m + 1 : SubSeq(f, m, e)[i] = f[m + i - 1]
    BY <1>3, <1>5, SubSeqProperties
  <1>7. g = SubSeq(f, m, e)
    BY DEF m, e
  <1> HIDE DEF g
  <1>8. g \in Seq(Byte) /\ Len(g) = n
    BY <1>4, <1>6, <1>7, Zenon
  <1>9. \A i \in 1..n : g[i] = f[a + i]
    BY <1>4, <1>6, <1>7, Zenon
  <1> QED BY <1>8, <1>9 DEF g

LEMMA PieceOfLonger ==
  ASSUME NEW s \in Seq(Byte), NEW t \in Seq(Byte), NEW a \in Nat, NEW n \in Nat, a + n <= Len(s)
  PROVE  SubSeq(s \o t, a + 1, a + n) = SubSeq(s, a + 1, a + n)
  <1> DEFINE st == s \o t
             p == SubSeq(st, a + 1, a + n)
             q == SubSeq(s, a + 1, a + n)
  <1>1. /\ Len(s) \in Nat /\ Len(t) \in Nat /\ st \in Seq(Byte) /\ Len(st) = Len(s) + Len(t)
        /\ \A i \in 1..Len(s) : st[i] = s[i]
    BY ConcatProperties, LenProperties
  <1> HIDE DEF st
  <1>2. a + n <= Len(st) /\ \A i \in 1..n : a + i \in 1..Len(s)
    BY <1>1
  <1>3. p \in Seq(Byte) /\ Len(p) = n /\ \A i \in 1..n : p[i] = st[a + i]
    BY <1>1, <1>2, PieceFacts
  <1>4. q \in Seq(Byte) /\ Len(q) = n /\ \A i \in 1..n : q[i] = s[a + i]
    BY PieceFacts
  <1> HIDE DEF p, q
  <1>5. \A i \in 1..n : p[i] = q[i]
    BY <1>1, <1>2, <1>3, <1>4, Zenon
  <1>6. p = q
    BY <1>3, <1>4, <1>5, SeqEqual
  <1> QED BY <1>6 DEF p, q, st

-----------------------------------------------------------------------------
(* The buffer.                                                             *)

LEMMA ResetFacts ==
  ASSUME NEW b \in Buffers
  PROVE  LET c == ResetBuffer(b)
         IN  /\ c \in Buffers /\ c.bytes = b.bytes /\ c.scanned = 0
             /\ c.read = 0 /\ c.write = 0 /\ c.base = b.base + b.write
  <1> DEFINE c1 == [b EXCEPT !.read = 0]
             c2 == [c1 EXCEPT !.write = 0]
             c3 == [c2 EXCEPT !.scanned = 0]
             c == [c3 EXCEPT !.base = b.base + b.write]
  <1>1. c1 \in Buffers /\ c1.bytes = b.bytes /\ c1.read = 0
    BY DEF Buffers
  <1> HIDE DEF c1
  <1>2. c2 \in Buffers /\ c2.bytes = b.bytes /\ c2.read = 0 /\ c2.write = 0
    BY <1>1 DEF Buffers
  <1> HIDE DEF c2
  <1>3. /\ c3 \in Buffers /\ c3.bytes = b.bytes /\ c3.read = 0 /\ c3.write = 0
        /\ c3.scanned = 0
    BY <1>2 DEF Buffers
  <1> HIDE DEF c3
  <1>4. /\ c \in Buffers /\ c.bytes = b.bytes /\ c.read = 0 /\ c.write = 0
        /\ c.scanned = 0 /\ c.base = b.base + b.write
    BY <1>3 DEF Buffers
  <1> HIDE DEF c
  <1>5. ResetBuffer(b) = c
    BY DEF ResetBuffer, c, c1, c2, c3
  <1> QED BY <1>4, <1>5

LEMMA ResetKeeps ==
  ASSUME NEW b, Fits(b)
  PROVE  Keeps(b, ResetBuffer(b)) /\ BufferLength(ResetBuffer(b)) = 0
  <1>1. b \in Buffers /\ b.read <= b.write /\ b.write \in Nat /\ b.read \in Nat /\ b.base \in Nat
    BY DEF Fits, Buffers
  <1> QED BY <1>1, ResetFacts, SizeIsPositive DEF Keeps, Fits, BufferLength

\* The read offset moves on, whatever becomes of lastScannedLength.
LEMMA SkipKeeps ==
  ASSUME NEW b, Fits(b), NEW r \in b.read..b.write, NEW n \in Nat
  PROVE  /\ Keeps(b, SkipTo(b, r, n)) /\ SkipTo(b, r, n).read = r
         /\ SkipTo(b, r, n).write = b.write /\ SkipTo(b, r, n).base = b.base
         /\ SkipTo(b, r, n).bytes = b.bytes /\ SkipTo(b, r, n).scanned = n
  <1> DEFINE c == SkipTo(b, r, n)
  <1>1. /\ b \in Buffers /\ b.read \in Nat /\ b.write \in Nat /\ b.base \in Nat
        /\ b.write <= MaxBufferSize
    BY DEF Fits, Buffers
  <1>2. r \in Nat /\ b.read <= r /\ r <= b.write
    BY <1>1
  <1>3. /\ c \in Buffers /\ c.read = r /\ c.write = b.write /\ c.base = b.base
        /\ c.bytes = b.bytes /\ c.scanned = n
    BY <1>1, <1>2 DEF Buffers, SkipTo
  <1> HIDE DEF c
  <1>4. \A i \in c.read..c.write - 1 : i + c.base - b.base = i
    BY <1>1, <1>2, <1>3
  <1> QED BY <1>1, <1>2, <1>3, <1>4 DEF Keeps, Fits, c

LEMMA KeepsTransitive ==
  ASSUME NEW b, NEW c, NEW d, Fits(b), Keeps(b, c), Keeps(c, d)
  PROVE  Keeps(b, d)
  <1>1. /\ b.base \in Nat /\ c.base \in Nat /\ d.base \in Nat
        /\ b.read \in Nat /\ c.read \in Nat /\ d.read \in Nat
        /\ b.write \in Nat /\ c.write \in Nat /\ d.write \in Nat /\ Fits(d)
    BY DEF Keeps, Fits, Buffers
  <1>2. ASSUME NEW i \in d.read..d.write - 1
        PROVE  d.bytes[i] = b.bytes[i + d.base - b.base]
    <2> DEFINE k == i + d.base - c.base
    <2>1. k \in c.read..c.write - 1 /\ k + c.base - b.base = i + d.base - b.base
      BY <1>1 DEF Keeps
    <2>2. d.bytes[i] = c.bytes[k]
      BY DEF Keeps
    <2> HIDE DEF k
    <2>3. c.bytes[k] = b.bytes[k + c.base - b.base]
      BY <2>1 DEF Keeps
    <2> QED BY <2>1, <2>2, <2>3
  <1>3. d.base + d.write = b.base + b.write /\ d.base + d.read >= b.base + b.read
    BY <1>1 DEF Keeps
  <1> QED BY <1>1, <1>2, <1>3 DEF Keeps

LEMMA KeepsHolds ==
  ASSUME NEW b, NEW c, NEW s, Holds(b, s), Keeps(b, c)
  PROVE  Holds(c, s)
  <1>1. Fits(c) /\ c.base + c.write = Len(s)
    BY DEF Holds, Keeps
  <1>2. /\ b.base \in Nat /\ c.base \in Nat /\ b.read \in Nat /\ c.read \in Nat
        /\ b.write \in Nat /\ c.write \in Nat
    BY DEF Holds, Keeps, Fits, Buffers
  <1>3. ASSUME NEW i \in c.read..c.write - 1
        PROVE  c.bytes[i] = s[c.base + i + 1]
    <2> DEFINE k == i + c.base - b.base
    <2>1. k \in b.read..b.write - 1 /\ b.base + k + 1 = c.base + i + 1
      <3>1. c.base + c.write = b.base + b.write /\ c.base + c.read >= b.base + b.read
        BY DEF Keeps
      <3>2. i \in Int /\ c.read <= i /\ i <= c.write - 1
        BY <1>2
      <3>3. b.read <= k /\ k <= b.write - 1 /\ k \in Int
        BY <1>2, <3>1, <3>2
      <3> QED BY <1>2, <3>2, <3>3
    <2>2. c.bytes[i] = b.bytes[k]
      BY DEF Keeps
    <2> HIDE DEF k
    <2> QED BY <2>1, <2>2 DEF Holds
  <1> QED BY <1>1, <1>3 DEF Holds

LEMMA CompactKeeps ==
  ASSUME NEW b, Fits(b)
  PROVE  LET c == CompactBuffer(b)
         IN  /\ Keeps(b, c) /\ c.read = 0 /\ c.write = BufferLength(b)
             /\ c.scanned \in {b.scanned, 0}
  <1>1. /\ b \in Buffers /\ b.read \in Nat /\ b.write \in Nat /\ b.base \in Nat
        /\ b.read <= b.write /\ b.write <= MaxBufferSize /\ b.bytes \in [Indices -> Byte]
    BY DEF Fits, Buffers
  <1>2. CASE b.read = 0
    <2>1. CompactBuffer(b) = b
      BY <1>2 DEF CompactBuffer
    <2>2. \A i \in b.read..b.write - 1 : i + b.base - b.base = i
      BY <1>1
    <2> QED BY <1>1, <1>2, <2>1, <2>2 DEF Keeps, BufferLength
  <1>3. CASE b.read # 0 /\ b.read >= b.write
    <2>1. CompactBuffer(b) = ResetBuffer(b)
      <3>1. ~(b.read < b.write)
        BY <1>1, <1>3
      <3> QED BY <1>3, <3>1, Zenon DEF CompactBuffer
    <2> QED BY <1>1, <1>3, <2>1, ResetKeeps, ResetFacts DEF BufferLength
  <1>4. CASE b.read # 0 /\ b.read < b.write
    <2> DEFINE n == b.write - b.read
               moved == [i \in Indices |-> IF i < n THEN b.bytes[i + b.read] ELSE b.bytes[i]]
               c1 == [b EXCEPT !.bytes = moved]
               c2 == [c1 EXCEPT !.read = 0]
               c3 == [c2 EXCEPT !.write = n]
               c == [c3 EXCEPT !.base = b.base + b.read]
    <2>1. CompactBuffer(b) = c
      <3>1. ~(b.read >= b.write)
        BY <1>1, <1>4
      <3>2. b.read # 0 /\ b.read < b.write
        BY <1>4
      <3> QED BY <3>1, <3>2, Zenon DEF CompactBuffer, BufferLength, Indices
    <2>2. \A i \in Indices : i < n => i + b.read \in Indices
      BY <1>1, SizeIsPositive DEF Indices
    <2>3. moved \in [Indices -> Byte]
      BY <1>1, <2>2
    <2>4. n \in Nat /\ n <= MaxBufferSize
      BY <1>1, <1>4, SizeIsPositive
    <2>5. \A i \in 0..n - 1 : moved[i] = b.bytes[i + b.read]
      BY <2>4, SizeIsPositive DEF Indices
    <2> HIDE DEF moved, n
    <2>6. /\ c \in Buffers /\ c.bytes = moved /\ c.read = 0 /\ c.write = n
          /\ c.base = b.base + b.read /\ c.scanned = b.scanned
      <3>1. c1 \in Buffers /\ c1.bytes = moved /\ c1.base = b.base /\ c1.scanned = b.scanned
        BY <1>1, <2>3 DEF Buffers
      <3> HIDE DEF c1
      <3>2. /\ c2 \in Buffers /\ c2.bytes = moved /\ c2.read = 0 /\ c2.base = b.base
            /\ c2.scanned = b.scanned
        BY <3>1 DEF Buffers
      <3> HIDE DEF c2
      <3>3. /\ c3 \in Buffers /\ c3.bytes = moved /\ c3.read = 0 /\ c3.write = n
            /\ c3.scanned = b.scanned
        BY <2>4, <3>2 DEF Buffers
      <3> HIDE DEF c3
      <3> QED BY <1>1, <3>3 DEF Buffers
    <2> HIDE DEF c1, c2, c3, c
    <2>7. n = b.write - b.read
      BY DEF n
    <2>8. \A i \in 0..n - 1 : i + b.read = i + c.base - b.base
      BY <1>1, <2>4, <2>6
    <2>9. c.base + n = b.base + b.write /\ c.base + 0 >= b.base + b.read
      BY <1>1, <2>6, <2>7
    <2> QED BY <2>1, <2>4, <2>5, <2>6, <2>7, <2>8, <2>9 DEF Keeps, Fits, BufferLength
  <1> QED BY <1>1, <1>2, <1>3, <1>4

LEMMA ConsumeKeeps ==
  ASSUME NEW b, Fits(b), NEW n \in Nat
  PROVE  /\ Keeps(b, ConsumeBytes(b, n))
         /\ BufferLength(ConsumeBytes(b, n))
               = IF n >= BufferLength(b) THEN 0 ELSE BufferLength(b) - n
         /\ ConsumeBytes(b, n).scanned \in {b.scanned, 0}
         /\ n <= BufferLength(b) =>
               ConsumeBytes(b, n).base + ConsumeBytes(b, n).read = b.base + b.read + n
  <1>1. /\ b \in Buffers /\ b.read \in Nat /\ b.write \in Nat /\ b.base \in Nat
        /\ b.scanned \in Nat /\ b.read <= b.write /\ b.write <= MaxBufferSize
    BY DEF Fits, Buffers
  <1>2. CASE b.read + n >= b.write
    <2>1. ConsumeBytes(b, n) = ResetBuffer(b)
      BY <1>2 DEF ConsumeBytes
    <2> QED BY <1>1, <1>2, <2>1, ResetKeeps, ResetFacts DEF BufferLength
  <1>3. CASE ~(b.read + n >= b.write)
    <2> DEFINE r == b.read + n
               c == SkipTo(b, r, b.scanned)
    <2>1. r \in b.read..b.write
      BY <1>1, <1>3
    <2> HIDE DEF r
    <2>2. /\ Keeps(b, c) /\ c.read = r /\ c.write = b.write /\ c.base = b.base
          /\ c.scanned = b.scanned
      BY <1>1, <2>1, SkipKeeps
    <2>3. ConsumeBytes(b, n) = c
      <3>1. ConsumeBytes(b, n) = [b EXCEPT !.read = r]
        BY <1>3 DEF ConsumeBytes, r
      <3>2. r \in Nat
        BY <1>1, <2>1
      <3>3. [b EXCEPT !.read = r].scanned = b.scanned /\ [b EXCEPT !.read = r] \in Buffers
        BY <1>1, <3>2 DEF Buffers
      <3>4. \A d \in Buffers : d = [d EXCEPT !.scanned = d.scanned]
        BY DEF Buffers
      <3> QED BY <3>1, <3>3, <3>4 DEF SkipTo
    <2> HIDE DEF c
    <2> QED BY <1>1, <1>3, <2>1, <2>2, <2>3 DEF BufferLength, r
  <1> QED BY <1>2, <1>3

LEMMA MakeRoomKeeps ==
  ASSUME NEW b, Fits(b), NEW n \in Nat, n < MaxBufferSize
  PROVE  Keeps(b, MakeRoom(b, n)) /\ MakeRoom(b, n).write + n <= MaxBufferSize
  <1> DEFINE compact == IF TooMany(b, n) THEN CompactBuffer(b) ELSE b
             drop == compact.read + compact.write + n - MaxBufferSize
             dropped == IF drop >= compact.write THEN ResetBuffer(compact)
                        ELSE [compact EXCEPT !.read = drop, !.scanned = 0]
  <1>1. MakeRoom(b, n) = IF ~TooMany(compact, n) THEN compact
                         ELSE IF TooMany(dropped, n) THEN CompactBuffer(dropped) ELSE dropped
    BY DEF MakeRoom
  <1>2. Keeps(b, b)
    <2>1. b.read \in Nat /\ b.write \in Nat /\ b.base \in Nat
      BY DEF Fits, Buffers
    <2>2. \A i \in b.read..b.write - 1 : i + b.base - b.base = i
      BY <2>1
    <2> QED BY <2>1, <2>2 DEF Keeps
  <1>3. Keeps(b, compact)
    BY <1>2, CompactKeeps
  <1> HIDE DEF compact
  <1>4. /\ Fits(compact) /\ compact.read \in Nat /\ compact.write \in Nat
        /\ compact.read <= compact.write /\ compact.write <= MaxBufferSize
    BY <1>3 DEF Keeps, Fits, Buffers
  <1>5. CASE ~TooMany(compact, n)
    BY <1>1, <1>3, <1>4, <1>5, SizeIsPositive DEF TooMany
  <1>6. CASE TooMany(compact, n)
    <2>1. drop \in Nat /\ compact.read <= drop
      BY <1>4, <1>6, SizeIsPositive DEF TooMany
    <2>2. /\ Keeps(compact, dropped)
          /\ dropped.write = 0 \/ (dropped.write = compact.write /\ dropped.read = drop)
      <3>1. CASE drop >= compact.write
        BY <1>4, <3>1, ResetKeeps, ResetFacts DEF Fits
      <3>2. CASE ~(drop >= compact.write)
        <4> HIDE DEF drop
        <4>1. drop \in compact.read..compact.write
          BY <1>4, <2>1, <3>2
        <4> DEFINE d == SkipTo(compact, drop, 0)
        <4>2. Keeps(compact, d) /\ d.write = compact.write /\ d.read = drop
          BY <1>4, <4>1, SkipKeeps
        <4>3. dropped = d
          BY <3>2 DEF SkipTo
        <4> QED BY <4>2, <4>3, Zenon
      <3> QED BY <3>1, <3>2
    <2> HIDE DEF dropped
    <2>3. Fits(dropped) /\ Keeps(b, dropped)
      BY <1>3, <2>2, KeepsTransitive DEF Keeps
    <2>4. CASE TooMany(dropped, n)
      <3> DEFINE c == CompactBuffer(dropped)
      <3>1. Keeps(dropped, c) /\ c.write = dropped.write - dropped.read
        BY <2>3, CompactKeeps DEF BufferLength
      <3>2. Keeps(b, c)
        BY <2>3, <3>1, KeepsTransitive
      <3>3. MakeRoom(b, n) = c
        BY <1>1, <1>6, <2>4
      <3> HIDE DEF c
      <3>4. dropped.write = compact.write /\ dropped.read = drop
        BY <2>2, <2>4, SizeIsPositive DEF TooMany
      <3>5. c.write + n <= MaxBufferSize
        BY <1>4, <3>1, <3>4, SizeIsPositive
      <3> QED BY <3>2, <3>3, <3>5
    <2>5. CASE ~TooMany(dropped, n)
      <3>1. dropped.write \in Nat
        BY <2>3 DEF Fits, Buffers
      <3> QED BY <1>1, <1>6, <2>3, <2>5, <3>1, SizeIsPositive DEF TooMany
    <2> QED BY <2>4, <2>5
  <1> QED BY <1>5, <1>6

LEMMA CopyFacts ==
  ASSUME NEW b, Fits(b), NEW chunk \in Seq(Byte), b.write + Len(chunk) <= MaxBufferSize
  PROVE  LET c == CopyChunk(b, chunk)
         IN  /\ Fits(c) /\ c.read = b.read /\ c.base = b.base
             /\ c.write = b.write + Len(chunk) /\ c.scanned = b.scanned
             /\ \A i \in b.read..b.write - 1 : c.bytes[i] = b.bytes[i]
             /\ \A i \in b.write..c.write - 1 : c.bytes[i] = chunk[i - b.write + 1]
  <1>1. /\ b \in Buffers /\ b.read \in Nat /\ b.write \in Nat /\ b.base \in Nat
        /\ b.read <= b.write /\ b.bytes \in [Indices -> Byte] /\ Len(chunk) \in Nat
    BY LenProperties DEF Fits, Buffers
  <1> DEFINE new == [i \in Indices |-> IF i >= b.write /\ i < b.write + Len(chunk)
                                         THEN chunk[i - b.write + 1] ELSE b.bytes[i]]
             w == b.write + Len(chunk)
             c1 == [b EXCEPT !.bytes = new]
             c == [c1 EXCEPT !.write = w]
  <1>2. CopyChunk(b, chunk) = c
    BY DEF CopyChunk, Indices
  <1>3. \A i \in Indices : i >= b.write /\ i < w => chunk[i - b.write + 1] \in Byte
    <2> SUFFICES ASSUME NEW i \in Indices, i >= b.write, i < w
                 PROVE  chunk[i - b.write + 1] \in Byte
      OBVIOUS
    <2>1. i - b.write + 1 \in 1..Len(chunk)
      BY <1>1, SizeIsPositive DEF Indices
    <2> QED BY <2>1, ElementOfSeq
  <1>4. new \in [Indices -> Byte] /\ w \in Nat
    BY <1>1, <1>3
  <1>5. /\ \A i \in b.read..b.write - 1 : new[i] = b.bytes[i]
        /\ \A i \in b.write..w - 1 : new[i] = chunk[i - b.write + 1]
    BY <1>1, SizeIsPositive DEF Indices
  <1> HIDE DEF new
  <1>6. w = b.write + Len(chunk)
    OBVIOUS
  <1> HIDE DEF w
  <1>7. /\ c1 \in Buffers /\ c1.bytes = new /\ c1.read = b.read /\ c1.base = b.base
        /\ c1.scanned = b.scanned
    BY <1>1, <1>4 DEF Buffers
  <1> HIDE DEF c1
  <1>8. /\ c \in Buffers /\ c.bytes = new /\ c.read = b.read /\ c.base = b.base /\ c.write = w
        /\ c.scanned = b.scanned
    BY <1>4, <1>7 DEF Buffers
  <1> HIDE DEF c
  <1>9. c.read <= w
    BY <1>1, <1>6, <1>8
  <1> QED BY <1>2, <1>5, <1>6, <1>8, <1>9 DEF Fits

\* The chunk goes behind what is held; of one that is too long its end is held alone.
LEMMA AppendHolds ==
  ASSUME NEW b, NEW s \in Seq(Byte), Holds(b, s), NEW chunk \in Seq(Byte)
  PROVE  LET c == AppendChunk(b, chunk)
         IN  /\ Holds(c, s \o chunk)
             /\ c.base + c.read >= b.base + b.read
  <1> DEFINE t == s \o chunk
             old == Len(s)
             new == Len(chunk)
  <1>1. /\ Fits(b) /\ b \in Buffers /\ b.read \in Nat /\ b.write \in Nat /\ b.base \in Nat
        /\ b.read <= b.write /\ b.base + b.write = old /\ old \in Nat /\ new \in Nat
    <2>1. Fits(b) /\ b.base + b.write = old
      BY DEF Holds
    <2>2. old \in Nat /\ new \in Nat
      BY LenProperties
    <2> HIDE DEF old, new
    <2> QED BY <2>1, <2>2 DEF Fits, Buffers
  <1>2. /\ Len(t) = old + new
        /\ \A i \in 1..old : t[i] = s[i]
        /\ \A i \in 1..new : t[old + i] = chunk[i]
    <2>1. /\ Len(t) = old + new
          /\ \A i \in 1..old + new : t[i] = IF i <= old THEN s[i] ELSE chunk[i - old]
      BY ConcatProperties
    <2> HIDE DEF t, old, new
    <2>2. \A i \in 1..new :
             /\ old + i \in 1..old + new /\ ~(old + i <= old)
             /\ old + i - old = i
      BY <1>1
    <2> QED BY <1>1, <2>1, <2>2
  <1> HIDE DEF t, old, new
  <1>3. CASE new >= MaxBufferSize
    <2> DEFINE skipped == new - MaxBufferSize
               end == SubSeq(chunk, skipped + 1, new)
               r == ResetBuffer(b)
               p == r.base + skipped
               e == [r EXCEPT !.base = p]
               c == CopyChunk(e, end)
    <2>1. AppendChunk(b, chunk) = c
      BY <1>3 DEF AppendChunk, new
    <2>2. /\ end \in Seq(Byte) /\ Len(end) = MaxBufferSize
          /\ \A i \in 1..MaxBufferSize : end[i] = chunk[skipped + i]
      <3>1. skipped \in Nat /\ skipped + 1 \in Int
        BY <1>1, <1>3, SizeIsPositive
      <3>2. \A i \in skipped + 1..new : chunk[i] \in Byte
        BY <1>1, <3>1, ElementOfSeq DEF new
      <3>3. /\ end \in Seq(Byte)
            /\ Len(end) = IF skipped + 1 <= new THEN new - (skipped + 1) + 1 ELSE 0
            /\ \A i \in 1..new - (skipped + 1) + 1 : end[i] = chunk[skipped + 1 + i - 1]
        BY <1>1, <3>1, <3>2, SubSeqProperties
      <3> HIDE DEF end
      <3>4. /\ new - (skipped + 1) + 1 = MaxBufferSize /\ skipped + 1 <= new
            /\ \A i \in 1..MaxBufferSize : skipped + 1 + i - 1 = skipped + i
        BY <1>1, <3>1, SizeIsPositive
      <3> HIDE DEF skipped
      <3> QED BY <3>3, <3>4
    <2>3. /\ Fits(e) /\ e.read = 0 /\ e.write = 0 /\ e.base = old + skipped
          /\ skipped \in Nat /\ skipped + MaxBufferSize = new
      <3>1. skipped \in Nat /\ skipped + MaxBufferSize = new
        BY <1>1, <1>3, SizeIsPositive
      <3> HIDE DEF skipped
      <3>2. r \in Buffers /\ r.read = 0 /\ r.write = 0 /\ r.base = old
        BY <1>1, ResetFacts
      <3> HIDE DEF r
      <3>3. p \in Nat /\ p = old + skipped
        BY <1>1, <3>1, <3>2
      <3> HIDE DEF p
      <3>4. e \in Buffers /\ e.read = 0 /\ e.write = 0 /\ e.base = p
        BY <3>2, <3>3 DEF Buffers
      <3> HIDE DEF e
      <3> QED BY <3>1, <3>3, <3>4, SizeIsPositive DEF Fits
    <2> HIDE DEF end, e, skipped, p
    <2>4. /\ Fits(c) /\ c.read = 0 /\ c.base = old + skipped /\ c.write = MaxBufferSize
          /\ \A i \in 0..MaxBufferSize - 1 : c.bytes[i] = end[i + 1]
      <3>1. e.write + Len(end) <= MaxBufferSize
        BY <2>2, <2>3, SizeIsPositive
      <3>2. /\ Fits(c) /\ c.read = e.read /\ c.base = e.base /\ c.write = e.write + Len(end)
            /\ \A i \in e.write..c.write - 1 : c.bytes[i] = end[i - e.write + 1]
        BY <2>2, <2>3, <3>1, CopyFacts
      <3> HIDE DEF c
      <3>3. c.write = MaxBufferSize
        BY <2>2, <2>3, <3>2, SizeIsPositive
      <3>4. \A i \in 0..MaxBufferSize - 1 : i - 0 + 1 = i + 1
        BY SizeIsPositive
      <3> QED BY <2>3, <3>2, <3>3, <3>4
    <2> HIDE DEF c
    <2>5. ASSUME NEW i \in 0..MaxBufferSize - 1
          PROVE  c.bytes[i] = t[c.base + i + 1]
      <3>1. i + 1 \in 1..MaxBufferSize /\ skipped + (i + 1) \in 1..new
        BY <1>1, <2>3, SizeIsPositive
      <3>2. old + (skipped + (i + 1)) = c.base + i + 1
        BY <1>1, <2>3, <2>4, SizeIsPositive
      <3> QED BY <1>2, <2>2, <2>4, <3>1, <3>2
    <2>6. c.base + c.write = Len(t) /\ c.base + c.read >= b.base + b.read
      BY <1>1, <1>2, <2>3, <2>4, SizeIsPositive
    <2> QED BY <2>1, <2>4, <2>5, <2>6 DEF Holds, t
  <1>4. CASE ~(new >= MaxBufferSize)
    <2> DEFINE m == MakeRoom(b, new)
               c == CopyChunk(m, chunk)
    <2>1. AppendChunk(b, chunk) = c
      BY <1>4 DEF AppendChunk, new
    <2>2. Keeps(b, m) /\ m.write + new <= MaxBufferSize
      <3>1. new < MaxBufferSize
        BY <1>1, <1>4, SizeIsPositive
      <3> QED BY <1>1, <3>1, MakeRoomKeeps
    <2> HIDE DEF m
    <2>3. /\ Holds(m, s) /\ Fits(m) /\ m.base + m.write = old
          /\ m.base \in Nat /\ m.read \in Nat /\ m.write \in Nat /\ m.read <= m.write
          /\ m.base + m.read >= b.base + b.read
      <3>1. Holds(m, s)
        BY <2>2, KeepsHolds
      <3>2. m.base + m.write = b.base + b.write /\ m.base + m.read >= b.base + b.read /\ Fits(m)
        BY <2>2 DEF Keeps
      <3>3. m.base \in Nat /\ m.read \in Nat /\ m.write \in Nat /\ m.read <= m.write
        BY <3>2 DEF Fits, Buffers
      <3> QED BY <1>1, <3>1, <3>2, <3>3
    <2>4. /\ Fits(c) /\ c.read = m.read /\ c.base = m.base
          /\ c.write = m.write + new
          /\ \A i \in m.read..m.write - 1 : c.bytes[i] = m.bytes[i]
          /\ \A i \in m.write..c.write - 1 : c.bytes[i] = chunk[i - m.write + 1]
      BY <2>2, <2>3, CopyFacts DEF new
    <2> HIDE DEF c
    <2>5. c.read = m.read /\ c.base = m.base /\ c.write = m.write + new
      BY <2>4
    <2>6. /\ m.base + m.write = old /\ m.base \in Nat /\ m.read \in Nat /\ m.write \in Nat
          /\ m.read <= m.write
      BY <2>3
    <2>7. old \in Nat /\ new \in Nat
      BY <1>1
    <2>8. c.write \in Nat
      <3>1. Fits(c)
        BY <2>4
      <3> QED BY <3>1 DEF Fits, Buffers
    <2>9. c.write - 1 = m.write + new - 1
      <3>1. c.write = m.write + new /\ m.write \in Nat
        BY <2>5, <2>6
      <3> QED BY <2>8, <2>7, <3>1
    <2>10. m.base + m.read >= b.base + b.read
      BY <2>3
    <2>11. ASSUME NEW i \in m.read..m.write + new - 1
          PROVE  c.bytes[i] = t[m.base + i + 1]
      <3>1. CASE i < m.write
        <4>1. i \in m.read..m.write - 1 /\ m.base + i + 1 \in 1..old
          <5>1. m.base \in Nat /\ m.read \in Nat /\ m.write \in Nat /\ m.base + m.write = old
            BY <2>6
          <5>2. i \in Nat /\ m.read <= i /\ i < m.write
            BY <2>7, <3>1, <5>1
          <5> HIDE DEF m, old, new
          <5> QED BY <5>1, <5>2
        <4>2. m.bytes[i] = s[m.base + i + 1]
          BY <2>3, <4>1 DEF Holds
        <4> QED BY <1>2, <2>4, <4>1, <4>2
      <3>2. CASE ~(i < m.write)
        <4> DEFINE k == i - m.write + 1
        <4>1. i \in m.write..m.write + new - 1
          BY <2>6, <2>7, <3>2
        <4>2. k \in 1..new
          BY <2>6, <2>7, <4>1
        <4>3. old + k = m.base + i + 1
          BY <2>6, <2>7
        <4>4. c.bytes[i] = chunk[k]
          <5>1. i \in m.write..c.write - 1
            BY <2>9, <4>1, Zenon
          <5> QED BY <2>4, <5>1, Zenon
        <4> HIDE DEF k
        <4>5. t[old + k] = chunk[k]
          BY <1>2, <4>2
        <4> QED BY <4>3, <4>4, <4>5
      <3> QED BY <3>1, <3>2
    <2>12. m.base + (m.write + new) = Len(t)
      <3>1. m.base + (m.write + new) = old + new
        BY <2>6, <2>7
      <3> QED BY <1>2, <3>1
    <2>13. Fits(c) /\ c.base + c.write = Len(t)
      BY <2>4, <2>5, <2>12
    <2>14. \A i \in c.read..c.write - 1 : c.bytes[i] = t[c.base + i + 1]
      <3>1. c.read..c.write - 1 = m.read..m.write + new - 1
        BY <2>5, <2>9, Zenon
      <3>2. c.base = m.base
        BY <2>5
      <3> QED BY <2>11, <3>1, <3>2, Zenon
    <2>15. Holds(c, t)
      BY <2>13, <2>14 DEF Holds
    <2>16. c.base + c.read >= b.base + b.read
      BY <2>5, <2>10
    <2> QED BY <2>1, <2>15, <2>16 DEF t
  <1> QED BY <1>3, <1>4

-----------------------------------------------------------------------------
(* The packets.                                                            *)

LEMMA PartitionLater ==
  ASSUME NEW ps \in Seq([at : Nat, bytes : Seq(Byte)]), NEW s \in Seq(Byte), NEW t \in Seq(Byte),
         NEW p \in Nat, NEW q \in Nat, p <= q, p <= Len(s), Partition(ps, s, p)
  PROVE  Partition(ps, s \o t, q)
  <1>1. ASSUME NEW i \in 1..Len(ps)
        PROVE  /\ ps[i].at + Len(ps[i].bytes) <= q
               /\ ps[i].bytes = SubSeq(s \o t, ps[i].at + 1, ps[i].at + Len(ps[i].bytes))
    <2> DEFINE a == ps[i].at
               n == Len(ps[i].bytes)
    <2>1. ps[i] \in [at : Nat, bytes : Seq(Byte)]
      BY ElementOfSeq
    <2>2. a \in Nat /\ n \in Nat
      BY <2>1, LenProperties
    <2>3. a + n <= p /\ ps[i].bytes = SubSeq(s, a + 1, a + n)
      BY DEF Partition
    <2> HIDE DEF a, n
    <2>4. a + n <= q /\ a + n <= Len(s)
      <3>1. Len(s) \in Nat
        BY LenProperties
      <3> QED BY <2>2, <2>3, <3>1
    <2>5. SubSeq(s \o t, a + 1, a + n) = SubSeq(s, a + 1, a + n)
      BY <2>2, <2>4, PieceOfLonger
    <2> QED BY <2>3, <2>4, <2>5 DEF a, n
  <1>2. \A i, j \in 1..Len(ps) : i < j => ps[i].at + Len(ps[i].bytes) <= ps[j].at
    BY DEF Partition
  <1> QED BY <1>1, <1>2, Zenon DEF Partition

LEMMA PartitionAppend ==
  ASSUME NEW ps \in Seq([at : Nat, bytes : Seq(Byte)]), NEW s \in Seq(Byte),
         NEW p \in Nat, NEW a \in Nat, NEW n \in Nat, p <= a, a + n <= Len(s), Partition(ps, s, p)
  PROVE  Partition(Append(ps, [at |-> a, bytes |-> SubSeq(s, a + 1, a + n)]), s, a + n)
  <1> DEFINE piece == SubSeq(s, a + 1, a + n)
             new == [at |-> a, bytes |-> piece]
             qs == Append(ps, new)
             m == Len(ps)
  <1>1. piece \in Seq(Byte) /\ Len(piece) = n
    BY PieceFacts
  <1>2. new.at = a /\ new.bytes = piece /\ new \in [at : Nat, bytes : Seq(Byte)]
    BY <1>1
  <1>3. /\ m \in Nat /\ Len(qs) = m + 1 /\ qs[m + 1] = new
        /\ \A i \in 1..m : qs[i] = ps[i]
    BY <1>2, LenProperties
  <1>4. \A i \in 1..m : /\ ps[i].at \in Nat /\ Len(ps[i].bytes) \in Nat
                        /\ ps[i].at + Len(ps[i].bytes) <= p
                        /\ ps[i].bytes = SubSeq(s, ps[i].at + 1, ps[i].at + Len(ps[i].bytes))
    <2> SUFFICES ASSUME NEW i \in 1..m
                 PROVE  /\ ps[i].at \in Nat /\ Len(ps[i].bytes) \in Nat
                        /\ ps[i].at + Len(ps[i].bytes) <= p
                        /\ ps[i].bytes = SubSeq(s, ps[i].at + 1, ps[i].at + Len(ps[i].bytes))
      OBVIOUS
    <2>1. ps[i] \in [at : Nat, bytes : Seq(Byte)]
      BY ElementOfSeq
    <2> QED BY <2>1, LenProperties DEF Partition
  <1> HIDE DEF qs, new, piece, m
  <1>5. ASSUME NEW i \in 1..Len(qs)
        PROVE  /\ qs[i].at + Len(qs[i].bytes) <= a + n
               /\ qs[i].bytes = SubSeq(s, qs[i].at + 1, qs[i].at + Len(qs[i].bytes))
    <2>1. CASE i \in 1..m
      <3> DEFINE k == ps[i].at
                 l == Len(ps[i].bytes)
      <3>1. qs[i] = ps[i]
        BY <1>3, <2>1
      <3>2. k \in Nat /\ l \in Nat /\ k + l <= p /\ ps[i].bytes = SubSeq(s, k + 1, k + l)
        BY <1>4, <2>1
      <3> HIDE DEF k, l
      <3>3. k + l <= a + n
        BY <3>2
      <3> QED BY <3>1, <3>2, <3>3, Zenon DEF k, l
    <2>2. CASE i = m + 1
      <3>1. qs[i].at = a /\ qs[i].bytes = piece
        BY <1>2, <1>3, <2>2
      <3>2. a + n <= a + n
        OBVIOUS
      <3> QED BY <1>1, <3>1, <3>2, Zenon DEF piece
    <2>3. i \in 1..m \/ i = m + 1
      <3>1. m \in Nat /\ Len(qs) = m + 1
        BY <1>3
      <3> QED BY <3>1
    <2> QED BY <2>1, <2>2, <2>3
  <1>6. ASSUME NEW i \in 1..Len(qs), NEW j \in 1..Len(qs), i < j
        PROVE  qs[i].at + Len(qs[i].bytes) <= qs[j].at
    <2>1. i \in 1..m /\ (j \in 1..m \/ j = m + 1)
      BY <1>3, <1>6
    <2>2. CASE j \in 1..m
      <3>1. qs[i] = ps[i] /\ qs[j] = ps[j]
        BY <1>3, <2>1, <2>2
      <3>2. ps[i].at + Len(ps[i].bytes) <= ps[j].at
        BY <1>6, <2>1, <2>2 DEF Partition, m
      <3> QED BY <3>1, <3>2, Zenon
    <2>3. CASE j = m + 1
      <3> DEFINE k == ps[i].at
                 l == Len(ps[i].bytes)
      <3>1. qs[i] = ps[i] /\ qs[j].at = a
        BY <1>2, <1>3, <2>1, <2>3
      <3>2. k \in Nat /\ l \in Nat /\ k + l <= p
        BY <1>4, <2>1
      <3> HIDE DEF k, l
      <3>3. k + l <= a
        BY <3>2
      <3> QED BY <3>1, <3>3, Zenon DEF k, l
    <2> QED BY <2>1, <2>2, <2>3
  <1> QED BY <1>5, <1>6, Zenon DEF Partition, qs, new, piece

\* What is between the offsets is a piece of the stream.
LEMMA SliceIsPiece ==
  ASSUME NEW b, NEW s \in Seq(Byte), Holds(b, s),
         NEW from \in Nat, NEW n \in Nat, b.read <= from, from + n <= b.write
  PROVE  /\ Slice(b, from, n) = SubSeq(s, b.base + from + 1, b.base + from + n)
         /\ Slice(b, from, n) \in Seq(Byte) /\ Len(Slice(b, from, n)) = n
         /\ b.base + from + n <= Len(s)
  <1> DEFINE f == Slice(b, from, n)
             a == b.base + from
             g == SubSeq(s, a + 1, a + n)
             w == b.base + b.write
  <1>1. /\ Fits(b) /\ b.read \in Nat /\ b.write \in Nat /\ b.base \in Nat
        /\ b.write <= MaxBufferSize /\ b.bytes \in [Indices -> Byte]
    BY DEF Holds, Fits, Buffers
  <1>2. w = Len(s) /\ a \in Nat /\ a + n <= w /\ w \in Nat
    BY <1>1 DEF Holds
  <1>3. \A i \in 1..n : from + i - 1 \in Indices /\ from + i - 1 \in b.read..b.write - 1
    BY <1>1, SizeIsPositive DEF Indices
  <1>4. f \in [1..n -> Byte] /\ \A i \in 1..n : f[i] = b.bytes[from + i - 1]
    BY <1>1, <1>3 DEF Slice
  <1> HIDE DEF f, w
  <1>5. f \in Seq(Byte) /\ Len(f) = n
    <2>1. f \in Seq(Byte)
      BY <1>4, SeqDef
    <2>2. DOMAIN f = 1..n /\ DOMAIN f = 1..Len(f) /\ Len(f) \in Nat
      BY <1>4, <2>1, LenProperties
    <2> QED BY <2>1, <2>2
  <1>6. g \in Seq(Byte) /\ Len(g) = n /\ \A i \in 1..n : g[i] = s[a + i]
    <2> HIDE DEF a
    <2>1. a + n <= Len(s)
      BY <1>2
    <2> QED BY <1>2, <2>1, PieceFacts
  <1>7. \A i \in 1..n : s[a + i] = b.bytes[from + i - 1]
    <2> SUFFICES ASSUME NEW i \in 1..n
                 PROVE  s[a + i] = b.bytes[from + i - 1]
      OBVIOUS
    <2> DEFINE k == from + i - 1
    <2>1. b.base + k + 1 = a + i
      BY <1>1
    <2>2. k \in b.read..b.write - 1
      BY <1>3
    <2> HIDE DEF k
    <2>3. b.bytes[k] = s[b.base + k + 1]
      BY <2>2 DEF Holds
    <2> QED BY <2>1, <2>3 DEF k
  <1> HIDE DEF g
  <1>8. f = g
    BY <1>4, <1>5, <1>6, <1>7, SeqEqual
  <1>9. a + n <= Len(s)
    BY <1>2
  <1> QED BY <1>5, <1>8, <1>9 DEF f, g, a

-----------------------------------------------------------------------------
(* An iteration.                                                           *)

LEMMA BufferFacts ==
  ASSUME IInv
  PROVE  /\ Fits(buffer) /\ Holds(buffer, stream)
         /\ Partition(packets, stream, buffer.base + buffer.read)
         /\ packets \in Seq([at : Nat, bytes : Seq(Byte)]) /\ stream \in Seq(Byte)
  <1>1. Fits(buffer) /\ packets \in Seq([at : Nat, bytes : Seq(Byte)]) /\ stream \in Seq(Byte)
    BY DEF IInv, TypeOK, Fits, Buffers, Indices
  <1>2. Holds(buffer, stream)
    BY <1>1 DEF IInv, BufferIsTheTail, Holds
  <1>3. Partition(packets, stream, buffer.base + buffer.read)
    BY DEF IInv, PacketsPartitionTheStream, Partition
  <1> QED BY <1>1, <1>2, <1>3

LEMMA ConfigFacts ==
  ASSUME IInv
  PROVE  /\ config \in Configs
         /\ config.header \in Seq(Byte) /\ config.footer \in Seq(Byte) /\ config.valid \subseteq Byte
         /\ config.length \in Nat /\ config.min \in Nat /\ config.max \in Nat
         /\ ChecksumLength(config.checksum) \in 0..2
         /\ config.expr \in BOOLEAN
         /\ config.length > 0 => LengthAllowed(config, config.length)
  <1>1. config \in Configs
    BY DEF IInv, TypeOK
  <1> QED BY <1>1, ConfigsAssumption DEF ChecksumLength

LEMMA StrategyFacts ==
  ASSUME NEW c, c.length \in Nat
  PROVE  /\ Strategy(c) \in {"fixed", "footer", "sweep"}
         /\ Strategy(c) = "fixed" <=> c.length > 0
         /\ Strategy(c) = "sweep" => c.footer = <<>>
  <1>1. CASE c.length > 0
    <2>1. Strategy(c) = "fixed"
      BY <1>1 DEF Strategy
    <2> QED BY <1>1, <2>1
  <1>2. CASE ~(c.length > 0) /\ c.footer # <<>>
    <2>1. c.length = 0
      BY <1>2
    <2>2. Strategy(c) = "footer"
      BY <1>2, <2>1, Zenon DEF Strategy
    <2> QED BY <1>2, <2>2
  <1>3. CASE ~(c.length > 0) /\ c.footer = <<>>
    <2>1. Strategy(c) = "sweep"
      BY <1>3, Zenon DEF Strategy
    <2> QED BY <1>3, <2>1
  <1> QED BY <1>1, <1>2, <1>3

\* What the invariant says of a step that has found no packet.
LEMMA KeepStep ==
  ASSUME IInv, Keeps(buffer, buffer'), parsing' \in BOOLEAN,
         UNCHANGED <<config, packets, stream, overflowed>>
  PROVE  IInv'
  <1>1. Fits(buffer') /\ Holds(buffer', stream) /\ stream \in Seq(Byte)
    BY BufferFacts, KeepsHolds DEF Keeps
  <1> DEFINE p == buffer.base + buffer.read
             q == buffer'.base + buffer'.read
  <1>2. p <= q /\ p \in Nat /\ q \in Nat /\ p <= Len(stream)
    <2>1. /\ buffer.base \in Nat /\ buffer.read \in Nat /\ buffer.write \in Nat
          /\ buffer.read <= buffer.write /\ buffer.base + buffer.write = Len(stream)
      BY BufferFacts DEF Holds, Fits, Buffers
    <2>2. buffer'.base \in Nat /\ buffer'.read \in Nat
      BY <1>1 DEF Fits, Buffers
    <2>3. q >= p
      BY DEF Keeps
    <2> QED BY <2>1, <2>2, <2>3
  <1> HIDE DEF p, q
  <1>3. Partition(packets, stream, q)
    <2>1. packets \in Seq([at : Nat, bytes : Seq(Byte)]) /\ Partition(packets, stream, p)
      BY BufferFacts DEF p
    <2>2. <<>> \in Seq(Byte) /\ stream \o <<>> = stream
      BY <1>1, EmptySeq, ConcatEmptySeq
    <2>3. Partition(packets, stream \o <<>>, q)
      BY <1>1, <1>2, <2>1, <2>2, PartitionLater
    <2> QED BY <2>2, <2>3
  <1>4. TypeOK'
    BY <1>1 DEF IInv, TypeOK, Fits, Buffers, Indices
  <1>5. BufferIsTheTail'
    BY <1>1 DEF Holds, BufferIsTheTail
  <1>6. PacketsPartitionTheStream'
    BY <1>3 DEF PacketsPartitionTheStream, Partition, q
  <1> QED BY <1>4, <1>5, <1>6 DEF IInv

\* One that has found one: it is what the buffer begins with, and is consumed.
LEMMA EmitStep ==
  ASSUME IInv, parsing \in BOOLEAN, NEW b, Keeps(buffer, b), NEW from \in Nat, NEW n \in Nat,
         b.read <= from, from + n <= b.write, n > 0,
         Emit(b, from, n), UNCHANGED <<config, stream, overflowed>>
  PROVE  IInv' /\ BufferLength(buffer') < BufferLength(b)
  <1> DEFINE k == from - b.read + n
             a == b.base + from
             new == [at |-> a, bytes |-> SubSeq(stream, a + 1, a + n)]
             p == buffer.base + buffer.read
             q == a + n
  <1>1. /\ Fits(b) /\ b.read \in Nat /\ b.write \in Nat /\ b.base \in Nat
        /\ b.read <= b.write /\ p <= b.base + b.read /\ p \in Nat
    BY BufferFacts DEF Keeps, Fits, Buffers
  <1>2. Holds(b, stream) /\ stream \in Seq(Byte)
    BY BufferFacts, KeepsHolds
  <1>3. buffer' = ConsumeBytes(b, k) /\ packets' = Append(packets, [at |-> a, bytes |-> Slice(b, from, n)])
    BY DEF Emit
  <1>4. Slice(b, from, n) = SubSeq(stream, a + 1, a + n) /\ q <= Len(stream)
        /\ SubSeq(stream, a + 1, a + n) \in Seq(Byte)
    BY <1>2, SliceIsPiece
  <1>5. k \in Nat /\ k > 0 /\ k <= BufferLength(b) /\ a \in Nat /\ p <= a
        /\ b.base + b.read + k = q /\ BufferLength(b) \in Nat
    BY <1>1 DEF BufferLength
  <1> HIDE DEF k
  <1>6. /\ Keeps(b, buffer') /\ buffer'.base + buffer'.read = q
        /\ BufferLength(buffer') = IF k >= BufferLength(b) THEN 0 ELSE BufferLength(b) - k
    BY <1>1, <1>3, <1>5, ConsumeKeeps
  <1>7. BufferLength(buffer') < BufferLength(b)
    BY <1>5, <1>6
  <1>8. Fits(buffer') /\ Holds(buffer', stream)
    BY <1>2, <1>6, KeepsHolds DEF Keeps
  <1> HIDE DEF p, q, a
  <1>9. packets \in Seq([at : Nat, bytes : Seq(Byte)]) /\ Partition(packets, stream, p)
    BY BufferFacts DEF p
  <1>10. packets' = Append(packets, new)
    BY <1>3, <1>4
  <1>11. Partition(packets', stream, q)
    BY <1>1, <1>2, <1>4, <1>5, <1>9, <1>10, PartitionAppend DEF q
  <1>12. packets' \in Seq([at : Nat, bytes : Seq(Byte)])
    <2>1. new \in [at : Nat, bytes : Seq(Byte)]
      BY <1>4, <1>5
    <2> HIDE DEF new
    <2> QED BY <1>9, <1>10, <2>1
  <1>13. TypeOK'
    BY <1>8, <1>12 DEF IInv, TypeOK, Fits, Buffers, Indices, Emit
  <1>14. BufferIsTheTail'
    BY <1>8 DEF Holds, BufferIsTheTail
  <1>15. PacketsPartitionTheStream'
    BY <1>6, <1>11 DEF PacketsPartitionTheStream, Partition
  <1> QED BY <1>7, <1>13, <1>14, <1>15 DEF IInv

LEMMA HeaderIndexFacts ==
  ASSUME NEW b, Fits(b), config.header \in Seq(Byte), HeaderIndex(b) # -1
  PROVE  /\ HeaderIndex(b) \in Nat /\ b.read <= HeaderIndex(b)
         /\ \/ config.header = <<>> /\ HeaderIndex(b) = b.read
            \/ /\ config.header # <<>> /\ HeaderIndex(b) + Len(config.header) <= b.write
               /\ Occurs(b, config.header, HeaderIndex(b))
               /\ \A i \in Nat : b.read <= i /\ i < HeaderIndex(b) => ~Occurs(b, config.header, i)
  <1>1. b.read \in Nat /\ b.write \in Nat
    BY DEF Fits, Buffers
  <1>2. CASE config.header = <<>>
    BY <1>1, <1>2 DEF HeaderIndex
  <1>3. CASE config.header # <<>>
    <2> DEFINE hits == {i \in b.read..MaxBufferSize - 1 : Occurs(b, config.header, i)}
    <2>1. HeaderIndex(b) = IF hits = {} THEN -1
                           ELSE IF Least(hits) + Len(config.header) > b.write THEN -1 ELSE Least(hits)
      BY <1>3 DEF HeaderIndex, FindPatternIndex
    <2>2. hits \in SUBSET Nat
      BY <1>1, SizeIsPositive
    <2>3. \A i \in hits : b.read <= i /\ Occurs(b, config.header, i)
      BY <1>1, SizeIsPositive
    <2>4. Len(config.header) \in Nat
      BY LenProperties
    <2> HIDE DEF hits
    <2>5. hits # {} /\ ~(Least(hits) + Len(config.header) > b.write) /\ HeaderIndex(b) = Least(hits)
      BY <2>1
    <2>6. Least(hits) \in hits /\ \A i \in hits : Least(hits) <= i
      BY <2>2, <2>5, LeastOf
    <2>7. Least(hits) \in Nat /\ b.read <= Least(hits) /\ Occurs(b, config.header, Least(hits))
      BY <2>2, <2>3, <2>6
    <2>8. Least(hits) + Len(config.header) <= b.write
      <3> DEFINE l == Len(config.header)
                 h == Least(hits)
      <3>1. l \in Nat /\ h \in Nat /\ ~(h + l > b.write)
        BY <2>4, <2>5, <2>7
      <3> HIDE DEF l, h
      <3>2. h + l <= b.write
        BY <1>1, <3>1
      <3> QED BY <3>2 DEF l, h
    <2>9. ASSUME NEW i \in Nat, b.read <= i, i < Least(hits), Occurs(b, config.header, i)
          PROVE  FALSE
      <3>1. i \in b.read..MaxBufferSize - 1
        <4>1. Least(hits) \in b.read..MaxBufferSize - 1
          BY <2>6 DEF hits
        <4> HIDE DEF hits
        <4> QED BY <1>1, <2>9, <4>1, SizeIsPositive
      <3>2. i \in hits /\ ~(Least(hits) <= i)
        BY <2>7, <2>9, <3>1 DEF hits
      <3> QED BY <2>6, <3>2, Zenon
    <2> QED BY <1>3, <2>5, <2>7, <2>8, <2>9
  <1> QED BY <1>2, <1>3

LEMMA AlignedFacts ==
  ASSUME IInv, BufferLength(buffer) > 0, HeaderIndex(buffer) # -1
  PROVE  /\ Keeps(buffer, Aligned) /\ Fits(Aligned)
         /\ BufferLength(Aligned) \in Nat \ {0} /\ BufferLength(Aligned) <= BufferLength(buffer)
         /\ Aligned.read = HeaderIndex(buffer) /\ Aligned.bytes = buffer.bytes
         /\ Aligned.write = buffer.write
  <1> DEFINE h == HeaderIndex(buffer)
             l == Len(config.header)
  <1>1. /\ Fits(buffer) /\ buffer.read \in Nat /\ buffer.write \in Nat
        /\ buffer.read < buffer.write /\ buffer.base \in Nat
    BY BufferFacts DEF BufferLength, Fits, Buffers
  <1>2. h \in Nat /\ buffer.read <= h /\ h < buffer.write
    <2>1. config.header \in Seq(Byte)
      BY ConfigFacts
    <2>2. h \in Nat /\ buffer.read <= h
      BY <1>1, <2>1, HeaderIndexFacts
    <2>3. CASE config.header = <<>> /\ h = buffer.read
      BY <1>1, <2>2, <2>3
    <2>4. CASE config.header # <<>> /\ h + l <= buffer.write
      <3>1. l \in Nat \ {0}
        BY <2>1, <2>4, EmptySeq
      <3>2. h + l <= buffer.write
        BY <2>4
      <3> HIDE DEF h, l
      <3> QED BY <1>1, <2>2, <3>1, <3>2
    <2> QED BY <1>1, <2>1, <2>3, <2>4, HeaderIndexFacts
  <1> HIDE DEF h
  <1>3. /\ Keeps(buffer, Aligned) /\ Aligned.read = h /\ Aligned.write = buffer.write
        /\ Aligned.bytes = buffer.bytes
    <2>1. CASE h > buffer.read
      <3>1. Aligned = SkipTo(buffer, h, 0)
        BY <2>1 DEF Aligned, SkipTo, h
      <3>2. h \in buffer.read..buffer.write
        BY <1>1, <1>2
      <3> QED BY <1>1, <3>1, <3>2, SkipKeeps
    <2>2. CASE ~(h > buffer.read)
      <3>1. Aligned = buffer
        BY <2>2 DEF Aligned, h
      <3>2. h = buffer.read
        BY <1>1, <1>2, <2>2
      <3>3. \A i \in buffer.read..buffer.write - 1 : i + buffer.base - buffer.base = i
        BY <1>1
      <3>4. Keeps(buffer, buffer)
        BY <1>1, <3>3 DEF Keeps
      <3> QED BY <3>1, <3>2, <3>4
    <2> QED BY <2>1, <2>2
  <1>4. /\ Aligned.write - Aligned.read \in Nat \ {0}
        /\ Aligned.write - Aligned.read <= buffer.write - buffer.read
    BY <1>1, <1>2, <1>3
  <1> QED BY <1>3, <1>4 DEF BufferLength, Keeps, h

LEMMA HeaderMissingStep ==
  ASSUME IInv, HeaderMissing
  PROVE  IInv' /\ ~parsing'
  <1> DEFINE l == Len(config.header)
             n == BufferLength(buffer)
             r == buffer.read + n - (l - 1)
  <1>1. /\ Fits(buffer) /\ buffer.read \in Nat /\ buffer.write \in Nat
        /\ buffer.read <= buffer.write /\ n = buffer.write - buffer.read /\ buffer.base \in Nat
    BY BufferFacts DEF BufferLength, Fits, Buffers
  <1>2. l \in Nat \ {0}
    <2>1. config.header # <<>>
      BY <1>1 DEF HeaderMissing, HeaderIndex
    <2> QED BY <2>1, ConfigFacts, EmptySeq
  <1>3. buffer' = IF n < l THEN buffer ELSE [buffer EXCEPT !.read = r, !.scanned = 0]
    BY DEF HeaderMissing
  <1> HIDE DEF l, n
  <1>4. Keeps(buffer, buffer')
    <2>1. CASE n < l
      <3>1. \A i \in buffer.read..buffer.write - 1 : i + buffer.base - buffer.base = i
        BY <1>1
      <3>2. buffer' = buffer
        BY <1>3, <2>1
      <3>3. Keeps(buffer, buffer)
        BY <1>1, <3>1 DEF Keeps
      <3> QED BY <3>2, <3>3
    <2>2. CASE ~(n < l)
      <3>1. r \in buffer.read..buffer.write
        BY <1>1, <1>2, <2>2
      <3>2. buffer' = SkipTo(buffer, r, 0)
        BY <1>3, <2>2 DEF SkipTo
      <3> HIDE DEF r
      <3> QED BY <1>1, <3>1, <3>2, SkipKeeps
    <2> QED BY <2>1, <2>2
  <1> QED BY <1>4, KeepStep DEF HeaderMissing

LEMMA ScannedKeeps ==
  ASSUME NEW b, Fits(b), NEW n \in Nat
  PROVE  LET c == [b EXCEPT !.scanned = n]
         IN  /\ Keeps(b, c) /\ c.read = b.read /\ c.write = b.write /\ c.base = b.base
             /\ c.bytes = b.bytes /\ c.scanned = n
  <1> DEFINE c == [b EXCEPT !.scanned = n]
  <1>1. /\ b \in Buffers /\ b.read \in Nat /\ b.write \in Nat /\ b.base \in Nat
        /\ b.read <= b.write /\ b.write <= MaxBufferSize
    BY DEF Fits, Buffers
  <1>2. /\ c \in Buffers /\ c.read = b.read /\ c.write = b.write /\ c.base = b.base
        /\ c.bytes = b.bytes /\ c.scanned = n
    BY <1>1 DEF Buffers
  <1> HIDE DEF c
  <1>3. \A i \in c.read..c.write - 1 : i + c.base - b.base = i
    BY <1>1, <1>2
  <1>4. Fits(c)
    BY <1>1, <1>2 DEF Fits
  <1> QED BY <1>1, <1>2, <1>3, <1>4 DEF Keeps, c

\* Consuming, with lastScannedLength reset or not.
LEMMA ConsumedKeeps ==
  ASSUME NEW b, Fits(b), NEW n \in Nat \ {0}, BufferLength(b) \in Nat \ {0}
  PROVE  /\ Keeps(b, ConsumeBytes(b, n))
         /\ BufferLength(ConsumeBytes(b, n)) < BufferLength(b)
         /\ Keeps(b, [ConsumeBytes(b, n) EXCEPT !.scanned = 0])
         /\ BufferLength([ConsumeBytes(b, n) EXCEPT !.scanned = 0]) < BufferLength(b)
  <1> DEFINE c == ConsumeBytes(b, n)
             d == [c EXCEPT !.scanned = 0]
             l == BufferLength(b)
  <1>1. Keeps(b, c) /\ BufferLength(c) = IF n >= l THEN 0 ELSE l - n
    BY ConsumeKeeps
  <1>2. l \in Nat \ {0}
    OBVIOUS
  <1> HIDE DEF c, l
  <1>3. BufferLength(c) < l
    BY <1>1, <1>2
  <1>4. Keeps(c, d) /\ BufferLength(d) = BufferLength(c)
    BY <1>1, ScannedKeeps DEF Keeps, BufferLength
  <1> HIDE DEF d
  <1>5. Keeps(b, d)
    BY <1>1, <1>4, KeepsTransitive
  <1> QED BY <1>1, <1>3, <1>4, <1>5 DEF c, d, l

LEMMA GoOnStep ==
  ASSUME IInv, NEW b, Keeps(buffer, b), BufferLength(b) < BufferLength(buffer), parsing \in BOOLEAN,
         GoOn(b), UNCHANGED <<config, stream, overflowed>>
  PROVE  IInv' /\ BufferLength(buffer') < BufferLength(buffer)
  <1>1. IInv'
    BY KeepStep DEF GoOn
  <1>2. BufferLength(buffer') = BufferLength(b)
    BY DEF GoOn, BufferLength
  <1> QED BY <1>1, <1>2

LEMMA WaitStep ==
  ASSUME IInv, NEW b, Keeps(buffer, b), Wait(b), UNCHANGED <<config, stream, overflowed>>
  PROVE  IInv' /\ ~parsing'
  BY KeepStep DEF Wait

\* The step of an iteration on the buffer b it goes on with.
Progress == IInv' /\ (parsing' => BufferLength(buffer') < BufferLength(buffer))

LEMMA SkipStep ==
  ASSUME IInv, parsing \in BOOLEAN, NEW b, Keeps(buffer, b), BufferLength(b) \in Nat \ {0},
         BufferLength(b) <= BufferLength(buffer), NEW n \in Nat \ {0},
         GoOn(ConsumeBytes(b, n)) \/ GoOn([ConsumeBytes(b, n) EXCEPT !.scanned = 0]),
         UNCHANGED <<config, stream, overflowed>>
  PROVE  Progress
  <1> DEFINE c == ConsumeBytes(b, n)
             d == [c EXCEPT !.scanned = 0]
  <1>1. Fits(b) /\ Fits(buffer)
    BY BufferFacts DEF Keeps
  <1>2. /\ Keeps(b, c) /\ BufferLength(c) < BufferLength(b)
        /\ Keeps(b, d) /\ BufferLength(d) < BufferLength(b)
    BY <1>1, ConsumedKeeps
  <1> HIDE DEF c, d
  <1>3. ASSUME NEW e, Keeps(b, e), BufferLength(e) < BufferLength(b), GoOn(e)
        PROVE  Progress
    <2>1. Keeps(buffer, e)
      BY <1>1, <1>3, KeepsTransitive
    <2>2. BufferLength(e) < BufferLength(buffer)
      <3>1. BufferLength(e) \in Int /\ BufferLength(buffer) \in Int /\ BufferLength(b) \in Int
        BY <1>1, <1>3 DEF Keeps, Fits, Buffers, BufferLength
      <3> QED BY <1>3, <3>1
    <2> QED BY <1>3, <2>1, <2>2, GoOnStep DEF Progress
  <1> QED BY <1>2, <1>3 DEF c, d

LEMMA NoMatchStep ==
  ASSUME IInv, parsing \in BOOLEAN, NEW b, Keeps(buffer, b), BufferLength(b) \in Nat \ {0},
         BufferLength(b) <= BufferLength(buffer),
         NoMatch(b), UNCHANGED <<config, stream, overflowed>>
  PROVE  Progress
  <1>1. CASE GoOn([ConsumeBytes(b, 1) EXCEPT !.scanned = 0])
    BY <1>1, SkipStep
  <1>2. CASE Wait([b EXCEPT !.scanned = BufferLength(b)])
    <2> DEFINE c == [b EXCEPT !.scanned = BufferLength(b)]
    <2>1. Keeps(b, c)
      BY ScannedKeeps DEF Keeps
    <2> HIDE DEF c
    <2>2. Keeps(buffer, c)
      BY <2>1, BufferFacts, KeepsTransitive
    <2>3. Wait(c)
      BY <1>2 DEF c
    <2> QED BY <2>2, <2>3, WaitStep DEF Progress
  <1> QED BY <1>1, <1>2 DEF NoMatch

LEMMA EmitProgress ==
  ASSUME IInv, parsing \in BOOLEAN, NEW b, Keeps(buffer, b), NEW from \in Nat, NEW n \in Nat,
         b.read <= from, from + n <= b.write, n > 0, BufferLength(b) <= BufferLength(buffer),
         Emit(b, from, n), UNCHANGED <<config, stream, overflowed>>
  PROVE  Progress
  <1>1. IInv' /\ BufferLength(buffer') < BufferLength(b)
    BY EmitStep
  <1>2. Fits(buffer') /\ Fits(buffer) /\ Fits(b)
    BY <1>1, BufferFacts DEF IInv, TypeOK, Keeps, Fits, Buffers, Indices
  <1>3. BufferLength(buffer') \in Int /\ BufferLength(buffer) \in Int /\ BufferLength(b) \in Int
    BY <1>2 DEF Fits, Buffers, BufferLength
  <1> QED BY <1>1, <1>3 DEF Progress

LEMMA FixedProgress ==
  ASSUME IInv, FixedStep
  PROVE  Progress
  <1> DEFINE b == Aligned
             len == config.length
             windows == b.read .. b.write - len
             hits == {i \in windows : ValidHeader(b, i) /\ WindowOk(Slice(b, i, len))}
             rest == ConsumeBytes(b, BufferLength(b) - len + 1)
  <1>1. /\ Keeps(buffer, b) /\ Fits(b) /\ BufferLength(b) \in Nat \ {0}
        /\ BufferLength(b) <= BufferLength(buffer)
    BY AlignedFacts DEF FixedStep, Iterates
  <1>2. parsing \in BOOLEAN /\ UNCHANGED <<config, stream, overflowed>>
    BY DEF FixedStep, IInv, TypeOK
  <1>3. len \in Nat \ {0}
    <2>1. len \in Nat /\ Strategy(config) = "fixed"
      BY ConfigFacts DEF FixedStep, Iterates
    <2> QED BY <2>1, StrategyFacts
  <1>4. \/ Wait(b)
        \/ /\ BufferLength(b) >= len
           /\ hits # {} /\ Emit(b, Least(hits), len)
        \/ BufferLength(b) >= len /\ Wait(rest)
    BY DEF FixedStep
  <1> HIDE DEF b
  <1>5. b.read \in Nat /\ b.write \in Nat /\ BufferLength(b) = b.write - b.read
    BY <1>1 DEF Fits, Buffers, BufferLength
  <1>6. CASE Wait(b)
    BY <1>1, <1>2, <1>6, WaitStep DEF Progress
  <1>7. CASE hits # {} /\ Emit(b, Least(hits), len)
    <2>1. hits \in SUBSET Nat /\ \A i \in hits : b.read <= i /\ i + len <= b.write
      BY <1>3, <1>5
    <2> HIDE DEF hits
    <2>2. Least(hits) \in hits
      BY <1>7, <2>1, LeastOf
    <2> DEFINE h == Least(hits)
    <2>3. h \in Nat /\ b.read <= h /\ h + len <= b.write
      BY <2>1, <2>2
    <2> HIDE DEF h
    <2>4. Emit(b, h, len)
      BY <1>7 DEF h
    <2> QED BY <1>1, <1>2, <1>3, <2>3, <2>4, EmitProgress
  <1>8. CASE BufferLength(b) >= len /\ Wait(rest)
    <2>1. BufferLength(b) - len + 1 \in Nat
      BY <1>3, <1>5, <1>8
    <2>2. Keeps(b, rest)
      BY <1>1, <2>1, ConsumeKeeps
    <2> HIDE DEF rest
    <2>3. Keeps(buffer, rest)
      BY <1>1, <2>2, BufferFacts, KeepsTransitive
    <2> QED BY <1>2, <1>8, <2>3, WaitStep DEF Progress
  <1> QED BY <1>4, <1>6, <1>7, <1>8

LEMMA ShortestFacts ==
  ASSUME IInv
  PROVE  /\ Shortest(config) \in Nat
         /\ Strategy(config) = "footer" =>
               Shortest(config) = Len(config.header) + 1 + ChecksumLength(config.checksum) + Len(config.footer)
         /\ Strategy(config) = "sweep" =>
               Shortest(config) = Len(config.header) + ChecksumLength(config.checksum)
         /\ Strategy(config) = "fixed" => Shortest(config) = config.length
  <1>1. Strategy(config) \in {"fixed", "footer", "sweep"}
    BY ConfigFacts, StrategyFacts
  <1>2. /\ Len(config.header) \in Nat /\ Len(config.footer) \in Nat /\ config.length \in Nat
        /\ ChecksumLength(config.checksum) \in Nat
    <2>1. ChecksumLength(config.checksum) \in Nat
      BY ConfigFacts
    <2> QED BY <2>1, ConfigFacts, LenProperties
  <1>3. CASE Strategy(config) = "fixed"
    BY <1>2, <1>3 DEF Shortest
  <1>4. CASE Strategy(config) = "footer"
    BY <1>2, <1>4 DEF Shortest
  <1>5. CASE Strategy(config) = "sweep"
    BY <1>2, <1>5 DEF Shortest
  <1> QED BY <1>1, <1>3, <1>4, <1>5

LEMMA FooterProgress ==
  ASSUME IInv, FooterStep
  PROVE  Progress
  <1> DEFINE b == Aligned
             min == Shortest(config)
             lengths == {n \in min..BufferLength(b) :
                           Occurs(b, config.footer, b.read + n - FooterLen)}
             decisive == {n \in lengths :
                            LengthAllowed(config, n) => IncrementalOk(Slice(b, b.read, n))}
             least == Least(decisive)
             skipped == [ConsumeBytes(b, 1) EXCEPT !.scanned = 0]
  <1>1. /\ Keeps(buffer, b) /\ Fits(b) /\ BufferLength(b) \in Nat \ {0}
        /\ BufferLength(b) <= BufferLength(buffer)
    BY AlignedFacts DEF FooterStep, Iterates
  <1>2. parsing \in BOOLEAN /\ UNCHANGED <<config, stream, overflowed>>
    BY DEF FooterStep, IInv, TypeOK
  <1>3. min \in Nat \ {0}
    <2>1. Strategy(config) = "footer"
      BY DEF FooterStep, Iterates
    <2>2. /\ Len(config.header) \in Nat /\ Len(config.footer) \in Nat
          /\ ChecksumLength(config.checksum) \in 0..2
      BY ConfigFacts, LenProperties
    <2>3. min = Len(config.header) + 1 + ChecksumLength(config.checksum) + Len(config.footer)
      BY <2>1, ShortestFacts
    <2> HIDE DEF min
    <2> QED BY <2>2, <2>3
  <1>4. \/ NoMatch(b)
        \/ GoOn(skipped)
        \/ decisive # {} /\ (Emit(b, b.read, least) \/ GoOn(ConsumeBytes(b, least)))
    BY Zenon DEF FooterStep
  <1> HIDE DEF b, min
  <1>5. /\ b.read \in Nat /\ b.write \in Nat /\ BufferLength(b) = b.write - b.read
    BY <1>1 DEF Fits, Buffers, BufferLength
  <1>6. CASE NoMatch(b)
    BY <1>1, <1>2, <1>6, NoMatchStep
  <1>7. CASE GoOn(skipped)
    BY <1>1, <1>2, <1>7, SkipStep
  <1>8. CASE decisive # {} /\ (Emit(b, b.read, least) \/ GoOn(ConsumeBytes(b, least)))
    <2>1. decisive \in SUBSET Nat /\ \A n \in decisive : n \in Nat \ {0} /\ b.read + n <= b.write
      BY <1>3, <1>5
    <2> HIDE DEF decisive
    <2>2. least \in decisive
      BY <1>8, <2>1, LeastOf
    <2>3. least \in Nat \ {0} /\ b.read + least <= b.write
      BY <2>1, <2>2, Zenon
    <2> HIDE DEF least
    <2>4. CASE Emit(b, b.read, least)
      <3>1. b.read <= b.read
        BY <1>5
      <3> QED BY <1>1, <1>2, <1>5, <2>3, <2>4, <3>1, EmitProgress
    <2>5. CASE GoOn(ConsumeBytes(b, least))
      BY <1>1, <1>2, <2>3, <2>5, SkipStep
    <2> QED BY <1>8, <2>4, <2>5
  <1> QED BY <1>4, <1>6, <1>7, <1>8

LEMMA DynamicLengthFacts ==
  ASSUME NEW b, Fits(b)
  PROVE  DynamicLength(b) \in Nat /\ DynamicLength(b) <= BufferLength(b)
  <1> DEFINE n == IF config.expr /\ BufferLength(b) > 1 THEN b.bytes[b.read + 1] ELSE 0
  <1>1. /\ b.read \in Nat /\ b.write \in Nat /\ b.bytes \in [Indices -> Byte]
        /\ BufferLength(b) = b.write - b.read /\ BufferLength(b) \in Nat /\ b.write <= MaxBufferSize
    BY DEF Fits, Buffers, BufferLength
  <1>2. BufferLength(b) > 1 => b.read + 1 \in Indices
    BY <1>1, SizeIsPositive DEF Indices
  <1>3. n \in Nat
    BY <1>1, <1>2 DEF Byte
  <1>4. DynamicLength(b) = IF n <= BufferLength(b) THEN n ELSE 0
    BY DEF DynamicLength
  <1> HIDE DEF n
  <1> QED BY <1>1, <1>3, <1>4

LEMMA GreatestOfThree ==
  ASSUME NEW x \in Nat, NEW y \in Nat, NEW z \in Nat
  PROVE  LET S == {x, y, z} m == CHOOSE i \in S : \A j \in S : i >= j
         IN  m \in S /\ m >= x /\ m >= y /\ m >= z
  <1> DEFINE S == {x, y, z}
  <1>1. \E i \in S : \A j \in S : i >= j
    <2>1. (x >= y /\ x >= z) \/ (y >= x /\ y >= z) \/ (z >= x /\ z >= y)
      OBVIOUS
    <2> QED BY <2>1
  <1> QED BY <1>1

LEMMA SweepProgress ==
  ASSUME IInv, SweepStep
  PROVE  Progress
  <1> DEFINE b == Aligned
             min == Shortest(config)
             next == b.scanned + 1
             S == {min, next, config.min}
             first == CHOOSE x \in S : \A y \in S : x >= y
             limit == IF config.max > 0 /\ config.max < BufferLength(b) THEN config.max ELSE BufferLength(b)
             hits == {k \in first..limit : IncrementalOk(Slice(b, b.read, k))}
             Found(k) == Emit([b EXCEPT !.scanned = 0], b.read, k)
             Skip(k) == GoOn([ConsumeBytes(b, k) EXCEPT !.scanned = 0])
             least == Least(hits)
             n == DynamicLength(b)
             waiting == [b EXCEPT !.scanned = BufferLength(b)]
  <1>1. /\ Keeps(buffer, b) /\ Fits(b) /\ BufferLength(b) \in Nat \ {0}
        /\ BufferLength(b) <= BufferLength(buffer)
    BY AlignedFacts DEF SweepStep, Iterates
  <1>2. parsing \in BOOLEAN /\ UNCHANGED <<config, stream, overflowed>>
    BY DEF SweepStep, IInv, TypeOK
  <1>3. \/ NoMatch(b) \/ Skip(1)
        \/ n # 0 /\ (Skip(n) \/ Found(n))
        \/ Wait(waiting)
        \/ hits # {} /\ Found(least)
    BY DEF SweepStep
  <1> HIDE DEF b, min, next
  <1>4. /\ b.read \in Nat /\ b.write \in Nat /\ BufferLength(b) = b.write - b.read
        /\ b.scanned \in Nat
    BY <1>1 DEF Fits, Buffers, BufferLength
  <1>5. ASSUME NEW k \in Nat \ {0}, k <= BufferLength(b), Found(k)
        PROVE  Progress
    <2> DEFINE c == [b EXCEPT !.scanned = 0]
    <2>1. Keeps(b, c) /\ c.read = b.read /\ c.write = b.write
      BY <1>1, ScannedKeeps
    <2>2. Emit(c, b.read, k)
      BY <1>5
    <2> HIDE DEF c
    <2>3. Keeps(buffer, c) /\ BufferLength(c) = BufferLength(b)
      BY <1>1, <2>1, BufferFacts, KeepsTransitive DEF BufferLength
    <2>4. c.read <= b.read /\ b.read + k <= c.write
      BY <1>4, <1>5, <2>1
    <2> QED BY <1>1, <1>2, <1>4, <1>5, <2>2, <2>3, <2>4, EmitProgress
  <1>6. ASSUME NEW k \in Nat \ {0}, Skip(k)
        PROVE  Progress
    BY <1>1, <1>2, <1>6, SkipStep
  <1>7. CASE NoMatch(b)
    BY <1>1, <1>2, <1>7, NoMatchStep
  <1>8. CASE Skip(1)
    BY <1>6, <1>8
  <1>9. CASE n # 0 /\ (Skip(n) \/ Found(n))
    <2>1. n \in Nat \ {0} /\ n <= BufferLength(b)
      BY <1>1, <1>9, DynamicLengthFacts
    <2> HIDE DEF n
    <2> QED BY <1>5, <1>6, <1>9, <2>1
  <1>10. CASE Wait(waiting)
    <2>1. Keeps(b, waiting)
      BY <1>1, ScannedKeeps
    <2>2. Keeps(buffer, waiting)
      BY <1>1, <2>1, BufferFacts, KeepsTransitive
    <2> HIDE DEF waiting
    <2> QED BY <1>2, <1>10, <2>2, WaitStep DEF Progress
  <1>11. CASE hits # {} /\ Found(least)
    <2>1. min \in Nat /\ config.min \in Nat /\ config.max \in Nat
      BY ConfigFacts, ShortestFacts DEF min
    <2>2. first \in Nat /\ first >= 1
      <3>1. next \in Nat /\ next >= 1
        BY <1>4 DEF next
      <3>2. first \in S /\ first >= next
        BY <2>1, <3>1, GreatestOfThree
      <3> HIDE DEF first
      <3> QED BY <2>1, <3>1, <3>2
    <2>3. limit \in Nat /\ limit <= BufferLength(b)
      BY <1>4, <1>1, <2>1
    <2> HIDE DEF first, limit
    <2>4. hits \in SUBSET Nat /\ \A k \in hits : k # 0 /\ k <= BufferLength(b)
      BY <1>1, <2>2, <2>3
    <2> HIDE DEF hits
    <2>5. least \in hits
      BY <1>11, <2>4, LeastOf
    <2>6. least \in Nat \ {0} /\ least <= BufferLength(b)
      BY <2>4, <2>5
    <2> HIDE DEF least
    <2> QED BY <1>5, <1>11, <2>6
  <1> QED BY <1>3, <1>7, <1>8, <1>9, <1>10, <1>11

-----------------------------------------------------------------------------
(* The invariant.                                                          *)

LEMMA EmptyHolds ==
  ASSUME NEW b, Fits(b), b.base = 0, b.read = 0, b.write = 0
  PROVE  Holds(b, <<>>)
  BY EmptySeq DEF Holds, Fits, Buffers

LEMMA InvariantInit ==
  ASSUME Init
  PROVE  IInv
  <1>1. [i \in 0..MaxBufferSize - 1 |-> 0] \in [Indices -> Byte]
    BY DEF Indices, Byte
  <1>2. /\ Empty \in Buffers /\ Empty.read = 0 /\ Empty.write = 0 /\ Empty.base = 0
    BY <1>1 DEF Empty, Buffers
  <1>3. Fits(Empty)
    BY <1>2, SizeIsPositive DEF Fits
  <1>4. Holds(buffer, stream)
    BY <1>2, <1>3, EmptyHolds DEF Init
  <1>5. TypeOK
    <2>1. packets \in Seq([at : Nat, bytes : Seq(Byte)]) /\ stream \in Seq(Byte)
      BY EmptySeq DEF Init
    <2>2. Fits(buffer)
      BY <1>3 DEF Init
    <2> QED BY <2>1, <2>2 DEF Init, TypeOK, Fits, Buffers, Indices
  <1>6. BufferIsTheTail
    BY <1>4 DEF Holds, BufferIsTheTail
  <1>7. PacketsPartitionTheStream
    BY DEF Init, PacketsPartitionTheStream
  <1> QED BY <1>5, <1>6, <1>7 DEF IInv

LEMMA ReceiveStep ==
  ASSUME IInv, NEW chunk \in Chunks, Receive(chunk)
  PROVE  IInv'
  <1> DEFINE p == buffer.base + buffer.read
             q == buffer'.base + buffer'.read
  <1>1. chunk \in Seq(Byte) /\ stream \in Seq(Byte) /\ stream' = stream \o chunk
    BY ChunksAssumption, BufferFacts DEF Receive
  <1>2. Fits(buffer') /\ Holds(buffer', stream') /\ q >= p /\ stream' \in Seq(Byte)
    <2>1. Holds(buffer, stream) /\ buffer' = AppendChunk(buffer, chunk)
      BY BufferFacts DEF Receive
    <2> DEFINE c == AppendChunk(buffer, chunk)
    <2>2. Holds(c, stream \o chunk) /\ c.base + c.read >= buffer.base + buffer.read
      BY <1>1, <2>1, AppendHolds
    <2>3. Holds(buffer', stream') /\ q >= p
      BY <1>1, <2>1, <2>2, Zenon
    <2>4. stream' \in Seq(Byte)
      BY <1>1, ConcatProperties
    <2> HIDE DEF p, q
    <2> QED BY <2>3, <2>4 DEF Holds
  <1>3. p <= q /\ p \in Nat /\ q \in Nat /\ p <= Len(stream)
    <2>1. /\ buffer.base \in Nat /\ buffer.read \in Nat /\ buffer.write \in Nat
          /\ buffer.read <= buffer.write /\ buffer.base + buffer.write = Len(stream)
      BY BufferFacts DEF Holds, Fits, Buffers
    <2>2. buffer'.base \in Nat /\ buffer'.read \in Nat
      BY <1>2 DEF Fits, Buffers
    <2> QED BY <1>2, <2>1, <2>2
  <1> HIDE DEF p, q
  <1>4. Partition(packets', stream', q)
    <2>1. packets \in Seq([at : Nat, bytes : Seq(Byte)]) /\ Partition(packets, stream, p)
      BY BufferFacts DEF p
    <2>2. Partition(packets, stream \o chunk, q)
      BY <1>1, <1>3, <2>1, PartitionLater
    <2> QED BY <1>1, <2>2 DEF Receive
  <1>5. overflowed' \in BOOLEAN /\ parsing' \in BOOLEAN /\ config' = config /\ packets' = packets
    BY DEF Receive, IInv, TypeOK
  <1>6. TypeOK'
    BY <1>2, <1>5 DEF IInv, TypeOK, Fits, Buffers, Indices
  <1>7. BufferIsTheTail'
    BY <1>2 DEF Holds, BufferIsTheTail
  <1>8. PacketsPartitionTheStream'
    BY <1>4 DEF PacketsPartitionTheStream, Partition, q
  <1> QED BY <1>6, <1>7, <1>8 DEF IInv

LEMMA ReceiveLateStep ==
  ASSUME IInv, NEW chunk \in Chunks, ReceiveLate(chunk)
  PROVE  IInv'
  <1> DEFINE r == ResetBuffer(buffer)
             e == [r EXCEPT !.base = 0]
  <1>1. /\ chunk \in Seq(Byte) /\ stream' = chunk /\ packets' = <<>> /\ config' = config
        /\ parsing' \in BOOLEAN /\ overflowed' \in BOOLEAN
    BY ChunksAssumption DEF ReceiveLate
  <1>2. r \in Buffers /\ r.read = 0 /\ r.write = 0
    BY BufferFacts, ResetFacts DEF Fits
  <1>3. buffer' = AppendChunk(e, chunk)
    BY DEF ReceiveLate
  <1> HIDE DEF r
  <1>4. Fits(e) /\ e.read = 0 /\ e.write = 0 /\ e.base = 0
    <2>1. e \in Buffers /\ e.read = 0 /\ e.write = 0 /\ e.base = 0
      BY <1>2 DEF Buffers
    <2> HIDE DEF e
    <2> QED BY <2>1, SizeIsPositive DEF Fits
  <1> HIDE DEF e
  <1>5. Fits(buffer') /\ Holds(buffer', stream')
    <2>1. Holds(e, <<>>) /\ <<>> \in Seq(Byte) /\ <<>> \o chunk = chunk
      BY <1>1, <1>4, EmptyHolds, EmptySeq, ConcatEmptySeq
    <2>2. Holds(AppendChunk(e, chunk), <<>> \o chunk)
      BY <1>1, <2>1, AppendHolds
    <2>3. Holds(buffer', stream')
      BY <1>1, <1>3, <2>1, <2>2, Zenon
    <2> QED BY <2>3 DEF Holds
  <1>6. TypeOK'
    <2>1. packets' \in Seq([at : Nat, bytes : Seq(Byte)])
      BY <1>1, EmptySeq
    <2> QED BY <1>1, <1>5, <2>1 DEF IInv, TypeOK, Fits, Buffers, Indices
  <1>7. BufferIsTheTail'
    BY <1>5 DEF Holds, BufferIsTheTail
  <1>8. PacketsPartitionTheStream'
    BY <1>1 DEF PacketsPartitionTheStream
  <1> QED BY <1>6, <1>7, <1>8 DEF IInv

LEMMA InvariantStep ==
  ASSUME IInv, [Next]_vars
  PROVE  IInv'
  <1>1. ASSUME NEW chunk \in Chunks, Receive(chunk) \/ ReceiveLate(chunk)
        PROVE  IInv'
    BY <1>1, ReceiveStep, ReceiveLateStep
  <1>2. CASE HeaderMissing
    BY <1>2, HeaderMissingStep
  <1>3. CASE FixedStep \/ FooterStep \/ SweepStep
    BY <1>3, FixedProgress, FooterProgress, SweepProgress DEF Progress
  <1>4. CASE Return
    BY <1>4 DEF Return, IInv, TypeOK, BufferIsTheTail, PacketsPartitionTheStream
  <1>5. CASE UNCHANGED vars
    BY <1>5 DEF vars, IInv, TypeOK, BufferIsTheTail, PacketsPartitionTheStream
  <1> QED BY <1>1, <1>2, <1>3, <1>4, <1>5 DEF Next

(***************************************************************************)
(* The strengthening the other theorems rest on: the types, the end of the *)
(* stream in the buffer and the pieces of it that were returned.           *)
(***************************************************************************)
THEOREM ParserInvariant == Spec => []IInv
  <1>1. Init => IInv
    BY InvariantInit
  <1>2. IInv /\ [Next]_vars => IInv'
    BY InvariantStep
  <1> QED BY <1>1, <1>2, PTL DEF Spec

\* The offsets of the buffer stay in it and in order.
THEOREM ParserTypes == Spec => []TypeOK
  <1>1. IInv => TypeOK
    BY DEF IInv
  <1> QED BY <1>1, ParserInvariant, PTL

(***************************************************************************)
(* The buffer that is reused without being cleared shows the end of the    *)
(* stream and nothing else, for every size of it and every chunk, those    *)
(* that are longer than the buffer included.                               *)
(***************************************************************************)
THEOREM TheBufferIsTheTail == Spec => []BufferIsTheTail
  <1>1. IInv => BufferIsTheTail
    BY DEF IInv
  <1> QED BY <1>1, ParserInvariant, PTL

(***************************************************************************)
(* The packets are disjoint pieces of the stream in its order, whichever   *)
(* strategy found them and whatever was dropped before or between them.    *)
(***************************************************************************)
THEOREM PacketsArePieces == Spec => []PacketsPartitionTheStream
  <1>1. IInv => PacketsPartitionTheStream
    BY DEF IInv
  <1> QED BY <1>1, ParserInvariant, PTL

(***************************************************************************)
(* The loop of parseChunk ends without its bound on the iterations: each   *)
(* takes bytes from the buffer or is the last, in every strategy.          *)
(***************************************************************************)
THEOREM TheLoopEnds == Spec => EachIterationConsumes
  <1>1. ASSUME IInv, [Next]_vars
        PROVE  [parsing /\ parsing' => BufferLength(buffer') < BufferLength(buffer)]_vars
    <2>1. ASSUME NEW chunk \in Chunks, Receive(chunk) \/ ReceiveLate(chunk)
          PROVE  ~parsing
      BY <2>1 DEF Receive, ReceiveLate
    <2>2. CASE HeaderMissing \/ Return
      BY <2>2 DEF HeaderMissing, Return
    <2>3. CASE FixedStep \/ FooterStep \/ SweepStep
      BY <1>1, <2>3, FixedProgress, FooterProgress, SweepProgress DEF Progress
    <2>4. CASE UNCHANGED vars
      BY <2>4
    <2> QED BY <1>1, <2>1, <2>2, <2>3, <2>4 DEF Next
  <1> QED BY <1>1, ParserInvariant, PTL DEF Spec, EachIterationConsumes
-----------------------------------------------------------------------------
(* The frames.                                                             *)

\* What is kept up to date is what is documented, but for crc8.
LEMMA RunningIsCalculated ==
  ASSUME NEW kind \in (OneByteKinds \cup TwoByteKinds) \ {"crc8"}, NEW s
  PROVE  Running(kind, s) = Calculated(kind, s)
  <1>1. CASE kind \in {"add", "add_no_header", "bestin_sum", "xor_add"}
    BY <1>1 DEF Running
  <1>2. CASE kind \in {"xor", "xor_no_header"}
    BY <1>2 DEF Running, Calculated
  <1>3. CASE kind = "xor_final"
    BY <1>3 DEF Running, Calculated
  <1>4. CASE kind = "samsung_rx"
    BY <1>4 DEF Running, Calculated
  <1>5. CASE kind = "samsung_tx"
    BY <1>5 DEF Running, Calculated
  <1>6. CASE kind = "samsung_xor"
    BY <1>6 DEF Running, Calculated
  <1> QED BY <1>1, <1>2, <1>3, <1>4, <1>5, <1>6 DEF OneByteKinds, TwoByteKinds

LEMMA RunningVerifies ==
  ASSUME config.checksum \in (OneByteKinds \cup TwoByteKinds) \ {"crc8"},
         NEW frame, NEW skips \in BOOLEAN, RunningOk(frame, skips),
         (IF skips THEN HeaderLen ELSE 0) = (IF CoversHeader(config.checksum) THEN 0 ELSE HeaderLen),
         ChecksumLength(config.checksum) = 1
           \/ Len(frame) - ChecksumLength(config.checksum) - FooterLen >= HeaderLen
  PROVE  Verify(config.checksum, frame, Len(config.header), Len(config.footer))
  <1> DEFINE n == ChecksumLength(config.checksum)
             covered == Covered(frame, n, FooterLen, IF CoversHeader(config.checksum) THEN 0 ELSE HeaderLen)
  <1>1. Trailer(frame, n, FooterLen) = Running(config.checksum, covered)
    BY DEF RunningOk
  <1>2. Running(config.checksum, covered) = Calculated(config.checksum, covered)
    BY RunningIsCalculated
  <1> QED BY <1>1, <1>2 DEF Verify, HeaderLen, FooterLen

\* A pattern that occurs in the buffer is what a slice has at that place.
LEMMA PieceIsPattern ==
  ASSUME NEW f \in Seq(Byte), NEW pattern \in Seq(Byte), NEW at \in Nat,
         at + Len(pattern) <= Len(f),
         \A k \in 1..Len(pattern) : f[at + k] = pattern[k]
  PROVE  SubSeq(f, at + 1, at + Len(pattern)) = pattern
  <1> DEFINE l == Len(pattern)
             g == SubSeq(f, at + 1, at + l)
  <1>1. l \in Nat /\ at + l <= Len(f)
    BY LenProperties
  <1>2. \A k \in 1..l : f[at + k] = pattern[k]
    OBVIOUS
  <1> HIDE DEF l
  <1>3. g \in Seq(Byte) /\ Len(g) = l /\ \A i \in 1..l : g[i] = f[at + i]
    BY <1>1, PieceFacts
  <1> HIDE DEF g
  <1>4. \A i \in 1..l : g[i] = pattern[i]
    BY <1>2, <1>3, Zenon
  <1>5. g = pattern
    BY <1>3, <1>4, SeqEqual DEF l
  <1> QED BY <1>5 DEF g, l

LEMMA FrameOf ==
  ASSUME IInv, NEW b, Holds(b, stream), NEW from \in Nat, NEW n \in Nat \ {0},
         b.read <= from, from + n <= b.write,
         n >= Shortest(config), n >= Len(config.header), LengthAllowed(config, n),
         \A k \in 1..Len(config.header) : b.bytes[from + k - 1] = config.header[k],
         config.valid # {} => b.bytes[from] \in config.valid,
         Strategy(config) = "fixed" => n = config.length,
         Strategy(config) = "footer" =>
            n >= Len(config.footer) /\ Occurs(b, config.footer, from + n - FooterLen),
         Strategy(config) = "sweep" => ChecksumLength(config.checksum) > 0,
         Verify(config.checksum, Slice(b, from, n), Len(config.header), Len(config.footer))
  PROVE  IsFrame(config, Slice(b, from, n))
  <1> DEFINE f == Slice(b, from, n)
             lh == Len(config.header)
             lf == Len(config.footer)
  <1>1. f \in Seq(Byte) /\ Len(f) = n
    <2>1. stream \in Seq(Byte)
      BY BufferFacts
    <2> QED BY <2>1, SliceIsPiece
  <1>2. \A i \in 1..n : f[i] = b.bytes[from + i - 1]
    BY DEF Slice
  <1>3. /\ config.header \in Seq(Byte) /\ config.footer \in Seq(Byte)
        /\ lh \in Nat /\ lf \in Nat
    BY ConfigFacts, LenProperties
  <1>4. StartsWith(f, config.header)
    <2>1. \A k \in 1..lh : k \in 1..n
      <3>1. n >= lh
        OBVIOUS
      <3> HIDE DEF lh
      <3> QED BY <1>3, <3>1
    <2>2. \A k \in 1..lh : f[0 + k] = config.header[k]
      <3>1. \A k \in 1..lh : f[k] = config.header[k]
        BY <1>2, <2>1
      <3> HIDE DEF f, lh
      <3> QED BY <1>3, <3>1
    <2>3. 0 + lh <= Len(f) /\ Len(f) >= lh
      <3>1. n >= lh
        OBVIOUS
      <3> HIDE DEF lh, f
      <3> QED BY <1>1, <1>3, <3>1
    <2> HIDE DEF f
    <2>4. SubSeq(f, 0 + 1, 0 + lh) = config.header
      BY <1>1, <1>3, <2>2, <2>3, PieceIsPattern
    <2>5. 0 + 1 = 1 /\ 0 + lh = lh
      BY <1>3
    <2> QED BY <2>3, <2>4, <2>5 DEF StartsWith
  <1>5. config.valid # {} => f[1] \in config.valid
    <2>1. 1 \in 1..n /\ from + 1 - 1 = from
      OBVIOUS
    <2>2. f[1] = b.bytes[from]
      BY <1>2, <2>1
    <2> QED BY <2>2
  <1>6. ASSUME Strategy(config) = "footer"
        PROVE  EndsWith(f, config.footer)
    <2> DEFINE at == n - lf
    <2>1. n >= lf /\ Occurs(b, config.footer, from + n - lf)
      BY <1>6 DEF FooterLen
    <2>2. \A k \in 1..lf : b.bytes[from + n - lf + k - 1] = config.footer[k]
      BY <2>1 DEF Occurs
    <2> HIDE DEF lf, f
    <2>3. at \in Nat /\ at + lf = n
      BY <1>3, <2>1
    <2>4. \A k \in 1..lf : at + k \in 1..n /\ from + (at + k) - 1 = from + n - lf + k - 1
      BY <1>3, <2>3
    <2>5. \A k \in 1..lf : f[at + k] = config.footer[k]
      <3> SUFFICES ASSUME NEW k \in 1..lf
                   PROVE  f[at + k] = config.footer[k]
        OBVIOUS
      <3> DEFINE i == at + k
      <3>1. i \in 1..n /\ from + i - 1 = from + n - lf + k - 1
        BY <2>4
      <3> HIDE DEF i, at
      <3>2. f[i] = b.bytes[from + i - 1]
        BY <1>2, <3>1
      <3>3. f[i] = config.footer[k]
        BY <2>2, <3>1, <3>2
      <3> QED BY <3>3 DEF i
    <2>6. Len(f) - lf + 1 = at + 1 /\ Len(f) = at + lf /\ Len(f) >= lf /\ at + lf <= Len(f)
      BY <1>1, <1>3, <2>1, <2>3
    <2> HIDE DEF at
    <2>7. SubSeq(f, at + 1, at + lf) = config.footer
      BY <1>1, <1>3, <2>3, <2>5, <2>6, PieceIsPattern DEF lf
    <2> QED BY <2>6, <2>7 DEF EndsWith, lf
  <1> HIDE DEF f, lh, lf
  <1>7. Begins(config, f)
    BY <1>4, <1>5 DEF Begins
  <1>8. Verify(config.checksum, f, Len(config.header), Len(config.footer))
    BY DEF f
  <1> QED BY <1>1, <1>6, <1>7, <1>8 DEF IsFrame, f

LEMMA EmitFrame ==
  ASSUME IInv, PacketsAreFrames, NEW b, NEW from, NEW n, Emit(b, from, n), UNCHANGED config,
         IsFrame(config, Slice(b, from, n))
  PROVE  PacketsAreFrames'
  <1> DEFINE new == [at |-> b.base + from, bytes |-> Slice(b, from, n)]
             m == Len(packets)
  <1>1. m \in Nat /\ packets \in Seq([at : Nat, bytes : Seq(Byte)])
    BY BufferFacts, LenProperties
  <1>2. packets' = Append(packets, new) /\ new.bytes = Slice(b, from, n)
    BY DEF Emit
  <1> HIDE DEF new
  <1>3. /\ Len(packets') = m + 1 /\ packets'[m + 1] = new
        /\ \A i \in 1..m : packets'[i] = packets[i]
    BY <1>1, <1>2
  <1>4. \A i \in 1..m + 1 : i \in 1..m \/ i = m + 1
    BY <1>1
  <1>5. \A i \in 1..m : IsFrame(config, packets[i].bytes)
    BY DEF PacketsAreFrames
  <1> HIDE DEF m
  <1>6. \A i \in 1..m + 1 : IsFrame(config, packets'[i].bytes)
    BY <1>2, <1>3, <1>4, <1>5, Zenon
  <1>7. config' = config
    OBVIOUS
  <1> QED BY <1>3, <1>6, <1>7, Zenon DEF PacketsAreFrames

LEMMA AlignedHeader ==
  ASSUME IInv, BufferLength(buffer) > 0, HeaderIndex(buffer) # -1
  PROVE  /\ \A k \in 1..Len(config.header) :
               Aligned.bytes[Aligned.read + k - 1] = config.header[k]
         /\ Holds(Aligned, stream)
  <1>1. Aligned.read = HeaderIndex(buffer) /\ Aligned.bytes = buffer.bytes /\ Keeps(buffer, Aligned)
    BY AlignedFacts
  <1>2. config.header = <<>> \/ Occurs(buffer, config.header, HeaderIndex(buffer))
    BY BufferFacts, ConfigFacts, HeaderIndexFacts
  <1>3. Holds(Aligned, stream)
    BY <1>1, BufferFacts, KeepsHolds
  <1>4. CASE config.header = <<>>
    <2>1. 1..Len(config.header) = {}
      BY <1>4, EmptySeq
    <2> QED BY <1>3, <2>1
  <1>5. CASE Occurs(buffer, config.header, HeaderIndex(buffer))
    <2>1. \A k \in 1..Len(config.header) :
             buffer.bytes[HeaderIndex(buffer) + k - 1] = config.header[k]
      BY <1>5 DEF Occurs
    <2> QED BY <1>1, <1>3, <2>1
  <1> QED BY <1>2, <1>4, <1>5

LEMMA LengthFacts ==
  ASSUME IInv
  PROVE  /\ HeaderLen \in Nat /\ FooterLen \in Nat /\ ChecksumLength(config.checksum) \in 0..2
         /\ ChecksumLength(config.checksum) = 0 <=> config.checksum = "none"
         /\ ChecksumLength(config.checksum) # 0 => config.checksum \in OneByteKinds \cup TwoByteKinds
  <1>1. config.checksum \in OneByteKinds \cup TwoByteKinds \cup {"none"}
    BY ConfigFacts, ConfigsAssumption
  <1>2. HeaderLen \in Nat /\ FooterLen \in Nat
    BY ConfigFacts, LenProperties DEF HeaderLen, FooterLen
  <1>3. "none" \notin OneByteKinds \cup TwoByteKinds
    BY DEF OneByteKinds, TwoByteKinds
  <1> QED BY <1>1, <1>2, <1>3 DEF ChecksumLength

LEMMA IncrementalVerifies ==
  ASSUME IInv, Verifiable(config), Strategy(config) # "fixed",
         NEW frame, Len(frame) \in Nat, Len(frame) >= Shortest(config), IncrementalOk(frame)
  PROVE  Verify(config.checksum, frame, Len(config.header), Len(config.footer))
  <1> DEFINE n == ChecksumLength(config.checksum)
  <1>1. CASE config.checksum = "none"
    BY <1>1 DEF IncrementalOk, VerifyChecksum, HeaderLen, FooterLen
  <1>2. CASE config.checksum # "none"
    <2>1. RunningOk(frame, ~CoversHeader(config.checksum))
      BY <1>2 DEF IncrementalOk
    <2>2. config.length \in Nat /\ ~(config.length > 0)
      BY ConfigFacts, StrategyFacts
    <2>3. config.checksum \in (OneByteKinds \cup TwoByteKinds) \ {"crc8"}
      BY <1>2, <2>2, LengthFacts DEF Verifiable
    <2>4. Len(frame) - n - FooterLen >= HeaderLen
      <3>1. Shortest(config) >= HeaderLen + n + FooterLen
        <4>1. HeaderLen \in Nat /\ FooterLen \in Nat /\ n \in Nat
          BY LengthFacts
        <4>2. CASE Strategy(config) = "footer"
          <5>1. Shortest(config) = HeaderLen + 1 + n + FooterLen
            BY <4>2, ShortestFacts DEF HeaderLen, FooterLen
          <5> HIDE DEF n
          <5> QED BY <4>1, <5>1
        <4>3. CASE Strategy(config) = "sweep"
          <5>1. Shortest(config) = HeaderLen + n
            BY <4>3, ShortestFacts DEF HeaderLen
          <5>2. FooterLen = 0
            BY <4>3, <2>2, StrategyFacts, EmptySeq DEF FooterLen
          <5> HIDE DEF n
          <5> QED BY <4>1, <5>1, <5>2
        <4> QED BY <2>2, <4>2, <4>3, StrategyFacts
      <3>2. HeaderLen \in Nat /\ FooterLen \in Nat /\ n \in Nat /\ Shortest(config) \in Nat
        BY LengthFacts, ShortestFacts
      <3> HIDE DEF n
      <3> QED BY <3>1, <3>2
    <2> DEFINE skips == ~CoversHeader(config.checksum)
    <2>5. skips \in BOOLEAN /\ RunningOk(frame, skips)
      BY <2>1
    <2>6. (IF skips THEN HeaderLen ELSE 0) = (IF CoversHeader(config.checksum) THEN 0 ELSE HeaderLen)
      OBVIOUS
    <2> HIDE DEF skips
    <2> QED BY <2>3, <2>4, <2>5, <2>6, RunningVerifies
  <1> QED BY <1>1, <1>2

LEMMA WindowVerifies ==
  ASSUME IInv, Verifiable(config), config.length > 0,
         NEW frame, Len(frame) = config.length, WindowOk(frame)
  PROVE  Verify(config.checksum, frame, Len(config.header), Len(config.footer))
  <1> DEFINE n == ChecksumLength(config.checksum)
  <1>1. CASE VerifyChecksum(frame)
    BY <1>1 DEF VerifyChecksum, HeaderLen, FooterLen
  <1>2. CASE ~VerifyChecksum(frame)
    <2> DEFINE skips == ~CoversHeader(config.checksum) \/ config.checksum = "samsung_xor"
    <2>1. /\ RunningOk(frame, skips)
          /\ config.checksum # "none" /\ ~(Cardinality(config.valid) \in 1..SparseLimit - 1)
      BY <1>2 DEF WindowOk
    <2>2. /\ config.checksum \in (OneByteKinds \cup TwoByteKinds) \ {"crc8"}
          /\ config.header = <<>>
      BY <2>1, LengthFacts DEF Verifiable
    <2>3. HeaderLen = 0
      BY <2>2, EmptySeq DEF HeaderLen
    <2>4. Len(frame) - n - FooterLen >= HeaderLen
      <3>1. config.length >= HeaderLen + n + FooterLen
        BY DEF Verifiable, HeaderLen, FooterLen
      <3>2. HeaderLen \in Nat /\ FooterLen \in Nat /\ n \in Nat /\ config.length \in Nat
        BY LengthFacts, ConfigFacts
      <3> HIDE DEF n
      <3> QED BY <3>1, <3>2
    <2>5. skips \in BOOLEAN /\ RunningOk(frame, skips)
      BY <2>1
    <2>6. (IF skips THEN HeaderLen ELSE 0) = (IF CoversHeader(config.checksum) THEN 0 ELSE HeaderLen)
      BY <2>3
    <2> HIDE DEF skips
    <2> QED BY <2>2, <2>4, <2>5, <2>6, RunningVerifies
  <1> QED BY <1>1, <1>2

LEMMA FixedFrames ==
  ASSUME IInv, PacketsAreFrames, Verifiable(config), FixedStep
  PROVE  PacketsAreFrames'
  <1> DEFINE b == Aligned
             len == config.length
             windows == b.read .. b.write - len
             hits == {i \in windows : ValidHeader(b, i) /\ WindowOk(Slice(b, i, len))}
             h == Least(hits)
  <1>1. /\ Fits(b) /\ Holds(b, stream)
        /\ \A k \in 1..Len(config.header) : b.bytes[b.read + k - 1] = config.header[k]
    BY AlignedFacts, AlignedHeader DEF FixedStep, Iterates
  <1>2. len \in Nat /\ len > 0 /\ Strategy(config) = "fixed"
    <2>1. len \in Nat /\ Strategy(config) = "fixed"
      BY ConfigFacts DEF FixedStep, Iterates
    <2> QED BY <2>1, StrategyFacts
  <1>3. \/ packets' = packets
        \/ BufferLength(b) >= len /\ hits # {} /\ Emit(b, h, len)
    BY DEF FixedStep, Wait
  <1>4. config' = config
    BY DEF FixedStep
  <1>5. CASE packets' = packets
    BY <1>4, <1>5 DEF PacketsAreFrames
  <1> HIDE DEF b, len
  <1>6. CASE BufferLength(b) >= len /\ hits # {} /\ Emit(b, h, len)
    <2>1. b.read \in Nat /\ b.write \in Nat /\ BufferLength(b) = b.write - b.read
      BY <1>1 DEF Fits, Buffers, BufferLength
    <2>2. /\ hits \in SUBSET Nat
          /\ \A i \in hits : /\ b.read <= i /\ i + len <= b.write
                             /\ ValidHeader(b, i) /\ WindowOk(Slice(b, i, len))
      BY <1>2, <2>1
    <2>3. config.header # <<>> => b.read \in hits
      <3> SUFFICES ASSUME config.header # <<>>
                   PROVE  b.read \in hits
        OBVIOUS
      <3>1. config.checksum = "none" /\ config.valid = {}
        BY <1>2 DEF Verifiable, len
      <3>2. ValidHeader(b, b.read)
        BY <3>1 DEF ValidHeader
      <3>3. Len(Slice(b, b.read, len)) = len
        <4>1. b.read + len <= b.write /\ b.read <= b.read
          BY <1>2, <1>6, <2>1
        <4>2. stream \in Seq(Byte)
          BY BufferFacts
        <4> QED BY <1>1, <1>2, <2>1, <4>1, <4>2, SliceIsPiece
      <3>4. VerifyChecksum(Slice(b, b.read, len))
        <4>1. LengthAllowed(config, len)
          BY <1>2, ConfigFacts DEF len
        <4>2. ChecksumLength(config.checksum) = 0
          BY <3>1, LengthFacts
        <4> QED BY <3>3, <4>1, <4>2 DEF VerifyChecksum, Verify
      <3>5. WindowOk(Slice(b, b.read, len))
        BY <3>1, <3>4 DEF WindowOk
      <3>6. b.read \in windows
        BY <1>2, <1>6, <2>1
      <3> QED BY <3>2, <3>5, <3>6
    <2> HIDE DEF hits
    <2>4. h \in hits /\ \A i \in hits : h <= i
      BY <1>6, <2>2, LeastOf
    <2>5. h \in Nat /\ b.read <= h /\ h + len <= b.write
      BY <2>2, <2>4, Zenon
    <2>6. ValidHeader(b, h) /\ WindowOk(Slice(b, h, len))
      BY <2>2, <2>4, Zenon
    <2>7. config.header # <<>> => h = b.read
      <3>1. config.header # <<>> => h <= b.read
        BY <2>3, <2>4, Zenon
      <3> HIDE DEF h
      <3> QED BY <2>1, <2>5, <3>1
    <2> HIDE DEF h
    <2>8. \A k \in 1..Len(config.header) : b.bytes[h + k - 1] = config.header[k]
      <3>1. CASE config.header = <<>>
        <4>1. 1..Len(config.header) = {}
          BY <3>1, EmptySeq
        <4> QED BY <4>1
      <3>2. CASE config.header # <<>>
        BY <1>1, <2>7, <3>2
      <3> QED BY <3>1, <3>2
    <2>9. Len(Slice(b, h, len)) = len
      <3>1. stream \in Seq(Byte)
        BY BufferFacts
      <3> QED BY <1>1, <1>2, <2>5, <3>1, SliceIsPiece
    <2>10. Verify(config.checksum, Slice(b, h, len), Len(config.header), Len(config.footer))
      BY <1>2, <2>6, <2>9, WindowVerifies DEF len
    <2>11. len >= Shortest(config) /\ len >= Len(config.header) /\ LengthAllowed(config, len)
      <3>1. Shortest(config) = len
        BY <1>2, ShortestFacts DEF len
      <3>2. LengthAllowed(config, len)
        BY <1>2, ConfigFacts DEF len
      <3>3. len >= HeaderLen + ChecksumLength(config.checksum) + FooterLen
        BY <1>2 DEF Verifiable, HeaderLen, FooterLen, len
      <3>4. len >= HeaderLen
        BY <1>2, <3>3, LengthFacts
      <3> QED BY <1>2, <3>1, <3>2, <3>4 DEF HeaderLen
    <2>12. config.valid # {} => b.bytes[h] \in config.valid
      BY <2>6 DEF ValidHeader
    <2>13. len \in Nat \ {0}
      BY <1>2
    <2>14. Strategy(config) = "fixed" => len = config.length
      BY DEF len
    <2>15. IsFrame(config, Slice(b, h, len))
      BY <1>1, <1>2, <2>5, <2>8, <2>10, <2>11, <2>12, <2>13, <2>14, FrameOf
    <2> QED BY <1>4, <1>6, <2>15, EmitFrame
  <1> QED BY <1>3, <1>5, <1>6

LEMMA FooterFrames ==
  ASSUME IInv, PacketsAreFrames, Verifiable(config), FooterStep
  PROVE  PacketsAreFrames'
  <1> DEFINE b == Aligned
             min == Shortest(config)
             lengths == {n \in min..BufferLength(b) :
                           Occurs(b, config.footer, b.read + n - FooterLen)}
             decisive == {n \in lengths :
                            LengthAllowed(config, n) => IncrementalOk(Slice(b, b.read, n))}
             least == Least(decisive)
  <1>1. /\ Fits(b) /\ Holds(b, stream)
        /\ \A k \in 1..Len(config.header) : b.bytes[b.read + k - 1] = config.header[k]
    BY AlignedFacts, AlignedHeader DEF FooterStep, Iterates
  <1>2. Strategy(config) = "footer" /\ config' = config
    BY DEF FooterStep, Iterates
  <1>3. \/ packets' = packets
        \/ /\ ValidHeader(b, b.read) /\ decisive # {} /\ LengthAllowed(config, least)
           /\ Emit(b, b.read, least)
    BY Zenon DEF FooterStep, NoMatch, GoOn, Wait
  <1> HIDE DEF b, min
  <1>4. min \in Nat /\ min >= HeaderLen + 1 + FooterLen
    <2>1. min = HeaderLen + 1 + ChecksumLength(config.checksum) + FooterLen
      BY <1>2, ShortestFacts DEF min, HeaderLen, FooterLen
    <2>2. HeaderLen \in Nat /\ FooterLen \in Nat /\ ChecksumLength(config.checksum) \in 0..2
      BY LengthFacts
    <2> QED BY <2>1, <2>2
  <1>5. CASE packets' = packets
    BY <1>2, <1>5 DEF PacketsAreFrames
  <1>6. CASE /\ ValidHeader(b, b.read) /\ decisive # {} /\ LengthAllowed(config, least)
             /\ Emit(b, b.read, least)
    <2>1. b.read \in Nat /\ b.write \in Nat /\ BufferLength(b) = b.write - b.read
      BY <1>1 DEF Fits, Buffers, BufferLength
    <2>2. decisive \in SUBSET Nat
      BY <1>4, <2>1
    <2>3. \A n \in decisive : n >= min /\ b.read + n <= b.write
      BY <1>4, <2>1
    <2>4. \A n \in decisive : /\ Occurs(b, config.footer, b.read + n - FooterLen)
                              /\ LengthAllowed(config, n) => IncrementalOk(Slice(b, b.read, n))
      OBVIOUS
    <2> HIDE DEF decisive
    <2>5. least \in decisive
      BY <1>6, <2>2, LeastOf
    <2>6. least \in Nat /\ least >= min /\ b.read + least <= b.write
      BY <2>2, <2>3, <2>5, Zenon
    <2>7. /\ Occurs(b, config.footer, b.read + least - FooterLen)
          /\ IncrementalOk(Slice(b, b.read, least)) /\ LengthAllowed(config, least)
      BY <1>6, <2>4, <2>5, Zenon
    <2> HIDE DEF least
    <2>8. /\ least \in Nat \ {0} /\ b.read <= b.read
          /\ least >= HeaderLen /\ least >= FooterLen
      BY <1>4, <2>1, <2>6, LengthFacts
    <2>9. Len(Slice(b, b.read, least)) = least
      <3>1. stream \in Seq(Byte)
        BY BufferFacts
      <3> QED BY <1>1, <2>1, <2>6, <2>8, <3>1, SliceIsPiece
    <2>10. Verify(config.checksum, Slice(b, b.read, least), Len(config.header), Len(config.footer))
      BY <1>2, <2>6, <2>7, <2>9, IncrementalVerifies DEF min
    <2>11. config.valid # {} => b.bytes[b.read] \in config.valid
      BY <1>6 DEF ValidHeader
    <2>12. /\ least >= Shortest(config) /\ least >= Len(config.header)
           /\ least >= Len(config.footer)
      BY <2>6, <2>8 DEF min, HeaderLen, FooterLen
    <2>13. IsFrame(config, Slice(b, b.read, least))
      BY <1>1, <1>2, <2>1, <2>6, <2>7, <2>8, <2>10, <2>11, <2>12, FrameOf
    <2> QED BY <1>2, <1>6, <2>13, EmitFrame
  <1> QED BY <1>3, <1>5, <1>6

LEMMA SweepFrames ==
  ASSUME IInv, PacketsAreFrames, Verifiable(config), SweepStep
  PROVE  PacketsAreFrames'
  <1> DEFINE b == Aligned
             min == Shortest(config)
             next == b.scanned + 1
             S == {min, next, config.min}
             first == CHOOSE x \in S : \A y \in S : x >= y
             limit == IF config.max > 0 /\ config.max < BufferLength(b) THEN config.max ELSE BufferLength(b)
             hits == {k \in first..limit : IncrementalOk(Slice(b, b.read, k))}
             Found(k) == Emit([b EXCEPT !.scanned = 0], b.read, k)
             least == Least(hits)
             n == DynamicLength(b)
  <1>1. /\ Fits(b) /\ Holds(b, stream)
        /\ \A k \in 1..Len(config.header) : b.bytes[b.read + k - 1] = config.header[k]
    BY AlignedFacts, AlignedHeader DEF SweepStep, Iterates
  <1>2. Strategy(config) = "sweep" /\ config' = config
    BY DEF SweepStep, Iterates
  <1>3. \/ packets' = packets
        \/ /\ ChecksumLength(config.checksum) # 0 /\ ValidHeader(b, b.read)
           /\ \/ /\ n # 0 /\ LengthAllowed(config, n) /\ VerifyChecksum(Slice(b, b.read, n))
                 /\ Found(n)
              \/ hits # {} /\ Found(least)
    BY DEF SweepStep, NoMatch, GoOn, Wait
  <1>4. CASE packets' = packets
    BY <1>2, <1>4 DEF PacketsAreFrames
  <1> HIDE DEF b, min, next
  <1>5. /\ b.read \in Nat /\ b.write \in Nat /\ BufferLength(b) = b.write - b.read
        /\ b.scanned \in Nat
    BY <1>1 DEF Fits, Buffers, BufferLength
  <1>6. min \in Nat /\ min >= HeaderLen /\ config.min \in Nat /\ config.max \in Nat
    <2>1. min = HeaderLen + ChecksumLength(config.checksum)
      BY <1>2, ShortestFacts DEF min, HeaderLen
    <2>2. HeaderLen \in Nat /\ ChecksumLength(config.checksum) \in 0..2
      BY LengthFacts
    <2> QED BY <2>1, <2>2, ConfigFacts
  <1>7. ASSUME ChecksumLength(config.checksum) # 0, ValidHeader(b, b.read),
               NEW k \in Nat \ {0}, k >= min, k <= BufferLength(b), LengthAllowed(config, k),
               Len(Slice(b, b.read, k)) = k =>
                  Verify(config.checksum, Slice(b, b.read, k), Len(config.header), Len(config.footer)),
               Found(k)
        PROVE  PacketsAreFrames'
    <2>1. b.read <= b.read /\ b.read + k <= b.write
      BY <1>5, <1>7
    <2>2. Len(Slice(b, b.read, k)) = k
      <3>1. stream \in Seq(Byte)
        BY BufferFacts
      <3> QED BY <1>1, <1>5, <2>1, <3>1, SliceIsPiece
    <2>3. config.valid # {} => b.bytes[b.read] \in config.valid
      BY <1>7 DEF ValidHeader
    <2>4. k >= Shortest(config) /\ k >= Len(config.header)
      <3>1. k >= HeaderLen
        BY <1>6, <1>7, LengthFacts
      <3> QED BY <1>7, <3>1 DEF min, HeaderLen
    <2>5. ChecksumLength(config.checksum) > 0
      BY <1>7, LengthFacts
    <2>6. IsFrame(config, Slice(b, b.read, k))
      BY <1>1, <1>2, <1>5, <1>7, <2>1, <2>2, <2>3, <2>4, <2>5, FrameOf
    <2> DEFINE c == [b EXCEPT !.scanned = 0]
    <2>7. c.bytes = b.bytes
      BY <1>1, ScannedKeeps
    <2>8. Emit(c, b.read, k)
      BY <1>7
    <2> HIDE DEF c
    <2>9. Slice(c, b.read, k) = Slice(b, b.read, k)
      BY <2>7 DEF Slice
    <2> QED BY <1>2, <2>6, <2>8, <2>9, EmitFrame
  <1>8. CASE /\ ChecksumLength(config.checksum) # 0 /\ ValidHeader(b, b.read)
             /\ n # 0 /\ LengthAllowed(config, n) /\ VerifyChecksum(Slice(b, b.read, n))
             /\ Found(n)
    <2>1. n \in Nat \ {0} /\ n <= BufferLength(b)
      BY <1>1, <1>8, DynamicLengthFacts
    <2>2. config.expr
      BY <1>8 DEF DynamicLength
    <2>3. n >= min
      <3>1. n >= config.min
        BY <1>8 DEF LengthAllowed
      <3>2. config.min >= min
        BY <2>2 DEF Verifiable, min
      <3> HIDE DEF n
      <3> QED BY <1>6, <2>1, <3>1, <3>2
    <2>4. Verify(config.checksum, Slice(b, b.read, n), Len(config.header), Len(config.footer))
      BY <1>8 DEF VerifyChecksum, HeaderLen, FooterLen
    <2> HIDE DEF n
    <2> QED BY <1>7, <1>8, <2>1, <2>3, <2>4
  <1>9. CASE /\ ChecksumLength(config.checksum) # 0 /\ ValidHeader(b, b.read)
             /\ hits # {} /\ Found(least)
    <2>1. first \in Nat /\ first >= 1 /\ first >= min /\ first >= config.min
      <3>1. next \in Nat /\ next >= 1
        BY <1>5 DEF next
      <3>2. min \in Nat /\ config.min \in Nat
        BY <1>6
      <3>3. first \in S /\ first >= next /\ first >= min /\ first >= config.min
        BY <3>1, <3>2, GreatestOfThree
      <3> HIDE DEF first
      <3> QED BY <3>1, <3>2, <3>3
    <2>2. /\ limit \in Nat /\ limit <= BufferLength(b)
          /\ config.max > 0 => limit <= config.max
      <3>1. BufferLength(b) \in Nat
        BY <1>1, <1>5 DEF Fits
      <3> QED BY <1>6, <3>1
    <2> HIDE DEF first, limit
    <2>3. hits \in SUBSET Nat
      BY <2>1, <2>2
    <2>4. \A k \in hits : first <= k /\ k <= limit
      BY <2>1, <2>2
    <2>5. \A k \in hits : IncrementalOk(Slice(b, b.read, k))
      OBVIOUS
    <2> HIDE DEF hits
    <2>6. least \in hits
      BY <1>9, <2>3, LeastOf
    <2>7. /\ least \in Nat /\ first <= least /\ least <= limit
          /\ IncrementalOk(Slice(b, b.read, least))
      BY <2>3, <2>4, <2>5, <2>6, Zenon
    <2> HIDE DEF least
    <2>8. BufferLength(b) \in Int
      BY <1>5
    <2>9. least \in Nat \ {0} /\ least >= min /\ least <= BufferLength(b) /\ least >= config.min
          /\ (config.max > 0 => least <= config.max)
      BY <1>6, <2>1, <2>2, <2>7, <2>8
    <2>10. LengthAllowed(config, least)
      BY <2>9 DEF LengthAllowed
    <2>11. Len(Slice(b, b.read, least)) = least =>
              Verify(config.checksum, Slice(b, b.read, least), Len(config.header), Len(config.footer))
      <3>1. Strategy(config) # "fixed"
        BY <1>2
      <3> QED BY <2>7, <2>9, <3>1, IncrementalVerifies DEF min
    <2> QED BY <1>7, <1>9, <2>9, <2>10, <2>11
  <1> QED BY <1>3, <1>4, <1>8, <1>9

LEMMA FrameStep ==
  ASSUME IInv, PacketsAreFrames, Verifiable(config), [Next]_vars
  PROVE  PacketsAreFrames'
  <1>1. ASSUME NEW chunk \in Chunks, Receive(chunk)
        PROVE  PacketsAreFrames'
    BY <1>1 DEF Receive, PacketsAreFrames
  <1>2. ASSUME NEW chunk \in Chunks, ReceiveLate(chunk)
        PROVE  PacketsAreFrames'
    <2>1. packets' = <<>>
      BY <1>2 DEF ReceiveLate
    <2>2. 1..Len(packets') = {}
      BY <2>1, EmptySeq
    <2> QED BY <2>2 DEF PacketsAreFrames
  <1>3. CASE HeaderMissing \/ Return
    BY <1>3 DEF HeaderMissing, Return, PacketsAreFrames
  <1>4. CASE FixedStep \/ FooterStep \/ SweepStep
    BY <1>4, FixedFrames, FooterFrames, SweepFrames
  <1>5. CASE UNCHANGED vars
    BY <1>5 DEF vars, PacketsAreFrames
  <1> QED BY <1>1, <1>2, <1>3, <1>4, <1>5 DEF Next

(***************************************************************************)
(* Whatever bytes arrive and are dropped, only frames are returned: for    *)
(* configurations whose loops compare the documented checksum, every       *)
(* incremental comparison is the one verifyChecksum makes of the frame,    *)
(* and what precedes it in the loop leaves no frame without its header,    *)
(* footer or an allowed length.                                            *)
(***************************************************************************)
THEOREM PacketsAreWhatIsDocumented ==
  ASSUME \A c \in Configs : Verifiable(c)
  PROVE  Spec => []PacketsAreFrames
  <1>1. Init => PacketsAreFrames
    <2> SUFFICES ASSUME Init
                 PROVE  PacketsAreFrames
      OBVIOUS
    <2>1. 1..Len(packets) = {}
      BY EmptySeq DEF Init
    <2> QED BY <2>1 DEF PacketsAreFrames
  <1>2. IInv /\ PacketsAreFrames /\ [Next]_vars => PacketsAreFrames'
    <2>1. IInv => Verifiable(config)
      BY DEF IInv, TypeOK
    <2> QED BY <2>1, FrameStep
  <1> QED BY <1>1, <1>2, ParserInvariant, PTL DEF Spec

-----------------------------------------------------------------------------
(* The frames of a stream, from each of its places on.                     *)

\* g is the function Frames is defined by, on the places from p on.
From(c, s, p, g) ==
    /\ g \in [p..Len(s) + 1 -> Seq(Seq(Byte))]
    /\ \A q \in p..Len(s) + 1 : g[q] = FramesFrom(c, s, q, g)

\* The frames of s from each place on: the function Frames is defined by.
At(c, s) == CHOOSE g : g = [p \in 1..Len(s) + 1 |-> FramesFrom(c, s, p, g)]

\* What something that ends adds to the frames: itself, unless it is ignored.
Own(c, f) == IF IsFrame(c, f) THEN <<f>> ELSE <<>>

LEMMA FramesAreTheFirst ==
  ASSUME NEW c, NEW s
  PROVE  Frames(c, s) = At(c, s)[1]
  BY Zenon DEF Frames, At

LEMMA EndsFacts ==
  ASSUME NEW c, NEW s \in Seq(Byte), NEW p \in 1..Len(s) + 1, Ends(c, s, p) # {}
  PROVE  /\ Least(Ends(c, s, p)) \in Ends(c, s, p) /\ Least(Ends(c, s, p)) \in p..Len(s)
         /\ \A d \in Ends(c, s, p) : Least(Ends(c, s, p)) <= d
  <1>1. Len(s) \in Nat
    OBVIOUS
  <1>2. Ends(c, s, p) \in SUBSET (p..Len(s))
    BY Zenon DEF Ends
  <1>3. Ends(c, s, p) \in SUBSET Nat
    BY <1>1, <1>2
  <1> QED
    BY <1>2, <1>3, LeastOf, Zenon

\* The three cases of FramesFrom.
LEMMA FramesFromCases ==
  ASSUME NEW c, NEW s \in Seq(Byte), NEW p \in 1..Len(s) + 1, NEW g
  PROVE  /\ p = Len(s) + 1 => FramesFrom(c, s, p, g) = <<>>
         /\ Ends(c, s, p) # {} =>
               FramesFrom(c, s, p, g) =
                  Own(c, SubSeq(s, p, Least(Ends(c, s, p)))) \o g[Least(Ends(c, s, p)) + 1]
         /\ p <= Len(s) /\ Ends(c, s, p) = {} =>
               FramesFrom(c, s, p, g) =
                  IF Hopeless(c, SubSeq(s, p, Len(s))) THEN g[p + 1] ELSE <<>>
  <1>1. Len(s) \in Nat
    OBVIOUS
  <1>2. Ends(c, s, p) \in SUBSET (p..Len(s))
    BY Zenon DEF Ends
  <1>3. Ends(c, s, p) # {} => p <= Len(s)
    BY <1>1, <1>2
  <1>4. p <= Len(s) => ~(p > Len(s))
    BY <1>1
  <1>5. ASSUME p = Len(s) + 1
        PROVE  FramesFrom(c, s, p, g) = <<>>
    <2>1. p > Len(s) /\ ~(p <= Len(s)) /\ ~(Ends(c, s, p) # {})
      BY <1>1, <1>3, <1>5
    <2> QED
      BY <2>1, Zenon DEF FramesFrom
  <1>6. ASSUME Ends(c, s, p) # {}
        PROVE  FramesFrom(c, s, p, g) =
                    Own(c, SubSeq(s, p, Least(Ends(c, s, p)))) \o g[Least(Ends(c, s, p)) + 1]
    <2>1. ~(p > Len(s)) /\ Ends(c, s, p) # {}
      BY <1>3, <1>4, <1>6
    <2> QED
      BY <2>1, Zenon DEF FramesFrom, Own, Least
  <1>7. ASSUME p <= Len(s), Ends(c, s, p) = {}
        PROVE  FramesFrom(c, s, p, g) = IF Hopeless(c, SubSeq(s, p, Len(s))) THEN g[p + 1] ELSE <<>>
    <2>1. ~(p > Len(s)) /\ ~(Ends(c, s, p) # {})
      BY <1>4, <1>7
    <2> QED
      BY <2>1, <1>7, Zenon DEF FramesFrom
  <1> QED
    BY <1>5, <1>6, <1>7, Zenon

\* The frames from a place on depend on those from later places only.
LEMMA LaterFramesOnly ==
  ASSUME NEW c, NEW s \in Seq(Byte), NEW p \in 1..Len(s) + 1, NEW g, NEW h,
         \A q \in p + 1..Len(s) + 1 : g[q] = h[q]
  PROVE  FramesFrom(c, s, p, g) = FramesFrom(c, s, p, h)
  <1>1. Len(s) \in Nat
    OBVIOUS
  <1>2. CASE p = Len(s) + 1
    BY <1>2, FramesFromCases, Zenon
  <1>3. CASE Ends(c, s, p) # {}
    <2> DEFINE e == Least(Ends(c, s, p))
    <2>1. e \in p..Len(s)
      BY <1>3, EndsFacts, Zenon
    <2>2. e + 1 \in p + 1..Len(s) + 1
      BY <2>1, <1>1
    <2>3. g[e + 1] = h[e + 1]
      BY <2>2
    <2> QED
      BY <1>3, <2>3, FramesFromCases, Zenon
  <1>4. CASE p <= Len(s) /\ Ends(c, s, p) = {}
    <2>1. g[p + 1] = h[p + 1]
      BY <1>1, <1>4
    <2>2. FramesFrom(c, s, p, g) = IF Hopeless(c, SubSeq(s, p, Len(s))) THEN g[p + 1] ELSE <<>>
      BY <1>4, FramesFromCases, Zenon
    <2>3. FramesFrom(c, s, p, h) = IF Hopeless(c, SubSeq(s, p, Len(s))) THEN h[p + 1] ELSE <<>>
      BY <1>4, FramesFromCases, Zenon
    <2> QED
      BY <2>1, <2>2, <2>3
  <1>5. p = Len(s) + 1 \/ p <= Len(s)
    BY <1>1
  <1> QED
    BY <1>2, <1>3, <1>4, <1>5, Zenon

LEMMA FramesAreSequences ==
  ASSUME NEW c, NEW s \in Seq(Byte), NEW p \in 1..Len(s) + 1, NEW g,
         \A q \in p + 1..Len(s) + 1 : g[q] \in Seq(Seq(Byte))
  PROVE  FramesFrom(c, s, p, g) \in Seq(Seq(Byte))
  <1>1. Len(s) \in Nat
    OBVIOUS
  <1>2. CASE p = Len(s) + 1
    <2>1. FramesFrom(c, s, p, g) = <<>>
      BY <1>2, FramesFromCases, Zenon
    <2> QED
      BY <2>1
  <1>3. CASE Ends(c, s, p) # {}
    <2> DEFINE e == Least(Ends(c, s, p))
    <2>1. e \in p..Len(s)
      BY <1>3, EndsFacts, Zenon
    <2>2. e + 1 \in p + 1..Len(s) + 1
      BY <2>1, <1>1
    <2>3. g[e + 1] \in Seq(Seq(Byte))
      BY <2>2
    <2>4. SubSeq(s, p, e) \in Seq(Byte)
      BY <1>1, <2>1
    <2>5. Own(c, SubSeq(s, p, e)) \in Seq(Seq(Byte))
      BY <2>4 DEF Own
    <2>6. FramesFrom(c, s, p, g) = Own(c, SubSeq(s, p, e)) \o g[e + 1]
      BY <1>3, FramesFromCases, Zenon
    <2> HIDE DEF e
    <2> QED
      BY <2>3, <2>5, <2>6
  <1>4. CASE p <= Len(s) /\ Ends(c, s, p) = {}
    <2>1. g[p + 1] \in Seq(Seq(Byte))
      BY <1>1, <1>4
    <2>2. <<>> \in Seq(Seq(Byte))
      OBVIOUS
    <2> QED
      BY <1>4, <2>1, <2>2, FramesFromCases, Zenon
  <1>5. p = Len(s) + 1 \/ p <= Len(s)
    BY <1>1
  <1> QED
    BY <1>2, <1>3, <1>4, <1>5, Zenon

\* The function Frames is defined by exists: it is found from the last place on.
LEMMA FromExists ==
  ASSUME NEW c, NEW s \in Seq(Byte)
  PROVE  \E g : From(c, s, 1, g)
  <1> DEFINE None == {n \in 0..Len(s) : ~\E g : From(c, s, Len(s) + 1 - n, g)}
  <1>1. Len(s) \in Nat
    OBVIOUS
  <1>2. None \in SUBSET Nat
    BY <1>1
  <1>3. 0 \notin None
    <2> DEFINE g == [q \in Len(s) + 1..Len(s) + 1 |-> <<>>]
    <2>1. Len(s) + 1 - 0 = Len(s) + 1
      BY <1>1
    <2>2. g \in [Len(s) + 1..Len(s) + 1 -> Seq(Seq(Byte))]
      OBVIOUS
    <2>3. ASSUME NEW q \in Len(s) + 1..Len(s) + 1
          PROVE  g[q] = FramesFrom(c, s, q, g)
      <3>1. q = Len(s) + 1 /\ q \in 1..Len(s) + 1
        BY <1>1
      <3>2. FramesFrom(c, s, q, g) = <<>>
        BY <3>1, FramesFromCases, Zenon
      <3>3. g[q] = <<>>
        OBVIOUS
      <3> QED
        BY <3>2, <3>3, Zenon
    <2> HIDE DEF g
    <2>4. From(c, s, Len(s) + 1, g)
      BY <2>2, <2>3, Zenon DEF From
    <2> QED
      BY <2>1, <2>4, Zenon
  <1>4. ASSUME NEW m \in None, \A n \in None : m <= n
        PROVE  FALSE
    <2>1. m \in 0..Len(s) /\ m # 0
      BY <1>3
    <2>2. m - 1 \in 0..Len(s) /\ ~(m <= m - 1)
      BY <1>1, <2>1
    <2>3. m - 1 \notin None
      BY <1>4, <2>2, Zenon
    <2> DEFINE p == Len(s) + 1 - m
    <2>4. p \in 1..Len(s) /\ Len(s) + 1 - (m - 1) = p + 1
      BY <1>1, <2>1
    <2>5. PICK g : From(c, s, p + 1, g)
      BY <2>2, <2>3, <2>4
    <2> HIDE DEF p
    <2> DEFINE h == [q \in p..Len(s) + 1 |-> IF q = p THEN FramesFrom(c, s, p, g) ELSE g[q]]
    <2>6. \A q \in p + 1..Len(s) + 1 : g[q] = h[q] /\ g[q] \in Seq(Seq(Byte))
      BY <1>1, <2>4, <2>5 DEF From
    <2>7. h[p] = FramesFrom(c, s, p, g)
      BY <1>1, <2>4
    <2>8. p \in 1..Len(s) + 1
      BY <1>1, <2>4
    <2>9. FramesFrom(c, s, p, g) \in Seq(Seq(Byte))
      BY <2>6, <2>8, FramesAreSequences
    <2>10. \A q \in p..Len(s) + 1 : q # p => q \in p + 1..Len(s) + 1
      BY <1>1, <2>4
    <2>11. h \in [p..Len(s) + 1 -> Seq(Seq(Byte))]
      BY <2>6, <2>9, <2>10
    <2> HIDE DEF h
    <2>12. ASSUME NEW q \in p..Len(s) + 1
           PROVE  h[q] = FramesFrom(c, s, q, h)
      <3>1. q \in 1..Len(s) + 1
        BY <1>1, <2>4
      <3>2. \A r \in q + 1..Len(s) + 1 : r \in p + 1..Len(s) + 1
        BY <1>1, <2>4
      <3>3. FramesFrom(c, s, q, g) = FramesFrom(c, s, q, h)
        BY <2>6, <3>1, <3>2, LaterFramesOnly, Zenon
      <3>4. CASE q = p
        BY <2>7, <3>3, <3>4, Zenon
      <3>5. CASE q # p
        <4>1. q \in p + 1..Len(s) + 1
          BY <2>10, <3>5, Zenon
        <4>2. g[q] = FramesFrom(c, s, q, g) /\ g[q] = h[q]
          BY <2>5, <2>6, <4>1, Zenon DEF From
        <4> QED
          BY <3>3, <4>2, Zenon
      <3> QED
        BY <3>4, <3>5, Zenon
    <2>13. From(c, s, p, h)
      BY <2>11, <2>12, Zenon DEF From
    <2> QED
      BY <2>13, Zenon DEF p
  <1>5. None = {}
    <2> HIDE DEF None
    <2> QED
      BY <1>2, <1>4, LeastOf, Zenon
  <1>6. Len(s) \in 0..Len(s) /\ Len(s) + 1 - Len(s) = 1
    BY <1>1
  <1> QED
    BY <1>5, <1>6

LEMMA AtFacts ==
  ASSUME NEW c, NEW s \in Seq(Byte)
  PROVE  From(c, s, 1, At(c, s))
  <1> DEFINE Is(g) == g = [p \in 1..Len(s) + 1 |-> FramesFrom(c, s, p, g)]
  <1>1. PICK g : From(c, s, 1, g)
    BY FromExists, Zenon
  <1>2. Is(g)
    BY <1>1 DEF From
  <1>3. At(c, s) = CHOOSE h : Is(h)
    BY Zenon DEF At
  <1>4. Is(At(c, s))
    <2> HIDE DEF Is
    <2> QED
      BY <1>2, <1>3, Zenon
  <1> DEFINE a == At(c, s)
  <1>5. a = [p \in 1..Len(s) + 1 |-> FramesFrom(c, s, p, a)]
    BY <1>4
  <1> HIDE DEF a
  <1>6. DOMAIN a = 1..Len(s) + 1 /\ \A p \in 1..Len(s) + 1 : a[p] = FramesFrom(c, s, p, a)
    BY <1>5
  <1> DEFINE Untyped == {n \in 0..Len(s) : a[Len(s) + 1 - n] \notin Seq(Seq(Byte))}
  <1>7. Len(s) \in Nat
    OBVIOUS
  <1>8. Untyped \in SUBSET Nat
    BY <1>7
  <1>9. ASSUME NEW m \in Untyped, \A n \in Untyped : m <= n
        PROVE  FALSE
    <2> DEFINE p == Len(s) + 1 - m
    <2>1. p \in 1..Len(s) + 1 /\ a[p] \notin Seq(Seq(Byte))
      BY <1>7
    <2>2. ASSUME NEW q \in p + 1..Len(s) + 1
          PROVE  a[q] \in Seq(Seq(Byte))
      <3>1. Len(s) + 1 - q \in 0..Len(s) /\ ~(m <= Len(s) + 1 - q) /\ Len(s) + 1 - (Len(s) + 1 - q) = q
        BY <1>7
      <3>2. Len(s) + 1 - q \notin Untyped
        BY <1>9, <3>1, Zenon
      <3> QED
        BY <3>1, <3>2
    <2> HIDE DEF p
    <2> QED
      BY <1>6, <2>1, <2>2, FramesAreSequences, Zenon
  <1>10. Untyped = {}
    <2> HIDE DEF Untyped
    <2> QED
      BY <1>8, <1>9, LeastOf, Zenon
  <1>11. ASSUME NEW p \in 1..Len(s) + 1
         PROVE  a[p] \in Seq(Seq(Byte))
    <2>1. Len(s) + 1 - p \in 0..Len(s) /\ Len(s) + 1 - (Len(s) + 1 - p) = p
      BY <1>7
    <2> QED
      BY <1>10, <2>1
  <1>12. a \in [1..Len(s) + 1 -> Seq(Seq(Byte))]
    BY <1>5, <1>11
  <1> QED
    BY <1>6, <1>12, Zenon DEF From, a

-----------------------------------------------------------------------------
(* The places of a stream.                                                 *)

\* Up to its end a stream that begins with f is decided.
Ending(c, f) == IsFrame(c, f) \/ Ignored(c, f)

\* Ends, by the lengths of what ends.
LEMMA EndsAfter ==
  ASSUME NEW c, NEW s \in Seq(Byte), NEW a \in Nat, a < Len(s)
  PROVE  /\ \A k \in 1..Len(s) - a : Ending(c, SubSeq(s, a + 1, a + k)) <=> a + k \in Ends(c, s, a + 1)
         /\ \A e \in Ends(c, s, a + 1) : /\ e - a \in 1..Len(s) - a /\ a + (e - a) = e
                                        /\ Ending(c, SubSeq(s, a + 1, a + (e - a)))
  <1>1. Len(s) \in Nat
    OBVIOUS
  <1>2. \A k \in 1..Len(s) - a : a + k \in a + 1..Len(s)
    BY <1>1
  <1>3. \A e \in a + 1..Len(s) : e - a \in 1..Len(s) - a /\ a + (e - a) = e
    BY <1>1
  <1>4. \A k \in 1..Len(s) - a : Ending(c, SubSeq(s, a + 1, a + k)) <=> a + k \in Ends(c, s, a + 1)
    BY <1>2, Zenon DEF Ends, Ending
  <1>5. ASSUME NEW e \in Ends(c, s, a + 1)
        PROVE  /\ e - a \in 1..Len(s) - a /\ a + (e - a) = e
               /\ Ending(c, SubSeq(s, a + 1, a + (e - a)))
    <2>1. e \in a + 1..Len(s) /\ Ending(c, SubSeq(s, a + 1, e))
      BY Zenon DEF Ends, Ending
    <2>2. e - a \in 1..Len(s) - a /\ a + (e - a) = e
      BY <1>3, <2>1, Zenon
    <2> QED
      BY <2>1, <2>2, Zenon
  <1> QED
    BY <1>3, <1>4, <1>5, Zenon

\* The frames from place a + 1 on, in terms of those of the later places.
LEMMA PlaceFacts ==
  ASSUME NEW c, NEW s \in Seq(Byte), NEW a \in Nat, a <= Len(s)
  PROVE  /\ At(c, s)[a + 1] \in Seq(Seq(Byte))
         /\ a = Len(s) => At(c, s)[a + 1] = <<>>
         /\ a < Len(s) /\ (\A k \in 1..Len(s) - a : ~Ending(c, SubSeq(s, a + 1, a + k))) =>
               At(c, s)[a + 1] =
                  IF Hopeless(c, SubSeq(s, a + 1, Len(s))) THEN At(c, s)[a + 1 + 1] ELSE <<>>
  <1>1. Len(s) \in Nat
    OBVIOUS
  <1>2. a + 1 \in 1..Len(s) + 1 /\ (a = Len(s) => a + 1 = Len(s) + 1) /\ (a < Len(s) => a + 1 <= Len(s))
    BY <1>1
  <1>3. /\ At(c, s)[a + 1] \in Seq(Seq(Byte))
        /\ At(c, s)[a + 1] = FramesFrom(c, s, a + 1, At(c, s))
    BY <1>2, AtFacts, Zenon DEF From
  <1>4. ASSUME a < Len(s), \A k \in 1..Len(s) - a : ~Ending(c, SubSeq(s, a + 1, a + k))
        PROVE  Ends(c, s, a + 1) = {}
    <2>1. \A e \in Ends(c, s, a + 1) : FALSE
      BY <1>4, EndsAfter, Zenon
    <2> QED
      BY <2>1
  <1> QED
    BY <1>2, <1>3, <1>4, FramesFromCases, Zenon

\* The first frame that begins at place a + 1 is the shortest one.
LEMMA FirstFrame ==
  ASSUME NEW c, NEW s \in Seq(Byte), NEW a \in Nat, NEW n \in 1..Len(s) - a,
         Ending(c, SubSeq(s, a + 1, a + n)),
         \A k \in 1..n - 1 : ~Ending(c, SubSeq(s, a + 1, a + k))
  PROVE  At(c, s)[a + 1] = Own(c, SubSeq(s, a + 1, a + n)) \o At(c, s)[a + n + 1]
  <1>1. Len(s) \in Nat
    OBVIOUS
  <1>2. a < Len(s) /\ a + 1 \in 1..Len(s) + 1
    BY <1>1
  <1> DEFINE E == Ends(c, s, a + 1)
             l == Least(E)
  <1>3. a + n \in E
    BY <1>2, EndsAfter, Zenon
  <1>4. E # {}
    BY <1>3, Zenon
  <1>5. l \in E /\ \A d \in E : l <= d
    BY <1>2, <1>4, EndsFacts, Zenon
  <1>6. \A e \in E : /\ e - a \in 1..Len(s) - a /\ a + (e - a) = e
                     /\ Ending(c, SubSeq(s, a + 1, a + (e - a)))
    BY <1>2, EndsAfter, Zenon
  <1>7. l - a \in 1..Len(s) - a /\ a + (l - a) = l /\ Ending(c, SubSeq(s, a + 1, a + (l - a)))
    <2> HIDE DEF l, E
    <2> QED
      BY <1>5, <1>6, Zenon
  <1>8. l - a \notin 1..n - 1 /\ l <= a + n
    BY <1>3, <1>5, <1>7, Zenon
  <1>9. l = a + n
    <2> HIDE DEF l
    <2> QED
      BY <1>1, <1>7, <1>8
  <1>10. At(c, s)[a + 1] = FramesFrom(c, s, a + 1, At(c, s))
    BY <1>2, AtFacts, Zenon DEF From
  <1>11. FramesFrom(c, s, a + 1, At(c, s)) = Own(c, SubSeq(s, a + 1, l)) \o At(c, s)[l + 1]
    BY <1>2, <1>4, FramesFromCases, Zenon
  <1> QED
    BY <1>9, <1>10, <1>11, Zenon

\* No frame begins after the first a bytes of s, however s goes on.
NoHeader(c, s, a) ==
    \/ a + Len(c.header) <= Len(s) /\ \E k \in 1..Len(c.header) : s[a + k] # c.header[k]
    \/ a < Len(s) /\ c.valid # {} /\ s[a + 1] \notin c.valid
\* Nor does the window of a fixed length there make one.
NoWindow(c, s, a) ==
    /\ Strategy(c) = "fixed" /\ a + c.length <= Len(s)
    /\ ~IsFrame(c, SubSeq(s, a + 1, a + c.length))
Skipped(c, s, a) == a < Len(s) /\ (NoHeader(c, s, a) \/ NoWindow(c, s, a))

LEMMA NoHeaderBegins ==
  ASSUME NEW c \in Configs, NEW s \in Seq(Byte), NEW a \in Nat, a < Len(s), NoHeader(c, s, a)
  PROVE  /\ \A k \in 1..Len(s) - a : ~Begins(c, SubSeq(s, a + 1, a + k))
         /\ Hopeless(c, SubSeq(s, a + 1, Len(s)))
  <1>1. Len(s) \in Nat /\ c.header \in Seq(Byte) /\ Len(c.header) \in Nat
    BY ConfigsAssumption
  <1> DEFINE h == c.header
             m == Len(s) - a
  <1>2. m \in Nat /\ m > 0 /\ a + m = Len(s)
    BY <1>1
  <1>3. ASSUME NEW k \in 1..m
        PROVE  LET f == SubSeq(s, a + 1, a + k)
               IN  f \in Seq(Byte) /\ Len(f) = k /\ \A i \in 1..k : f[i] = s[a + i]
    <2>1. k \in Nat /\ a + k <= Len(s)
      BY <1>1
    <2> QED
      BY <2>1, PieceFacts, Zenon
  <1>4. ASSUME NEW k \in 1..m, StartsWith(SubSeq(s, a + 1, a + k), h)
        PROVE  Len(h) <= k /\ \A i \in 1..Len(h) : s[a + i] = h[i]
    <2> DEFINE f == SubSeq(s, a + 1, a + k)
    <2>1. f \in Seq(Byte) /\ Len(f) = k /\ \A i \in 1..k : f[i] = s[a + i]
      BY <1>3
    <2> HIDE DEF f
    <2>2. StartsWith(f, h)
      BY <1>4 DEF f
    <2>3. Len(h) <= k /\ SubSeq(f, 1, Len(h)) = h
      BY <2>1, <2>2, <1>1 DEF StartsWith
    <2>4. \A i \in 1..Len(h) : SubSeq(f, 0 + 1, 0 + Len(h))[i] = f[0 + i]
      BY <1>1, <2>1, <2>3, PieceFacts
    <2>5. 0 + 1 = 1 /\ 0 + Len(h) = Len(h) /\ \A i \in 1..Len(h) : 0 + i = i /\ i \in 1..k
      BY <1>1, <2>3
    <2>6. \A i \in 1..Len(h) : SubSeq(f, 1, Len(h))[i] = f[i]
      BY <2>4, <2>5, Zenon
    <2> QED
      BY <2>1, <2>3, <2>5, <2>6, Zenon
  <1>5. ASSUME NEW k \in 1..m
        PROVE  SubSeq(s, a + 1, a + k)[1] = s[a + 1]
    <2>1. 1 \in 1..k
      BY <1>2
    <2> QED
      BY <1>3, <2>1, Zenon
  <1>6. ASSUME NEW k \in 1..m
        PROVE  ~Begins(c, SubSeq(s, a + 1, a + k))
    <2>1. CASE \E i \in 1..Len(c.header) : s[a + i] # c.header[i]
      BY <1>4, <2>1, Zenon DEF Begins
    <2>2. CASE c.valid # {} /\ s[a + 1] \notin c.valid
      BY <1>5, <2>2, Zenon DEF Begins
    <2> QED
      BY <2>1, <2>2, Zenon DEF NoHeader
  <1>7. m \in 1..m
    BY <1>2
  <1>8. Hopeless(c, SubSeq(s, a + 1, a + m))
    <2>1. CASE a + Len(c.header) <= Len(s) /\ \E i \in 1..Len(c.header) : s[a + i] # c.header[i]
      <3>1. Len(SubSeq(s, a + 1, a + m)) >= Len(c.header)
        <4>1. Len(SubSeq(s, a + 1, a + m)) = m
          BY <1>3, <1>7, Zenon
        <4> QED
          BY <1>1, <2>1, <4>1
      <3>2. ~StartsWith(SubSeq(s, a + 1, a + m), c.header)
        BY <1>4, <1>7, <2>1, Zenon
      <3> QED
        BY <3>1, <3>2, Zenon DEF Hopeless
    <2>2. CASE c.valid # {} /\ s[a + 1] \notin c.valid
      BY <1>5, <1>7, <2>2, Zenon DEF Hopeless
    <2> QED
      BY <2>1, <2>2, Zenon DEF NoHeader
  <1> QED
    BY <1>2, <1>6, <1>8, Zenon

LEMMA SkippedPlace ==
  ASSUME NEW c \in Configs, NEW s \in Seq(Byte), NEW a \in Nat, Skipped(c, s, a)
  PROVE  At(c, s)[a + 1] = At(c, s)[a + 1 + 1]
  <1>1. Len(s) \in Nat /\ a < Len(s) /\ a <= Len(s)
    BY DEF Skipped
  <1> DEFINE rest == SubSeq(s, a + 1, Len(s))
  <1>2. CASE NoHeader(c, s, a)
    <2>1. Hopeless(c, rest) /\ \A k \in 1..Len(s) - a : ~Begins(c, SubSeq(s, a + 1, a + k))
      BY <1>1, <1>2, NoHeaderBegins, Zenon
    <2>2. \A k \in 1..Len(s) - a : ~Ending(c, SubSeq(s, a + 1, a + k))
      BY <2>1, Zenon DEF Ending, IsFrame, Ignored
    <2> QED
      BY <1>1, <2>1, <2>2, PlaceFacts, Zenon
  <1>3. CASE NoWindow(c, s, a)
    <2>1. c.length \in Nat
      BY ConfigsAssumption
    <2>2. ASSUME NEW k \in 1..Len(s) - a, Ending(c, SubSeq(s, a + 1, a + k))
          PROVE  FALSE
      <3>1. Len(SubSeq(s, a + 1, a + k)) = k
        <4>1. k \in Nat /\ a + k <= Len(s)
          BY <1>1
        <4> QED
          BY <4>1, PieceFacts, Zenon
      <3>2. Strategy(c) # "footer"
        BY <1>3 DEF NoWindow
      <3>3. IsFrame(c, SubSeq(s, a + 1, a + k))
        BY <2>2, <3>2, Zenon DEF Ending, Ignored
      <3>4. k = c.length
        BY <1>3, <3>1, <3>3, Zenon DEF NoWindow, IsFrame
      <3> QED
        BY <1>3, <3>3, <3>4, Zenon DEF NoWindow
    <2> DEFINE m == Len(s) - a
    <2>3. m \in Nat /\ a + m = Len(s) /\ a + m <= Len(s) /\ m >= c.length
      BY <1>1, <1>3, <2>1 DEF NoWindow
    <2> HIDE DEF m
    <2>4. Len(SubSeq(s, a + 1, a + m)) = m
      BY <2>3, PieceFacts, Zenon
    <2>5. Len(rest) >= c.length
      BY <2>3, <2>4, Zenon
    <2>6. Hopeless(c, rest)
      BY <1>3, <2>5, Zenon DEF Hopeless, NoWindow
    <2> QED
      BY <1>1, <2>2, <2>6, PlaceFacts, Zenon
  <1> QED
    BY <1>2, <1>3, Zenon DEF Skipped

\* From place a + 1 on the frames fs come and then those from place b + 1 on, however s goes on.
Leads(c, s, a, b, fs) ==
    \A t \in Seq(Byte) : At(c, s \o t)[a + 1] = fs \o At(c, s \o t)[b + 1]

LEMMA LongerFacts ==
  ASSUME NEW s \in Seq(Byte), NEW t \in Seq(Byte)
  PROVE  /\ s \o t \in Seq(Byte) /\ Len(s) \in Nat /\ Len(t) \in Nat /\ Len(s \o t) = Len(s) + Len(t)
         /\ \A i \in 1..Len(s) : (s \o t)[i] = s[i]
  BY ConcatProperties, LenProperties

LEMMA SkippedStays ==
  ASSUME NEW c \in Configs, NEW s \in Seq(Byte), NEW t \in Seq(Byte), NEW a \in Nat, Skipped(c, s, a)
  PROVE  Skipped(c, s \o t, a)
  <1> DEFINE u == s \o t
  <1>1. /\ u \in Seq(Byte) /\ Len(s) \in Nat /\ Len(t) \in Nat /\ Len(u) = Len(s) + Len(t)
        /\ \A i \in 1..Len(s) : u[i] = s[i]
    BY LongerFacts
  <1>2. c.header \in Seq(Byte) /\ Len(c.header) \in Nat /\ c.length \in Nat
    BY ConfigsAssumption
  <1>3. NoWindow(c, s, a) => NoWindow(c, u, a)
    <2>1. ASSUME a + c.length <= Len(s)
          PROVE  SubSeq(u, a + 1, a + c.length) = SubSeq(s, a + 1, a + c.length)
      BY <1>2, <2>1, PieceOfLonger, Zenon
    <2>2. a + c.length <= Len(s) => a + c.length <= Len(u)
      BY <1>1, <1>2
    <2> HIDE DEF u
    <2> QED
      BY <2>1, <2>2, Zenon DEF NoWindow
  <1> HIDE DEF u
  <1>4. a < Len(s) /\ a < Len(u)
    BY <1>1 DEF Skipped
  <1>5. NoHeader(c, s, a) => NoHeader(c, u, a)
    <2>1. ASSUME a + Len(c.header) <= Len(s), NEW k \in 1..Len(c.header), s[a + k] # c.header[k]
          PROVE  a + Len(c.header) <= Len(u) /\ u[a + k] # c.header[k]
      <3>1. a + k \in 1..Len(s) /\ a + Len(c.header) <= Len(u)
        BY <1>1, <1>2, <2>1
      <3> QED
        BY <1>1, <2>1, <3>1, Zenon
    <2>2. a + 1 \in 1..Len(s)
      BY <1>1, <1>4
    <2>3. u[a + 1] = s[a + 1]
      BY <1>1, <2>2, Zenon
    <2> QED
      BY <1>4, <2>1, <2>3, Zenon DEF NoHeader
  <1> QED
    BY <1>3, <1>4, <1>5, Zenon DEF Skipped, u

LEMMA LeadsSkips ==
  ASSUME NEW c \in Configs, NEW s \in Seq(Byte), NEW a \in Nat, NEW b \in Nat, a <= b, b <= Len(s),
         \A p \in a..b - 1 : Skipped(c, s, p)
  PROVE  Leads(c, s, a, b, <<>>)
  <1> SUFFICES ASSUME NEW t \in Seq(Byte)
               PROVE  At(c, s \o t)[a + 1] = <<>> \o At(c, s \o t)[b + 1]
    BY Zenon DEF Leads
  <1> DEFINE u == s \o t
             g == At(c, u)
             D == {n \in 0..b - a : g[a + n + 1] # g[a + 1]}
  <1>1. u \in Seq(Byte) /\ Len(s) \in Nat /\ Len(t) \in Nat /\ Len(u) = Len(s) + Len(t)
    BY LongerFacts
  <1>2. ASSUME NEW m \in D, \A n \in D : m <= n
        PROVE  FALSE
    <2>1. m \in 0..b - a /\ g[a + m + 1] # g[a + 1]
      OBVIOUS
    <2>2. m # 0
      <3>1. a + 0 + 1 = a + 1
        OBVIOUS
      <3> QED
        BY <2>1, <3>1, Zenon
    <2> DEFINE p == a + m - 1
    <2>3. /\ m - 1 \in 0..b - a /\ ~(m <= m - 1) /\ p \in a..b - 1 /\ p \in Nat
          /\ a + (m - 1) + 1 = p + 1 /\ p + 1 + 1 = a + m + 1
      BY <2>1, <2>2
    <2> HIDE DEF p
    <2>4. m - 1 \notin D
      BY <1>2, <2>3, Zenon
    <2>5. g[p + 1] = g[a + 1]
      BY <2>3, <2>4
    <2>6. Skipped(c, u, p)
      BY <2>3, SkippedStays, Zenon
    <2>7. g[p + 1] = g[p + 1 + 1]
      BY <1>1, <2>3, <2>6, SkippedPlace, Zenon
    <2> QED
      BY <2>1, <2>3, <2>5, <2>7, Zenon
  <1>3. D \in SUBSET Nat
    OBVIOUS
  <1>4. D = {}
    <2> HIDE DEF D
    <2> QED
      BY <1>2, <1>3, LeastOf, Zenon
  <1>5. b - a \in 0..b - a /\ a + (b - a) + 1 = b + 1 /\ b <= Len(u)
    BY <1>1
  <1>6. g[b + 1] = g[a + 1]
    <2>1. \A n \in 0..b - a : g[a + n + 1] = g[a + 1]
      BY <1>4, Zenon
    <2> HIDE DEF g, u
    <2> QED
      <3>1. g[a + (b - a) + 1] = g[a + 1]
        BY <1>5, <2>1, Zenon
      <3> QED
        BY <1>5, <3>1
  <1>7. g[b + 1] \in Seq(Seq(Byte))
    BY <1>1, <1>5, PlaceFacts, Zenon
  <1> HIDE DEF g
  <1>8. <<>> \o g[b + 1] = g[b + 1]
    BY <1>7, ConcatEmptySeq
  <1> QED
    BY <1>6, <1>8, Zenon DEF g, u

\* What ends first at a place comes next, however the stream goes on.
LEMMA LeadsFrame ==
  ASSUME NEW c, NEW s \in Seq(Byte), NEW a \in Nat, NEW n \in 1..Len(s) - a,
         Ending(c, SubSeq(s, a + 1, a + n)),
         \A k \in 1..n - 1 : ~Ending(c, SubSeq(s, a + 1, a + k))
  PROVE  Leads(c, s, a, a + n, Own(c, SubSeq(s, a + 1, a + n)))
  <1> SUFFICES ASSUME NEW t \in Seq(Byte)
               PROVE  At(c, s \o t)[a + 1] = Own(c, SubSeq(s, a + 1, a + n)) \o At(c, s \o t)[a + n + 1]
    BY Zenon DEF Leads
  <1> DEFINE u == s \o t
  <1>1. u \in Seq(Byte) /\ Len(s) \in Nat /\ Len(t) \in Nat /\ Len(u) = Len(s) + Len(t)
    BY LongerFacts
  <1>2. n \in 1..Len(u) - a /\ n \in Nat /\ n \in 1..n
    BY <1>1
  <1>3. \A k \in 1..n : k \in Nat /\ a + k <= Len(s)
    BY <1>1
  <1>4. \A k \in 1..n : SubSeq(u, a + 1, a + k) = SubSeq(s, a + 1, a + k)
    BY <1>3, PieceOfLonger, Zenon
  <1> HIDE DEF u
  <1>5. \A k \in 1..n - 1 : k \in 1..n
    BY <1>2
  <1>6. Ending(c, SubSeq(u, a + 1, a + n))
    BY <1>2, <1>4, Zenon
  <1>7. \A k \in 1..n - 1 : ~Ending(c, SubSeq(u, a + 1, a + k))
    BY <1>4, <1>5, Zenon
  <1>8. At(c, u)[a + 1] = Own(c, SubSeq(u, a + 1, a + n)) \o At(c, u)[a + n + 1]
    <2>1. u \in Seq(Byte) /\ n \in 1..Len(u) - a
      BY <1>1, <1>2, Zenon
    <2> QED
      BY <1>6, <1>7, <2>1, FirstFrame, Zenon
  <1> QED
    BY <1>2, <1>4, <1>8, Zenon DEF u

LEMMA FramesJoin ==
  ASSUME NEW x \in Seq(Seq(Byte)), NEW y \in Seq(Seq(Byte)), NEW z \in Seq(Seq(Byte))
  PROVE  (x \o y) \o z = x \o (y \o z)
  BY ConcatAssociative

LEMMA LeadsThen ==
  ASSUME NEW c, NEW s \in Seq(Byte), NEW a \in Nat, NEW b \in Nat, NEW d \in Nat, d <= Len(s),
         NEW fs \in Seq(Seq(Byte)), NEW gs \in Seq(Seq(Byte)),
         Leads(c, s, a, b, fs), Leads(c, s, b, d, gs)
  PROVE  Leads(c, s, a, d, fs \o gs)
  <1> SUFFICES ASSUME NEW t \in Seq(Byte)
               PROVE  At(c, s \o t)[a + 1] = (fs \o gs) \o At(c, s \o t)[d + 1]
    BY Zenon DEF Leads
  <1>1. s \o t \in Seq(Byte) /\ Len(s) \in Nat /\ Len(t) \in Nat /\ Len(s \o t) = Len(s) + Len(t)
    BY LongerFacts
  <1>2. d <= Len(s \o t)
    BY <1>1
  <1> DEFINE x == At(c, s \o t)[d + 1]
  <1>3. x \in Seq(Seq(Byte))
    BY <1>1, <1>2, PlaceFacts, Zenon
  <1>4. At(c, s \o t)[a + 1] = fs \o (gs \o x)
    BY Zenon DEF Leads
  <1> HIDE DEF x
  <1>5. (fs \o gs) \o x = fs \o (gs \o x)
    BY <1>3, FramesJoin
  <1> QED
    BY <1>4, <1>5, Zenon DEF x

LEMMA LeadsLonger ==
  ASSUME NEW c, NEW s \in Seq(Byte), NEW t \in Seq(Byte), NEW a, NEW b, NEW fs, Leads(c, s, a, b, fs)
  PROVE  Leads(c, s \o t, a, b, fs)
  <1> SUFFICES ASSUME NEW v \in Seq(Byte)
               PROVE  At(c, (s \o t) \o v)[a + 1] = fs \o At(c, (s \o t) \o v)[b + 1]
    BY Zenon DEF Leads
  <1>1. (s \o t) \o v = s \o (t \o v) /\ t \o v \in Seq(Byte)
    BY ConcatAssociative, ConcatProperties
  <1> QED
    BY <1>1, Zenon DEF Leads

\* Nowhere after the first a bytes does a frame end.
LEMMA NoFramesLeft ==
  ASSUME NEW c, NEW s \in Seq(Byte), NEW a \in Nat, a <= Len(s),
         \A p \in a..Len(s) - 1 : \A k \in 1..Len(s) - p : ~Ending(c, SubSeq(s, p + 1, p + k))
  PROVE  At(c, s)[a + 1] = <<>>
  <1> DEFINE g == At(c, s)
             D == {n \in 0..Len(s) - a : g[Len(s) - n + 1] # <<>>}
  <1>1. Len(s) \in Nat
    OBVIOUS
  <1>2. ASSUME NEW m \in D, \A n \in D : m <= n
        PROVE  FALSE
    <2> DEFINE p == Len(s) - m
    <2>1. /\ p \in Nat /\ p >= a /\ p <= Len(s) /\ g[p + 1] # <<>> /\ (p = Len(s) \/ p \in a..Len(s) - 1)
          /\ m \in 0..Len(s) - a
      BY <1>1
    <2>2. CASE p = Len(s)
      BY <2>1, <2>2, PlaceFacts, Zenon
    <2>3. CASE p \in a..Len(s) - 1
      <3>1. /\ m - 1 \in 0..Len(s) - a /\ ~(m <= m - 1) /\ p < Len(s)
            /\ Len(s) - (m - 1) + 1 = p + 1 + 1
        BY <1>1, <2>1, <2>3
      <3>2. m - 1 \notin D
        BY <1>2, <3>1, Zenon
      <3>3. g[p + 1 + 1] = <<>>
        BY <3>1, <3>2
      <3>4. \A k \in 1..Len(s) - p : ~Ending(c, SubSeq(s, p + 1, p + k))
        BY <2>3, Zenon
      <3> HIDE DEF p
      <3>5. g[p + 1] = IF Hopeless(c, SubSeq(s, p + 1, Len(s))) THEN g[p + 1 + 1] ELSE <<>>
        BY <2>1, <3>1, <3>4, PlaceFacts, Zenon
      <3> QED
        BY <2>1, <3>3, <3>5, Zenon
    <2> QED
      BY <2>1, <2>2, <2>3, Zenon
  <1>3. D \in SUBSET Nat
    BY <1>1
  <1>4. D = {}
    <2> HIDE DEF D
    <2> QED
      BY <1>2, <1>3, LeastOf, Zenon
  <1>5. Len(s) - a \in 0..Len(s) - a /\ Len(s) - (Len(s) - a) + 1 = a + 1
    BY <1>1
  <1> QED
    BY <1>4, <1>5

\* Nor does one begin at the next place that may turn out to be one.
LEMMA NoFrameYet ==
  ASSUME NEW c, NEW s \in Seq(Byte), NEW a \in Nat, a < Len(s),
         \A k \in 1..Len(s) - a : ~Ending(c, SubSeq(s, a + 1, a + k)),
         ~Hopeless(c, SubSeq(s, a + 1, Len(s)))
  PROVE  At(c, s)[a + 1] = <<>>
  <1>1. a <= Len(s)
    BY LenProperties
  <1> QED
    BY <1>1, PlaceFacts, Zenon

\* Nothing is left: the frames that came are those of the stream.
LEMMA LeadsToTheEnd ==
  ASSUME NEW c, NEW s \in Seq(Byte), NEW b, NEW fs \in Seq(Seq(Byte)),
         Leads(c, s, 0, b, fs), At(c, s)[b + 1] = <<>>
  PROVE  Frames(c, s) = fs
  <1>1. <<>> \in Seq(Byte) /\ s \o <<>> = s /\ fs \o <<>> = fs /\ 0 + 1 = 1
    BY ConcatEmptySeq, EmptySeq
  <1>2. At(c, s \o <<>>)[0 + 1] = fs \o At(c, s \o <<>>)[b + 1]
    BY <1>1, Zenon DEF Leads
  <1> QED
    BY <1>1, <1>2, FramesAreTheFirst, Zenon

-----------------------------------------------------------------------------
(* The place the buffer is at.                                             *)

\* The bytes of the stream that are no longer buffered.
Place(b) == b.base + b.read

LEMMA PlaceMoves ==
  ASSUME NEW b, Fits(b), NEW c, Keeps(b, c)
  PROVE  /\ Place(b) \in Nat /\ Place(c) \in Nat /\ BufferLength(b) \in Nat /\ BufferLength(c) \in Nat
         /\ Place(c) = Place(b) + (BufferLength(b) - BufferLength(c))
  <1>1. b.base \in Nat /\ b.read \in Nat /\ b.write \in Nat /\ b.read <= b.write
    BY DEF Fits, Buffers
  <1>2. /\ c.base \in Nat /\ c.read \in Nat /\ c.write \in Nat /\ c.read <= c.write
        /\ c.base + c.write = b.base + b.write
    BY DEF Keeps, Fits, Buffers
  <1> QED
    BY <1>1, <1>2 DEF Place, BufferLength

\* A chunk there is room for drops nothing.
LEMMA AppendDropsNothing ==
  ASSUME NEW b, Fits(b), NEW chunk \in Seq(Byte), chunk # <<>>,
         BufferLength(b) + Len(chunk) <= MaxBufferSize
  PROVE  LET c == AppendChunk(b, chunk)
         IN  Place(c) = Place(b) /\ c.scanned \in {b.scanned, 0}
  <1> DEFINE n == Len(chunk)
  <1>1. /\ b \in Buffers /\ b.read \in Nat /\ b.write \in Nat /\ b.base \in Nat /\ b.read <= b.write
        /\ BufferLength(b) = b.write - b.read
    BY DEF Fits, Buffers, BufferLength
  <1>2. n \in Nat \ {0} /\ BufferLength(b) + n <= MaxBufferSize
    BY EmptySeq, LenProperties
  <1>3. CASE n >= MaxBufferSize
    <2> DEFINE r == ResetBuffer(b)
               p == r.base + (n - MaxBufferSize)
               e == [r EXCEPT !.base = p]
               f == SubSeq(chunk, n - MaxBufferSize + 1, n)
    <2>1. n = MaxBufferSize /\ b.write = b.read
      BY <1>1, <1>2, <1>3, SizeIsPositive
    <2>2. r \in Buffers /\ r.read = 0 /\ r.write = 0 /\ r.base = b.base + b.write /\ r.scanned = 0
      BY <1>1, ResetFacts
    <2>3. AppendChunk(b, chunk) = CopyChunk(e, f)
      BY <1>3 DEF AppendChunk
    <2>4. f = chunk
      <3>1. n - MaxBufferSize + 1 = 1
        BY <1>2, <2>1
      <3>2. SubSeq(chunk, 1, Len(chunk)) = chunk
        OBVIOUS
      <3> QED
        BY <3>1, <3>2
    <2>5. p = b.base + b.write /\ p \in Nat
      BY <1>1, <1>2, <2>1, <2>2
    <2> HIDE DEF r, p, f
    <2>6. Fits(e) /\ e.read = 0 /\ e.write = 0 /\ e.base = p /\ e.scanned = 0
      BY <2>2, <2>5, SizeIsPositive DEF Buffers, Fits
    <2> HIDE DEF e
    <2>7. e.write + Len(chunk) <= MaxBufferSize
      BY <2>1, <2>6, SizeIsPositive
    <2>8. /\ CopyChunk(e, chunk).read = e.read /\ CopyChunk(e, chunk).base = e.base
          /\ CopyChunk(e, chunk).scanned = e.scanned
      BY <2>6, <2>7, CopyFacts
    <2> QED
      BY <1>1, <2>1, <2>3, <2>4, <2>5, <2>6, <2>8 DEF Place
  <1>4. CASE ~(n >= MaxBufferSize)
    <2> DEFINE m == MakeRoom(b, n)
    <2>1. AppendChunk(b, chunk) = CopyChunk(m, chunk)
      BY <1>4 DEF AppendChunk
    <2>2. m = IF TooMany(b, n) THEN CompactBuffer(b) ELSE b
      <3>1. CASE TooMany(b, n)
        <4>1. CompactBuffer(b).write = BufferLength(b)
          BY CompactKeeps
        <4>2. ~(BufferLength(b) + n > MaxBufferSize)
          BY <1>1, <1>2, SizeIsPositive
        <4>3. ~TooMany(CompactBuffer(b), n)
          BY <4>1, <4>2, Zenon DEF TooMany
        <4> QED
          BY <3>1, <4>3, Zenon DEF MakeRoom
      <3>2. CASE ~TooMany(b, n)
        BY <3>2, Zenon DEF MakeRoom
      <3> QED
        BY <3>1, <3>2
    <2>3. /\ Fits(m) /\ m.write + n <= MaxBufferSize /\ Place(m) = Place(b)
          /\ m.scanned \in {b.scanned, 0}
      <3>1. CASE TooMany(b, n)
        <4> DEFINE c == CompactBuffer(b)
        <4>1. Keeps(b, c) /\ c.read = 0 /\ c.write = BufferLength(b) /\ c.scanned \in {b.scanned, 0}
          BY CompactKeeps
        <4>2. m = c
          BY <2>2, <3>1, Zenon
        <4> HIDE DEF c, m
        <4>3. Fits(c) /\ BufferLength(c) = BufferLength(b)
          BY <1>1, <4>1 DEF Keeps, BufferLength
        <4>4. Place(c) = Place(b)
          BY <4>1, <4>3, PlaceMoves
        <4>5. c.write + n <= MaxBufferSize
          BY <1>2, <4>1, Zenon
        <4> QED
          BY <4>1, <4>2, <4>3, <4>4, <4>5, Zenon
      <3>2. CASE ~TooMany(b, n)
        <4>1. m = b
          BY <2>2, <3>2, Zenon
        <4>2. b.write + n <= MaxBufferSize
          <5>1. ~(b.write + n > MaxBufferSize)
            BY <3>2 DEF TooMany
          <5> HIDE DEF n
          <5> QED
            BY <1>1, <1>2, <5>1, SizeIsPositive
        <4> HIDE DEF m
        <4> QED
          BY <4>1, <4>2
      <3> QED
        BY <3>1, <3>2
    <2> HIDE DEF m
    <2>4. /\ CopyChunk(m, chunk).read = m.read /\ CopyChunk(m, chunk).base = m.base
          /\ CopyChunk(m, chunk).scanned = m.scanned
      BY <2>3, CopyFacts
    <2> QED
      BY <2>1, <2>3, <2>4 DEF Place
  <1> QED
    BY <1>3, <1>4

\* What the buffer b has is what s has after that place.
LEMMA PlaceOf ==
  ASSUME NEW b, NEW s \in Seq(Byte), Holds(b, s)
  PROVE  /\ Place(b) \in Nat /\ BufferLength(b) \in Nat /\ Len(s) \in Nat
         /\ Place(b) + BufferLength(b) = Len(s)
         /\ \A k \in 1..BufferLength(b) :
               /\ b.bytes[b.read + k - 1] = s[Place(b) + k]
               /\ Slice(b, b.read, k) = SubSeq(s, Place(b) + 1, Place(b) + k)
               /\ Slice(b, b.read, k) \in Seq(Byte) /\ Len(Slice(b, b.read, k)) = k
  <1>1. /\ b.base \in Nat /\ b.read \in Nat /\ b.write \in Nat /\ b.read <= b.write
        /\ b.base + b.write = Len(s) /\ Fits(b)
    BY DEF Holds, Fits, Buffers
  <1>2. ASSUME NEW k \in 1..BufferLength(b)
        PROVE  /\ b.bytes[b.read + k - 1] = s[Place(b) + k]
               /\ Slice(b, b.read, k) = SubSeq(s, Place(b) + 1, Place(b) + k)
               /\ Slice(b, b.read, k) \in Seq(Byte) /\ Len(Slice(b, b.read, k)) = k
    <2>1. /\ k \in Nat /\ b.read <= b.read /\ b.read + k <= b.write
          /\ b.read + k - 1 \in b.read..b.write - 1 /\ b.base + (b.read + k - 1) + 1 = Place(b) + k
      BY <1>1 DEF BufferLength, Place
    <2>2. b.bytes[b.read + k - 1] = s[b.base + (b.read + k - 1) + 1]
      BY <2>1, Zenon DEF Holds
    <2>3. /\ Slice(b, b.read, k) = SubSeq(s, b.base + b.read + 1, b.base + b.read + k)
          /\ Slice(b, b.read, k) \in Seq(Byte) /\ Len(Slice(b, b.read, k)) = k
      BY <1>1, <2>1, SliceIsPiece, Zenon
    <2> QED
      BY <2>1, <2>2, <2>3, Zenon DEF Place
  <1>3. /\ Place(b) \in Nat /\ BufferLength(b) \in Nat /\ Len(s) \in Nat
        /\ Place(b) + BufferLength(b) = Len(s)
    BY <1>1 DEF Place, BufferLength
  <1> QED
    BY <1>2, <1>3, Zenon

-----------------------------------------------------------------------------
(* What the loops compare is what makes a frame.                           *)

LEMMA StartsWithItself ==
  ASSUME NEW f \in Seq(Byte), NEW p \in Seq(Byte), Len(p) <= Len(f)
  PROVE  StartsWith(f, p) <=> \A k \in 1..Len(p) : f[k] = p[k]
  <1> DEFINE l == Len(p)
  <1>1. l \in Nat /\ Len(f) \in Nat /\ l <= Len(f) /\ Len(f) >= l
    OBVIOUS
  <1>2. 0 + 1 = 1 /\ 0 + l = l /\ \A k \in 1..l : 0 + k = k
    BY <1>1
  <1>3. (\A k \in 1..l : f[k] = p[k]) => SubSeq(f, 1, l) = p
    BY <1>1, <1>2, PieceIsPattern
  <1> HIDE DEF l
  <1>4. \A i \in 1..l : SubSeq(f, 0 + 1, 0 + l)[i] = f[0 + i]
    BY <1>1, <1>2, PieceFacts
  <1>5. \A i \in 1..l : SubSeq(f, 1, l)[i] = f[i]
    BY <1>2, <1>4, Zenon
  <1>6. SubSeq(f, 1, l) = p => \A k \in 1..l : f[k] = p[k]
    BY <1>5, Zenon
  <1> QED
    BY <1>1, <1>3, <1>6, Zenon DEF StartsWith, l

LEMMA EndsWithItself ==
  ASSUME NEW f \in Seq(Byte), NEW p \in Seq(Byte), Len(p) <= Len(f)
  PROVE  EndsWith(f, p) <=> \A k \in 1..Len(p) : f[Len(f) - Len(p) + k] = p[k]
  <1> DEFINE l == Len(p)
             a == Len(f) - l
  <1>1. l \in Nat /\ a \in Nat /\ a + l = Len(f) /\ a + l <= Len(f) /\ Len(f) >= l
    OBVIOUS
  <1>2. (\A k \in 1..l : f[a + k] = p[k]) => SubSeq(f, a + 1, a + l) = p
    <2> HIDE DEF a
    <2> QED
      BY <1>1, PieceIsPattern
  <1> HIDE DEF l
  <1>3. \A i \in 1..l : SubSeq(f, a + 1, a + l)[i] = f[a + i]
    <2> HIDE DEF a
    <2> QED
      BY <1>1, PieceFacts
  <1>4. SubSeq(f, a + 1, a + l) = p => \A k \in 1..l : f[a + k] = p[k]
    <2> HIDE DEF a
    <2> QED
      BY <1>3, Zenon
  <1>5. EndsWith(f, p) <=> SubSeq(f, a + 1, a + l) = p
    <2>1. SubSeq(f, a + 1, a + l) = SubSeq(f, a + 1, Len(f))
      BY <1>1, Zenon
    <2> QED
      BY <1>1, <2>1, Zenon DEF EndsWith, l
  <1> QED
    BY <1>2, <1>4, <1>5, Zenon DEF l

\* The converse of RunningVerifies, and of the two lemmas it is for.
LEMMA VerifiedRuns ==
  ASSUME config.checksum \in (OneByteKinds \cup TwoByteKinds) \ {"crc8"},
         NEW frame, NEW skips \in BOOLEAN,
         (IF skips THEN HeaderLen ELSE 0) = (IF CoversHeader(config.checksum) THEN 0 ELSE HeaderLen),
         Verify(config.checksum, frame, Len(config.header), Len(config.footer))
  PROVE  RunningOk(frame, skips)
  <1> DEFINE n == ChecksumLength(config.checksum)
             covered == Covered(frame, n, FooterLen, IF CoversHeader(config.checksum) THEN 0 ELSE HeaderLen)
  <1>1. n # 0
    BY DEF ChecksumLength, OneByteKinds, TwoByteKinds
  <1>2. Trailer(frame, n, FooterLen) = Calculated(config.checksum, covered)
    BY <1>1, Zenon DEF Verify, HeaderLen, FooterLen
  <1>3. Running(config.checksum, covered) = Calculated(config.checksum, covered)
    BY RunningIsCalculated
  <1> QED
    BY <1>2, <1>3, Zenon DEF RunningOk

\* The loops of the footer and of the sweep accept every frame, and so does the window.
LEMMA FrameIsIncremental ==
  ASSUME IInv, Verifiable(config), Strategy(config) # "fixed", NEW frame, IsFrame(config, frame)
  PROVE  IncrementalOk(frame)
  <1>1. /\ LengthAllowed(config, Len(frame))
        /\ Verify(config.checksum, frame, Len(config.header), Len(config.footer))
    BY Zenon DEF IsFrame
  <1>2. CASE config.checksum = "none"
    BY <1>1, <1>2 DEF IncrementalOk, VerifyChecksum, HeaderLen, FooterLen
  <1>3. CASE config.checksum # "none"
    <2> DEFINE skips == ~CoversHeader(config.checksum)
    <2>1. config.length \in Nat /\ ~(config.length > 0)
      BY ConfigFacts, StrategyFacts
    <2>2. config.checksum \in (OneByteKinds \cup TwoByteKinds) \ {"crc8"}
      BY <1>3, <2>1, LengthFacts DEF Verifiable
    <2>3. skips \in BOOLEAN
      BY DEF CoversHeader
    <2>4. (IF skips THEN HeaderLen ELSE 0) = (IF CoversHeader(config.checksum) THEN 0 ELSE HeaderLen)
      OBVIOUS
    <2> HIDE DEF skips
    <2>5. RunningOk(frame, skips)
      BY <1>1, <2>2, <2>3, <2>4, VerifiedRuns
    <2> QED
      BY <1>3, <2>5 DEF IncrementalOk, skips
  <1> QED
    BY <1>2, <1>3

LEMMA FrameIsWindow ==
  ASSUME IInv, Verifiable(config), config.length > 0, NEW frame, IsFrame(config, frame)
  PROVE  WindowOk(frame)
  <1>1. /\ LengthAllowed(config, Len(frame))
        /\ Verify(config.checksum, frame, Len(config.header), Len(config.footer))
    BY Zenon DEF IsFrame
  <1> DEFINE alone == \/ config.checksum \in {"none", "bestin_sum"}
                      \/ Cardinality(config.valid) \in 1..SparseLimit - 1
             skips == ~CoversHeader(config.checksum) \/ config.checksum = "samsung_xor"
  <1>2. CASE alone
    BY <1>1, <1>2 DEF WindowOk, VerifyChecksum, HeaderLen, FooterLen
  <1>3. CASE ~alone
    <2>1. /\ config.checksum \in (OneByteKinds \cup TwoByteKinds) \ {"crc8"}
          /\ config.header = <<>>
      BY <1>3, LengthFacts DEF Verifiable
    <2>2. HeaderLen = 0
      BY <2>1, EmptySeq DEF HeaderLen
    <2>3. skips \in BOOLEAN
      BY DEF CoversHeader
    <2>4. (IF skips THEN HeaderLen ELSE 0) = (IF CoversHeader(config.checksum) THEN 0 ELSE HeaderLen)
      BY <2>2
    <2> HIDE DEF skips
    <2>5. RunningOk(frame, skips)
      BY <1>1, <2>1, <2>3, <2>4, VerifiedRuns
    <2> QED
      BY <1>3, <2>5 DEF WindowOk, skips
  <1> QED
    BY <1>2, <1>3

-----------------------------------------------------------------------------
(* The frames are those of the stream.                                     *)

BytesOf(ps) == [i \in 1..Len(ps) |-> ps[i].bytes]

\* What ChunksDoNotMatter is about.
Exact == ~overflowed /\ ~config.expr /\ config.max = 0

\* No frame after the first a bytes of s is of the n lengths the sweep has tried.
Tried(c, s, a, n) ==
    Strategy(c) = "sweep" =>
        \A k \in 1..n : a + k <= Len(s) /\ ~IsFrame(c, SubSeq(s, a + 1, a + k))

\* However the stream goes on, its frames are the packets and then those of what is buffered
\* and still to come; no frame of it is left when parseChunk returns.
FramesInv ==
    Exact =>
        /\ Leads(config, stream, 0, Place(buffer), BytesOf(packets))
        /\ Tried(config, stream, Place(buffer), buffer.scanned)
        /\ ~parsing => At(config, stream)[Place(buffer) + 1] = <<>>

LEMMA AppendFacts ==
  ASSUME NEW fs \in Seq(Seq(Byte)), NEW f \in Seq(Byte)
  PROVE  /\ Append(fs, f) \in Seq(Seq(Byte)) /\ Len(Append(fs, f)) = Len(fs) + 1
         /\ Append(fs, f)[Len(fs) + 1] = f /\ \A i \in 1..Len(fs) : Append(fs, f)[i] = fs[i]
  BY AppendProperties, LenProperties

LEMMA BytesFacts ==
  ASSUME NEW ps \in Seq([at : Nat, bytes : Seq(Byte)])
  PROVE  /\ BytesOf(ps) \in Seq(Seq(Byte))
         /\ \A r \in [at : Nat, bytes : Seq(Byte)] :
               BytesOf(Append(ps, r)) = BytesOf(ps) \o <<r.bytes>>
  <1> DEFINE n == Len(ps)
             bs == BytesOf(ps)
  <1>1. n \in Nat /\ \A i \in 1..n : ps[i] \in [at : Nat, bytes : Seq(Byte)]
    BY LenProperties, ElementOfSeq
  <1>2. bs \in [1..n -> Seq(Byte)] /\ \A i \in 1..n : bs[i] = ps[i].bytes
    BY <1>1 DEF BytesOf
  <1> HIDE DEF bs
  <1>3. bs \in Seq(Seq(Byte)) /\ Len(bs) = n
    <2>1. bs \in Seq(Seq(Byte))
      <3>1. n \in Nat /\ bs \in [1..n -> Seq(Byte)]
        BY <1>1, <1>2, Zenon
      <3> HIDE DEF n
      <3> QED
        BY <3>1, SeqDef
    <2>2. DOMAIN bs = 1..n /\ DOMAIN bs = 1..Len(bs) /\ Len(bs) \in Nat
      BY <1>2, <2>1, LenProperties
    <2> QED
      BY <1>1, <2>1, <2>2
  <1>4. ASSUME NEW r \in [at : Nat, bytes : Seq(Byte)]
        PROVE  BytesOf(Append(ps, r)) = bs \o <<r.bytes>>
    <2> DEFINE qs == Append(ps, r)
               cs == BytesOf(qs)
               ds == bs \o <<r.bytes>>
               x == r.bytes
    <2>1. Len(qs) = n + 1 /\ qs[n + 1] = r /\ \A i \in 1..n : qs[i] = ps[i]
      BY <1>1
    <2> HIDE DEF qs, n
    <2>2. /\ DOMAIN cs = 1..n + 1 /\ \A i \in 1..n + 1 : cs[i] = qs[i].bytes
          /\ cs = [i \in 1..n + 1 |-> qs[i].bytes]
      BY <2>1 DEF BytesOf
    <2>3. x \in Seq(Byte)
      OBVIOUS
    <2>4. /\ ds \in Seq(Seq(Byte)) /\ Len(ds) = n + 1 /\ ds[n + 1] = r.bytes
          /\ \A i \in 1..n : ds[i] = bs[i]
      <3> HIDE DEF x
      <3>1. bs \o <<x>> = Append(bs, x)
        BY <1>3, <2>3, AppendIsConcat
      <3>2. /\ Append(bs, x) \in Seq(Seq(Byte)) /\ Len(Append(bs, x)) = n + 1
            /\ Append(bs, x)[n + 1] = x /\ \A i \in 1..n : Append(bs, x)[i] = bs[i]
        <4>1. /\ Append(bs, x) \in Seq(Seq(Byte)) /\ Len(Append(bs, x)) = Len(bs) + 1
              /\ Append(bs, x)[Len(bs) + 1] = x
              /\ \A i \in 1..Len(bs) : Append(bs, x)[i] = bs[i]
          BY <1>3, <2>3, AppendFacts, Zenon
        <4> QED
          BY <1>3, <4>1
      <3> QED
        BY <3>1, <3>2, Zenon DEF x
    <2>5. DOMAIN ds = 1..n + 1 /\ ds = [i \in 1..n + 1 |-> ds[i]]
      <3> HIDE DEF ds
      <3> QED
        BY <2>4
    <2>6. \A i \in 1..n + 1 : i \in 1..n \/ i = n + 1
      BY <1>1 DEF n
    <2> HIDE DEF cs, ds
    <2>7. \A i \in 1..n + 1 : cs[i] = ds[i]
      BY <1>2, <2>1, <2>2, <2>4, <2>6, Zenon
    <2>8. cs = [i \in 1..n + 1 |-> cs[i]]
      BY <2>2
    <2>9. cs = ds
      BY <2>5, <2>7, <2>8
    <2> QED
      BY <2>9 DEF cs, ds, qs
  <1> QED
    BY <1>3, <1>4, Zenon DEF bs

LEMMA PlaceFits ==
  ASSUME IInv
  PROVE  /\ Place(buffer) \in Nat /\ Place(buffer) <= Len(stream) /\ Len(stream) \in Nat
         /\ BufferLength(buffer) \in Nat /\ Place(buffer) + BufferLength(buffer) = Len(stream)
  <1>1. /\ Place(buffer) \in Nat /\ BufferLength(buffer) \in Nat /\ Len(stream) \in Nat
        /\ Place(buffer) + BufferLength(buffer) = Len(stream)
    BY BufferFacts, PlaceOf, Zenon
  <1> QED
    BY <1>1

\* A step that keeps the stream and returns the frames fs that come next.
LEMMA Advances ==
  ASSUME IInv, IInv', FramesInv, UNCHANGED <<config, stream, overflowed>>,
         NEW fs \in Seq(Seq(Byte)), BytesOf(packets') = BytesOf(packets) \o fs,
         Exact =>
            /\ Leads(config, stream, Place(buffer), Place(buffer'), fs)
            /\ Tried(config, stream, Place(buffer'), buffer'.scanned)
            /\ ~parsing' => At(config, stream)[Place(buffer') + 1] = <<>>
  PROVE  FramesInv'
  <1> DEFINE p == Place(buffer')
  <1>1. config' = config /\ stream' = stream /\ (Exact' => Exact)
    BY DEF Exact
  <1>2. p \in Nat /\ p <= Len(stream)
    <2>1. (/\ Place(buffer) \in Nat /\ Place(buffer) <= Len(stream) /\ Len(stream) \in Nat
           /\ BufferLength(buffer) \in Nat /\ Place(buffer) + BufferLength(buffer) = Len(stream))'
      BY PlaceFits, PTL
    <2> QED
      BY <1>1, <2>1, Zenon
  <1>3. Place(buffer) \in Nat /\ stream \in Seq(Byte) /\ BytesOf(packets) \in Seq(Seq(Byte))
    BY PlaceFits, BufferFacts, BytesFacts, Zenon
  <1> HIDE DEF p
  <1>4. ASSUME Exact
        PROVE  Leads(config, stream, 0, p, BytesOf(packets) \o fs)
    <2>1. Leads(config, stream, 0, Place(buffer), BytesOf(packets))
      BY <1>4, Zenon DEF FramesInv
    <2>2. Leads(config, stream, Place(buffer), p, fs)
      BY <1>4, Zenon DEF p
    <2>3. 0 \in Nat
      OBVIOUS
    <2> QED
      BY <1>2, <1>3, <2>1, <2>2, <2>3, LeadsThen, Zenon
  <1> QED
    BY <1>1, <1>4, Zenon DEF FramesInv, p

LEMMA NoneBegins ==
  ASSUME NEW c \in Configs, NEW s \in Seq(Byte), NEW a \in Nat, a <= Len(s)
  PROVE  Leads(c, s, a, a, <<>>)
  <1>1. a..a - 1 = {} /\ a <= a
    OBVIOUS
  <1> QED
    BY <1>1, LeadsSkips

\* A step that returns no packet, and leaves the bytes a frame cannot begin with.
LEMMA PassesOver ==
  ASSUME IInv, IInv', FramesInv, UNCHANGED <<config, packets, stream, overflowed>>,
         Exact =>
            /\ Leads(config, stream, Place(buffer), Place(buffer'), <<>>)
            /\ Tried(config, stream, Place(buffer'), buffer'.scanned)
            /\ ~parsing' => At(config, stream)[Place(buffer') + 1] = <<>>
  PROVE  FramesInv'
  <1>1. BytesOf(packets) \in Seq(Seq(Byte))
    BY BufferFacts, BytesFacts, Zenon
  <1>2. BytesOf(packets) \o <<>> = BytesOf(packets) /\ <<>> \in Seq(Seq(Byte))
    BY <1>1, ConcatEmptySeq, EmptySeq
  <1>3. BytesOf(packets') = BytesOf(packets) \o <<>>
    BY <1>2, Zenon
  <1> QED
    BY <1>2, <1>3, Advances, Zenon

\* What is left is too short for a frame.
LEMMA TooShort ==
  ASSUME IInv, NEW a \in Nat, a <= Len(stream), Len(stream) - a < Shortest(config)
  PROVE  At(config, stream)[a + 1] = <<>>
  <1>1. stream \in Seq(Byte) /\ Len(stream) \in Nat /\ Shortest(config) \in Nat
    BY BufferFacts, ShortestFacts, LenProperties
  <1> SUFFICES ASSUME NEW p \in a..Len(stream) - 1, NEW k \in 1..Len(stream) - p,
                      Ending(config, SubSeq(stream, p + 1, p + k))
               PROVE  FALSE
    BY <1>1, NoFramesLeft, Zenon
  <1>2. p \in Nat /\ k \in Nat /\ p + k <= Len(stream) /\ ~(k >= Shortest(config))
    BY <1>1
  <1>3. Len(SubSeq(stream, p + 1, p + k)) = k
    BY <1>1, <1>2, PieceFacts, Zenon
  <1>4. Len(SubSeq(stream, p + 1, p + k)) >= Shortest(config)
    BY Zenon DEF Ending, IsFrame, Ignored
  <1> QED
    BY <1>2, <1>3, <1>4, Zenon

LEMMA ShortestIsPositive ==
  ASSUME IInv, Verifiable(config)
  PROVE  Shortest(config) >= Len(config.header)
  <1> DEFINE h == Len(config.header)
             f == Len(config.footer)
             n == ChecksumLength(config.checksum)
  <1>1. h \in Nat /\ f \in Nat /\ n \in Nat /\ config.length \in Nat
    BY ConfigFacts, LengthFacts, LenProperties
  <1>2. CASE Strategy(config) = "fixed"
    <2>1. Shortest(config) = config.length /\ config.length > 0
      BY <1>1, <1>2, ShortestFacts, StrategyFacts
    <2>2. config.length >= h + n + f
      BY <2>1 DEF Verifiable
    <2> HIDE DEF h, n, f
    <2>3. config.length >= h
      BY <1>1, <2>2
    <2> QED
      BY <2>1, <2>3 DEF h
  <1>3. CASE Strategy(config) = "footer"
    <2>1. Shortest(config) = h + 1 + n + f
      BY <1>3, ShortestFacts
    <2> HIDE DEF n, f, h
    <2>2. h + 1 + n + f >= h
      BY <1>1
    <2> QED
      BY <2>1, <2>2 DEF h
  <1>4. CASE Strategy(config) = "sweep"
    <2>1. Shortest(config) = h + n
      BY <1>4, ShortestFacts
    <2> HIDE DEF n, h
    <2>2. h + n >= h
      BY <1>1
    <2> QED
      BY <2>1, <2>2 DEF h
  <1> QED
    BY <1>1, <1>2, <1>3, <1>4, StrategyFacts

\* The header is not at an index: no frame begins there.
LEMMA NoOccurrence ==
  ASSUME IInv, NEW b, Holds(b, stream), NEW i \in Nat, b.read <= i,
         i + Len(config.header) <= b.write, config.header # <<>>, ~Occurs(b, config.header, i)
  PROVE  Skipped(config, stream, b.base + i)
  <1> DEFINE l == Len(config.header)
             a == b.base + i
  <1>1. /\ b.base \in Nat /\ b.read \in Nat /\ b.write \in Nat /\ b.write <= MaxBufferSize
        /\ b.base + b.write = Len(stream) /\ Len(stream) \in Nat
    BY DEF Holds, Fits, Buffers
  <1>2. l \in Nat \ {0}
    BY ConfigFacts, EmptySeq, LenProperties
  <1>3. i + l <= b.write /\ i + l <= MaxBufferSize
    <2>1. i + l <= b.write /\ i + l \in Nat
      BY <1>2
    <2>2. b.write \in Nat /\ b.write <= MaxBufferSize
      BY <1>1
    <2> DEFINE x == i + l
    <2>3. x <= b.write /\ x \in Nat
      BY <2>1
    <2> HIDE DEF x
    <2>4. x <= MaxBufferSize
      BY <2>2, <2>3, SizeIsPositive
    <2> QED
      BY <2>1, <2>4, Zenon DEF x
  <1>4. PICK k \in 1..l : b.bytes[i + k - 1] # config.header[k]
    BY <1>3 DEF Occurs
  <1> HIDE DEF l
  <1>5. /\ i + k - 1 \in b.read..b.write - 1 /\ b.base + (i + k - 1) + 1 = a + k
        /\ a + l <= Len(stream) /\ a < Len(stream)
    BY <1>1, <1>2, <1>3
  <1>6. b.bytes[i + k - 1] = stream[b.base + (i + k - 1) + 1]
    BY <1>5, Zenon DEF Holds
  <1>7. stream[a + k] # config.header[k]
    BY <1>4, <1>5, <1>6
  <1> HIDE DEF a
  <1>8. NoHeader(config, stream, a)
    BY <1>5, <1>7, Zenon DEF NoHeader, l
  <1> QED
    BY <1>5, <1>8, Zenon DEF Skipped, a

\* No index of the buffer up to its end has the header.
LEMMA NoHeaderIndex ==
  ASSUME NEW b, Fits(b), config.header \in Seq(Byte), HeaderIndex(b) = -1
  PROVE  /\ config.header # <<>>
         /\ \A i \in Nat : b.read <= i /\ i + Len(config.header) <= b.write => ~Occurs(b, config.header, i)
  <1> DEFINE l == Len(config.header)
             hits == {i \in b.read..MaxBufferSize - 1 : Occurs(b, config.header, i)}
  <1>1. b.read \in Nat /\ b.write \in Nat /\ b.write <= MaxBufferSize
    BY DEF Fits, Buffers
  <1>2. config.header # <<>>
    BY <1>1 DEF HeaderIndex
  <1>3. l \in Nat \ {0}
    BY <1>2, EmptySeq, LenProperties
  <1>4. hits \in SUBSET Nat
    BY <1>1, SizeIsPositive
  <1>5. HeaderIndex(b) = IF hits = {} THEN -1
                         ELSE IF Least(hits) + l > b.write THEN -1 ELSE Least(hits)
    BY <1>2 DEF HeaderIndex, FindPatternIndex
  <1>6. ASSUME NEW i \in Nat, b.read <= i, i + l <= b.write, Occurs(b, config.header, i)
        PROVE  FALSE
    <2>1. i \in b.read..MaxBufferSize - 1
      <3>1. i + l <= b.write
        BY <1>6
      <3> HIDE DEF l
      <3> QED
        BY <1>1, <1>3, <1>6, <3>1, SizeIsPositive
    <2>2. i \in hits
      BY <1>6, <2>1
    <2> HIDE DEF hits
    <2>3. Least(hits) \in Nat /\ Least(hits) <= i
      BY <1>4, <2>2, LeastOf
    <2>4. ~(Least(hits) + l > b.write)
      <3>1. i + l <= b.write
        BY <1>6
      <3> HIDE DEF l
      <3> QED
        BY <1>1, <1>3, <2>3, <3>1
    <2>5. HeaderIndex(b) = Least(hits)
      BY <1>5, <2>2, <2>4, Zenon
    <2> QED
      BY <2>3, <2>5
  <1> QED
    BY <1>2, <1>6, Zenon

\* The index of a place between two indices of the buffer.
LEMMA IndexBelow ==
  ASSUME NEW base \in Nat, NEW read \in Nat, NEW r \in Nat,
         NEW p \in (base + read)..(base + r - 1)
  PROVE  p - base \in Nat /\ read <= p - base /\ p - base < r /\ base + (p - base) = p
  OBVIOUS

\* The bytes of the buffer up to an index, none of which a frame begins at.
LEMMA IndicesSkip ==
  ASSUME IInv, NEW b, Holds(b, stream), NEW r \in Nat, b.read <= r, r <= b.write,
         \A i \in Nat : b.read <= i /\ i < r => Skipped(config, stream, b.base + i)
  PROVE  Leads(config, stream, Place(b), b.base + r, <<>>)
  <1> DEFINE a == Place(b)
             d == b.base + r
  <1>1. /\ b.base \in Nat /\ b.read \in Nat /\ b.write \in Nat
        /\ b.base + b.write = Len(stream) /\ Len(stream) \in Nat
    BY DEF Holds, Fits, Buffers
  <1>2. config \in Configs /\ stream \in Seq(Byte)
    BY BufferFacts, ConfigFacts, Zenon
  <1>3. a = b.base + b.read
    BY DEF Place
  <1>4. a \in Nat /\ d \in Nat /\ a <= d /\ d <= Len(stream)
    BY <1>1, <1>3
  <1>5. ASSUME NEW p \in a..d - 1
        PROVE  Skipped(config, stream, p)
    <2> DEFINE i == p - b.base
    <2>1. p \in (b.base + b.read)..(b.base + r - 1)
      <3>1. p \in a..d - 1 /\ d = b.base + r
        BY <1>5, Zenon
      <3> HIDE DEF a, d
      <3> QED
        BY <1>1, <1>3, <3>1
    <2>2. /\ p - b.base \in Nat /\ b.read <= p - b.base /\ p - b.base < r
          /\ b.base + (p - b.base) = p
      BY <1>1, <2>1, IndexBelow
    <2> HIDE DEF a, d, i
    <2>3. i \in Nat /\ b.read <= i /\ i < r /\ b.base + i = p
      BY <2>2, Zenon DEF i
    <2>4. Skipped(config, stream, b.base + i)
      BY <2>3, Zenon
    <2> QED
      BY <2>3, <2>4, Zenon
  <1> HIDE DEF a, d
  <1>6. Leads(config, stream, a, d, <<>>)
    BY <1>2, <1>4, <1>5, LeadsSkips, Zenon
  <1> QED
    BY <1>6, Zenon DEF a, d

\* Before the header no frame begins.
LEMMA AlignedPlace ==
  ASSUME IInv, FramesInv, Exact, BufferLength(buffer) > 0, HeaderIndex(buffer) # -1
  PROVE  /\ Leads(config, stream, Place(buffer), Place(Aligned), <<>>)
         /\ Tried(config, stream, Place(Aligned), Aligned.scanned)
  <1> DEFINE h == HeaderIndex(buffer)
             b == Aligned
  <1>1. /\ Holds(buffer, stream) /\ Fits(buffer) /\ stream \in Seq(Byte) /\ config.header \in Seq(Byte)
        /\ config \in Configs
    BY BufferFacts, ConfigFacts, Zenon
  <1>2. /\ buffer.base \in Nat /\ buffer.read \in Nat /\ buffer.write \in Nat
        /\ buffer.base + buffer.write = Len(stream) /\ Len(stream) \in Nat
    BY <1>1 DEF Holds, Fits, Buffers
  <1>3. /\ Keeps(buffer, b) /\ Fits(b) /\ b.read = h /\ b.write = buffer.write
    BY AlignedFacts, Zenon
  <1>4. h \in Nat /\ buffer.read <= h
    BY <1>1, HeaderIndexFacts, Zenon
  <1>5. b.base = buffer.base
    BY <1>2, <1>3 DEF Keeps, Fits, Buffers
  <1>6. CASE h = buffer.read
    <2>1. b = buffer
      BY <1>2, <1>6 DEF Aligned
    <2> QED
      BY <1>1, <1>6, <2>1, PlaceFits, NoneBegins, Zenon DEF FramesInv
  <1>7. CASE h # buffer.read
    <2>1. /\ config.header # <<>> /\ h + Len(config.header) <= buffer.write
          /\ \A i \in Nat : buffer.read <= i /\ i < h => ~Occurs(buffer, config.header, i)
      BY <1>1, <1>7, HeaderIndexFacts, Zenon
    <2>2. b = [buffer EXCEPT !.read = h, !.scanned = 0]
      BY <1>2, <1>4, <1>7 DEF Aligned
    <2>3. b.scanned = 0
      BY <1>1, <2>2 DEF Fits, Buffers
    <2>4. Tried(config, stream, Place(b), b.scanned)
      <3>1. 1..0 = {}
        OBVIOUS
      <3> QED
        BY <2>3, <3>1 DEF Tried
    <2> HIDE DEF b, h
    <2>5. Place(b) = buffer.base + h
      BY <1>3, <1>5, Zenon DEF Place
    <2>6. ASSUME NEW i \in Nat, buffer.read <= i, i < h
          PROVE  Skipped(config, stream, buffer.base + i)
      <3> DEFINE l == Len(config.header)
      <3>1. i + l <= buffer.write
        <4>1. l \in Nat /\ h + l <= buffer.write
          BY <1>1, <2>1, LenProperties
        <4> HIDE DEF l
        <4> QED
          BY <1>2, <1>4, <2>6, <4>1
      <3>2. ~Occurs(buffer, config.header, i)
        BY <2>1, <2>6, Zenon
      <3> QED
        BY <1>1, <2>1, <2>6, <3>1, <3>2, NoOccurrence, Zenon
    <2>7. h <= buffer.write
      <3> DEFINE l == Len(config.header)
      <3>1. l \in Nat /\ h + l <= buffer.write
        BY <1>1, <2>1, LenProperties
      <3> HIDE DEF l
      <3> QED
        BY <1>2, <1>4, <3>1
    <2>8. Leads(config, stream, Place(buffer), buffer.base + h, <<>>)
      BY <1>1, <1>4, <2>6, <2>7, IndicesSkip, Zenon
    <2> QED
      BY <2>4, <2>5, <2>8, Zenon DEF b
  <1> QED
    BY <1>6, <1>7

LEMMA MissingIndex ==
  ASSUME NEW x \in Nat, NEW n \in Nat, NEW l \in Nat, l > 0, l <= n
  PROVE  /\ x + n - (l - 1) \in Nat /\ x + n - (l - 1) + l = x + n + 1
         /\ x <= x + n - (l - 1) /\ x + n - (l - 1) <= x + n
  OBVIOUS

LEMMA MissingFrames ==
  ASSUME IInv, IInv', FramesInv, Verifiable(config), HeaderMissing
  PROVE  FramesInv'
  <1> DEFINE l == Len(config.header)
             n == BufferLength(buffer)
             r == buffer.read + n - (l - 1)
             a == Place(buffer)
  <1>1. /\ Holds(buffer, stream) /\ Fits(buffer) /\ stream \in Seq(Byte) /\ config.header \in Seq(Byte)
        /\ config \in Configs
    BY BufferFacts, ConfigFacts, Zenon
  <1>2. /\ buffer.base \in Nat /\ buffer.read \in Nat /\ buffer.write \in Nat
        /\ buffer.base + buffer.write = Len(stream) /\ Len(stream) \in Nat
        /\ buffer.read <= buffer.write
    BY <1>1 DEF Holds, Fits, Buffers
  <1>3. n = buffer.write - buffer.read /\ a = buffer.base + buffer.read
    BY DEF BufferLength, Place
  <1>4. /\ config.header # <<>>
        /\ \A i \in Nat : buffer.read <= i /\ i + l <= buffer.write => ~Occurs(buffer, config.header, i)
    BY <1>1, NoHeaderIndex, Zenon DEF HeaderMissing
  <1>5. l \in Nat \ {0}
    BY <1>1, <1>4, EmptySeq, LenProperties
  <1>6. Shortest(config) \in Nat /\ l <= Shortest(config)
    BY <1>5, ShortestIsPositive, ShortestFacts
  <1>7. buffer' = IF n < l THEN buffer ELSE [buffer EXCEPT !.read = r, !.scanned = 0]
    BY DEF HeaderMissing
  <1>8. ~parsing' /\ UNCHANGED <<config, packets, stream, overflowed>>
    BY DEF HeaderMissing
  <1> DEFINE s == Shortest(config)
  <1>9. CASE n < l
    <2>1. buffer' = buffer
      BY <1>7, <1>9
    <2>2. a \in Nat /\ a <= Len(stream) /\ Len(stream) - a < s
      <3> HIDE DEF l, n, a, s
      <3>1. l <= s /\ s \in Nat
        BY <1>6 DEF s
      <3> QED
        BY <1>2, <1>3, <1>5, <1>9, <3>1
    <2>3. At(config, stream)[a + 1] = <<>>
      BY <2>2, TooShort, Zenon
    <2>4. Leads(config, stream, a, a, <<>>)
      BY <1>1, <2>2, NoneBegins, Zenon
    <2> QED
      BY <1>8, <2>1, <2>3, <2>4, PassesOver, Zenon DEF FramesInv
  <1>10. CASE ~(n < l)
    <2>1. buffer' = SkipTo(buffer, r, 0)
      BY <1>7, <1>10 DEF SkipTo
    <2>2. r \in buffer.read..buffer.write /\ r \in Nat /\ r + l = buffer.write + 1
      <3>1. l \in Nat /\ l > 0 /\ n \in Nat /\ buffer.read + n = buffer.write
        BY <1>2, <1>3, <1>5
      <3> HIDE DEF l, n
      <3>2. l <= n
        BY <1>10, <3>1
      <3>3. r \in Nat /\ r + l = buffer.read + n + 1 /\ buffer.read <= r /\ r <= buffer.read + n
        BY <1>2, <3>1, <3>2, MissingIndex, Zenon
      <3> HIDE DEF r
      <3>4. r + l = buffer.write + 1 /\ r <= buffer.write
        BY <3>1, <3>3, Zenon
      <3> QED
        BY <1>2, <3>3, <3>4
    <2> DEFINE d == buffer.base + r
    <2>3. d \in Nat /\ d <= Len(stream) /\ Len(stream) - d < s
      <3> HIDE DEF l, n, r, s
      <3>1. l <= s /\ s \in Nat
        BY <1>6 DEF s
      <3> QED
        BY <1>2, <1>5, <2>2, <3>1
    <2> HIDE DEF r, d, s
    <2>4. buffer'.base = buffer.base /\ buffer'.read = r /\ buffer'.scanned = 0
      BY <1>1, <2>1, <2>2, SkipKeeps
    <2>5. Place(buffer') = d
      BY <2>4 DEF Place, d
    <2>6. At(config, stream)[d + 1] = <<>>
      BY <2>3, TooShort, Zenon DEF s
    <2>7. ASSUME NEW i \in Nat, buffer.read <= i, i < r
          PROVE  Skipped(config, stream, buffer.base + i)
      <3>1. i + l <= buffer.write
        <4> HIDE DEF l
        <4> QED
          BY <1>2, <1>5, <2>2, <2>7
      <3>2. ~Occurs(buffer, config.header, i)
        BY <1>4, <2>7, <3>1, Zenon
      <3> QED
        BY <1>1, <1>4, <2>7, <3>1, <3>2, NoOccurrence, Zenon
    <2>8. buffer.read <= r /\ r <= buffer.write
      BY <1>2, <2>2
    <2>9. Leads(config, stream, a, d, <<>>)
      BY <1>1, <2>2, <2>7, <2>8, IndicesSkip, Zenon DEF d
    <2>10. Tried(config, stream, d, 0)
      <3>1. 1..0 = {}
        OBVIOUS
      <3> QED
        BY <3>1 DEF Tried
    <2> QED
      BY <1>8, <2>4, <2>5, <2>6, <2>9, <2>10, PassesOver, Zenon
  <1> QED
    BY <1>9, <1>10

LEMMA ReturnFrames ==
  ASSUME IInv, IInv', FramesInv, Return
  PROVE  FramesInv'
  <1>1. BufferLength(buffer) = 0 /\ UNCHANGED <<config, buffer, packets, stream, overflowed>>
    BY DEF Return
  <1>2. Holds(buffer, stream) /\ stream \in Seq(Byte) /\ config \in Configs
    BY BufferFacts, ConfigFacts, Zenon
  <1>3. Place(buffer) \in Nat /\ Len(stream) \in Nat /\ Place(buffer) + BufferLength(buffer) = Len(stream)
    BY <1>2, PlaceOf, Zenon
  <1>4. Place(buffer) = Len(stream) /\ Place(buffer) <= Len(stream)
    BY <1>1, <1>3
  <1>5. At(config, stream)[Place(buffer) + 1] = <<>>
    BY <1>2, <1>3, <1>4, PlaceFacts, Zenon
  <1>6. Leads(config, stream, Place(buffer), Place(buffer), <<>>)
    BY <1>2, <1>3, <1>4, NoneBegins, Zenon
  <1> QED
    BY <1>1, <1>5, <1>6, PassesOver, Zenon DEF FramesInv

\* The packet is the frame that comes next, after bytes none begins with.
LEMMA EmitsNext ==
  ASSUME IInv, IInv', FramesInv, PacketsAreFrames', parsing,
         NEW b, Holds(b, stream), NEW from \in Nat, NEW n \in Nat \ {0},
         b.read <= from, from + n <= b.write,
         Emit(b, from, n), UNCHANGED <<config, stream, overflowed>>,
         Strategy(config) = "sweep" => b.scanned = 0,
         Exact =>
            /\ Leads(config, stream, Place(buffer), b.base + from, <<>>)
            /\ \A k \in 1..n - 1 :
                  ~Ending(config, SubSeq(stream, b.base + from + 1, b.base + from + k))
  PROVE  FramesInv'
  <1> DEFINE a == b.base + from
             f == SubSeq(stream, a + 1, a + n)
             m == from - b.read + n
  <1>1. /\ b.base \in Nat /\ b.read \in Nat /\ b.write \in Nat /\ b.base + b.write = Len(stream)
        /\ Len(stream) \in Nat /\ Fits(b)
    BY DEF Holds, Fits, Buffers
  <1>2. stream \in Seq(Byte) /\ packets \in Seq([at : Nat, bytes : Seq(Byte)]) /\ config' = config
    BY BufferFacts
  <1>3. f = Slice(b, from, n) /\ f \in Seq(Byte)
    <2>1. n \in Nat /\ b.read <= from /\ from + n <= b.write
      OBVIOUS
    <2>2. /\ Slice(b, from, n) = SubSeq(stream, b.base + from + 1, b.base + from + n)
          /\ Slice(b, from, n) \in Seq(Byte)
      BY <1>2, <2>1, SliceIsPiece
    <2> QED
      BY <2>2, Zenon
  <1>4. a \in Nat /\ n \in 1..Len(stream) - a /\ a + n \in Nat /\ a + n <= Len(stream)
    <2>1. from + n <= b.write
      OBVIOUS
    <2> QED
      BY <1>1, <2>1
  <1>5. m \in Nat /\ m <= BufferLength(b) /\ b.base + b.read + m = a + n
    <2>1. from + n <= b.write /\ b.read <= from
      OBVIOUS
    <2> QED
      BY <1>1, <2>1 DEF BufferLength
  <1> HIDE DEF m
  <1>6. buffer' = ConsumeBytes(b, m) /\ parsing' = parsing
    BY DEF Emit, m
  <1> HIDE DEF a
  <1>7. Place(buffer') = a + n /\ buffer'.scanned \in {b.scanned, 0}
    <2>1. /\ ConsumeBytes(b, m).base + ConsumeBytes(b, m).read = b.base + b.read + m
          /\ ConsumeBytes(b, m).scanned \in {b.scanned, 0}
      BY <1>1, <1>5, ConsumeKeeps, Zenon
    <2> QED
      BY <1>5, <1>6, <2>1, Zenon DEF Place
  <1>8. Tried(config, stream, Place(buffer'), buffer'.scanned)
    <2>1. Strategy(config) = "sweep" => buffer'.scanned = 0
      BY <1>7
    <2>2. 1..0 = {}
      OBVIOUS
    <2> QED
      BY <2>1, <2>2 DEF Tried
  <1> DEFINE r == [at |-> b.base + from, bytes |-> Slice(b, from, n)]
  <1>9. packets' = Append(packets, r)
    BY DEF Emit
  <1>10. r \in [at : Nat, bytes : Seq(Byte)] /\ r.bytes = f
    <2>1. b.base + from \in Nat
      BY <1>1
    <2>2. Slice(b, from, n) \in Seq(Byte)
      BY <1>3, Zenon
    <2> QED
      BY <1>3, <2>1, <2>2
  <1> HIDE DEF r
  <1>11. BytesOf(packets') = BytesOf(packets) \o <<f>>
    BY <1>2, <1>9, <1>10, BytesFacts, Zenon
  <1>12. IsFrame(config, f)
    <2>1. Len(packets') = Len(packets) + 1 /\ packets'[Len(packets) + 1] = r /\ Len(packets) \in Nat
      BY <1>2, <1>9, <1>10, AppendProperties, LenProperties
    <2>2. Len(packets) + 1 \in 1..Len(packets')
      BY <2>1
    <2>3. IsFrame(config, packets'[Len(packets) + 1].bytes)
      BY <1>2, <2>2, Zenon DEF PacketsAreFrames
    <2> QED
      BY <1>10, <2>1, <2>3, Zenon
  <1> HIDE DEF f
  <1>13. <<f>> \in Seq(Seq(Byte)) /\ <<>> \in Seq(Seq(Byte)) /\ <<>> \o <<f>> = <<f>>
    <2>1. <<f>> \in Seq(Seq(Byte)) /\ <<>> \in Seq(Seq(Byte))
      BY <1>3
    <2> QED
      BY <2>1, ConcatEmptySeq
  <1>14. ASSUME Exact
         PROVE  Leads(config, stream, Place(buffer), a + n, <<f>>)
    <2>1. Leads(config, stream, Place(buffer), a, <<>>)
      BY <1>14, Zenon DEF a
    <2>2. \A k \in 1..n - 1 : ~Ending(config, SubSeq(stream, a + 1, a + k))
      BY <1>14, Zenon DEF a
    <2>3. Ending(config, SubSeq(stream, a + 1, a + n))
      BY <1>12, Zenon DEF Ending, f
    <2>4. Leads(config, stream, a, a + n, Own(config, SubSeq(stream, a + 1, a + n)))
      BY <1>2, <1>4, <2>2, <2>3, LeadsFrame, Zenon
    <2>5. Own(config, SubSeq(stream, a + 1, a + n)) = <<f>>
      BY <1>12, Zenon DEF Own, f
    <2>6. Leads(config, stream, a, a + n, <<f>>)
      BY <2>4, <2>5, Zenon
    <2>7. Leads(config, stream, Place(buffer), a + n, <<>> \o <<f>>)
      BY <1>2, <1>4, <1>13, <2>1, <2>6, PlaceFits, LeadsThen, Zenon
    <2> QED
      BY <1>13, <2>7, Zenon
  <1> QED
    BY <1>6, <1>7, <1>8, <1>11, <1>13, <1>14, Advances, Zenon

\* The first byte of the buffer cannot begin a frame, and goes.
LEMMA SkipsByte ==
  ASSUME IInv, IInv', FramesInv, parsing, NEW b, Holds(b, stream), BufferLength(b) > 0,
         ~ValidHeader(b, b.read), GoOn([ConsumeBytes(b, 1) EXCEPT !.scanned = 0]),
         UNCHANGED <<config, stream, overflowed>>,
         Exact => Leads(config, stream, Place(buffer), Place(b), <<>>)
  PROVE  FramesInv'
  <1> DEFINE a == Place(b)
             d == ConsumeBytes(b, 1)
  <1>1. /\ a \in Nat /\ BufferLength(b) \in Nat /\ Len(stream) \in Nat
        /\ a + BufferLength(b) = Len(stream)
        /\ \A k \in 1..BufferLength(b) : b.bytes[b.read + k - 1] = stream[a + k]
    BY BufferFacts, PlaceOf, Zenon
  <1>2. b.read \in Nat /\ Fits(b) /\ config \in Configs /\ stream \in Seq(Byte)
    BY BufferFacts, ConfigFacts DEF Holds, Fits, Buffers
  <1>3. 1 \in 1..BufferLength(b) /\ 1 <= BufferLength(b) /\ b.read + 1 - 1 = b.read /\ 1 \in Nat
    BY <1>1, <1>2
  <1>4. b.bytes[b.read] = stream[a + 1]
    BY <1>1, <1>3, Zenon
  <1>5. config.valid # {} /\ stream[a + 1] \notin config.valid
    BY <1>4, Zenon DEF ValidHeader
  <1>6. a < Len(stream) /\ a + 1 <= Len(stream) /\ a + 1 \in Nat /\ a <= a + 1
    <2>1. BufferLength(b) > 0
      OBVIOUS
    <2> HIDE DEF a
    <2> QED
      BY <1>1, <2>1
  <1> HIDE DEF a
  <1>7. Skipped(config, stream, a)
    BY <1>5, <1>6, Zenon DEF Skipped, NoHeader
  <1>8. Leads(config, stream, a, a + 1, <<>>)
    <2>1. a \in Nat
      BY <1>1, Zenon DEF a
    <2> DEFINE e == a + 1
    <2>2. \A p \in a..e - 1 : p = a
      BY <2>1
    <2>3. e \in Nat /\ a <= e /\ e <= Len(stream)
      BY <1>6, Zenon
    <2> HIDE DEF e
    <2>4. \A p \in a..e - 1 : Skipped(config, stream, p)
      BY <1>7, <2>2, Zenon
    <2>5. Leads(config, stream, a, e, <<>>)
      BY <1>2, <2>1, <2>3, <2>4, LeadsSkips, Zenon
    <2> QED
      BY <2>5, Zenon DEF e
  <1>9. Fits(d) /\ d.base + d.read = b.base + b.read + 1
    BY <1>2, <1>3, ConsumeKeeps, Zenon DEF Keeps
  <1>10. buffer' = [d EXCEPT !.scanned = 0] /\ packets' = packets /\ parsing' = parsing
    BY DEF GoOn
  <1> HIDE DEF d
  <1>11. buffer'.base = d.base /\ buffer'.read = d.read /\ buffer'.scanned = 0
    BY <1>9, <1>10, ScannedKeeps
  <1>12. Place(buffer') = a + 1
    BY <1>9, <1>11, Zenon DEF Place, a
  <1>13. Tried(config, stream, Place(buffer'), buffer'.scanned)
    <2>1. 1..0 = {}
      OBVIOUS
    <2> QED
      BY <1>11, <2>1 DEF Tried
  <1>14. ASSUME Exact
         PROVE  Leads(config, stream, Place(buffer), a + 1, <<>>)
    <2>1. <<>> \in Seq(Seq(Byte)) /\ <<>> \o <<>> = <<>>
      BY ConcatEmptySeq
    <2>2. a \in Nat /\ Place(buffer) \in Nat
      BY <1>1, PlaceFits, Zenon DEF a
    <2>3. Leads(config, stream, Place(buffer), a, <<>>)
      BY <1>14, Zenon DEF a
    <2>4. Leads(config, stream, Place(buffer), a + 1, <<>> \o <<>>)
      BY <1>2, <1>6, <1>8, <2>1, <2>2, <2>3, LeadsThen, Zenon
    <2> QED
      BY <2>1, <2>4, Zenon
  <1> QED
    BY <1>10, <1>12, <1>13, <1>14, PassesOver, Zenon

LEMMA NoneJoin ==
  ASSUME IInv, NEW a \in Nat, NEW b \in Nat, NEW d \in Nat, d <= Len(stream),
         Leads(config, stream, a, b, <<>>), Leads(config, stream, b, d, <<>>)
  PROVE  Leads(config, stream, a, d, <<>>)
  <1>1. stream \in Seq(Byte)
    BY BufferFacts, Zenon
  <1>2. <<>> \in Seq(Seq(Byte)) /\ <<>> \o <<>> = <<>>
    BY ConcatEmptySeq
  <1>3. Leads(config, stream, a, d, <<>> \o <<>>)
    BY <1>1, <1>2, LeadsThen, Zenon
  <1> QED
    BY <1>2, <1>3, Zenon

\* What stays in the buffer is too short for a frame.
LEMMA Stops ==
  ASSUME IInv, IInv', FramesInv, UNCHANGED <<config, packets, stream, overflowed>>,
         BufferLength(buffer') < Shortest(config),
         Exact =>
            /\ Leads(config, stream, Place(buffer), Place(buffer'), <<>>)
            /\ Tried(config, stream, Place(buffer'), buffer'.scanned)
  PROVE  FramesInv'
  <1> DEFINE a == Place(buffer')
             n == BufferLength(buffer')
  <1>1. (/\ Place(buffer) \in Nat /\ BufferLength(buffer) \in Nat /\ Len(stream) \in Nat
         /\ Place(buffer) + BufferLength(buffer) = Len(stream))'
    <2>1. (/\ Place(buffer) \in Nat /\ Place(buffer) <= Len(stream) /\ Len(stream) \in Nat
           /\ BufferLength(buffer) \in Nat /\ Place(buffer) + BufferLength(buffer) = Len(stream))'
      BY PlaceFits, PTL
    <2> QED
      BY <2>1, Zenon
  <1>2. stream' = stream
    OBVIOUS
  <1>3. a \in Nat /\ n \in Nat /\ Len(stream) \in Nat /\ a + n = Len(stream) /\ n < Shortest(config)
    BY <1>1, <1>2, Zenon
  <1>4. Shortest(config) \in Nat
    BY ShortestFacts
  <1> HIDE DEF a, n
  <1>5. a <= Len(stream) /\ Len(stream) - a < Shortest(config)
    BY <1>3, <1>4
  <1>6. At(config, stream)[a + 1] = <<>>
    BY <1>3, <1>5, TooShort, Zenon
  <1> QED
    BY <1>6, PassesOver, Zenon DEF a

\* Where a window of the fixed length is not accepted no frame begins.
LEMMA WindowSkipped ==
  ASSUME IInv, Verifiable(config), Strategy(config) = "fixed", NEW b, Holds(b, stream),
         NEW i \in Nat, b.read <= i, i + config.length <= b.write,
         ~(ValidHeader(b, i) /\ WindowOk(Slice(b, i, config.length)))
  PROVE  Skipped(config, stream, b.base + i)
  <1> DEFINE len == config.length
             a == b.base + i
  <1>1. /\ b.base \in Nat /\ b.read \in Nat /\ b.write \in Nat /\ b.base + b.write = Len(stream)
        /\ Len(stream) \in Nat /\ stream \in Seq(Byte)
    BY BufferFacts DEF Holds, Fits, Buffers
  <1>2. len \in Nat /\ len > 0
    BY ConfigFacts, StrategyFacts
  <1>3. i + len <= b.write /\ b.read <= i
    OBVIOUS
  <1> HIDE DEF len
  <1>4. i \in b.read..b.write - 1 /\ a < Len(stream) /\ a + len <= Len(stream)
    BY <1>1, <1>2, <1>3
  <1>5. CASE ~ValidHeader(b, i)
    <2>1. b.bytes[i] = stream[a + 1]
      BY <1>4, Zenon DEF Holds
    <2>2. config.valid # {} /\ stream[a + 1] \notin config.valid
      BY <1>5, <2>1, Zenon DEF ValidHeader
    <2> QED
      BY <1>4, <2>2, Zenon DEF Skipped, NoHeader
  <1>6. CASE ~WindowOk(Slice(b, i, len))
    <2>1. Slice(b, i, len) = SubSeq(stream, a + 1, a + len)
      BY <1>1, <1>2, <1>3, SliceIsPiece
    <2>2. ~IsFrame(config, Slice(b, i, len))
      BY <1>2, <1>6, FrameIsWindow, Zenon DEF len
    <2> HIDE DEF a
    <2>3. NoWindow(config, stream, a)
      BY <1>4, <2>1, <2>2, Zenon DEF NoWindow, len
    <2> QED
      BY <1>4, <2>3, Zenon DEF Skipped, a
  <1> QED
    BY <1>5, <1>6, Zenon DEF len

LEMMA RoomBelow ==
  ASSUME NEW r \in Nat, NEW len \in Nat, len > 0, NEW w \in Nat, r + len = w + 1
  PROVE  r <= w /\ \A i \in Nat : i < r => i + len <= w
  OBVIOUS

LEMMA ShorterThanFixed ==
  ASSUME NEW c, NEW s \in Seq(Byte), NEW a \in Nat, NEW n \in Nat, a + n <= Len(s),
         Strategy(c) = "fixed", n # c.length
  PROVE  ~Ending(c, SubSeq(s, a + 1, a + n))
  <1>1. Len(SubSeq(s, a + 1, a + n)) = n
    BY PieceFacts, Zenon
  <1>2. Strategy(c) # "footer"
    OBVIOUS
  <1> QED
    BY <1>1, <1>2, Zenon DEF Ending, IsFrame, Ignored

\* Strategy A passes over windows that are no frames and returns the first that is.
LEMMA FixedKeepsFrames ==
  ASSUME IInv, IInv', FramesInv, PacketsAreFrames', Verifiable(config), FixedStep
  PROVE  FramesInv'
  <1> DEFINE b == Aligned
             len == config.length
             windows == b.read .. b.write - len
             hits == {i \in windows : ValidHeader(b, i) /\ WindowOk(Slice(b, i, len))}
             h == Least(hits)
             m == BufferLength(b) - len + 1
  <1>1. /\ Fits(b) /\ Holds(b, stream) /\ Strategy(config) = "fixed" /\ parsing
        /\ UNCHANGED <<config, stream, overflowed>>
    BY AlignedFacts, AlignedHeader DEF FixedStep, Iterates
  <1>2. len \in Nat /\ len > 0 /\ Shortest(config) = len
    BY <1>1, ConfigFacts, StrategyFacts, ShortestFacts
  <1>3. ASSUME Exact
        PROVE  Leads(config, stream, Place(buffer), Place(b), <<>>)
    BY <1>3, AlignedPlace DEF FixedStep, Iterates
  <1>4. \/ BufferLength(b) < len /\ Wait(b)
        \/ BufferLength(b) >= len /\ hits # {} /\ Emit(b, h, len)
        \/ BufferLength(b) >= len /\ hits = {} /\ Wait(ConsumeBytes(b, m))
    BY DEF FixedStep
  <1> HIDE DEF b
  <1>5. /\ b.base \in Nat /\ b.read \in Nat /\ b.write \in Nat /\ b.read <= b.write
        /\ BufferLength(b) = b.write - b.read /\ Place(b) = b.base + b.read
        /\ b.base + b.write = Len(stream) /\ Len(stream) \in Nat /\ stream \in Seq(Byte)
    BY <1>1, BufferFacts DEF Holds, Fits, Buffers, BufferLength, Place
  <1>6. Place(buffer) \in Nat /\ Place(b) \in Nat
    BY <1>5, PlaceFits
  <1>7. Tried(config, stream, Place(buffer'), buffer'.scanned)
    BY <1>1 DEF Tried
  <1>8. CASE BufferLength(b) < len /\ Wait(b)
    <2>1. buffer' = b /\ packets' = packets
      BY <1>8 DEF Wait
    <2> QED
      BY <1>1, <1>2, <1>3, <1>7, <1>8, <2>1, Stops, Zenon
  <1>9. ASSUME NEW r \in Nat, b.read <= r, r <= b.write, Exact,
               \A i \in Nat : b.read <= i /\ i < r => i + len <= b.write /\ i \notin hits
        PROVE  Leads(config, stream, Place(buffer), b.base + r, <<>>)
    <2>1. ASSUME NEW i \in Nat, b.read <= i, i < r
          PROVE  Skipped(config, stream, b.base + i)
      <3>1. i + len <= b.write /\ i \notin hits
        BY <1>9, <2>1, Zenon
      <3>2. i \in windows
        BY <1>2, <1>5, <2>1, <3>1
      <3>3. ~(ValidHeader(b, i) /\ WindowOk(Slice(b, i, len)))
        BY <3>1, <3>2, Zenon
      <3> QED
        BY <1>1, <2>1, <3>1, <3>3, WindowSkipped, Zenon
    <2>2. Leads(config, stream, Place(b), b.base + r, <<>>)
      BY <1>1, <1>9, <2>1, IndicesSkip, Zenon
    <2>3. b.base + r \in Nat /\ b.base + r <= Len(stream)
      BY <1>5, <1>9
    <2> QED
      BY <1>3, <1>6, <1>9, <2>2, <2>3, NoneJoin, Zenon
  <1>10. CASE BufferLength(b) >= len /\ hits # {} /\ Emit(b, h, len)
    <2>1. hits \in SUBSET Nat /\ \A i \in hits : b.read <= i /\ i + len <= b.write
      BY <1>2, <1>5
    <2> HIDE DEF hits
    <2>2. h \in hits /\ \A i \in hits : h <= i
      BY <1>10, <2>1, LeastOf, Zenon
    <2>3. h \in Nat /\ b.read <= h /\ h + len <= b.write
      BY <2>1, <2>2, Zenon
    <2>4. \A i \in Nat : i < h => i \notin hits
      <3>1. \A i \in Nat : i < h => ~(h <= i)
        BY <2>3
      <3> QED
        BY <2>2, <3>1, Zenon
    <2>5. Emit(b, h, len)
      BY <1>10
    <2> HIDE DEF h
    <2>6. h <= b.write /\ \A i \in Nat : i < h => i + len <= b.write
      <3>1. len \in Nat /\ b.write \in Nat
        BY <1>2, <1>5
      <3>2. h \in Nat /\ h + len <= b.write
        BY <2>3, Zenon
      <3> HIDE DEF len
      <3> QED
        BY <3>1, <3>2
    <2>7. ASSUME Exact
          PROVE  Leads(config, stream, Place(buffer), b.base + h, <<>>)
      BY <1>9, <2>3, <2>4, <2>6, <2>7, Zenon
    <2>8. \A k \in 1..len - 1 :
             ~Ending(config, SubSeq(stream, b.base + h + 1, b.base + h + k))
      <3>1. b.base + h \in Nat /\ \A k \in 1..len - 1 : k \in Nat /\ b.base + h + k <= Len(stream) /\ k # len
        <4>1. len \in Nat \ {0} /\ b.base \in Nat /\ b.write \in Nat /\ b.base + b.write = Len(stream)
          BY <1>2, <1>5
        <4>2. h \in Nat /\ h + len <= b.write
          BY <2>3, Zenon
        <4> HIDE DEF len
        <4> QED
          BY <4>1, <4>2
      <3> QED
        BY <1>1, <1>5, <3>1, ShorterThanFixed, Zenon
    <2>9. len \in Nat \ {0} /\ (Strategy(config) = "sweep" => b.scanned = 0)
      BY <1>1, <1>2
    <2> QED
      BY <1>1, <2>3, <2>5, <2>7, <2>8, <2>9, EmitsNext, Zenon
  <1>11. CASE BufferLength(b) >= len /\ hits = {} /\ Wait(ConsumeBytes(b, m))
    <2> DEFINE rest == ConsumeBytes(b, m)
               r == b.read + m
    <2>1. /\ m \in Nat /\ m <= BufferLength(b) /\ m + len = BufferLength(b) + 1
          /\ r \in Nat /\ r + len = b.write + 1
      <3> DEFINE n == BufferLength(b)
      <3>1. n \in Nat /\ b.read + n = b.write /\ len <= n
        BY <1>2, <1>5, <1>11
      <3> HIDE DEF len, n
      <3>2. n - len + 1 \in Nat /\ n - len + 1 <= n /\ n - len + 1 + len = n + 1
        BY <1>2, <3>1
      <3> HIDE DEF m
      <3>3. m \in Nat /\ m <= n /\ m + len = n + 1
        BY <3>2, Zenon DEF m, n
      <3>4. b.read + m \in Nat /\ b.read + m + len = b.write + 1
        <4>1. b.read \in Nat /\ b.write \in Nat /\ len \in Nat
          BY <1>2, <1>5
        <4> QED
          BY <3>1, <3>3, <4>1
      <3> QED
        BY <3>3, <3>4, Zenon DEF n
    <2> HIDE DEF m
    <2>2. /\ BufferLength(rest) = IF m >= BufferLength(b) THEN 0 ELSE BufferLength(b) - m
          /\ rest.base + rest.read = b.base + b.read + m
      BY <1>1, <2>1, ConsumeKeeps
    <2>3. buffer' = rest /\ packets' = packets
      BY <1>11 DEF Wait
    <2> HIDE DEF rest
    <2>4. BufferLength(buffer') < len
      <3> DEFINE n == BufferLength(b)
      <3>1. n \in Nat /\ n = b.write - b.read
        BY <1>5
      <3> HIDE DEF n, len
      <3>2. BufferLength(rest) = IF m >= n THEN 0 ELSE n - m
        BY <2>2, Zenon DEF n
      <3>3. m + len = n + 1 /\ m <= n /\ m \in Nat
        BY <2>1, Zenon DEF n
      <3> QED
        BY <1>2, <2>3, <3>1, <3>2, <3>3
    <2>5. Place(buffer') = b.base + r
      BY <1>5, <2>1, <2>2, <2>3 DEF Place
    <2>6. b.read <= r /\ r <= b.write /\ \A i \in Nat : i < r => i + len <= b.write
      <3> HIDE DEF r, len
      <3>1. b.read <= r
        BY <1>5, <2>1 DEF r
      <3>2. len \in Nat /\ len > 0 /\ b.write \in Nat
        BY <1>2, <1>5
      <3>3. r \in Nat /\ r + len = b.write + 1
        BY <2>1, Zenon
      <3> QED
        BY <3>1, <3>2, <3>3, RoomBelow, Zenon
    <2>7. ASSUME Exact
          PROVE  Leads(config, stream, Place(buffer), Place(buffer'), <<>>)
      <3> HIDE DEF r
      <3>1. Leads(config, stream, Place(buffer), b.base + r, <<>>)
        BY <1>9, <1>11, <2>1, <2>6, <2>7, Zenon
      <3> QED
        BY <2>5, <3>1, Zenon
    <2> QED
      BY <1>1, <1>2, <1>7, <2>3, <2>4, <2>7, Stops, Zenon
  <1> QED
    BY <1>4, <1>8, <1>10, <1>11, Zenon

\* With its header and a valid byte after the offset the buffer begins like a frame.
LEMMA BeginsHere ==
  ASSUME IInv, NEW b, Holds(b, stream),
         \A i \in 1..Len(config.header) : b.bytes[b.read + i - 1] = config.header[i],
         ValidHeader(b, b.read), NEW k \in 1..BufferLength(b), Len(config.header) <= k
  PROVE  Begins(config, SubSeq(stream, Place(b) + 1, Place(b) + k))
  <1> DEFINE a == Place(b)
             f == SubSeq(stream, a + 1, a + k)
             h == config.header
  <1>1. stream \in Seq(Byte) /\ h \in Seq(Byte) /\ Len(h) \in Nat
    BY BufferFacts, ConfigFacts, LenProperties
  <1>2. /\ a \in Nat /\ BufferLength(b) \in Nat /\ Len(stream) \in Nat
        /\ a + BufferLength(b) = Len(stream)
        /\ \A i \in 1..BufferLength(b) : b.bytes[b.read + i - 1] = stream[a + i]
    BY <1>1, PlaceOf, Zenon
  <1> HIDE DEF a
  <1>3. k \in Nat /\ k >= 1 /\ a + k <= Len(stream) /\ b.read + 1 - 1 = b.read
    <2>1. b.read \in Nat
      BY DEF Holds, Fits, Buffers
    <2> QED
      BY <1>2, <2>1
  <1>4. f \in Seq(Byte) /\ Len(f) = k /\ \A i \in 1..k : f[i] = stream[a + i]
    BY <1>1, <1>2, <1>3, PieceFacts, Zenon
  <1>5. \A i \in 1..k : i \in 1..BufferLength(b)
    BY <1>2, <1>3
  <1>6. \A i \in 1..k : f[i] = b.bytes[b.read + i - 1]
    BY <1>2, <1>4, <1>5, Zenon
  <1> HIDE DEF f
  <1>7. StartsWith(f, h)
    <2>1. \A i \in 1..Len(h) : i \in 1..k
      BY <1>1, <1>3
    <2>2. \A i \in 1..Len(h) : f[i] = h[i]
      BY <1>6, <2>1, Zenon
    <2> QED
      BY <1>1, <1>4, <2>2, StartsWithItself, Zenon
  <1>8. config.valid # {} => f[1] \in config.valid
    <2>1. 1 \in 1..k
      BY <1>3
    <2>2. f[1] = b.bytes[b.read + 1 - 1]
      BY <1>6, <2>1, Zenon
    <2>3. f[1] = b.bytes[b.read]
      BY <1>3, <2>2
    <2> QED
      BY <2>3, Zenon DEF ValidHeader
  <1> QED
    BY <1>7, <1>8, Zenon DEF Begins, a, f

LEMMA NotHopeless ==
  ASSUME IInv, NEW b, Holds(b, stream),
         \A i \in 1..Len(config.header) : b.bytes[b.read + i - 1] = config.header[i],
         ValidHeader(b, b.read), 0 < BufferLength(b), Len(config.header) <= BufferLength(b),
         Strategy(config) # "fixed", config.max = 0
  PROVE  ~Hopeless(config, SubSeq(stream, Place(b) + 1, Len(stream)))
  <1> DEFINE n == BufferLength(b)
  <1>1. /\ stream \in Seq(Byte) /\ n \in Nat /\ Place(b) + n = Len(stream)
    BY BufferFacts, PlaceOf, Zenon
  <1>2. n \in 1..n
    <2>1. n > 0
      OBVIOUS
    <2> HIDE DEF n
    <2> QED
      BY <1>1, <2>1
  <1>3. Begins(config, SubSeq(stream, Place(b) + 1, Place(b) + n))
    BY <1>2, BeginsHere, Zenon
  <1>4. Begins(config, SubSeq(stream, Place(b) + 1, Len(stream)))
    BY <1>1, <1>3, Zenon
  <1>5. ~(config.max > 0)
    OBVIOUS
  <1> QED
    BY <1>4, <1>5, Zenon DEF Begins, Hopeless

\* The footer is found where a piece of the stream ends with it.
LEMMA EndsHere ==
  ASSUME IInv, NEW b, Holds(b, stream), NEW k \in 1..BufferLength(b), FooterLen <= k
  PROVE  EndsWith(SubSeq(stream, Place(b) + 1, Place(b) + k), config.footer)
            <=> Occurs(b, config.footer, b.read + k - FooterLen)
  <1> DEFINE a == Place(b)
             f == SubSeq(stream, a + 1, a + k)
             p == config.footer
             l == FooterLen
             i == b.read + k - l
  <1>1. stream \in Seq(Byte) /\ p \in Seq(Byte) /\ l \in Nat /\ Len(p) = l
    BY BufferFacts, ConfigFacts, LengthFacts DEF FooterLen
  <1>2. /\ a \in Nat /\ BufferLength(b) \in Nat /\ Len(stream) \in Nat
        /\ a + BufferLength(b) = Len(stream)
        /\ \A j \in 1..BufferLength(b) : b.bytes[b.read + j - 1] = stream[a + j]
    BY <1>1, PlaceOf, Zenon
  <1>3. b.read \in Nat /\ b.write \in Nat /\ b.write <= MaxBufferSize /\ BufferLength(b) = b.write - b.read
    BY DEF Holds, Fits, Buffers, BufferLength
  <1> HIDE DEF a
  <1>4. k \in Nat /\ k >= 1 /\ a + k <= Len(stream) /\ b.read + k <= b.write
    BY <1>2, <1>3
  <1>5. f \in Seq(Byte) /\ Len(f) = k /\ \A j \in 1..k : f[j] = stream[a + j]
    BY <1>1, <1>2, <1>4, PieceFacts, Zenon
  <1>6. \A j \in 1..k : j \in 1..BufferLength(b)
    BY <1>2, <1>4
  <1>7. \A j \in 1..k : f[j] = b.bytes[b.read + j - 1]
    BY <1>2, <1>5, <1>6, Zenon
  <1> HIDE DEF f, p
  <1>8. l <= k
    OBVIOUS
  <1> HIDE DEF l
  <1>9. i + l <= MaxBufferSize
    BY <1>1, <1>3, <1>4, <1>8, SizeIsPositive
  <1>10. \A j \in 1..l : k - l + j \in 1..k /\ b.read + (k - l + j) - 1 = i + j - 1
    BY <1>1, <1>3, <1>4, <1>8
  <1> HIDE DEF i
  <1>11. \A j \in 1..l : f[k - l + j] = b.bytes[i + j - 1]
    <2> TAKE j \in 1..l
    <2> DEFINE q == k - l + j
    <2>1. q \in 1..k /\ b.read + q - 1 = i + j - 1
      BY <1>10
    <2> HIDE DEF q
    <2>2. f[q] = b.bytes[b.read + q - 1]
      BY <1>7, <2>1, Zenon
    <2> QED
      BY <2>1, <2>2, Zenon DEF q
  <1>12. EndsWith(f, p) <=> \A j \in 1..l : f[k - l + j] = p[j]
    BY <1>1, <1>5, <1>8, EndsWithItself, Zenon
  <1>13. Occurs(b, p, i) <=> \A j \in 1..l : b.bytes[i + j - 1] = p[j]
    BY <1>1, <1>9, Zenon DEF Occurs
  <1>14. EndsWith(f, p) <=> Occurs(b, p, i)
    BY <1>11, <1>12, <1>13, Zenon
  <1> QED
    BY <1>14, Zenon DEF f, p, a, i, l

\* Nothing matched: the buffer stays, and its length is remembered.
LEMMA WaitsHere ==
  ASSUME NEW b, Fits(b), config.max = 0, NoMatch(b)
  PROVE  /\ Place(buffer') = Place(b) /\ buffer'.scanned = BufferLength(b)
         /\ BufferLength(buffer') = BufferLength(b) /\ packets' = packets /\ ~parsing'
  <1>1. BufferLength(b) \in Nat
    BY DEF Fits, Buffers, BufferLength
  <1>2. ~(config.max > 0)
    OBVIOUS
  <1>3. buffer' = [b EXCEPT !.scanned = BufferLength(b)] /\ ~parsing' /\ packets' = packets
    BY <1>2 DEF NoMatch, Wait
  <1>4. /\ buffer'.read = b.read /\ buffer'.write = b.write /\ buffer'.base = b.base
        /\ buffer'.scanned = BufferLength(b)
    BY <1>1, <1>3, ScannedKeeps
  <1> QED
    BY <1>3, <1>4, Zenon DEF Place, BufferLength

LEMMA InexactStays ==
  ASSUME UNCHANGED <<config, overflowed>>, ~Exact
  PROVE  FramesInv'
  <1>1. ~Exact'
    BY DEF Exact
  <1> QED
    BY <1>1, PTL DEF FramesInv

\* A length ends something at the beginning of the buffer only if FooterStep stops at it.
LEMMA EndingDecides ==
  ASSUME IInv, Verifiable(config), Strategy(config) = "footer", NEW b, Holds(b, stream),
         NEW k \in 1..BufferLength(b),
         Ending(config, SubSeq(stream, Place(b) + 1, Place(b) + k))
  PROVE  /\ k >= Shortest(config) /\ Occurs(b, config.footer, b.read + k - FooterLen)
         /\ LengthAllowed(config, k) => IncrementalOk(Slice(b, b.read, k))
  <1> DEFINE f == SubSeq(stream, Place(b) + 1, Place(b) + k)
  <1>1. stream \in Seq(Byte)
    BY BufferFacts, Zenon
  <1>2. f = Slice(b, b.read, k) /\ Len(f) = k
    BY <1>1, PlaceOf, Zenon
  <1>3. k >= Shortest(config) /\ EndsWith(f, config.footer)
    BY <1>2, Zenon DEF Ending, IsFrame, Ignored
  <1>4. FooterLen <= k
    <2> DEFINE h == Len(config.header)
               n == ChecksumLength(config.checksum)
               l == FooterLen
               min == Shortest(config)
    <2>1. h \in Nat /\ n \in Nat /\ l \in Nat /\ min = h + 1 + n + l
      <3>1. h \in Nat /\ n \in Nat /\ l \in Nat
        BY LengthFacts DEF HeaderLen
      <3>2. min = h + 1 + n + l
        BY ShortestFacts DEF FooterLen
      <3> QED
        BY <3>1, <3>2
    <2>2. k >= min /\ k \in Int
      BY <1>3
    <2> HIDE DEF h, n, l, min
    <2>3. l <= k
      BY <2>1, <2>2
    <2> QED
      BY <2>3, Zenon DEF l
  <1>5. Occurs(b, config.footer, b.read + k - FooterLen)
    BY <1>3, <1>4, EndsHere, Zenon
  <1>6. LengthAllowed(config, k) => IncrementalOk(f)
    <2>1. LengthAllowed(config, k) => IsFrame(config, f)
      BY <1>2, Zenon DEF Ending, Ignored
    <2>2. Strategy(config) # "fixed"
      OBVIOUS
    <2> QED
      BY <2>1, <2>2, FrameIsIncremental, Zenon
  <1> QED
    BY <1>2, <1>3, <1>5, <1>6, Zenon

\* Strategy B stops at the first footer that ends a frame or something to be ignored.
LEMMA FooterKeepsFrames ==
  ASSUME IInv, IInv', FramesInv, PacketsAreFrames', Verifiable(config), FooterStep
  PROVE  FramesInv'
  <1> DEFINE b == Aligned
             a == Place(b)
             n == BufferLength(b)
             min == Shortest(config)
             lengths == {k \in min..n : Occurs(b, config.footer, b.read + k - FooterLen)}
             decisive == {k \in lengths :
                            LengthAllowed(config, k) => IncrementalOk(Slice(b, b.read, k))}
             least == Least(decisive)
  <1>1. /\ Fits(b) /\ Holds(b, stream) /\ Strategy(config) = "footer" /\ parsing
        /\ UNCHANGED <<config, stream, overflowed>>
        /\ \A i \in 1..Len(config.header) : b.bytes[b.read + i - 1] = config.header[i]
    BY AlignedFacts, AlignedHeader DEF FooterStep, Iterates
  <1>2. CASE ~Exact
    BY <1>1, <1>2, InexactStays, Zenon
  <1> SUFFICES ASSUME Exact
               PROVE  FramesInv'
    BY <1>2
  <1>3. /\ Leads(config, stream, Place(buffer), a, <<>>) /\ config.max = 0
        /\ Place(buffer) \in Nat /\ stream \in Seq(Byte) /\ config \in Configs
    BY AlignedPlace, PlaceFits, BufferFacts, ConfigFacts DEF FooterStep, Iterates, Exact
  <1>4. \/ n < min /\ NoMatch(b)
        \/ n >= min /\ ~ValidHeader(b, b.read) /\ GoOn([ConsumeBytes(b, 1) EXCEPT !.scanned = 0])
        \/ /\ n >= min /\ ValidHeader(b, b.read)
           /\ \/ decisive = {} /\ NoMatch(b)
              \/ decisive # {} /\ LengthAllowed(config, least) /\ Emit(b, b.read, least)
              \/ decisive # {} /\ ~LengthAllowed(config, least) /\ GoOn(ConsumeBytes(b, least))
    BY Zenon DEF FooterStep
  <1> HIDE DEF b
  <1>5. /\ a \in Nat /\ n \in Nat /\ Len(stream) \in Nat /\ a + n = Len(stream)
        /\ b.read \in Nat /\ b.write \in Nat /\ n = b.write - b.read /\ a = b.base + b.read
        /\ b.base \in Nat
    BY <1>1, <1>3, PlaceOf DEF Fits, Buffers, BufferLength, Place
  <1>6. min \in Nat /\ min >= 1 /\ Len(config.header) \in Nat /\ Len(config.header) <= min
    <2> DEFINE h == Len(config.header)
               m == ChecksumLength(config.checksum)
               l == Len(config.footer)
    <2>1. h \in Nat /\ m \in Nat /\ l \in Nat /\ min = h + 1 + m + l
      <3>1. h \in Nat /\ m \in Nat /\ l \in Nat
        BY LengthFacts DEF HeaderLen, FooterLen
      <3>2. min = h + 1 + m + l
        BY <1>1, ShortestFacts
      <3> QED
        BY <3>1, <3>2
    <2> HIDE DEF h, m, l, min
    <2>2. min \in Nat /\ min >= 1 /\ h <= min
      BY <2>1
    <2> QED
      BY <2>1, <2>2, Zenon DEF h
  <1>7. ASSUME NEW m
        PROVE  Tried(config, stream, a, m)
    BY <1>1 DEF Tried
  <1>8. CASE n < min /\ NoMatch(b)
    <2>1. /\ Place(buffer') = a /\ BufferLength(buffer') = n /\ packets' = packets
      BY <1>1, <1>3, <1>8, WaitsHere, Zenon
    <2> QED
      BY <1>1, <1>3, <1>7, <1>8, <2>1, Stops, Zenon
  <1>9. CASE n >= min /\ ~ValidHeader(b, b.read) /\ GoOn([ConsumeBytes(b, 1) EXCEPT !.scanned = 0])
    <2>1. n > 0
      <3> HIDE DEF n, min
      <3> QED
        BY <1>5, <1>6, <1>9
    <2> QED
      BY <1>1, <1>3, <1>9, <2>1, SkipsByte, Zenon
  <1> DEFINE piece(k) == SubSeq(stream, a + 1, a + k)
  <1>10. ASSUME NEW k \in 1..n, Ending(config, piece(k))
         PROVE  k \in decisive
    <2>1. /\ k >= min /\ Occurs(b, config.footer, b.read + k - FooterLen)
          /\ LengthAllowed(config, k) => IncrementalOk(Slice(b, b.read, k))
      BY <1>1, <1>10, EndingDecides, Zenon
    <2>2. k \in min..n
      <3>1. k >= min
        BY <2>1, Zenon
      <3> HIDE DEF n, min
      <3> QED
        BY <1>5, <1>6, <3>1
    <2> QED
      BY <2>1, <2>2, Zenon
  <1>11. decisive \in SUBSET Nat /\ \A k \in decisive : k \in 1..n /\ k >= min
    <2>1. \A k \in min..n : k \in Nat /\ k \in 1..n /\ k >= min
      <3> HIDE DEF n, min
      <3> QED
        BY <1>5, <1>6
    <2> QED
      BY <2>1
  <1>12. n >= min => n > 0 /\ Len(config.header) <= n
    <2> HIDE DEF n, min
    <2> QED
      BY <1>5, <1>6
  <1>13. CASE n >= min /\ ValidHeader(b, b.read) /\ decisive = {} /\ NoMatch(b)
    <2>1. /\ Place(buffer') = a /\ packets' = packets
      BY <1>1, <1>3, <1>13, WaitsHere, Zenon
    <2>2. ~Hopeless(config, SubSeq(stream, a + 1, Len(stream)))
      <3>1. 0 < n /\ Len(config.header) <= n /\ Strategy(config) # "fixed"
        BY <1>1, <1>12, <1>13
      <3> QED
        BY <1>1, <1>3, <1>13, <3>1, NotHopeless, Zenon
    <2>3. Len(stream) - a = n /\ a < Len(stream)
      <3> HIDE DEF a, n
      <3> QED
        BY <1>5, <1>12, <1>13
    <2>4. \A k \in 1..Len(stream) - a : ~Ending(config, piece(k))
      BY <1>10, <1>13, <2>3, Zenon
    <2>5. At(config, stream)[a + 1] = <<>>
      BY <1>3, <1>5, <2>2, <2>3, <2>4, NoFrameYet, Zenon
    <2> QED
      BY <1>1, <1>3, <1>7, <2>1, <2>5, PassesOver, Zenon
  <1>14. ASSUME decisive # {}
         PROVE  /\ least \in 1..n /\ least \in decisive
                /\ \A k \in 1..least - 1 : k \in 1..n /\ ~Ending(config, piece(k))
    <2> HIDE DEF decisive
    <2>1. least \in decisive /\ \A k \in decisive : least <= k
      BY <1>11, <1>14, LeastOf, Zenon
    <2>2. least \in 1..n
      BY <1>11, <2>1, Zenon
    <2>3. n \in Nat
      BY <1>5, Zenon
    <2> HIDE DEF least, n
    <2>4. \A k \in 1..least - 1 : k \in 1..n /\ ~(least <= k)
      BY <2>2, <2>3
    <2> QED
      BY <1>10, <2>1, <2>2, <2>4, Zenon
  <1>15. CASE /\ n >= min /\ ValidHeader(b, b.read)
              /\ decisive # {} /\ LengthAllowed(config, least) /\ Emit(b, b.read, least)
    <2>1. /\ least \in 1..n
          /\ \A k \in 1..least - 1 : ~Ending(config, SubSeq(stream, b.base + b.read + 1, b.base + b.read + k))
      BY <1>5, <1>14, <1>15, Zenon
    <2>2. Emit(b, b.read, least)
      BY <1>15
    <2> HIDE DEF least
    <2>3. least \in Nat \ {0} /\ b.read <= b.read /\ b.read + least <= b.write
      BY <1>5, <2>1
    <2>4. Leads(config, stream, Place(buffer), b.base + b.read, <<>>)
      BY <1>3, <1>5, Zenon
    <2>5. Strategy(config) = "sweep" => b.scanned = 0
      BY <1>1
    <2> QED
      BY <1>1, <1>5, <2>1, <2>2, <2>3, <2>4, <2>5, EmitsNext, Zenon
  <1>16. CASE /\ n >= min /\ ValidHeader(b, b.read)
              /\ decisive # {} /\ ~LengthAllowed(config, least) /\ GoOn(ConsumeBytes(b, least))
    <2>1. /\ least \in 1..n /\ least \in decisive
          /\ \A k \in 1..least - 1 : ~Ending(config, piece(k))
      BY <1>14, <1>16, Zenon
    <2>2. Occurs(b, config.footer, b.read + least - FooterLen) /\ least >= min
      BY <1>11, <2>1, Zenon
    <2>3. buffer' = ConsumeBytes(b, least) /\ parsing' = parsing /\ packets' = packets
      BY <1>16 DEF GoOn
    <2>4. ~LengthAllowed(config, least)
      BY <1>16
    <2> HIDE DEF least, decisive
    <2>5. least \in Nat /\ least <= n /\ Len(config.header) <= least
      <3> HIDE DEF n, min
      <3> QED
        BY <1>5, <1>6, <2>1, <2>2
    <2>6. Len(piece(least)) = least
      <3>1. a + least <= Len(stream)
        <4>1. a \in Nat /\ Len(stream) \in Nat /\ n \in Nat /\ a + n = Len(stream)
          BY <1>5
        <4> HIDE DEF a, n
        <4> QED
          BY <2>5, <4>1
      <3> QED
        BY <1>3, <1>5, <2>5, <3>1, PieceFacts, Zenon
    <2>7. Begins(config, piece(least))
      BY <1>1, <1>16, <2>1, <2>5, BeginsHere, Zenon
    <2>8. EndsWith(piece(least), config.footer)
      <3>1. FooterLen <= least
        <4> DEFINE h == Len(config.header)
                   m == ChecksumLength(config.checksum)
                   l == FooterLen
        <4>1. h \in Nat /\ m \in Nat /\ l \in Nat
          BY LengthFacts DEF HeaderLen
        <4>2. min = h + 1 + m + l
          BY <1>1, ShortestFacts DEF FooterLen
        <4> HIDE DEF h, m, l, min
        <4>3. l <= min /\ min \in Nat
          BY <4>1, <4>2
        <4>4. least >= min /\ least \in Nat
          BY <2>2, <2>5, Zenon
        <4>5. l <= least
          BY <4>1, <4>3, <4>4
        <4> QED
          BY <4>5, Zenon DEF l
      <3> QED
        BY <1>1, <2>1, <2>2, <3>1, EndsHere, Zenon
    <2>9. Ending(config, piece(least)) /\ ~IsFrame(config, piece(least))
      BY <1>1, <2>2, <2>4, <2>6, <2>7, <2>8, Zenon DEF Ending, Ignored, IsFrame
    <2>10. least \in 1..Len(stream) - a /\ a + least \in Nat /\ a + least <= Len(stream)
      <3>1. a \in Nat /\ Len(stream) \in Nat /\ n \in Nat /\ a + n = Len(stream)
        BY <1>5
      <3>2. least \in 1..n
        BY <2>1, Zenon
      <3> HIDE DEF a, n
      <3> QED
        BY <3>1, <3>2
    <2>11. Leads(config, stream, a, a + least, <<>>)
      <3>1. Leads(config, stream, a, a + least, Own(config, piece(least)))
        BY <1>3, <1>5, <2>1, <2>9, <2>10, LeadsFrame, Zenon
      <3> QED
        BY <2>9, <3>1, Zenon DEF Own
    <2>12. Leads(config, stream, Place(buffer), a + least, <<>>)
      BY <1>3, <1>5, <2>10, <2>11, NoneJoin, Zenon
    <2>13. Place(buffer') = a + least
      <3>1. ConsumeBytes(b, least).base + ConsumeBytes(b, least).read = b.base + b.read + least
        BY <1>1, <2>5, ConsumeKeeps, Zenon
      <3> QED
        BY <1>5, <2>3, <3>1, Zenon DEF Place
    <2>14. Tried(config, stream, Place(buffer'), buffer'.scanned)
      BY <1>1 DEF Tried
    <2> QED
      BY <1>1, <2>3, <2>12, <2>13, <2>14, PassesOver, Zenon
  <1> QED
    BY <1>4, <1>8, <1>9, <1>13, <1>15, <1>16, Zenon

LEMMA NotIgnored ==
  ASSUME NEW c, Strategy(c) = "sweep", NEW f, Ending(c, f)
  PROVE  IsFrame(c, f) /\ ChecksumLength(c.checksum) > 0
  <1>1. Strategy(c) # "footer"
    OBVIOUS
  <1> QED
    BY <1>1, Zenon DEF Ending, Ignored, IsFrame

\* A length is one of a frame at the beginning of the buffer only if the sweep tries it now.
LEMMA EndingIsTried ==
  ASSUME IInv, Verifiable(config), Strategy(config) = "sweep", NEW b, Holds(b, stream),
         Tried(config, stream, Place(b), b.scanned), NEW k \in 1..BufferLength(b),
         Ending(config, SubSeq(stream, Place(b) + 1, Place(b) + k))
  PROVE  /\ k >= Shortest(config) /\ k >= config.min /\ k >= b.scanned + 1
         /\ IncrementalOk(Slice(b, b.read, k))
  <1> DEFINE f == SubSeq(stream, Place(b) + 1, Place(b) + k)
  <1>1. stream \in Seq(Byte)
    BY BufferFacts, Zenon
  <1>2. f = Slice(b, b.read, k) /\ Len(f) = k
    BY <1>1, PlaceOf, Zenon
  <1>3. IsFrame(config, f)
    BY NotIgnored, Zenon
  <1>4. k >= Shortest(config) /\ LengthAllowed(config, k)
    BY <1>2, <1>3, Zenon DEF IsFrame
  <1>5. IncrementalOk(Slice(b, b.read, k))
    <2>1. Strategy(config) # "fixed"
      OBVIOUS
    <2> QED
      BY <1>2, <1>3, <2>1, FrameIsIncremental, Zenon
  <1>6. k >= b.scanned + 1
    <2>1. k \notin 1..b.scanned
      BY <1>3, Zenon DEF Tried
    <2>2. b.scanned \in Nat /\ BufferLength(b) \in Nat
      BY DEF Holds, Fits, Buffers, BufferLength
    <2> QED
      BY <2>1, <2>2
  <1> QED
    BY <1>4, <1>5, <1>6, Zenon DEF LengthAllowed

\* Strategy C: what it has not tried now or before is too short for a frame.
LEMMA SweepKeepsFrames ==
  ASSUME IInv, IInv', FramesInv, PacketsAreFrames', Verifiable(config), SweepStep
  PROVE  FramesInv'
  <1> DEFINE b == Aligned
             a == Place(b)
             n == BufferLength(b)
             min == Shortest(config)
             next == b.scanned + 1
             S == {min, next, config.min}
             first == CHOOSE x \in S : \A y \in S : x >= y
             limit == IF config.max > 0 /\ config.max < n THEN config.max ELSE n
             hits == {k \in first..limit : IncrementalOk(Slice(b, b.read, k))}
             least == Least(hits)
             c == [b EXCEPT !.scanned = 0]
             short == n < min \/ ChecksumLength(config.checksum) = 0
  <1>1. /\ Fits(b) /\ Holds(b, stream) /\ Strategy(config) = "sweep" /\ parsing
        /\ UNCHANGED <<config, stream, overflowed>> /\ n \in Nat \ {0}
        /\ \A i \in 1..Len(config.header) : b.bytes[b.read + i - 1] = config.header[i]
    BY AlignedFacts, AlignedHeader DEF SweepStep, Iterates
  <1>2. CASE ~Exact
    BY <1>1, <1>2, InexactStays, Zenon
  <1> SUFFICES ASSUME Exact
               PROVE  FramesInv'
    BY <1>2
  <1>3. /\ Leads(config, stream, Place(buffer), a, <<>>) /\ Tried(config, stream, a, b.scanned)
        /\ config.max = 0 /\ ~config.expr
        /\ Place(buffer) \in Nat /\ stream \in Seq(Byte) /\ config \in Configs
    BY AlignedPlace, PlaceFits, BufferFacts, ConfigFacts DEF SweepStep, Iterates, Exact
  <1>4. DynamicLength(b) = 0 /\ limit = n
    <2>1. 0 \in Nat /\ ~(config.max > 0)
      BY <1>3
    <2> QED
      BY <1>3, <2>1 DEF DynamicLength
  <1>5. \/ short /\ NoMatch(b)
        \/ ~short /\ ~ValidHeader(b, b.read) /\ GoOn([ConsumeBytes(b, 1) EXCEPT !.scanned = 0])
        \/ /\ ~short /\ ValidHeader(b, b.read)
           /\ \/ (first > limit \/ hits = {}) /\ NoMatch(b)
              \/ hits # {} /\ Emit(c, b.read, least)
    <2>1. IF short THEN NoMatch(b)
          ELSE IF ~ValidHeader(b, b.read) THEN GoOn([ConsumeBytes(b, 1) EXCEPT !.scanned = 0])
          ELSE DynamicLength(b) = 0 =>
                  IF first > limit THEN Wait([b EXCEPT !.scanned = n])
                  ELSE IF hits # {} THEN Emit(c, b.read, least) ELSE NoMatch(b)
      BY DEF SweepStep
    <2>2. Wait([b EXCEPT !.scanned = n]) => NoMatch(b)
      <3>1. ~(config.max > 0)
        BY <1>3
      <3> QED
        BY <3>1, Zenon DEF NoMatch
    <2> HIDE DEF b, first, limit, hits, least, c, short
    <2> QED
      BY <1>4, <2>1, <2>2
  <1> HIDE DEF b
  <1>6. /\ a \in Nat /\ Len(stream) \in Nat /\ a + n = Len(stream)
        /\ b.read \in Nat /\ b.write \in Nat /\ n = b.write - b.read /\ a = b.base + b.read
        /\ b.base \in Nat /\ b.scanned \in Nat
    BY <1>1, <1>3, PlaceOf DEF Fits, Buffers, BufferLength, Place
  <1>7. a < Len(stream) /\ a <= Len(stream) /\ Len(stream) - a = n
    <2>1. a \in Nat /\ Len(stream) \in Nat /\ a + n = Len(stream) /\ n \in Nat \ {0}
      BY <1>1, <1>6
    <2> HIDE DEF a, n
    <2> QED
      BY <2>1
  <1>8. min \in Nat /\ config.min \in Nat /\ Len(config.header) \in Nat /\ Len(config.header) <= min
    BY ShortestFacts, ShortestIsPositive, ConfigFacts, LenProperties
  <1> DEFINE piece(k) == SubSeq(stream, a + 1, a + k)
  <1>9. ASSUME NoMatch(b), \A k \in 1..n : ~Ending(config, piece(k)), At(config, stream)[a + 1] = <<>>
        PROVE  FramesInv'
    <2>1. /\ Place(buffer') = a /\ buffer'.scanned = n /\ packets' = packets
      BY <1>1, <1>3, <1>9, WaitsHere, Zenon
    <2>2. \A k \in 1..n : a + k <= Len(stream)
      <3> HIDE DEF a, n
      <3> QED
        BY <1>1, <1>6
    <2>3. Tried(config, stream, a, n)
      BY <1>9, <2>2, Zenon DEF Tried, Ending
    <2> QED
      BY <1>1, <1>3, <1>9, <2>1, <2>3, PassesOver, Zenon
  <1>10. CASE short /\ NoMatch(b)
    <2>1. ASSUME NEW p \in Nat, NEW k \in Nat, p + k <= Len(stream), k <= n,
                 Ending(config, SubSeq(stream, p + 1, p + k))
          PROVE  FALSE
      <3>1. /\ IsFrame(config, SubSeq(stream, p + 1, p + k))
            /\ ChecksumLength(config.checksum) > 0
        BY <1>1, <2>1, NotIgnored, Zenon
      <3>2. Len(SubSeq(stream, p + 1, p + k)) = k
        BY <1>3, <2>1, PieceFacts, Zenon
      <3>3. k >= min
        BY <3>1, <3>2, Zenon DEF IsFrame
      <3>4. n < min
        BY <1>10, <3>1
      <3> HIDE DEF n, min
      <3> QED
        BY <1>1, <1>8, <2>1, <3>3, <3>4
    <2>2. \A k \in 1..n : k \in Nat /\ a + k <= Len(stream) /\ k <= n
      <3> HIDE DEF a, n
      <3> QED
        BY <1>1, <1>6
    <2>3. \A k \in 1..n : ~Ending(config, piece(k))
      BY <1>6, <2>1, <2>2, Zenon
    <2>4. \A p \in a..Len(stream) - 1 : \A k \in 1..Len(stream) - p :
             ~Ending(config, SubSeq(stream, p + 1, p + k))
      <3>1. ASSUME NEW p \in a..Len(stream) - 1, NEW k \in 1..Len(stream) - p
            PROVE  p \in Nat /\ k \in Nat /\ p + k <= Len(stream) /\ k <= n
        <4> HIDE DEF a, n
        <4> QED
          BY <1>1, <1>6
      <3> QED
        BY <2>1, <3>1, Zenon
    <2>5. At(config, stream)[a + 1] = <<>>
      BY <1>3, <1>6, <1>7, <2>4, NoFramesLeft, Zenon
    <2> QED
      BY <1>9, <1>10, <2>3, <2>5, Zenon
  <1>11. CASE ~ValidHeader(b, b.read) /\ GoOn([ConsumeBytes(b, 1) EXCEPT !.scanned = 0])
    <2>1. n > 0
      BY <1>1
    <2> QED
      BY <1>1, <1>3, <1>11, <2>1, SkipsByte, Zenon
  <1>12. /\ first \in Nat /\ first >= 1
         /\ \A k \in Nat : k >= min /\ k >= next /\ k >= config.min => k >= first
    <2>1. next \in Nat /\ next >= 1
      BY <1>6
    <2> HIDE DEF next, min
    <2>2. first \in S /\ first >= next
      BY <1>8, <2>1, GreatestOfThree
    <2> HIDE DEF first
    <2> QED
      BY <1>8, <2>1, <2>2
  <1> HIDE DEF first
  <1>13. ASSUME NEW k \in 1..n, Ending(config, piece(k))
         PROVE  k \in hits /\ first <= limit
    <2>1. /\ k >= min /\ k >= config.min /\ k >= next /\ IncrementalOk(Slice(b, b.read, k))
      BY <1>1, <1>3, <1>13, EndingIsTried, Zenon
    <2>2. k \in Nat /\ k <= n
      BY <1>1
    <2>3. k >= first
      BY <1>12, <2>1, <2>2, Zenon
    <2>4. k \in first..limit /\ first <= limit
      <3>1. k <= limit /\ limit \in Nat
        BY <1>1, <1>4, <2>2
      <3> HIDE DEF limit
      <3> QED
        BY <1>12, <2>2, <2>3, <3>1
    <2> QED
      BY <2>1, <2>4, Zenon
  <1>14. hits \in SUBSET Nat /\ \A k \in hits : k \in 1..n
    <2>1. \A k \in first..n : k \in Nat /\ k \in 1..n
      <3> HIDE DEF n
      <3> QED
        BY <1>1, <1>12
    <2>2. \A k \in hits : k \in first..n
      BY <1>4, Zenon
    <2> HIDE DEF hits
    <2> QED
      BY <2>1, <2>2
  <1>15. ASSUME ~short
         PROVE  Len(config.header) <= n
    <2>1. ~(n < min)
      BY <1>15
    <2> DEFINE l == Len(config.header)
    <2>2. l \in Nat /\ l <= min
      BY <1>8
    <2> HIDE DEF n, min, l
    <2>3. l <= n
      BY <1>1, <1>8, <2>1, <2>2
    <2> QED
      BY <2>3, Zenon DEF l
  <1>16. CASE ~short /\ ValidHeader(b, b.read) /\ (first > limit \/ hits = {}) /\ NoMatch(b)
    <2>1. \A k \in 1..n : ~Ending(config, piece(k))
      <3>1. first > limit => ~(first <= limit)
        <4>1. limit \in Nat
          BY <1>1, <1>4
        <4> HIDE DEF limit
        <4> QED
          BY <1>12, <4>1
      <3> QED
        BY <1>13, <1>16, <3>1, Zenon
    <2>2. ~Hopeless(config, SubSeq(stream, a + 1, Len(stream)))
      <3>1. 0 < n /\ Strategy(config) # "fixed"
        BY <1>1
      <3> QED
        BY <1>1, <1>3, <1>15, <1>16, <3>1, NotHopeless, Zenon
    <2>3. \A k \in 1..Len(stream) - a : ~Ending(config, piece(k))
      BY <1>7, <2>1, Zenon
    <2>4. At(config, stream)[a + 1] = <<>>
      BY <1>3, <1>6, <1>7, <2>2, <2>3, NoFrameYet, Zenon
    <2> QED
      BY <1>9, <1>16, <2>1, <2>4, Zenon
  <1>17. CASE hits # {} /\ Emit(c, b.read, least)
    <2>1. \A k \in 1..n : Ending(config, piece(k)) => k \in hits
      BY <1>13, Zenon
    <2>2. Emit(c, b.read, least) /\ hits # {}
      BY <1>17
    <2> HIDE DEF hits
    <2>3. least \in hits /\ \A k \in hits : least <= k
      BY <1>14, <2>2, LeastOf, Zenon
    <2>4. least \in 1..n
      BY <1>14, <2>3, Zenon
    <2> HIDE DEF least
    <2>5. \A k \in 1..least - 1 : k \in 1..n /\ ~(least <= k)
      <3> HIDE DEF n
      <3> QED
        BY <1>1, <2>4
    <2>6. \A k \in 1..least - 1 : ~Ending(config, piece(k))
      BY <2>1, <2>3, <2>5, Zenon
    <2>7. /\ Keeps(b, c) /\ c.read = b.read /\ c.write = b.write /\ c.base = b.base /\ c.scanned = 0
      BY <1>1, ScannedKeeps
    <2> HIDE DEF c
    <2>8. Holds(c, stream)
      BY <1>1, <2>7, KeepsHolds
    <2>9. least \in Nat \ {0} /\ b.read + least <= b.write
      <3>1. n \in Nat /\ n = b.write - b.read /\ b.read \in Nat /\ b.write \in Nat
        BY <1>1, <1>6
      <3> HIDE DEF n
      <3> QED
        BY <2>4, <3>1
    <2>10. c.base + b.read = a
      BY <1>6, <2>7, Zenon
    <2>11. c.read <= b.read /\ b.read + least <= c.write /\ b.read \in Nat
      BY <1>6, <2>7, <2>9
    <2>12. /\ Leads(config, stream, Place(buffer), c.base + b.read, <<>>)
           /\ \A k \in 1..least - 1 :
                 ~Ending(config, SubSeq(stream, c.base + b.read + 1, c.base + b.read + k))
      BY <1>3, <2>6, <2>10, Zenon
    <2> QED
      BY <1>1, <2>2, <2>7, <2>8, <2>9, <2>11, <2>12, EmitsNext, Zenon
  <1> QED
    BY <1>5, <1>10, <1>11, <1>16, <1>17, Zenon

LEMMA ReceiveKeepsFrames ==
  ASSUME IInv, FramesInv, NEW chunk \in Chunks, Receive(chunk)
  PROVE  FramesInv'
  <1> DEFINE c == AppendChunk(buffer, chunk)
             a == Place(buffer)
  <1>1. /\ chunk \in Seq(Byte) /\ chunk # <<>> /\ stream \in Seq(Byte) /\ Fits(buffer)
    BY ChunksAssumption, BufferFacts
  <1>2. /\ config' = config /\ packets' = packets /\ parsing' /\ stream' = stream \o chunk
        /\ buffer' = c
        /\ overflowed' = (overflowed \/ BufferLength(buffer) + Len(chunk) > MaxBufferSize)
    BY DEF Receive
  <1>3. CASE ~Exact'
    BY <1>3, PTL DEF FramesInv
  <1>4. CASE Exact'
    <2>1. /\ ~overflowed /\ ~(BufferLength(buffer) + Len(chunk) > MaxBufferSize)
          /\ ~config.expr /\ config.max = 0
      BY <1>2, <1>4, Zenon DEF Exact
    <2>2. Exact
      BY <2>1 DEF Exact
    <2>3. BufferLength(buffer) + Len(chunk) <= MaxBufferSize
      <3>1. BufferLength(buffer) \in Nat /\ Len(chunk) \in Nat
        BY <1>1, PlaceFits, LenProperties
      <3> QED
        BY <2>1, <3>1, SizeIsPositive
    <2>4. Place(c) = a /\ c.scanned \in {buffer.scanned, 0}
      BY <1>1, <2>3, AppendDropsNothing, Zenon
    <2>5. /\ Leads(config, stream, 0, a, BytesOf(packets))
          /\ Tried(config, stream, a, buffer.scanned)
      BY <2>2, Zenon DEF FramesInv
    <2>6. Leads(config, stream \o chunk, 0, a, BytesOf(packets))
      BY <1>1, <2>5, LeadsLonger, Zenon
    <2>7. Tried(config, stream \o chunk, a, c.scanned)
      <3>1. CASE c.scanned = 0
        <4>1. 1..0 = {}
          OBVIOUS
        <4> QED
          BY <3>1, <4>1 DEF Tried
      <3>2. CASE c.scanned = buffer.scanned
        <4> SUFFICES ASSUME Strategy(config) = "sweep", NEW k \in 1..buffer.scanned
                     PROVE  /\ a + k <= Len(stream \o chunk)
                            /\ ~IsFrame(config, SubSeq(stream \o chunk, a + 1, a + k))
          BY <3>2, Zenon DEF Tried
        <4>1. a + k <= Len(stream) /\ ~IsFrame(config, SubSeq(stream, a + 1, a + k))
          BY <2>5, Zenon DEF Tried
        <4>2. a \in Nat /\ k \in Nat
          <5>1. buffer.scanned \in Nat
            BY <1>1 DEF Fits, Buffers
          <5> QED
            BY <5>1, PlaceFits
        <4>3. SubSeq(stream \o chunk, a + 1, a + k) = SubSeq(stream, a + 1, a + k)
          BY <1>1, <4>1, <4>2, PieceOfLonger, Zenon
        <4>4. a + k <= Len(stream \o chunk)
          <5>1. /\ Len(stream) \in Nat /\ Len(chunk) \in Nat
                /\ Len(stream \o chunk) = Len(stream) + Len(chunk)
            BY <1>1, LongerFacts, Zenon
          <5> HIDE DEF a
          <5> QED
            BY <4>1, <4>2, <5>1
        <4> QED
          BY <4>1, <4>3, <4>4, Zenon
      <3> QED
        BY <2>4, <3>1, <3>2
    <2> HIDE DEF a, c
    <2>8. Leads(config, stream', 0, Place(buffer'), BytesOf(packets'))
      BY <1>2, <2>4, <2>6, Zenon
    <2>9. Tried(config', stream', Place(buffer'), buffer'.scanned)
      BY <1>2, <2>4, <2>7, Zenon
    <2> QED
      BY <1>2, <2>8, <2>9, Zenon DEF FramesInv
  <1> QED
    BY <1>3, <1>4

\* Of a new stream there are no packets yet.
LEMMA NewStream ==
  ASSUME NEW c \in Configs, NEW s \in Seq(Byte)
  PROVE  /\ Leads(c, s, 0, 0, BytesOf(<<>>)) /\ Tried(c, s, 0, 0)
         /\ s = <<>> => At(c, s)[0 + 1] = <<>>
  <1>1. 0 \in Nat /\ 0 <= Len(s) /\ 1..0 = {} /\ (s = <<>> => 0 = Len(s))
    BY EmptySeq, LenProperties
  <1>2. BytesOf(<<>>) = <<>>
    BY EmptySeq DEF BytesOf
  <1>3. Leads(c, s, 0, 0, <<>>)
    BY <1>1, NoneBegins, Zenon
  <1>4. Tried(c, s, 0, 0)
    BY <1>1 DEF Tried
  <1>5. s = <<>> => At(c, s)[0 + 1] = <<>>
    BY <1>1, PlaceFacts, Zenon
  <1> QED
    BY <1>2, <1>3, <1>4, <1>5, Zenon

LEMMA ReceiveLateKeepsFrames ==
  ASSUME IInv, FramesInv, NEW chunk \in Chunks, ReceiveLate(chunk)
  PROVE  FramesInv'
  <1> DEFINE r == ResetBuffer(buffer)
             e == [r EXCEPT !.base = 0]
             c == AppendChunk(e, chunk)
  <1>1. /\ chunk \in Seq(Byte) /\ chunk # <<>> /\ config \in Configs
    BY ChunksAssumption, ConfigFacts
  <1>2. /\ config' = config /\ packets' = <<>> /\ parsing' /\ stream' = chunk
        /\ buffer' = c /\ overflowed' = (Len(chunk) > MaxBufferSize)
    BY DEF ReceiveLate
  <1>3. r \in Buffers /\ r.read = 0 /\ r.write = 0 /\ r.scanned = 0
    BY BufferFacts, ResetFacts DEF Fits
  <1> HIDE DEF r
  <1>4. Fits(e) /\ e.read = 0 /\ e.write = 0 /\ e.base = 0 /\ e.scanned = 0
    <2>1. e \in Buffers /\ e.read = 0 /\ e.write = 0 /\ e.base = 0 /\ e.scanned = 0
      BY <1>3 DEF Buffers
    <2> HIDE DEF e
    <2> QED
      BY <2>1, SizeIsPositive DEF Fits
  <1> HIDE DEF e
  <1>5. CASE ~Exact'
    BY <1>5, PTL DEF FramesInv
  <1>6. CASE Exact'
    <2>1. ~(Len(chunk) > MaxBufferSize)
      BY <1>2, <1>6, Zenon DEF Exact
    <2>2. BufferLength(e) + Len(chunk) <= MaxBufferSize
      <3>1. Len(chunk) \in Nat /\ BufferLength(e) = 0
        BY <1>1, <1>4, LenProperties DEF BufferLength
      <3> QED
        BY <2>1, <3>1, SizeIsPositive
    <2>3. Place(c) = Place(e) /\ c.scanned \in {e.scanned, 0}
      BY <1>1, <1>4, <2>2, AppendDropsNothing, Zenon
    <2>4. Place(c) = 0 /\ c.scanned = 0
      BY <1>4, <2>3 DEF Place
    <2> HIDE DEF c
    <2>5. /\ Leads(config, chunk, 0, 0, BytesOf(<<>>)) /\ Tried(config, chunk, 0, 0)
      BY <1>1, NewStream, Zenon
    <2>6. Leads(config', stream', 0, Place(buffer'), BytesOf(packets'))
      BY <1>2, <2>4, <2>5, Zenon
    <2>7. Tried(config', stream', Place(buffer'), buffer'.scanned)
      BY <1>2, <2>4, <2>5, Zenon
    <2> QED
      BY <1>2, <2>6, <2>7, Zenon DEF FramesInv
  <1> QED
    BY <1>5, <1>6

LEMMA FramesInit ==
  ASSUME Init
  PROVE  FramesInv
  <1>1. config \in Configs /\ buffer = Empty /\ packets = <<>> /\ stream = <<>>
    BY DEF Init
  <1>2. Place(buffer) = 0 /\ buffer.scanned = 0
    BY <1>1 DEF Empty, Place
  <1>3. stream \in Seq(Byte)
    BY <1>1, EmptySeq
  <1>4. /\ Leads(config, stream, 0, 0, BytesOf(<<>>)) /\ Tried(config, stream, 0, 0)
        /\ At(config, stream)[0 + 1] = <<>>
    BY <1>1, <1>3, NewStream, Zenon
  <1> QED
    BY <1>1, <1>2, <1>4, Zenon DEF FramesInv

LEMMA FramesStep ==
  ASSUME IInv, FramesInv, IInv', PacketsAreFrames', Verifiable(config), [Next]_vars
  PROVE  FramesInv'
  <1>1. ASSUME NEW chunk \in Chunks, Receive(chunk) \/ ReceiveLate(chunk)
        PROVE  FramesInv'
    BY <1>1, ReceiveKeepsFrames, ReceiveLateKeepsFrames
  <1>2. CASE HeaderMissing \/ Return
    BY <1>2, MissingFrames, ReturnFrames
  <1>3. CASE FixedStep \/ FooterStep \/ SweepStep
    BY <1>3, FixedKeepsFrames, FooterKeepsFrames, SweepKeepsFrames
  <1>4. CASE UNCHANGED vars
    <2>1. UNCHANGED <<config, buffer, parsing, packets, stream, overflowed>>
      BY <1>4 DEF vars
    <2>2. Leads(config, stream, Place(buffer), Place(buffer), <<>>)
      BY PlaceFits, BufferFacts, ConfigFacts, NoneBegins, Zenon
    <2> QED
      BY <2>1, <2>2, PassesOver, Zenon DEF FramesInv
  <1> QED
    BY <1>1, <1>2, <1>3, <1>4 DEF Next

LEMMA FramesAreReturned ==
  ASSUME IInv, FramesInv
  PROVE  ChunksDoNotMatter
  <1> SUFFICES ASSUME ~parsing, ~overflowed, ~config.expr, config.max = 0
               PROVE  BytesOf(packets) = Frames(config, stream)
    BY Zenon DEF ChunksDoNotMatter, BytesOf
  <1>1. Exact
    BY DEF Exact
  <1>2. /\ Leads(config, stream, 0, Place(buffer), BytesOf(packets))
        /\ At(config, stream)[Place(buffer) + 1] = <<>>
    BY <1>1, Zenon DEF FramesInv
  <1>3. BytesOf(packets) \in Seq(Seq(Byte)) /\ stream \in Seq(Byte)
    BY BufferFacts, BytesFacts, Zenon
  <1> QED
    BY <1>2, <1>3, LeadsToTheEnd, Zenon

(***************************************************************************)
(* Fragmentation and coalescing do not matter, whatever the chunks and the *)
(* size of the buffer: each step of parseChunk takes from the buffer a     *)
(* frame that comes next, however the stream goes on, or bytes no frame    *)
(* begins with, and it returns only when none is left.                     *)
(***************************************************************************)
THEOREM ChunksNeverMatter ==
  ASSUME \A c \in Configs : Verifiable(c)
  PROVE  Spec => []ChunksDoNotMatter
  <1>1. Init => FramesInv
    BY FramesInit
  <1>2. IInv /\ IInv' /\ PacketsAreFrames' /\ FramesInv /\ [Next]_vars => FramesInv'
    <2>1. IInv => Verifiable(config)
      BY DEF IInv, TypeOK
    <2> QED
      BY <2>1, FramesStep
  <1>3. IInv /\ FramesInv => ChunksDoNotMatter
    BY FramesAreReturned
  <1>4. Spec => []PacketsAreFrames
    BY PacketsAreWhatIsDocumented
  <1> QED
    BY <1>1, <1>2, <1>3, <1>4, ParserInvariant, PTL DEF Spec
=============================================================================
