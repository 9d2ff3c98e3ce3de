---------------------------- MODULE PacketParser ----------------------------
(***************************************************************************)
(* PacketParser.parseChunk (packages/core/src/protocol/packet-parser.ts):  *)
(* a chunk of bytes is appended to a buffer that is reused without being   *)
(* cleared, and one packet after the other is taken from it, by fixed      *)
(* length, by footer or by trying every length.  parseChunk is synchronous *)
(* and its loop is a step per iteration here: no chunk is received while   *)
(* parsing.  Its bound on the iterations is not modelled, it is never      *)
(* reached (EachIterationConsumes).                                        *)
(*                                                                         *)
(* A gap of rx_timeout before a chunk begins a new stream: what was        *)
(* buffered is given up.                                                   *)
(***************************************************************************)
EXTENDS PacketFrames, FiniteSets

CONSTANTS
    Configs,       \* the configurations, see PacketFrames; expr: rx_length_expr is data[1];
                   \* timeout: rx_timeout is given
    MaxBufferSize,
    SparseLimit,   \* 16: with fewer valid headers each window is verified by itself
    Chunks,        \* the chunks that may arrive
    MaxStream      \* bound: bytes received between two timeouts

ASSUME SizesAssumption == MaxBufferSize \in Nat \ {0} /\ SparseLimit \in Nat /\ MaxStream \in Nat
ASSUME ChunksAssumption == Chunks \subseteq Seq(Byte) \ {<<>>}
ASSUME ConfigsAssumption ==
    \A c \in Configs :
        /\ c.header \in Seq(Byte) /\ c.footer \in Seq(Byte) /\ c.valid \subseteq Byte
        /\ c.length \in Nat /\ c.min \in Nat /\ c.max \in Nat
        /\ c.length > 0 => LengthAllowed(c, c.length)   \* config/index.ts:556
        /\ c.checksum \in OneByteKinds \cup TwoByteKinds \cup {"none"}
        /\ c.expr \in BOOLEAN /\ c.timeout \in BOOLEAN

VARIABLES
    config,
    buffer,      \* bytes: the whole memory, index 0 is bytes[0]; read, write: the offsets;
                 \* scanned: lastScannedLength; base, history: the bytes of the stream that
                 \* came before bytes[0]
    parsing,     \* parseChunk is in its loop
    packets,     \* history: the packets returned, at: the bytes of the stream before it
    stream,      \* history: the bytes received since the last timeout
    overflowed   \* history: the buffer dropped bytes of the stream

vars == <<config, buffer, parsing, packets, stream, overflowed>>

BufferLength(b) == b.write - b.read
Slice(b, from, n) == [i \in 1..n |-> b.bytes[from + i - 1]]

ResetBuffer(b) == [b EXCEPT !.read = 0, !.write = 0, !.scanned = 0, !.base = @ + b.write]

\* Fault: the offsets are moved, the bytes are not.
CompactOffsets(b) ==
    IF b.read = 0 THEN b
    ELSE [b EXCEPT !.read = 0, !.write = BufferLength(b), !.base = @ + b.read]

CompactBuffer(b) ==
    CASE b.read = 0 -> b
      [] b.read # 0 /\ b.read >= b.write -> ResetBuffer(b)
      [] b.read # 0 /\ b.read < b.write ->
            [b EXCEPT !.bytes = [i \in 0..MaxBufferSize - 1 |->
                                    IF i < BufferLength(b) THEN @[i + b.read] ELSE @[i]],
                      !.read = 0, !.write = BufferLength(b), !.base = @ + b.read]

\* Fault: the last byte of what is consumed stays.
ConsumeAllButLast(b, n) == IF n = 1 THEN ResetBuffer(b) ELSE [b EXCEPT !.read = @ + n - 1]

ConsumeBytes(b, n) ==
    IF b.read + n >= b.write THEN ResetBuffer(b) ELSE [b EXCEPT !.read = @ + n]

TooMany(b, n) == b.write + n > MaxBufferSize

\* Fault: nothing is dropped when compacting is not enough.
MakeRoomByCompacting(b, n) == IF TooMany(b, n) THEN CompactBuffer(b) ELSE b

\* What appendChunk does of a chunk of n bytes before it copies them.
MakeRoom(b, n) ==
    LET compact == IF TooMany(b, n) THEN CompactBuffer(b) ELSE b
        drop == compact.read + compact.write + n - MaxBufferSize
        dropped == IF drop >= compact.write THEN ResetBuffer(compact)
                   ELSE [compact EXCEPT !.read = drop, !.scanned = 0]
    IN  IF ~TooMany(compact, n) THEN compact
        ELSE IF TooMany(dropped, n) THEN CompactBuffer(dropped) ELSE dropped

CopyChunk(b, chunk) ==
    [b EXCEPT !.bytes = [i \in 0..MaxBufferSize - 1 |->
                            IF i >= b.write /\ i < b.write + Len(chunk)
                              THEN chunk[i - b.write + 1] ELSE @[i]],
              !.write = @ + Len(chunk)]

\* A chunk that fills the buffer replaces its content, and only its end is kept.
AppendChunk(b, chunk) ==
    IF Len(chunk) >= MaxBufferSize
      THEN LET skipped == Len(chunk) - MaxBufferSize
           IN  CopyChunk([ResetBuffer(b) EXCEPT !.base = @ + skipped],
                         SubSeq(chunk, skipped + 1, Len(chunk)))
      ELSE CopyChunk(MakeRoom(b, Len(chunk)), chunk)

Empty == [bytes |-> [i \in 0..MaxBufferSize - 1 |-> 0], read |-> 0, write |-> 0, scanned |-> 0, base |-> 0]

Init ==
    /\ config \in Configs
    /\ buffer = Empty /\ parsing = FALSE
    /\ packets = <<>> /\ stream = <<>> /\ overflowed = FALSE

Receive(chunk) ==
    /\ ~parsing
    /\ Len(stream) + Len(chunk) <= MaxStream
    /\ buffer' = AppendChunk(buffer, chunk)
    /\ stream' = stream \o chunk
    /\ overflowed' = (overflowed \/ BufferLength(buffer) + Len(chunk) > MaxBufferSize)
    /\ parsing' = TRUE
    /\ UNCHANGED <<config, packets>>

\* The chunk that comes after a gap of rx_timeout.
ReceiveLate(chunk) ==
    /\ ~parsing /\ config.timeout
    /\ stream # <<>> /\ Len(chunk) <= MaxStream
    /\ buffer' = AppendChunk([ResetBuffer(buffer) EXCEPT !.base = 0], chunk)
    /\ stream' = chunk /\ packets' = <<>>
    /\ overflowed' = (Len(chunk) > MaxBufferSize)
    /\ parsing' = TRUE
    /\ UNCHANGED config

-----------------------------------------------------------------------------
Occurs(b, pattern, i) ==
    /\ i + Len(pattern) <= MaxBufferSize
    /\ \A k \in 1..Len(pattern) : b.bytes[i + k - 1] = pattern[k]

Least(S) == CHOOSE i \in S : \A j \in S : i <= j

FindPatternIndex(b, pattern, from) ==
    LET hits == {i \in from..MaxBufferSize - 1 : Occurs(b, pattern, i)}
    IN  IF hits = {} THEN -1
        ELSE IF Least(hits) + Len(pattern) > b.write THEN -1 ELSE Least(hits)

HeaderIndex(b) == IF config.header = <<>> THEN b.read ELSE FindPatternIndex(b, config.header, b.read)

\* Fault: the beginning of a header at the end of the chunk is dropped.
HeaderMissingKeepingNothing ==
    /\ parsing /\ BufferLength(buffer) > 0
    /\ HeaderIndex(buffer) = -1
    /\ buffer' = [buffer EXCEPT !.read = buffer.write, !.scanned = 0]
    /\ parsing' = FALSE
    /\ UNCHANGED <<config, packets, stream, overflowed>>

\* The header is not there: keep what may be the beginning of one.
HeaderMissing ==
    /\ parsing /\ BufferLength(buffer) > 0
    /\ HeaderIndex(buffer) = -1
    /\ buffer' = IF BufferLength(buffer) < Len(config.header) THEN buffer
                 ELSE [buffer EXCEPT !.read = @ + BufferLength(buffer) - (Len(config.header) - 1), !.scanned = 0]
    /\ parsing' = FALSE
    /\ UNCHANGED <<config, packets, stream, overflowed>>

\* The buffer an iteration goes on with once its header step has passed.
Aligned ==
    IF HeaderIndex(buffer) > buffer.read
      THEN [buffer EXCEPT !.read = HeaderIndex(buffer), !.scanned = 0] ELSE buffer

Iterates(strategy) ==
    /\ parsing /\ BufferLength(buffer) > 0
    /\ HeaderIndex(buffer) # -1
    /\ Strategy(config) = strategy

\* Fault: the packet stays in the buffer.
EmitOnly(b, from, n) ==
    /\ packets' = Append(packets, [at |-> b.base + from, bytes |-> Slice(b, from, n)])
    /\ UNCHANGED <<buffer, parsing>>

Emit(b, from, n) ==
    /\ packets' = Append(packets, [at |-> b.base + from, bytes |-> Slice(b, from, n)])
    /\ buffer' = ConsumeBytes(b, from - b.read + n)
    /\ UNCHANGED parsing
GoOn(b) == buffer' = b /\ UNCHANGED <<packets, parsing>>
Wait(b) == buffer' = b /\ parsing' = FALSE /\ UNCHANGED packets

\* Fault: rx_valid_headers is not looked at.
AnyHeader(b, i) == i \in DOMAIN b.bytes

ValidHeader(b, i) == config.valid # {} => b.bytes[i] \in config.valid

HeaderLen == Len(config.header)
FooterLen == Len(config.footer)
VerifyChecksum(frame) ==
    LengthAllowed(config, Len(frame)) /\ Verify(config.checksum, frame, HeaderLen, FooterLen)

\* What the incremental loops compare, of a frame: skips says if they leave out the header.
RunningOk(frame, skips) ==
    LET n == ChecksumLength(config.checksum)
    IN  Trailer(frame, n, FooterLen)
          = Running(config.checksum, Covered(frame, n, FooterLen, IF skips THEN HeaderLen ELSE 0))
IncrementalOk(frame) ==
    IF config.checksum = "none" THEN VerifyChecksum(frame)
    ELSE RunningOk(frame, ~CoversHeader(config.checksum))

\* Strategy A slides a window over the buffer and keeps its checksum, unless few headers
\* are valid or the checksum cannot be taken back.
WindowOk(frame) ==
    IF \/ config.checksum \in {"none", "bestin_sum"}
       \/ Cardinality(config.valid) \in 1..SparseLimit - 1
      THEN VerifyChecksum(frame)
      ELSE RunningOk(frame, ~CoversHeader(config.checksum) \/ config.checksum = "samsung_xor")

-----------------------------------------------------------------------------
\* Strategy A: every window of the buffer is tried, what cannot begin a packet is dropped.
FixedStep ==
    LET b == Aligned
        windows == b.read .. b.write - config.length
        hits == {i \in windows : ValidHeader(b, i) /\ WindowOk(Slice(b, i, config.length))}
    IN  /\ Iterates("fixed")
        /\ \/ BufferLength(b) < config.length /\ Wait(b)
           \/ /\ BufferLength(b) >= config.length
              /\ IF hits # {} THEN Emit(b, Least(hits), config.length)
                 ELSE Wait(ConsumeBytes(b, BufferLength(b) - config.length + 1))
        /\ UNCHANGED <<config, stream, overflowed>>

\* No frame was found in the buffer of a variable length.
NoMatch(b) ==
    IF config.max > 0 /\ BufferLength(b) > config.max
      THEN GoOn([ConsumeBytes(b, 1) EXCEPT !.scanned = 0])
      ELSE Wait([b EXCEPT !.scanned = BufferLength(b)])

\* Strategy B: the first footer that ends a valid frame, or one of a length not allowed.
FooterStep ==
    LET b == Aligned
        lengths == {n \in Shortest(config)..BufferLength(b) :
                      Occurs(b, config.footer, b.read + n - FooterLen)}
        decisive == {n \in lengths : LengthAllowed(config, n) => IncrementalOk(Slice(b, b.read, n))}
    IN  /\ Iterates("footer")
        /\ \/ BufferLength(b) < Shortest(config) /\ NoMatch(b)
           \/ /\ BufferLength(b) >= Shortest(config)
              /\ ~ValidHeader(b, b.read)
              /\ GoOn([ConsumeBytes(b, 1) EXCEPT !.scanned = 0])
           \/ /\ BufferLength(b) >= Shortest(config)
              /\ ValidHeader(b, b.read)
              /\ IF decisive = {} THEN NoMatch(b)
                 ELSE IF LengthAllowed(config, Least(decisive))
                   THEN Emit(b, b.read, Least(decisive))
                   ELSE GoOn(ConsumeBytes(b, Least(decisive)))
        /\ UNCHANGED <<config, stream, overflowed>>

\* The length rx_length_expr gives, 0 when it is of no use.
DynamicLength(b) ==
    LET n == IF config.expr /\ BufferLength(b) > 1 THEN b.bytes[b.read + 1] ELSE 0
    IN  IF n <= BufferLength(b) THEN n ELSE 0

\* Strategy C: the length the expression gives, else every length not yet tried.
SweepStep ==
    LET b == Aligned
        first == LET S == {Shortest(config), b.scanned + 1, config.min}
                 IN  CHOOSE x \in S : \A y \in S : x >= y
        limit == IF config.max > 0 /\ config.max < BufferLength(b) THEN config.max ELSE BufferLength(b)
        hits == {k \in first..limit : IncrementalOk(Slice(b, b.read, k))}
        Found(k) == Emit([b EXCEPT !.scanned = 0], b.read, k)
        Skip(k) == GoOn([ConsumeBytes(b, k) EXCEPT !.scanned = 0])
        Sweep == IF first > limit THEN Wait([b EXCEPT !.scanned = BufferLength(b)])
                 ELSE IF hits # {} THEN Found(Least(hits)) ELSE NoMatch(b)
        n == DynamicLength(b)
    IN  /\ Iterates("sweep")
        /\ IF BufferLength(b) < Shortest(config) \/ ChecksumLength(config.checksum) = 0 THEN NoMatch(b)
           ELSE IF ~ValidHeader(b, b.read) THEN Skip(1)
           ELSE IF n = 0 THEN Sweep
           ELSE IF ~LengthAllowed(config, n) THEN Skip(n)
           ELSE IF VerifyChecksum(Slice(b, b.read, n)) THEN Found(n) ELSE Sweep
        /\ UNCHANGED <<config, stream, overflowed>>

Return ==
    /\ parsing /\ BufferLength(buffer) = 0
    /\ parsing' = FALSE
    /\ UNCHANGED <<config, buffer, packets, stream, overflowed>>

Next ==
    \/ \E chunk \in Chunks : Receive(chunk) \/ ReceiveLate(chunk)
    \/ HeaderMissing \/ FixedStep \/ FooterStep \/ SweepStep \/ Return

Spec == Init /\ [][Next]_vars

-----------------------------------------------------------------------------
\* Types; the offsets of the buffer stay in it and in order.
TypeOK ==
    /\ config \in Configs /\ parsing \in BOOLEAN /\ overflowed \in BOOLEAN
    /\ buffer \in [bytes : [0..MaxBufferSize - 1 -> Byte], read : Nat, write : Nat, scanned : Nat, base : Nat]
    /\ buffer.read <= buffer.write /\ buffer.write <= MaxBufferSize
    /\ packets \in Seq([at : Nat, bytes : Seq(Byte)]) /\ stream \in Seq(Byte)

(***************************************************************************)
(* What is between the offsets of the reused buffer is the end of the      *)
(* stream: no byte of an earlier packet shows through, none is lost or     *)
(* moved when the buffer is compacted or overflows.                        *)
(***************************************************************************)
BufferIsTheTail ==
    /\ buffer.base + buffer.write = Len(stream)
    /\ \A i \in buffer.read..buffer.write - 1 : buffer.bytes[i] = stream[buffer.base + i + 1]

(***************************************************************************)
(* The packets returned are disjoint pieces of the stream, in its order:   *)
(* no byte is part of two packets, and none is still buffered.             *)
(***************************************************************************)
PacketsPartitionTheStream ==
    /\ \A i \in 1..Len(packets) :
          LET p == packets[i]
          IN  /\ p.at + Len(p.bytes) <= buffer.base + buffer.read
              /\ p.bytes = SubSeq(stream, p.at + 1, p.at + Len(p.bytes))
    /\ \A i, j \in 1..Len(packets) :
          i < j => packets[i].at + Len(packets[i].bytes) <= packets[j].at

(***************************************************************************)
(* Fragmentation and coalescing do not matter: between two calls the       *)
(* packets returned are the frames of the whole stream, however it was cut *)
(* into chunks (the class comment, packet-parser.ts:23), unless the buffer *)
(* overflowed.  An rx_length_expr is exempt: while a packet is incomplete  *)
(* the parser falls back to the sweep, as documented.  So is rx_max_length:*)
(* what is too long is dropped byte by byte or, up to a footer that is     *)
(* there already, as a whole, and the sweep waits where it should drop.    *)
(***************************************************************************)
ChunksDoNotMatter ==
    ~parsing /\ ~overflowed /\ ~config.expr /\ config.max = 0 =>
        [i \in 1..Len(packets) |-> packets[i].bytes] = Frames(config, stream)

(***************************************************************************)
(* Whatever is returned is a frame of the configuration: it begins with    *)
(* the header, has an allowed length and the documented checksum, also     *)
(* when bytes were dropped or an rx_length_expr gave its length.           *)
(***************************************************************************)
PacketsAreFrames == \A i \in 1..Len(packets) : IsFrame(config, packets[i].bytes)

\* Configurations it holds of, whatever is received: the loops compare the checksum that is
\* documented, each window of a fixed length is one that is compared with the header, the
\* header, the checksum and the footer do not overlap, and rx_length_expr gives no length
\* that is too short for them.
Verifiable(c) ==
    /\ c.length > 0 =>
          /\ c.header = <<>> \/ (c.checksum = "none" /\ c.valid = {})
          /\ c.length >= Len(c.header) + ChecksumLength(c.checksum) + Len(c.footer)
    /\ c.checksum = "crc8" => c.length > 0 /\ Cardinality(c.valid) \in 1..SparseLimit - 1
    /\ c.expr => c.min >= Shortest(c)

(***************************************************************************)
(* The loop of parseChunk comes to an end without its bound on the         *)
(* iterations: each one takes bytes from the buffer or is the last.        *)
(***************************************************************************)
EachIterationConsumes ==
    [][parsing /\ parsing' => BufferLength(buffer') < BufferLength(buffer)]_vars
=============================================================================
