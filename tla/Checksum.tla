------------------------------ MODULE Checksum ------------------------------
(***************************************************************************)
(* The checksums of packages/core/src/protocol/utils/checksum.ts, which    *)
(* the documentation describes and verifyChecksum applies to a whole       *)
(* frame, and the ones the loops of PacketParser keep running while they   *)
(* try one frame after the other.  A byte has two bits here, enough for a  *)
(* top bit and for a sum and an exclusive-or to differ; a constant of the  *)
(* code is represented by its two top bits.                                *)
(***************************************************************************)
EXTENDS Integers, Sequences

Byte == 0..3
TopBit == 2
Xor(a, b) == (TopBit * ((a \div 2 + b \div 2) % 2)) + ((a + b) % 2)

OneByteKinds == {"add", "add_no_header", "xor", "xor_no_header", "xor_final",
                 "samsung_rx", "samsung_tx", "samsung_xor", "bestin_sum", "crc8"}
TwoByteKinds == {"xor_add"}

ChecksumLength(kind) ==
    IF kind \in TwoByteKinds THEN 2 ELSE IF kind \in OneByteKinds THEN 1 ELSE 0

Fold(op(_, _), seed, s) ==
    LET f[i \in 0..Len(s)] == IF i = 0 THEN seed ELSE op(f[i - 1], s[i]) IN f[Len(s)]
Sum(s) == Fold(LAMBDA a, b : (a + b) % 4, 0, s)
XorAll(seed, s) == Fold(Xor, seed, s)
BestinSum(s) == Fold(LAMBDA a, b : (Xor(a, b) + 1) % 4, 3, s)

\* One bit of generateCrc8Table: shift left, subtract the polynomial if a bit came out.
Shift(c) == IF c >= TopBit THEN Xor((2 * c) % 4, 3) ELSE 2 * c
CrcTable == [c \in Byte |-> Shift(Shift(c))]
Crc8(s) == Fold(LAMBDA a, b : CrcTable[Xor(a, b)], 0, s)

\* getChecksumOffsetType: 'base' for these, 'header' for the others.
CoversHeader(kind) ==
    kind \notin {"add_no_header", "xor_no_header", "samsung_rx", "samsung_tx"}

SamsungRxSeed == 2
SamsungRx(x, s) == IF s # <<>> /\ s[1] < 1 THEN Xor(x, TopBit) ELSE x

\* The checksum of the bytes s, the ones it covers, as checksum.ts computes it.
Calculated(kind, s) ==
    CASE kind \in {"add", "add_no_header"} -> <<Sum(s)>>
      [] kind \in {"xor", "xor_no_header"} -> <<XorAll(0, s)>>
      [] kind = "xor_final"   -> <<Xor(XorAll(0, s), 1)>>
      [] kind = "samsung_rx"  -> <<SamsungRx(XorAll(SamsungRxSeed, s), s)>>
      [] kind = "samsung_tx"  -> <<Xor(XorAll(0, s), TopBit)>>
      [] kind = "samsung_xor" -> <<XorAll(0, s) % TopBit>>
      [] kind = "bestin_sum"  -> <<BestinSum(s)>>
      [] kind = "crc8"        -> <<Crc8(s)>>
      [] kind = "xor_add"     -> <<XorAll(0, s), (Sum(s) + XorAll(0, s)) % 4>>

\* The checksum of the bytes s as the loops of parseChunk keep it up to date: what is
\* neither a sum nor bestin_sum is taken for an exclusive-or with a final modifier.
Running(kind, s) ==
    CASE kind \in {"add", "add_no_header", "bestin_sum", "xor_add"} -> Calculated(kind, s)
      [] kind = "samsung_rx"  -> <<SamsungRx(XorAll(SamsungRxSeed, s), s)>>
      [] kind = "samsung_tx"  -> <<Xor(XorAll(0, s), TopBit)>>
      [] kind = "samsung_xor" -> <<XorAll(0, s) % TopBit>>
      [] kind = "xor_final"   -> <<Xor(XorAll(0, s), 1)>>
      [] OTHER                -> <<XorAll(0, s)>>

\* Of a frame that ends with a checksum of n bytes and a footer: the checksum, and what is
\* between the header (if skipped) and it.
Trailer(frame, n, footerLen) == SubSeq(frame, Len(frame) - footerLen - n + 1, Len(frame) - footerLen)
Covered(frame, n, footerLen, skipped) == SubSeq(frame, skipped + 1, Len(frame) - footerLen - n)

\* PacketParser.verifyChecksum, without the test of the length.
Verify(kind, frame, headerLen, footerLen) ==
    LET n == ChecksumLength(kind)
    IN  \/ n = 0
        \/ /\ n = 1 \/ Len(frame) - n - footerLen >= headerLen
           /\ Trailer(frame, n, footerLen)
                = Calculated(kind, Covered(frame, n, footerLen, IF CoversHeader(kind) THEN 0 ELSE headerLen))
=============================================================================
