--------------------------- MODULE MCPacketParser ---------------------------
(***************************************************************************)
(* Configurations of each strategy; the header is 1 or 1,2 and the footer  *)
(* 3.  Every chunk of one or two bytes may arrive, and three that fill or  *)
(* exceed the buffer.                                                      *)
(***************************************************************************)
EXTENDS PacketParser

CONSTANT LongChunks

Sweep(header, checksum) ==
    [header |-> header, footer |-> <<>>, valid |-> {}, length |-> 0, min |-> 0, max |-> 0,
     checksum |-> checksum, expr |-> FALSE, timeout |-> FALSE]
Footer(header, checksum) == [Sweep(header, checksum) EXCEPT !.footer = <<3>>]
Fixed(header, checksum, length) == [Sweep(header, checksum) EXCEPT !.length = length]

MCConfigs ==
    { Fixed(<<>>, "add", 3), Fixed(<<1, 2>>, "none", 3),
      [Fixed(<<>>, "crc8", 3) EXCEPT !.valid = {1}],
      [Footer(<<1>>, "none") EXCEPT !.timeout = TRUE], Footer(<<1>>, "add_no_header"),
      [Fixed(<<>>, "xor", 3) EXCEPT !.valid = {0, 1}],
      [Footer(<<>>, "samsung_rx") EXCEPT !.min = 4, !.valid = {0, 1, 3}],
      Sweep(<<1>>, "bestin_sum"), Sweep(<<>>, "xor_add"), [Sweep(<<1, 2>>, "samsung_tx") EXCEPT !.timeout = TRUE],
      [Sweep(<<>>, "xor_final") EXCEPT !.valid = {1, 2}],
      [Sweep(<<1>>, "add") EXCEPT !.expr = TRUE, !.min = 3],
      [Sweep(<<1>>, "add") EXCEPT !.max = 3], [Footer(<<1>>, "xor") EXCEPT !.max = 4] }

ASSUME VerifiableAssumption == \A c \in MCConfigs : Verifiable(c)

MCChunks == [1..1 -> Byte] \cup [1..2 -> Byte] \cup LongChunks
MCLongChunks == {<<1, 2, 3, 0, 1>>, <<0, 1, 3, 1, 2>>, <<3, 1, 2, 0, 1, 3>>}

\* A checksum that is neither a sum nor an exclusive-or.
MCCrc == {Footer(<<1>>, "crc8")}
=============================================================================
