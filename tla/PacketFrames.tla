---------------------------- MODULE PacketFrames ----------------------------
(***************************************************************************)
(* What docs/config/packet-validation-strategies.md promises: the frames   *)
(* of a stream of bytes, whatever the chunks it arrives in.  A             *)
(* configuration c is the part of packet_defaults that concerns receiving: *)
(* header and footer are sequences, valid a set, and 0, <<>> or {} stand   *)
(* for an option that is not given.                                        *)
(***************************************************************************)
EXTENDS Checksum

Strategy(c) == CASE c.length > 0 -> "fixed" [] c.length = 0 /\ c.footer # <<>> -> "footer"
                 [] OTHER -> "sweep"

StartsWith(s, prefix) == Len(s) >= Len(prefix) /\ SubSeq(s, 1, Len(prefix)) = prefix
EndsWith(s, suffix) == Len(s) >= Len(suffix) /\ SubSeq(s, Len(s) - Len(suffix) + 1, Len(s)) = suffix

LengthAllowed(c, n) == n >= c.min /\ (c.max > 0 => n <= c.max)

\* The shortest frame a strategy looks for.
Shortest(c) ==
    CASE Strategy(c) = "fixed"  -> c.length
      [] Strategy(c) = "footer" -> Len(c.header) + 1 + ChecksumLength(c.checksum) + Len(c.footer)
      [] Strategy(c) = "sweep"  -> Len(c.header) + ChecksumLength(c.checksum)

Begins(c, f) == StartsWith(f, c.header) /\ (c.valid # {} => f[1] \in c.valid)

\* The footer is looked for by its own strategy only; the place of the checksum depends on
\* it in every strategy.
IsFrame(c, f) ==
    /\ Len(f) >= Shortest(c) /\ LengthAllowed(c, Len(f))
    /\ Strategy(c) = "fixed" => Len(f) = c.length
    /\ Strategy(c) = "footer" => EndsWith(f, c.footer)
    /\ Begins(c, f)
    /\ Strategy(c) = "sweep" => ChecksumLength(c.checksum) > 0
    /\ Verify(c.checksum, f, Len(c.header), Len(c.footer))

\* What a footer ends but has a length that is not allowed is ignored as a whole.
Ignored(c, f) ==
    /\ Strategy(c) = "footer" /\ EndsWith(f, c.footer)
    /\ Len(f) >= Shortest(c) /\ ~LengthAllowed(c, Len(f)) /\ Begins(c, f)

\* No frame can begin at the first byte of s, however s goes on.
Hopeless(c, s) ==
    \/ Len(s) >= Len(c.header) /\ ~StartsWith(s, c.header)
    \/ c.valid # {} /\ s[1] \notin c.valid
    \/ Strategy(c) = "fixed" /\ Len(s) >= c.length
    \/ c.max > 0 /\ Len(s) > c.max

\* The places at which something that begins at place p of s ends: a frame, or what is ignored.
Ends(c, s, p) == {e \in p..Len(s) : IsFrame(c, SubSeq(s, p, e)) \/ Ignored(c, SubSeq(s, p, e))}

\* The frames of s from place p on, later being those from each later place on.
FramesFrom(c, s, p, later) ==
    LET rest == SubSeq(s, p, Len(s))
        ends == Ends(c, s, p)
        e == CHOOSE e \in ends : \A d \in ends : e <= d
        f == SubSeq(s, p, e)
    IN  CASE p > Len(s)  -> <<>>
          [] ends # {} -> (IF IsFrame(c, f) THEN <<f>> ELSE <<>>) \o later[e + 1]
          [] p <= Len(s) /\ ends = {} -> IF Hopeless(c, rest) THEN later[p + 1] ELSE <<>>

\* The frames of s: the first place a frame begins at, the shortest one there.
Frames(c, s) ==
    LET at[p \in 1..Len(s) + 1] == FramesFrom(c, s, p, at) IN at[1]
=============================================================================
