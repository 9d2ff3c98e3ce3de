----------------------------- MODULE ChunkPipe -----------------------------
(***************************************************************************)
(* What the parsing of a port promises, whichever thread does it: chunks   *)
(* are parsed in the order in which they arrive, each of them once, each   *)
(* of them in the end, and by the same parser, until the pipe breaks.      *)
(* Several chunks may be parsed in one step, and some in the step in which *)
(* one arrives.                                                            *)
(***************************************************************************)
EXTENDS Naturals, Sequences

VARIABLES
    sent,       \* the number of chunks that have arrived: 1, 2, ..., sent
    delivered,  \* those that have been parsed
    parser,     \* and by which parser; "none" as long as there are none
    broken

pipe == <<sent, delivered, parser, broken>>

First(n) == [i \in 1..n |-> i]

Init == sent = 0 /\ delivered = <<>> /\ parser = "none" /\ broken = FALSE

Parse(n) ==
    /\ delivered' = First(n)
    /\ parser' \in IF parser = "none" /\ n > 0 THEN {"main", "worker"} ELSE {parser}

Send ==
    /\ ~broken /\ broken' = FALSE
    /\ sent' = sent + 1
    /\ \E n \in Len(delivered)..sent + 1 : Parse(n)

Deliver ==
    /\ ~broken /\ broken' = FALSE
    /\ sent' = sent
    /\ \E n \in Len(delivered) + 1..sent : Parse(n)

\* Nothing is promised of a broken pipe.
Break == broken' = TRUE

Next == Send \/ Deliver \/ Break

Spec == Init /\ [][Next]_pipe /\ WF_pipe(Deliver)
=============================================================================
