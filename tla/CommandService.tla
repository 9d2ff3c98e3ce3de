--------------------------- MODULE CommandService ---------------------------
(***************************************************************************)
(* What the command manager promises its callers, without timers,          *)
(* listeners or promise reactions: commands wait in two lines, one is      *)
(* served at a time, it is transmitted at least once and at most Tries     *)
(* times, it ends with one result, and a low-priority command is served    *)
(* only when no normal one waits.                                          *)
(***************************************************************************)
EXTENDS Naturals, Sequences

CONSTANTS
    Commands, None,
    Normal,     \* the commands of normal priority; the others are low
    OneShot,    \* the commands that are not answered
    Tries       \* how often a command may be transmitted

VARIABLES
    normalLine, lowLine,  \* the commands that wait
    serving,              \* the command being served, or None
    sends,                \* how often the current incarnation was transmitted
    result,               \* "none" before the first request, "waiting", or how it ended
    returned              \* the caller has been told

svars == <<normalLine, lowLine, serving, sends, result, returned>>

Init ==
    /\ normalLine = <<>> /\ lowLine = <<>>
    /\ serving = None
    /\ sends = [c \in Commands |-> 0]
    /\ result = [c \in Commands |-> "none"]
    /\ returned = [c \in Commands |-> FALSE]

Start(c) == IF c \in OneShot THEN "sent" ELSE "waiting"

\* A caller asks for c while another command is served: c waits in its line.
AskWhileBusy(c) ==
    /\ result[c] = "none" \/ returned[c]
    /\ serving \notin {None, c}
    /\ IF c \in Normal
       THEN normalLine' = Append(normalLine, c) /\ UNCHANGED lowLine
       ELSE lowLine' = Append(lowLine, c) /\ UNCHANGED normalLine
    /\ sends' = [sends EXCEPT ![c] = 0]
    /\ result' = [result EXCEPT ![c] = "waiting"]
    /\ returned' = [returned EXCEPT ![c] = FALSE]
    /\ UNCHANGED serving

\* A caller asks for c and nothing is served: c is transmitted at once.
AskWhileIdle(c) ==
    /\ result[c] = "none" \/ returned[c]
    /\ serving = None
    /\ serving' = c
    /\ sends' = [sends EXCEPT ![c] = 1]
    /\ result' = [result EXCEPT ![c] = Start(c)]
    /\ returned' = [returned EXCEPT ![c] = FALSE]
    /\ UNCHANGED <<normalLine, lowLine>>

Repeat(c) ==
    /\ serving = c /\ result[c] = "waiting" /\ sends[c] < Tries[c]
    /\ sends' = [sends EXCEPT ![c] = sends[c] + 1]
    /\ UNCHANGED <<normalLine, lowLine, serving, result, returned>>

\* The command ends: answered, or given up after the last transmission.
End(c, r) ==
    /\ serving = c /\ result[c] = "waiting"
    /\ r \in {"acked", "failed"} /\ (r = "failed" => sends[c] = Tries[c])
    /\ result' = [result EXCEPT ![c] = r]
    /\ UNCHANGED <<normalLine, lowLine, serving, sends, returned>>

\* The caller of the served command is told, once.
Return(c) ==
    /\ serving = c /\ result[c] # "waiting" /\ ~returned[c]
    /\ returned' = [returned EXCEPT ![c] = TRUE]
    /\ UNCHANGED <<normalLine, lowLine, serving, sends, result>>

\* The next command is served and transmitted, or none.
Serve(c) ==
    /\ serving' = c
    /\ sends' = [sends EXCEPT ![c] = 1]
    /\ result' = [result EXCEPT ![c] = Start(c)]
    /\ UNCHANGED returned

NextTurn ==
    /\ serving # None /\ returned[serving]
    /\ \/ normalLine # <<>> /\ Serve(Head(normalLine))
          /\ normalLine' = Tail(normalLine) /\ UNCHANGED lowLine
       \/ normalLine = <<>> /\ lowLine # <<>> /\ Serve(Head(lowLine))
          /\ lowLine' = Tail(lowLine) /\ UNCHANGED normalLine
       \/ normalLine = <<>> /\ lowLine = <<>> /\ serving' = None
          /\ UNCHANGED <<normalLine, lowLine, sends, result, returned>>

Next ==
    \/ NextTurn
    \/ \E c \in Commands :
         \/ AskWhileBusy(c) \/ AskWhileIdle(c) \/ Repeat(c) \/ Return(c)
         \/ \E r \in {"acked", "failed"} : End(c, r)

Spec == Init /\ [][Next]_svars
=============================================================================
