-------------------------- MODULE MCCommandManager --------------------------
(***************************************************************************)
(* Four commands for TLC.  light and dim are commands of one entity, dim   *)
(* with low priority and also acknowledged by a packet; query is a raw     *)
(* command acknowledged by the same packet; blind is a raw command nobody  *)
(* answers.  One retry is enough for a second attempt that finds the       *)
(* listeners and timers of the first, none for a failure after one write.  *)
(***************************************************************************)
EXTENDS CommandManager

CONSTANTS light, dim, query, blind, lamp, done

MCJobs == {light, dim, query, blind}
MCEntityOf == [j \in MCJobs |-> IF j \in {light, dim} THEN lamp ELSE NoEntity]
MCAckOf == [j \in MCJobs |-> IF j \in {dim, query} THEN done ELSE NoAck]
MCPriority == [j \in MCJobs |-> IF j = dim THEN "low" ELSE "normal"]
MCRetries == [j \in MCJobs |-> IF j = dim THEN 0 ELSE 1]
=============================================================================
