------------------------------ MODULE DataPath ------------------------------
(***************************************************************************)
(* From the port to the packets.  The bridge has two listeners on the      *)
(* 'data' of a port: one that is always there and hands the chunk to the   *)
(* protocol manager (ProtocolWorker) unless there is a raw listener, and   *)
(* the raw listener (RawListeners), which comes and goes with its          *)
(* consumers, tells them of the chunk and then hands it over itself.  The  *)
(* consumers may detach the raw listener while it is telling them.         *)
(***************************************************************************)
EXTENDS ProtocolWorker, RawListeners

vars == <<workerVars, rawVars>>

Init == WorkerInit /\ RawInit

\* Fault: a raw listener that has been detached by its consumers does not hand over the chunk.
ReceiveUnlessDetached ==
    /\ ready
    /\ IF listening THEN RawData ELSE UNCHANGED rawVars
    /\ IF listening /\ ~listening'
       THEN received < Chunks /\ received' = received + 1
            /\ UNCHANGED <<worker, pendingChunks, thread, toThread, toMain, output, lost, failed>>
       ELSE Incoming

ReceiveData ==
    /\ ready
    /\ IF listening THEN RawData ELSE UNCHANGED rawVars
    /\ Incoming

Next ==
    \/ ReceiveData
    \/ WorkerNext /\ UNCHANGED rawVars
    \/ RawNext /\ UNCHANGED workerVars

Spec == Init /\ [][Next]_vars
FairSpec == Spec /\ WorkerFairness

\* The types of both parts.
TypeOK == WorkerTypeOK /\ RawTypeOK
=============================================================================
