---------------------------- MODULE RawListeners ----------------------------
(***************************************************************************)
(* Who wants the raw data of a port.  HomeNetBridge                        *)
(* (packages/core/src/service/bridge.service.ts) counts its consumers and  *)
(* listens to the port for them; the consumers are the sockets of the user *)
(* interface that stream packets (packages/service/src/websocket/          *)
(* stream-manager.ts), which count as one, and the collection of a sample  *)
(* of the traffic (log-collector.service.ts) that the user consented to.   *)
(* Both start and stop whenever they like, also before the bridge, which   *)
(* starts in the background, knows its port; the count leaves out those    *)
(* that started before, and when they stop they take the count of another. *)
(***************************************************************************)
EXTENDS Naturals, FiniteSets

CONSTANTS
    Sockets,
    Target      \* the packets of a collection; 1000 in the code

ASSUME TargetAssumption == Target \in Nat \ {0}

VARIABLES
    ready,          \* the port is in portContexts
    count,          \* rawListenerRefCounts of the port
    listening,      \* rawPacketListener # null
    subscribers,    \* rawPacketSubscribers
    collecting,     \* isCollecting
    packetCount,
    saving          \* the answers of updateConsent that wait for their saveConfig.
                    \* Bound: not two equal ones at a time

consumerVars == <<subscribers, collecting, packetCount, saving>>
rawVars == <<ready, count, listening, consumerVars>>

RawInit ==
    /\ ready = FALSE /\ count = 0 /\ listening = FALSE
    /\ subscribers = {} /\ collecting = FALSE /\ packetCount = 0 /\ saving = {}

-----------------------------------------------------------------------------
(* The bridge.                                                             *)

\* startRawPacketListener of a bridge without that port has no target.
AttachRawListener ==
    /\ count' = IF ready THEN count + 1 ELSE count
    /\ listening' = (listening \/ ready)

\* Fault: the last consumer is told from the count as it was.
DetachLate ==
    IF ready /\ count > 0
    THEN count' = count - 1 /\ listening' = (listening /\ count # 0)
    ELSE UNCHANGED <<count, listening>>

DetachRawListener ==
    IF ready /\ count > 0
    THEN count' = count - 1 /\ listening' = (listening /\ count' # 0)
    ELSE UNCHANGED <<count, listening>>

\* initialize has come to its end.
BridgeReady ==
    /\ ~ready /\ ready' = TRUE
    /\ UNCHANGED <<count, listening, consumerVars>>

-----------------------------------------------------------------------------
(* The sockets.                                                            *)

StartStream(s) ==
    /\ subscribers' = subscribers \cup {s}
    /\ IF subscribers = {} THEN AttachRawListener ELSE UNCHANGED <<count, listening>>
    /\ UNCHANGED <<ready, collecting, packetCount, saving>>

\* The command 'stop', or the end of the socket.
StopStream(s) ==
    /\ s \in subscribers
    /\ subscribers' = subscribers \ {s}
    /\ IF subscribers' = {} THEN DetachRawListener ELSE UNCHANGED <<count, listening>>
    /\ UNCHANGED <<ready, collecting, packetCount, saving>>

-----------------------------------------------------------------------------
(* The collection.                                                         *)

UpdateConsent(consent) ==
    /\ consent \notin saving
    /\ saving' = saving \cup {consent}
    /\ UNCHANGED <<ready, count, listening, subscribers, collecting, packetCount>>

StartCollection ==
    /\ ~collecting
    /\ collecting' = TRUE /\ packetCount' = 0
    /\ AttachRawListener

StopCollection ==
    /\ collecting
    /\ collecting' = FALSE
    /\ DetachRawListener
    /\ UNCHANGED packetCount

\* Two answers may be saved in either order.
ConsentSaved(consent) ==
    /\ consent \in saving
    /\ saving' = saving \ {consent}
    /\ \/ consent /\ StartCollection
       \/ ~consent /\ StopCollection
       \/ consent = collecting /\ UNCHANGED <<count, listening, collecting, packetCount>>
    /\ UNCHANGED <<ready, subscribers>>

\* Fault: the packet that completes the sample does not end the collection.
HandlePacketOneMore ==
    /\ collecting /\ packetCount <= Target
    /\ packetCount' = packetCount + 1
    /\ IF packetCount = Target
       THEN collecting' = FALSE /\ DetachRawListener
       ELSE UNCHANGED <<collecting, count, listening>>

HandlePacket ==
    /\ collecting
    /\ packetCount' = packetCount + 1
    /\ IF packetCount' = Target
       THEN collecting' = FALSE /\ DetachRawListener
       ELSE UNCHANGED <<collecting, count, listening>>

\* A chunk that the raw listener has received.
RawData ==
    /\ \/ HandlePacket
       \/ ~collecting /\ UNCHANGED <<collecting, packetCount, count, listening>>
    /\ UNCHANGED <<ready, subscribers, saving>>

RawNext ==
    \/ BridgeReady
    \/ \E s \in Sockets : StartStream(s) \/ StopStream(s)
    \/ \E consent \in BOOLEAN : UpdateConsent(consent) \/ ConsentSaved(consent)

-----------------------------------------------------------------------------
Consumers == (IF subscribers = {} THEN 0 ELSE 1) + (IF collecting THEN 1 ELSE 0)

\* Every variable holds values of the kind the code keeps in it.
RawTypeOK ==
    /\ {ready, listening, collecting} \subseteq BOOLEAN
    /\ count \in 0..2 /\ packetCount \in 0..Target
    /\ subscribers \subseteq Sockets /\ saving \subseteq BOOLEAN

\* Nobody is counted who no longer listens, and the raw listener is attached exactly while
\* somebody is counted: when the last consumer has gone the port is not listened to, whatever
\* came before the bridge was ready and however the answers of the user were saved.
NoIdleListener == count <= Consumers /\ (listening <=> count > 0)
=============================================================================
