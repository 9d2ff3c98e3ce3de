------------------------------ MODULE TcpSocket ------------------------------
(***************************************************************************)
(* The TCP side of a serial port: ReconnectingTcpSocket (packages/core/    *)
(* src/transports/serial/tcp-socket.ts), the factory that opens it         *)
(* (serial.factory.ts) and the idle watchdog of the bridge that may force  *)
(* it to reconnect (service/bridge.service.ts).                            *)
(*                                                                         *)
(* The object is a Duplex around a net.Socket that is replaced after every *)
(* loss of the connection.  One action is one callback of the event loop.  *)
(* What Node does is modelled as the code uses it: a net.Socket that is    *)
(* destroyed emits 'close' in a later turn; a Duplex calls _write for one  *)
(* chunk at a time and queues the others; a chunk written to a net.Socket  *)
(* that never connects, or that the peer has ended, is answered with an    *)
(* error, and so may be one in flight when a connection breaks; and a      *)
(* Duplex whose _write calls back with an error is destroyed (autoDestroy, *)
(* on by default).                                                         *)
(***************************************************************************)
EXTENDS Integers

CONSTANTS
    InitialDelay, MaxDelay, \* reconnection delays
    MaxRetries,             \* further attempts of the factory after the first
    MaxQueued               \* bound on the chunks queued in the Duplex

ASSUME DelayAssumption == InitialDelay \in Nat \ {0} /\ MaxDelay \in Nat /\ InitialDelay <= MaxDelay
ASSUME BoundsAssumption == MaxRetries \in Nat /\ MaxQueued \in Nat

VARIABLES
    owner,        \* createSerialPortConnection: connecting, pausing between two attempts, returned, failed
    retries,      \* its attempts left
    socket,       \* this.socket: none; connecting; open; ended (by the peer, not yet closed);
                  \* closing (destroyed, 'close' to come); dead (destroyed before it connected)
    connectTimer, \* connectionTimeout of connect() is pending
    reconnecting, \* this.reconnecting
    armed,        \* the reconnect timers that are pending; this.reconnectTimer is the last one
    currentDelay, \* this.currentDelay
    chunk,        \* the chunk _write was called for: none; held (in writeBuffer); handed
                  \* (to socket.write); failing (its error callback is on its way)
    queued,       \* the chunks the Duplex queues behind it
    destroyed     \* _isDestroyed

vars == <<owner, retries, socket, connectTimer, reconnecting, armed, currentDelay,
          chunk, queued, destroyed>>

attempts == <<owner, retries>>
writes   == <<chunk, queued>>

-----------------------------------------------------------------------------
\* connect(): a new net.Socket and the timer that limits its connection.
Connect == socket' = "connecting" /\ connectTimer' = TRUE

\* Fault: scheduleReconnect does not look at this.reconnecting.
ScheduleReconnectAgain(already) ==
    IF destroyed
    THEN reconnecting' = already /\ UNCHANGED armed
    ELSE reconnecting' = TRUE /\ armed' = armed + 1

\* scheduleReconnect, given the value of this.reconnecting at the call.
ScheduleReconnect(already) ==
    IF already \/ destroyed
    THEN reconnecting' = already /\ UNCHANGED armed
    ELSE reconnecting' = TRUE /\ armed' = armed + 1

\* writeToSocket: where a chunk goes while this.socket is s.
WriteToSocket(s) ==
    CASE s \in {"none", "closing", "dead"} -> "held"
      [] s \in {"connecting", "open"}      -> "handed"
      [] s = "ended"                       -> "failing"

\* The callback of the chunk was called without error: the Duplex writes the next one,
\* this.socket being s.
NextChunk(s) ==
    IF queued = 0
    THEN chunk' = "none" /\ UNCHANGED queued
    ELSE chunk' = WriteToSocket(s) /\ queued' = queued - 1

\* The net.Socket a chunk was handed to is destroyed, and s takes its place.
BreakWrites(s) ==
    IF chunk # "handed"
    THEN UNCHANGED writes
    ELSE \/ chunk' = "failing" /\ UNCHANGED queued
         \/ socket # "connecting" /\ NextChunk(s)

\* Fault: the doubled delay is not limited.
RejectedUnlimited ==
    IF owner = "connecting"
    THEN /\ UNCHANGED <<currentDelay, reconnecting, armed>>
         /\ IF retries > 0
            THEN owner' = "pausing" /\ retries' = retries - 1 /\ UNCHANGED destroyed
            ELSE owner' = "failed" /\ destroyed' = TRUE /\ UNCHANGED retries
    ELSE /\ currentDelay < MaxDelay /\ currentDelay' = 2 * currentDelay
         /\ ScheduleReconnect(FALSE)
         /\ UNCHANGED <<attempts, destroyed>>

\* The promise of connect() is rejected: the factory pauses or gives up, which destroys
\* the Duplex; the reconnect timer's handler doubles the delay and schedules itself again.
Rejected ==
    IF owner = "connecting"
    THEN /\ UNCHANGED <<currentDelay, reconnecting, armed>>
         /\ IF retries > 0
            THEN owner' = "pausing" /\ retries' = retries - 1 /\ UNCHANGED destroyed
            ELSE owner' = "failed" /\ destroyed' = TRUE /\ UNCHANGED retries
    ELSE /\ currentDelay' = IF 2 * currentDelay < MaxDelay THEN 2 * currentDelay ELSE MaxDelay
         /\ ScheduleReconnect(FALSE)
         /\ UNCHANGED <<attempts, destroyed>>

\* _destroy.
DestroyDuplex ==
    /\ destroyed' = TRUE
    /\ reconnecting' = FALSE
    /\ armed' = IF armed > 0 THEN armed - 1 ELSE 0
    /\ socket' = "none"
    /\ chunk' = "none" /\ queued' = 0
    /\ UNCHANGED <<attempts, connectTimer, currentDelay>>

-----------------------------------------------------------------------------
\* createSerialPortConnection constructs the object and calls connect().
Init ==
    /\ owner = "connecting" /\ retries = MaxRetries
    /\ socket = "connecting" /\ connectTimer = TRUE
    /\ reconnecting = FALSE /\ armed = 0
    /\ currentDelay = InitialDelay
    /\ chunk = "none" /\ queued = 0
    /\ destroyed = FALSE

\* The pause between two attempts of the factory is over.
RetryConnect ==
    /\ owner = "pausing" /\ owner' = "connecting"
    /\ Connect
    /\ UNCHANGED <<retries, reconnecting, armed, currentDelay, writes, destroyed>>

\* Fault: the write buffer is not flushed.
OnConnectNoFlush ==
    /\ socket = "connecting" /\ socket' = "open"
    /\ connectTimer' = FALSE
    /\ currentDelay' = InitialDelay
    /\ reconnecting' = FALSE
    /\ owner' = IF owner = "connecting" THEN "returned" ELSE owner
    /\ UNCHANGED <<retries, armed, writes, destroyed>>

\* 'connect': onConnect.
OnConnect ==
    /\ socket = "connecting" /\ socket' = "open"
    /\ connectTimer' = FALSE
    /\ currentDelay' = InitialDelay
    /\ chunk' = IF chunk = "held" THEN "handed" ELSE chunk
    /\ reconnecting' = FALSE
    /\ owner' = IF owner = "connecting" THEN "returned" ELSE owner
    /\ UNCHANGED <<retries, armed, queued, destroyed>>

\* 'error' before 'connect': onError.
OnError ==
    /\ socket = "connecting" /\ socket' = "none"
    /\ connectTimer' = FALSE
    /\ BreakWrites("none")
    /\ Rejected

\* Fault: the timer does nothing for a socket that is already destroyed.
ConnectionTimeoutIfAlive ==
    /\ connectTimer /\ connectTimer' = FALSE
    /\ IF socket # "connecting"
       THEN UNCHANGED <<attempts, socket, reconnecting, armed, currentDelay, writes, destroyed>>
       ELSE /\ BreakWrites("dead")
            /\ Rejected
            /\ socket' = IF destroyed' THEN "none" ELSE "dead"

\* The timer connectionTimeout, which looks at the socket the object has by then.
ConnectionTimeout ==
    /\ connectTimer /\ connectTimer' = FALSE
    /\ IF socket = "none"
       THEN UNCHANGED <<attempts, socket, reconnecting, armed, currentDelay, writes, destroyed>>
       ELSE /\ BreakWrites("dead")
            /\ Rejected
            /\ socket' = IF destroyed' THEN "none" ELSE "dead"

\* 'end': the peer ends the connection.
OnEnd ==
    /\ socket = "open" /\ socket' = "ended"
    /\ UNCHANGED <<attempts, connectTimer, reconnecting, armed, currentDelay, writes, destroyed>>

\* The connection breaks: the net.Socket destroys itself.
Break ==
    /\ socket \in {"open", "ended"} /\ socket' = "closing"
    /\ BreakWrites("closing")
    /\ UNCHANGED <<attempts, connectTimer, reconnecting, armed, currentDelay, destroyed>>

\* 'close' of a socket that was connected: handleDisconnect.
OnClose ==
    /\ socket = "closing" /\ socket' = "none"
    /\ ScheduleReconnect(reconnecting)
    /\ UNCHANGED <<attempts, connectTimer, currentDelay, writes, destroyed>>

\* The reconnect timer.  The delays are a second and more; the 'close' of the old socket
\* and the callback of a chunk it failed come in the next turns of the event loop.
ReconnectTimer ==
    /\ armed > 0 /\ armed' = armed - 1
    /\ socket # "closing" /\ chunk # "failing"
    /\ IF destroyed THEN UNCHANGED <<socket, connectTimer>> ELSE Connect
    /\ UNCHANGED <<attempts, reconnecting, currentDelay, writes, destroyed>>

\* startSerialIdleWatchdog: no data for serial_idle.  requestReconnect.
RequestReconnect ==
    /\ owner = "returned" /\ ~destroyed
    /\ IF socket \in {"connecting", "open", "ended"}
       THEN /\ socket' = IF socket = "connecting" THEN "dead" ELSE "closing"
            /\ BreakWrites(socket')
            /\ UNCHANGED <<reconnecting, armed>>
       ELSE /\ ScheduleReconnect(reconnecting)
            /\ UNCHANGED <<socket, writes>>
    /\ UNCHANGED <<attempts, connectTimer, currentDelay, destroyed>>

\* write: _write at once, or queued by the Duplex.
Write ==
    /\ owner = "returned" /\ ~destroyed
    /\ IF chunk = "none"
       THEN chunk' = WriteToSocket(socket) /\ UNCHANGED queued
       ELSE queued < MaxQueued /\ queued' = queued + 1 /\ UNCHANGED chunk
    /\ UNCHANGED <<attempts, socket, connectTimer, reconnecting, armed, currentDelay, destroyed>>

\* The chunk is on its way to the peer.
WriteDone ==
    /\ chunk = "handed" /\ socket \in {"open", "ended"}
    /\ NextChunk(socket)
    /\ UNCHANGED <<attempts, socket, connectTimer, reconnecting, armed, currentDelay, destroyed>>

\* The error callback of the chunk: the Duplex destroys itself.
WriteFails ==
    /\ chunk = "failing" /\ ~destroyed
    /\ DestroyDuplex

\* bridge.stop.
Destroy ==
    /\ owner = "returned" /\ ~destroyed
    /\ DestroyDuplex

Next ==
    \/ RetryConnect \/ OnConnect \/ OnError \/ ConnectionTimeout
    \/ OnEnd \/ Break \/ OnClose \/ ReconnectTimer \/ RequestReconnect
    \/ Write \/ WriteDone \/ WriteFails \/ Destroy

Spec == Init /\ [][Next]_vars

\* Timers and callbacks run, and attempts without end do not all fail.
FairSpec ==
    /\ Spec
    /\ WF_vars(RetryConnect) /\ WF_vars(ConnectionTimeout) /\ WF_vars(OnClose)
    /\ WF_vars(Break /\ socket = "ended") /\ WF_vars(ReconnectTimer)
    /\ WF_vars(WriteDone) /\ WF_vars(WriteFails)
    /\ SF_vars(OnConnect)

-----------------------------------------------------------------------------
\* Every variable holds values of the kind the fields of the class hold.
TypeOK ==
    /\ owner \in {"connecting", "pausing", "returned", "failed"}
    /\ retries \in 0..MaxRetries
    /\ socket \in {"none", "connecting", "open", "ended", "closing", "dead"}
    /\ connectTimer \in BOOLEAN /\ reconnecting \in BOOLEAN
    /\ armed \in Nat
    /\ currentDelay \in InitialDelay..MaxDelay
    /\ chunk \in {"none", "held", "handed", "failing"}
    /\ queued \in 0..MaxQueued
    /\ destroyed \in BOOLEAN

\* A port in use has exactly one way back to a connection: one reconnect timer, an attempt
\* with its time limit, or a 'close' to come, and never a timer beside an attempt or a
\* connection, whatever requestReconnect and 'close' do to each other; a destroyed port has
\* none, whatever was in progress.
ExactlyOneWayBack ==
    /\ armed <= 1
    /\ armed = 1 => reconnecting /\ ~connectTimer /\ socket \notin {"connecting", "open"}
    /\ owner = "returned" /\ ~destroyed =>
        socket \in {"open", "ended", "closing"} \/ armed = 1 \/ connectTimer
    /\ destroyed => armed = 0 /\ socket = "none"

\* No writer is left waiting: a chunk is held back only while there is no connection, so
\* that onConnect flushes it before a later one, and none outlives the port.
NoWriterIsStranded ==
    /\ chunk = "held" => socket \notin {"open", "ended"}
    /\ destroyed => chunk = "none" /\ queued = 0

\* A lost connection is made again, or the port is destroyed.
LossIsRepaired ==
    owner = "returned" /\ socket # "open" ~> socket = "open" \/ destroyed
=============================================================================
