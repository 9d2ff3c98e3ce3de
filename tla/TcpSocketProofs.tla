-------------------------- MODULE TcpSocketProofs --------------------------
(***************************************************************************)
(* Proofs of the invariants of TcpSocket, for every delay, number of       *)
(* retries and bound on the queue: a port is in one of four situations,    *)
(* each with the sockets and timers that belong to it, and every callback  *)
(* leads from one situation to another.                                    *)
(***************************************************************************)
EXTENDS TcpSocket, TLAPS

Unused == chunk = "none" /\ queued = 0

\* The factory waits for an attempt, or between two.
Attempting ==
    /\ owner = "connecting" /\ ~destroyed /\ Unused
    /\ socket = "connecting" /\ connectTimer /\ armed = 0 /\ ~reconnecting

Pausing ==
    /\ owner = "pausing" /\ ~destroyed /\ Unused
    /\ socket \in {"none", "dead"} /\ ~connectTimer /\ armed = 0 /\ ~reconnecting

\* The port is in use: connected or about to hear 'close', in an attempt to reconnect, or
\* waiting for the next one.
Using ==
    /\ owner = "returned" /\ ~destroyed
    /\ \/ socket \in {"open", "ended", "closing"} /\ ~connectTimer /\ armed = 0 /\ ~reconnecting
       \/ socket \in {"connecting", "dead"} /\ connectTimer /\ armed = 0 /\ reconnecting
       \/ socket \in {"none", "closing", "dead"} /\ ~connectTimer /\ armed = 1 /\ reconnecting

\* The port has been destroyed; the time limit of an attempt may be pending still.
Gone ==
    /\ owner \in {"returned", "failed"} /\ destroyed /\ Unused
    /\ socket = "none" /\ armed = 0

Situation == Attempting \/ Pausing \/ Using \/ Gone
IInv == TypeOK /\ NoWriterIsStranded /\ Situation

LEMMA LimitsOK == InitialDelay \in InitialDelay..MaxDelay
  BY DelayAssumption DEF DelayAssumption

LEMMA InitOK == Init => IInv
  <1> SUFFICES ASSUME Init PROVE IInv
    OBVIOUS
  <1>1. retries \in 0..MaxRetries /\ queued \in 0..MaxQueued /\ armed \in Nat
    BY BoundsAssumption DEF Init, BoundsAssumption
  <1>2. TypeOK
    BY <1>1, LimitsOK DEF Init, TypeOK
  <1>3. Attempting /\ NoWriterIsStranded
    BY DEF Init, Attempting, NoWriterIsStranded, Unused
  <1> QED BY <1>2, <1>3 DEF IInv, Situation

-----------------------------------------------------------------------------
(* The steps, one lemma for each callback.                                 *)

LEMMA RetryConnectOK == IInv /\ RetryConnect => IInv'
  BY DEF IInv, TypeOK, NoWriterIsStranded, Situation, Attempting, Pausing, Using, Gone, Unused,
         RetryConnect, Connect, writes

LEMMA OnConnectOK == IInv /\ OnConnect => IInv'
  <1> SUFFICES ASSUME IInv, OnConnect PROVE IInv'
    OBVIOUS
  <1>1. currentDelay' \in InitialDelay..MaxDelay
    BY LimitsOK DEF OnConnect
  <1>2. TypeOK'
    BY <1>1 DEF IInv, TypeOK, OnConnect
  <1>3. Situation' /\ NoWriterIsStranded'
    BY DEF IInv, TypeOK, NoWriterIsStranded, Situation, Attempting, Pausing, Using, Gone, Unused,
           OnConnect
  <1> QED BY <1>2, <1>3 DEF IInv

\* The Duplex hands over the next chunk, or has none.
LEMMA NextChunkOK ==
  ASSUME IInv, NEW s \in {"none", "connecting", "open", "ended", "closing", "dead"}, NextChunk(s)
  PROVE  /\ queued' \in 0..MaxQueued
         /\ chunk' \in {"none", "held", "handed", "failing"}
         /\ chunk' = "held" => s \notin {"open", "ended"}
  <1>1. queued' \in 0..MaxQueued
    BY BoundsAssumption DEF BoundsAssumption, IInv, TypeOK, NextChunk
  <1> QED BY <1>1 DEF NextChunk, WriteToSocket

\* What becomes of the chunks when their socket gives way to one that is not connected.
LEMMA BreakWritesOK ==
  ASSUME IInv, NEW s \in {"none", "closing", "dead"}, BreakWrites(s)
  PROVE  /\ chunk' \in {"none", "held", "handed", "failing"} /\ queued' \in 0..MaxQueued
         /\ Unused => Unused'
  BY NextChunkOK DEF IInv, TypeOK, Unused, BreakWrites, writes

\* scheduleReconnect of a port that has no timer arms one, and of one that has it none more.
LEMMA ScheduleReconnectOK ==
  ASSUME IInv, ~destroyed, NEW already \in BOOLEAN, ScheduleReconnect(already),
         armed = IF already THEN 1 ELSE 0
  PROVE  armed' = 1 /\ reconnecting' = TRUE
  <1>1. 0 + 1 = 1
    OBVIOUS
  <1> QED BY <1>1 DEF ScheduleReconnect

\* The doubled delay stays in its range.
LEMMA DelayOK ==
  ASSUME IInv
  PROVE  (IF 2 * currentDelay < MaxDelay THEN 2 * currentDelay ELSE MaxDelay)
            \in InitialDelay..MaxDelay
  BY DelayAssumption DEF DelayAssumption, IInv, TypeOK

\* What follows from a rejected attempt: the factory pauses or destroys the port, or the
\* port in use schedules the next attempt.
LEMMA RejectedOK ==
  ASSUME IInv, Attempting \/ Using, socket \in {"connecting", "dead"}, connectTimer, Rejected
  PROVE  /\ owner' \in {"connecting", "pausing", "returned", "failed"}
         /\ retries' \in 0..MaxRetries /\ currentDelay' \in InitialDelay..MaxDelay
         /\ \/ /\ Attempting /\ owner' \in {"pausing", "failed"}
               /\ destroyed' = (owner' = "failed") /\ armed' = 0 /\ reconnecting' = FALSE
            \/ /\ Using /\ owner' = "returned"
               /\ destroyed' = FALSE /\ armed' = 1 /\ reconnecting' = TRUE
  <1>1. CASE Attempting
    <2>1. retries' \in 0..MaxRetries
      BY <1>1, BoundsAssumption DEF BoundsAssumption, IInv, TypeOK, Attempting, Rejected
    <2>2. currentDelay' = currentDelay /\ armed' = 0 /\ reconnecting' = FALSE
      BY <1>1 DEF IInv, TypeOK, Attempting, Rejected
    <2>3. \/ owner' = "pausing" /\ destroyed' = FALSE
          \/ owner' = "failed" /\ destroyed' = TRUE
      BY <1>1 DEF IInv, TypeOK, Attempting, Rejected
    <2> QED BY <1>1, <2>1, <2>2, <2>3 DEF IInv, TypeOK
  <1>2. CASE Using
    <2>1. /\ currentDelay' = IF 2 * currentDelay < MaxDelay THEN 2 * currentDelay ELSE MaxDelay
          /\ ScheduleReconnect(FALSE) /\ owner' = "returned" /\ retries' = retries
          /\ destroyed' = FALSE
      BY <1>2 DEF IInv, TypeOK, Using, Rejected, attempts
    <2>2. armed = 0 /\ ~destroyed
      BY <1>2 DEF Using
    <2>3. armed' = 1 /\ reconnecting' = TRUE
      BY <2>1, <2>2, ScheduleReconnectOK
    <2> QED BY <1>2, <2>1, <2>3, DelayOK DEF IInv, TypeOK
  <1> QED BY <1>1, <1>2

LEMMA OnErrorOK == IInv /\ OnError => IInv'
  <1> SUFFICES ASSUME IInv, OnError PROVE IInv'
    OBVIOUS
  <1>1. (Attempting \/ Using) /\ connectTimer /\ socket = "connecting"
    BY DEF IInv, Situation, Attempting, Pausing, Using, Gone, OnError
  <1>2. BreakWrites("none") /\ Rejected /\ socket' = "none" /\ connectTimer' = FALSE
    BY DEF OnError
  <1>3. TypeOK'
    <2>1. /\ armed' \in {0, 1} /\ reconnecting' \in BOOLEAN /\ destroyed' \in BOOLEAN
          /\ owner' \in {"connecting", "pausing", "returned", "failed"}
      BY <1>1, <1>2, RejectedOK
    <2>2. armed' \in Nat
      BY <2>1
    <2>3. retries' \in 0..MaxRetries /\ currentDelay' \in InitialDelay..MaxDelay
      BY <1>1, <1>2, RejectedOK
    <2>4. chunk' \in {"none", "held", "handed", "failing"} /\ queued' \in 0..MaxQueued
      BY <1>2, BreakWritesOK
    <2> QED BY <1>2, <2>1, <2>2, <2>3, <2>4 DEF TypeOK
  <1>4. Situation' /\ NoWriterIsStranded'
    BY <1>1, <1>2, BreakWritesOK, RejectedOK
    DEF NoWriterIsStranded, Situation, Attempting, Pausing, Using, Gone, Unused
  <1> QED BY <1>3, <1>4 DEF IInv

LEMMA ConnectionTimeoutOK == IInv /\ ConnectionTimeout => IInv'
  <1> SUFFICES ASSUME IInv, ConnectionTimeout PROVE IInv'
    OBVIOUS
  <1>1. CASE socket = "none"
    BY <1>1 DEF IInv, TypeOK, NoWriterIsStranded, Situation, Attempting, Pausing, Using, Gone,
                Unused, ConnectionTimeout, attempts, writes
  <1>2. CASE socket # "none"
    <2>1. (Attempting \/ Using) /\ connectTimer /\ socket \in {"connecting", "dead"}
      BY <1>2 DEF IInv, TypeOK, Situation, Attempting, Pausing, Using, Gone, ConnectionTimeout
    <2>2. /\ BreakWrites("dead") /\ Rejected /\ connectTimer' = FALSE
          /\ socket' = IF destroyed' THEN "none" ELSE "dead"
      BY <1>2 DEF ConnectionTimeout
    <2>3. TypeOK'
      <3>1. /\ armed' \in {0, 1} /\ reconnecting' \in BOOLEAN /\ destroyed' \in BOOLEAN
            /\ owner' \in {"connecting", "pausing", "returned", "failed"}
        BY <2>1, <2>2, RejectedOK
      <3>2. armed' \in Nat
        BY <3>1
      <3>3. retries' \in 0..MaxRetries /\ currentDelay' \in InitialDelay..MaxDelay
        BY <2>1, <2>2, RejectedOK
      <3>4. chunk' \in {"none", "held", "handed", "failing"} /\ queued' \in 0..MaxQueued
        BY <2>2, BreakWritesOK
      <3> QED BY <2>2, <3>1, <3>2, <3>3, <3>4 DEF TypeOK
    <2>4. Situation' /\ NoWriterIsStranded'
      BY <2>1, <2>2, BreakWritesOK, RejectedOK
      DEF NoWriterIsStranded, Situation, Attempting, Pausing, Using, Gone, Unused
    <2> QED BY <2>3, <2>4 DEF IInv
  <1> QED BY <1>1, <1>2

LEMMA OnEndOK == IInv /\ OnEnd => IInv'
  BY DEF IInv, TypeOK, NoWriterIsStranded, Situation, Attempting, Pausing, Using, Gone, Unused,
         OnEnd, attempts, writes

LEMMA BreakOK == IInv /\ Break => IInv'
  <1> SUFFICES ASSUME IInv, Break PROVE IInv'
    OBVIOUS
  <1>1. Using
    BY DEF IInv, Situation, Attempting, Pausing, Using, Gone, Break
  <1> QED
    BY <1>1, BreakWritesOK DEF IInv, TypeOK, NoWriterIsStranded, Situation, Using, Unused, Break,
                               attempts

LEMMA OnCloseOK == IInv /\ OnClose => IInv'
  <1> SUFFICES ASSUME IInv, OnClose PROVE IInv'
    OBVIOUS
  <1>1. Using /\ ~destroyed /\ reconnecting \in BOOLEAN /\ armed = IF reconnecting THEN 1 ELSE 0
    BY DEF IInv, TypeOK, Situation, Attempting, Pausing, Using, Gone, OnClose
  <1>2. armed' = 1 /\ reconnecting' = TRUE
    BY <1>1, ScheduleReconnectOK DEF OnClose
  <1>3. armed' \in Nat
    BY <1>2
  <1>4. TypeOK'
    BY <1>2, <1>3 DEF IInv, TypeOK, OnClose, attempts, writes
  <1>5. Using' /\ NoWriterIsStranded'
    BY <1>1, <1>2 DEF IInv, NoWriterIsStranded, Using, OnClose, attempts, writes
  <1> QED BY <1>4, <1>5 DEF IInv, Situation

LEMMA ReconnectTimerOK == IInv /\ ReconnectTimer => IInv'
  <1> SUFFICES ASSUME IInv, ReconnectTimer PROVE IInv'
    OBVIOUS
  <1>1. 1 - 1 = 0 /\ ~(0 > 0) /\ 0 \in Nat
    OBVIOUS
  <1>2. Using /\ ~destroyed /\ armed = 1 /\ reconnecting
    BY <1>1 DEF IInv, TypeOK, Situation, Attempting, Pausing, Using, Gone, ReconnectTimer
  <1>3. armed' = 0 /\ armed' \in Nat
    BY <1>1, <1>2 DEF ReconnectTimer
  <1>4. socket' = "connecting" /\ connectTimer' = TRUE
    BY <1>2 DEF ReconnectTimer, Connect
  <1>5. TypeOK'
    BY <1>3, <1>4 DEF IInv, TypeOK, ReconnectTimer, attempts, writes
  <1>6. Using' /\ NoWriterIsStranded'
    BY <1>2, <1>3, <1>4 DEF IInv, NoWriterIsStranded, Using, ReconnectTimer, attempts, writes
  <1> QED BY <1>5, <1>6 DEF IInv, Situation

LEMMA RequestReconnectOK == IInv /\ RequestReconnect => IInv'
  <1> SUFFICES ASSUME IInv, RequestReconnect PROVE IInv'
    OBVIOUS
  <1>1. Using
    BY DEF IInv, Situation, Attempting, Pausing, Using, Gone, RequestReconnect
  <1>2. CASE socket \in {"connecting", "open", "ended"}
    BY <1>1, <1>2, BreakWritesOK
    DEF IInv, TypeOK, NoWriterIsStranded, Situation, Using, Unused, RequestReconnect, attempts
  <1>3. CASE socket \notin {"connecting", "open", "ended"}
    <2>1. CASE connectTimer
      <3>1. reconnecting = TRUE /\ armed = 0
        BY <1>1, <1>3, <2>1 DEF IInv, TypeOK, Using
      <3>2. UNCHANGED vars
        BY <1>3, <3>1 DEF RequestReconnect, ScheduleReconnect, attempts, writes, vars
      <3> QED BY <3>2
        DEF IInv, TypeOK, NoWriterIsStranded, Situation, Attempting, Pausing, Using, Gone, Unused,
            vars
    <2>2. CASE ~connectTimer
      <3>1. /\ ~destroyed /\ reconnecting \in BOOLEAN
            /\ armed = IF reconnecting THEN 1 ELSE 0
        BY <1>1, <1>3, <2>2 DEF IInv, TypeOK, Using
      <3>2. ScheduleReconnect(reconnecting) /\ UNCHANGED <<socket, writes>>
        BY <1>3 DEF RequestReconnect
      <3>3. armed' = 1 /\ reconnecting' = TRUE
        BY <3>1, <3>2, ScheduleReconnectOK
      <3>4. armed' \in Nat
        BY <3>3
      <3>5. TypeOK'
        BY <3>2, <3>3, <3>4 DEF IInv, TypeOK, RequestReconnect, attempts, writes
      <3>6. Using' /\ NoWriterIsStranded'
        BY <1>1, <1>3, <2>2, <3>2, <3>3
        DEF IInv, TypeOK, NoWriterIsStranded, Using, RequestReconnect, attempts, writes
      <3> QED BY <3>5, <3>6 DEF IInv, Situation
    <2> QED BY <2>1, <2>2
  <1> QED BY <1>2, <1>3

LEMMA WriteOK == IInv /\ Write => IInv'
  <1> SUFFICES ASSUME IInv, Write PROVE IInv'
    OBVIOUS
  <1>1. Using
    BY DEF IInv, Situation, Attempting, Pausing, Using, Gone, Write
  <1>2. queued' \in 0..MaxQueued
    BY BoundsAssumption DEF BoundsAssumption, IInv, TypeOK, Write
  <1>3. /\ chunk' \in {"none", "held", "handed", "failing"}
        /\ chunk' = "held" => socket \notin {"open", "ended"}
    BY DEF IInv, TypeOK, NoWriterIsStranded, Write, WriteToSocket
  <1>4. TypeOK'
    BY <1>2, <1>3 DEF IInv, TypeOK, Write, attempts
  <1>5. Using' /\ NoWriterIsStranded'
    BY <1>1, <1>3 DEF NoWriterIsStranded, Using, Write, attempts
  <1> QED BY <1>4, <1>5 DEF IInv, Situation

LEMMA WriteDoneOK == IInv /\ WriteDone => IInv'
  <1> SUFFICES ASSUME IInv, WriteDone PROVE IInv'
    OBVIOUS
  <1>1. Using
    BY DEF IInv, Situation, Attempting, Pausing, Using, Gone, Unused, WriteDone
  <1>2. /\ queued' \in 0..MaxQueued /\ chunk' \in {"none", "held", "handed", "failing"}
        /\ chunk' = "held" => socket \notin {"open", "ended"}
    BY NextChunkOK DEF IInv, TypeOK, WriteDone
  <1>3. TypeOK'
    BY <1>2 DEF IInv, TypeOK, WriteDone, attempts
  <1>4. Using' /\ NoWriterIsStranded'
    BY <1>1, <1>2 DEF NoWriterIsStranded, Using, WriteDone, attempts
  <1> QED BY <1>3, <1>4 DEF IInv, Situation

LEMMA DestroyDuplexOK == IInv /\ Using /\ DestroyDuplex => IInv'
  <1> SUFFICES ASSUME IInv, Using, DestroyDuplex PROVE IInv'
    OBVIOUS
  <1>1. 1 - 1 = 0 /\ ~(0 > 0) /\ 0 \in Nat /\ 0 \in 0..MaxQueued
    BY BoundsAssumption DEF BoundsAssumption
  <1>2. armed \in {0, 1}
    BY DEF Using
  <1>3. armed' = 0
    BY <1>1, <1>2 DEF DestroyDuplex
  <1>4. TypeOK'
    BY <1>1, <1>3 DEF IInv, TypeOK, DestroyDuplex, attempts
  <1>5. Gone' /\ NoWriterIsStranded'
    BY <1>3 DEF NoWriterIsStranded, Using, Gone, Unused, DestroyDuplex, attempts
  <1> QED BY <1>4, <1>5 DEF IInv, Situation

LEMMA WriteFailsOK == IInv /\ WriteFails => IInv'
  BY DestroyDuplexOK DEF IInv, Situation, Attempting, Pausing, Using, Gone, Unused, WriteFails

LEMMA DestroyOK == IInv /\ Destroy => IInv'
  BY DestroyDuplexOK DEF IInv, Situation, Attempting, Pausing, Using, Gone, Destroy

-----------------------------------------------------------------------------
LEMMA StutterOK == IInv /\ UNCHANGED vars => IInv'
  BY DEF IInv, TypeOK, NoWriterIsStranded, Situation, Attempting, Pausing, Using, Gone, Unused, vars

\* A port is always in one of its situations: the inductive invariant of TcpSocket.
THEOREM PortInvariant == Spec => []IInv
  <1>1. IInv /\ [Next]_vars => IInv'
    BY RetryConnectOK, OnConnectOK, OnErrorOK, ConnectionTimeoutOK, OnEndOK, BreakOK, OnCloseOK,
       ReconnectTimerOK, RequestReconnectOK, WriteOK, WriteDoneOK, WriteFailsOK, DestroyOK,
       StutterOK
    DEF Next
  <1> QED BY <1>1, InitOK, PTL DEF Spec

\* TypeOK, the delay between its limits included, for every value of the limits.
THEOREM SocketTypes == Spec => []TypeOK
  <1>1. IInv => TypeOK
    BY DEF IInv
  <1> QED BY <1>1, PortInvariant, PTL

\* A port in use has exactly one way back to a connection, and a destroyed one none.
THEOREM OneWayBack == Spec => []ExactlyOneWayBack
  <1>1. IInv => ExactlyOneWayBack
    BY DEF IInv, ExactlyOneWayBack, Situation, Attempting, Pausing, Using, Gone
  <1> QED BY <1>1, PortInvariant, PTL

\* No chunk waits while there is a connection, or after the port has been destroyed.
THEOREM WritersServed == Spec => []NoWriterIsStranded
  <1>1. IInv => NoWriterIsStranded
    BY DEF IInv
  <1> QED BY <1>1, PortInvariant, PTL
=============================================================================
