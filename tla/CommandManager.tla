--------------------------- MODULE CommandManager ---------------------------
(***************************************************************************)
(* The command manager of one bridge (packages/core/src/service/           *)
(* command.manager.ts): two FIFO queues of commands, at most one command   *)
(* in execution, each command written to the serial port and written again *)
(* after a silent tx_timeout and a tx_delay, until an ACK is seen or its   *)
(* attempts are used up.                                                   *)
(*                                                                         *)
(* One action is one task of the JavaScript event loop (a call of send, a  *)
(* timer callback, an event handler) or one promise reaction; between the  *)
(* settlement of a command and the two reactions that follow it            *)
(* (job.resolve, then the finally of processQueue) other synchronous code  *)
(* of the same task may call send or emit further events, so all three are *)
(* separate actions.                                                       *)
(*                                                                         *)
(* A member of Jobs stands for a CommandJob object.  Once its promise is   *)
(* resolved and processQueue has let go of it, the name is used again for  *)
(* a new object with the same parameters, so that behaviours are unbounded.*)
(***************************************************************************)
EXTENDS Integers, Sequences

CONSTANTS
    Jobs,               \* the command objects
    NoJob,              \* "undefined"
    Entities, NoEntity, \* entity ids, and the absence of an entity (sendRaw)
    Acks, NoAck,        \* ackMatch schemas, and the absence of one
    EntityOf,           \* job.entity
    AckOf,              \* job.ackMatch
    Priority,           \* options.priority
    Retries             \* retryConfig.attempts

ASSUME JobsAssumption == NoJob \notin Jobs
ASSUME NamesAssumption == NoEntity \notin Entities /\ NoAck \notin Acks
ASSUME ParametersAssumption ==
    /\ EntityOf \in [Jobs -> Entities \cup {NoEntity}]
    /\ AckOf \in [Jobs -> Acks \cup {NoAck}]
    /\ Priority \in [Jobs -> {"normal", "low"}]
    /\ Retries \in [Jobs -> Nat]

VARIABLES
    queue, lowPriorityQueue,  \* jobs waiting, in the order they were sent
    active,                   \* the job executeJob runs; NoJob iff ~isProcessing
    job,                      \* the fields of each job
    ackListeners,             \* entity id -> the job whose callback is registered
    packetAckListeners,       \* the jobs whose packet matcher is registered
    ahead                     \* history: the jobs of its class pending when a job was sent

vars == <<queue, lowPriorityQueue, active, job, ackListeners, packetAckListeners, ahead>>

Promises == {"none", "pending", "resolved"}
Timers   == {"off", "timeout", "interval"}
Outcomes == {"none", "sent", "acked", "failed"}

JobRecord == [promise : Promises,      \* the promise send returned
              settled : BOOLEAN,       \* isSettled
              left    : Int,           \* attemptsLeft
              timer   : Timers,        \* the one timer of executeJob that is pending
              writes  : Nat,           \* history: serialPort.write calls for this object
              outcome : Outcomes]      \* history: how it was settled

\* A command with neither an entity nor an ackMatch is not waited for.
Expects(j) == EntityOf[j] # NoEntity \/ AckOf[j] # NoAck

\* attemptsLeft when the job is created by send or by sendRaw.
Attempts(j) == IF Expects(j) THEN Retries[j] + 1 ELSE 1

NewJob(j) == [promise |-> "pending", settled |-> FALSE, left |-> Attempts(j),
              timer |-> "off", writes |-> 0, outcome |-> "none"]

Unsent == [promise |-> "none", settled |-> FALSE, left |-> 0,
           timer |-> "off", writes |-> 0, outcome |-> "none"]

Pending(j) == job[j].promise = "pending" /\ ~job[j].settled

-----------------------------------------------------------------------------
\* setupListener and cleanupListeners.

\* Fault: setAckListener is called for raw commands too, under the key undefined.
SetupListenerUnguarded(j) ==
    /\ ackListeners' = [e \in Entities \cup {EntityOf[j]} |->
                          IF e = EntityOf[j] THEN j ELSE ackListeners[e]]
    /\ packetAckListeners' = packetAckListeners \cup {k \in {j} : AckOf[k] # NoAck}

SetupListener(j) ==
    /\ ackListeners' = [e \in Entities |-> IF e = EntityOf[j] THEN j ELSE ackListeners[e]]
    /\ packetAckListeners' = packetAckListeners \cup {k \in {j} : AckOf[k] # NoAck}

CleanupListeners(S) ==
    /\ ackListeners' = [e \in Entities |->
                          IF \E j \in S : e = EntityOf[j] THEN NoJob ELSE ackListeners[e]]
    /\ packetAckListeners' = packetAckListeners \ S

\* The fields r of a job after the two outcomes of an attempt: given up, or written
\* with the tx_timeout timer armed, or settled at once when no ACK is expected.
GivenUp(r) == [r EXCEPT !.left = r.left - 1, !.settled = TRUE, !.outcome = "failed"]

Written(j, r) ==
    [r EXCEPT !.left    = r.left - 1,
              !.writes  = r.writes + 1,
              !.timer   = IF Expects(j) THEN "timeout" ELSE "off",
              !.settled = ~Expects(j),
              !.outcome = IF Expects(j) THEN "none" ELSE "sent"]

\* Fault: the last attempt is not made (<= 0 for < 0).
AttemptOneShort(j, r, jobs) ==
    IF r.left - 1 <= 0 /\ Expects(j)
    THEN /\ job' = [jobs EXCEPT ![j] = GivenUp(r)]
         /\ CleanupListeners({j})
    ELSE /\ job' = [jobs EXCEPT ![j] = Written(j, r)]
         /\ SetupListener(j)

\* Fault: the listeners are set up once, before the first attempt.
AttemptListeningOnce(j, r, jobs) ==
    IF r.left - 1 < 0
    THEN /\ job' = [jobs EXCEPT ![j] = GivenUp(r)]
         /\ CleanupListeners({j})
    ELSE /\ job' = [jobs EXCEPT ![j] = Written(j, r)]
         /\ IF r.left = Attempts(j)
            THEN SetupListener(j)
            ELSE UNCHANGED <<ackListeners, packetAckListeners>>

\* The closure attempt() of executeJob for job j, the fields of all jobs being jobs.
Attempt(j, r, jobs) ==
    IF r.left - 1 < 0
    THEN /\ job' = [jobs EXCEPT ![j] = GivenUp(r)]
         /\ CleanupListeners({j})
    ELSE /\ job' = [jobs EXCEPT ![j] = Written(j, r)]
         /\ SetupListener(j)

\* processQueue for the queues q and lq, the jobs' fields being jobs, while
\* nothing is in execution: the next normal job, else the next low one, else none.
ProcessQueue(q, lq, jobs) ==
    \/ /\ q # <<>>
       /\ queue' = Tail(q) /\ lowPriorityQueue' = lq
       /\ active' = Head(q)
       /\ Attempt(Head(q), jobs[Head(q)], jobs)
    \/ /\ q = <<>> /\ lq # <<>>
       /\ queue' = q /\ lowPriorityQueue' = Tail(lq)
       /\ active' = Head(lq)
       /\ Attempt(Head(lq), jobs[Head(lq)], jobs)
    \/ /\ q = <<>> /\ lq = <<>>
       /\ queue' = q /\ lowPriorityQueue' = lq
       /\ active' = NoJob
       /\ job' = jobs
       /\ UNCHANGED <<ackListeners, packetAckListeners>>

-----------------------------------------------------------------------------
Init ==
    /\ queue = <<>> /\ lowPriorityQueue = <<>>
    /\ active = NoJob
    /\ job = [j \in Jobs |-> Unsent]
    /\ ackListeners = [e \in Entities |-> NoJob]
    /\ packetAckListeners = {}
    /\ ahead = [j \in Jobs |-> {}]

\* Fault: processQueue does not look at isProcessing.
SendUnguarded(j) ==
    /\ job[j].promise # "pending" /\ j # active
    /\ ahead' = [k \in Jobs |-> IF k = j
                                THEN {i \in Jobs \ {j} : Pending(i) /\ Priority[i] = Priority[j]}
                                ELSE ahead[k] \ {j}]
    /\ LET jobs == [job EXCEPT ![j] = NewJob(j)]
           q    == IF Priority[j] = "low" THEN queue ELSE Append(queue, j)
           lq   == IF Priority[j] = "low" THEN Append(lowPriorityQueue, j)
                                          ELSE lowPriorityQueue
       IN  ProcessQueue(q, lq, jobs)

\* send and sendRaw: create the job, put it in the queue of its priority and call
\* processQueue, which returns at once while another job is in execution.
Send(j) ==
    /\ job[j].promise # "pending" /\ j # active
    /\ ahead' = [k \in Jobs |-> IF k = j
                                THEN {i \in Jobs \ {j} : Pending(i) /\ Priority[i] = Priority[j]}
                                ELSE ahead[k] \ {j}]
    /\ LET jobs == [job EXCEPT ![j] = NewJob(j)]
           q    == IF Priority[j] = "low" THEN queue ELSE Append(queue, j)
           lq   == IF Priority[j] = "low" THEN Append(lowPriorityQueue, j)
                                          ELSE lowPriorityQueue
       IN  IF active = NoJob
           THEN ProcessQueue(q, lq, jobs)
           ELSE /\ queue' = q /\ lowPriorityQueue' = lq
                /\ job' = jobs
                /\ UNCHANGED <<active, ackListeners, packetAckListeners>>

\* Fault: onAck does not clear the timer.
OnAckLeavingTimer(S) ==
    LET open == {j \in S : ~job[j].settled}
    IN  /\ job' = [j \in Jobs |->
                     IF j \in open
                     THEN [job[j] EXCEPT !.settled = TRUE, !.outcome = "acked"]
                     ELSE job[j]]
        /\ CleanupListeners(open)
        /\ UNCHANGED <<queue, lowPriorityQueue, active, ahead>>

\* The callback onAck of each job in S: settle, clear the tx_timeout timer, clean up.
OnAck(S) ==
    LET open == {j \in S : ~job[j].settled}
    IN  /\ job' = [j \in Jobs |->
                     IF j \in open
                     THEN [job[j] EXCEPT !.settled = TRUE, !.outcome = "acked", !.timer = "off"]
                     ELSE job[j]]
        /\ CleanupListeners(open)
        /\ UNCHANGED <<queue, lowPriorityQueue, active, ahead>>

\* eventBus 'state:changed' for entity e of this port, whatever changed the state
\* (a packet of the device, an optimistic update, a restored retained message).
HandleAck(e) == ackListeners[e] # NoJob /\ OnAck({ackListeners[e]})

\* packetProcessor 'packet': a valid packet that matches the schemas in matched.
HandlePacketAck(matched) ==
    LET hit == {j \in packetAckListeners : AckOf[j] \in matched}
    IN  hit # {} /\ OnAck(hit)

\* Fault: the listeners stay while tx_delay runs.
TxTimeoutStillListening(j) ==
    /\ job[j].timer = "timeout"
    /\ job' = [job EXCEPT ![j].timer = IF job[j].settled THEN "off" ELSE "interval"]
    /\ UNCHANGED <<queue, lowPriorityQueue, active, ackListeners, packetAckListeners, ahead>>

\* Fault: the second timer is not armed.
TxTimeoutLast(j) ==
    /\ job[j].timer = "timeout"
    /\ job' = [job EXCEPT ![j].timer = "off"]
    /\ CleanupListeners({j})
    /\ UNCHANGED <<queue, lowPriorityQueue, active, ahead>>

\* The tx_timeout timer fires: stop listening and wait tx_delay before the next attempt.
TxTimeout(j) ==
    /\ job[j].timer = "timeout"
    /\ job' = [job EXCEPT ![j].timer = IF job[j].settled THEN "off" ELSE "interval"]
    /\ CleanupListeners({j})
    /\ UNCHANGED <<queue, lowPriorityQueue, active, ahead>>

\* The tx_delay timer fires: the next attempt, or the failure of the command.
TxDelayElapsed(j) ==
    /\ job[j].timer = "interval"
    /\ LET r == [job[j] EXCEPT !.timer = "off"]
       IN  IF r.settled
           THEN /\ job' = [job EXCEPT ![j] = r]
                /\ UNCHANGED <<ackListeners, packetAckListeners>>
           ELSE Attempt(j, r, job)
    /\ UNCHANGED <<queue, lowPriorityQueue, active, ahead>>

\* executeJob(job).then(job.resolve): the caller of send resumes.
Resolve(j) ==
    /\ active = j /\ job[j].settled /\ job[j].promise = "pending"
    /\ job' = [job EXCEPT ![j].promise = "resolved"]
    /\ UNCHANGED <<queue, lowPriorityQueue, active, ackListeners, packetAckListeners, ahead>>

\* Fault: the end of a command does not take up the next one.
ReleaseOnly(j) ==
    /\ active = j /\ job[j].promise = "resolved"
    /\ active' = NoJob
    /\ UNCHANGED <<queue, lowPriorityQueue, job, ackListeners, packetAckListeners, ahead>>

\* Fault: an empty normal queue ends the processing.
ReleaseNormalOnly(j) ==
    /\ active = j /\ job[j].promise = "resolved"
    /\ IF queue # <<>>
       THEN ProcessQueue(queue, lowPriorityQueue, job)
       ELSE /\ active' = NoJob
            /\ UNCHANGED <<queue, lowPriorityQueue, job, ackListeners, packetAckListeners>>
    /\ UNCHANGED ahead

\* Fault: the low queue is served first.
ReleaseLowFirst(j) ==
    /\ active = j /\ job[j].promise = "resolved"
    /\ IF lowPriorityQueue = <<>>
       THEN ProcessQueue(queue, lowPriorityQueue, job)
       ELSE /\ active' = Head(lowPriorityQueue)
            /\ lowPriorityQueue' = Tail(lowPriorityQueue) /\ UNCHANGED queue
            /\ Attempt(Head(lowPriorityQueue), job[Head(lowPriorityQueue)], job)
    /\ UNCHANGED ahead

\* .finally: isProcessing = false, then processQueue takes the next job.
Release(j) ==
    /\ active = j /\ job[j].promise = "resolved"
    /\ ProcessQueue(queue, lowPriorityQueue, job)
    /\ UNCHANGED ahead

Progress(j) == TxTimeout(j) \/ TxDelayElapsed(j) \/ Resolve(j) \/ Release(j)

Next ==
    \/ \E j \in Jobs : Send(j) \/ TxTimeout(j) \/ TxDelayElapsed(j) \/ Resolve(j) \/ Release(j)
    \/ \E e \in Entities : HandleAck(e)
    \/ \E matched \in SUBSET Acks : HandlePacketAck(matched)

Spec == Init /\ [][Next]_vars

\* Timers fire and promise reactions run; nobody has to send or to answer.
Fairness == \A j \in Jobs : WF_vars(Progress(j))

FairSpec == Spec /\ Fairness

-----------------------------------------------------------------------------
(***************************************************************************)
(* Properties.                                                             *)
(***************************************************************************)

\* Every variable holds values of the kind the fields of the class hold.
TypeOK ==
    /\ queue \in Seq(Jobs) /\ lowPriorityQueue \in Seq(Jobs)
    /\ active \in Jobs \cup {NoJob}
    /\ job \in [Jobs -> JobRecord]
    /\ ackListeners \in [Entities -> Jobs \cup {NoJob}]
    /\ packetAckListeners \in SUBSET Jobs
    /\ ahead \in [Jobs -> SUBSET Jobs]

Awaiting(j) == active = j /\ ~job[j].settled /\ job[j].timer = "timeout"

\* An ACK can only settle the command whose packet was last written: a registered
\* callback always belongs to the command in execution, within its tx_timeout
\* window, so a late answer to one command never settles the next one's object.
AcksReachOnlyTheAwaitingJob ==
    /\ \A e \in Entities : ackListeners[e] # NoJob =>
         Awaiting(ackListeners[e]) /\ EntityOf[ackListeners[e]] = e
    /\ \A j \in packetAckListeners : Awaiting(j) /\ AckOf[j] # NoAck

\* While a command is in its tx_timeout window every way to acknowledge it is
\* registered: no cleanup of another job has removed its callback (ackListeners is
\* keyed by the entity, which several commands share).
AwaitingJobIsHeard ==
    \A j \in Jobs : Awaiting(j) =>
        /\ EntityOf[j] # NoEntity => ackListeners[EntityOf[j]] = j
        /\ AckOf[j] # NoAck => j \in packetAckListeners

\* Both: the registered callbacks are those of the command that awaits its ACK.
ListenersMatchTheCommand == AcksReachOnlyTheAwaitingJob /\ AwaitingJobIsHeard

\* A timer that is pending belongs to the unsettled command in execution: no timer
\* survives an ACK or a failure to write the packet of a finished command again.
TimersBelongToTheActiveJob ==
    \A j \in Jobs : job[j].timer # "off" => active = j /\ ~job[j].settled

\* No command is forgotten: an idle manager has empty queues, and a promise that is
\* pending belongs to the command in execution or to one in a queue.
NoCommandIsForgotten ==
    /\ active = NoJob => queue = <<>> /\ lowPriorityQueue = <<>>
    /\ \A j \in Jobs : job[j].promise = "pending" =>
         \/ active = j
         \/ \E i \in DOMAIN queue : queue[i] = j
         \/ \E i \in DOMAIN lowPriorityQueue : lowPriorityQueue[i] = j

\* docs/config/packet-defaults.md: one write and at most tx_retry_cnt retries.  A
\* command fails only after all of them, succeeds only after at least one, and a
\* command nobody answers is written exactly once.
AttemptsAreAccounted ==
    \A j \in Jobs :
        /\ job[j].writes <= Attempts(j)
        /\ job[j].outcome = "failed" => job[j].writes = Attempts(j)
        /\ job[j].outcome = "acked"  => job[j].writes >= 1
        /\ job[j].outcome = "sent"   => job[j].writes = 1 /\ ~Expects(j)

\* Commands of one priority are executed in the order they were sent, one after
\* the other: when a command is in execution, every command of its priority that
\* was pending when it was sent has been settled.
SamePriorityIsFifo ==
    active # NoJob => \A i \in ahead[active] : job[i].settled

\* Every normal command is eventually resolved, answered or not, even if normal
\* commands keep arriving.
NormalCommandsResolve ==
    \A j \in Jobs : Priority[j] = "normal" =>
        (job[j].promise = "pending" ~> job[j].promise = "resolved")

\* Low-priority commands may wait for ever, but only behind a stream of normal
\* commands that never lets the normal queue stay empty.
LowCommandsResolveUnlessNormalOnesKeepComing ==
    \A j \in Jobs : Priority[j] = "low" =>
        \/ job[j].promise = "pending" ~> job[j].promise = "resolved"
        \/ []<>(queue # <<>>)

-----------------------------------------------------------------------------
\* The abstract command service this class implements.
Service == INSTANCE CommandService WITH
    Commands <- Jobs, None <- NoJob,
    Normal   <- {j \in Jobs : Priority[j] = "normal"},
    OneShot  <- {j \in Jobs : ~Expects(j)},
    Tries    <- [j \in Jobs |-> Attempts(j)],
    normalLine <- queue, lowLine <- lowPriorityQueue, serving <- active,
    sends    <- [j \in Jobs |-> job[j].writes],
    result   <- [j \in Jobs |-> IF job[j].promise = "pending" /\ ~job[j].settled
                                THEN "waiting" ELSE job[j].outcome],
    returned <- [j \in Jobs |-> job[j].promise = "resolved"]

\* Listeners, timers and promise reactions implement the abstract service.
ImplementsService == Service!Spec
=============================================================================
