----------------------- MODULE CommandManagerProofs -----------------------
(***************************************************************************)
(* The invariants of CommandManager for every set of commands, entities    *)
(* and ACK schemas and every retry count.  None of them is inductive: that *)
(* a callback belongs to the awaiting command needs that one command       *)
(* executes at a time, that the others are untouched since they were sent, *)
(* and that the retries are counted.  IInv says all of it at once, one     *)
(* conjunct per part of the state.                                         *)
(***************************************************************************)
EXTENDS CommandManager, TLAPS

\* The life of a command object: not sent, in a queue (NewJob), in execution and
\* unanswered (Running), settled (Ended).
Running(j) ==
    /\ job[j].promise = "pending" /\ ~job[j].settled /\ job[j].outcome = "none"
    /\ job[j].timer \in {"timeout", "interval"}
    /\ job[j].writes \in 1..Attempts(j) /\ job[j].left = Attempts(j) - job[j].writes
    /\ Expects(j)

Ended(j) ==
    /\ job[j].promise \in {"pending", "resolved"} /\ job[j].settled
    /\ job[j].timer = "off"
    /\ job[j].writes \in 1..Attempts(j)
    /\ job[j].outcome \in {"sent", "acked", "failed"}
    /\ job[j].outcome = "sent" => job[j].writes = 1 /\ ~Expects(j)
    /\ job[j].outcome = "failed" => job[j].writes = Attempts(j)

LifeInv ==
    \A j \in Jobs :
        \/ job[j] = Unsent
        \/ job[j] = NewJob(j)
        \/ Running(j) /\ active = j
        \/ Ended(j) /\ (job[j].promise = "pending" => active = j)

ActiveInv ==
    /\ active # NoJob => Running(active) \/ Ended(active)
    /\ active = NoJob => queue = <<>> /\ lowPriorityQueue = <<>>

Waits(j, q) == \E i \in 1..Len(q) : q[i] = j

\* A queue holds the untouched jobs of its priority, each once.
QueueInv(q, p, jobs) ==
    /\ \A i \in 1..Len(q) : jobs[q[i]] = NewJob(q[i]) /\ Priority[q[i]] = p
    /\ \A i, k \in 1..Len(q) : q[i] = q[k] => i = k

WaitInv ==
    \A j \in Jobs : job[j] = NewJob(j) => Waits(j, queue) \/ Waits(j, lowPriorityQueue)

\* Of the jobs that were pending when q[k] was sent, those not settled are in front of it.
OrderInv(q, jobs, current, before) ==
    \A k \in 1..Len(q) : \A i \in before[q[k]] :
        jobs[i].settled \/ current = i \/ \E n \in 1..(k - 1) : q[n] = i

AheadInv ==
    /\ \A j \in Jobs : \A i \in ahead[j] : Priority[i] = Priority[j] /\ i # j
    /\ OrderInv(queue, job, active, ahead) /\ OrderInv(lowPriorityQueue, job, active, ahead)
    /\ SamePriorityIsFifo

IInv ==
    /\ TypeOK
    /\ LifeInv
    /\ ActiveInv
    /\ QueueInv(queue, "normal", job) /\ QueueInv(lowPriorityQueue, "low", job)
    /\ WaitInv
    /\ ListenersMatchTheCommand
    /\ AheadInv

-----------------------------------------------------------------------------
\* What Tail and Append do to the elements of a queue.
LEMMA TailFacts ==
    ASSUME NEW S, NEW q \in Seq(S), q # <<>>
    PROVE  /\ Tail(q) \in Seq(S) /\ Len(Tail(q)) = Len(q) - 1
           /\ Head(q) \in S /\ Head(q) = q[1] /\ Len(q) \in Nat \ {0}
           /\ \A i \in 1..Len(Tail(q)) : Tail(q)[i] = q[i + 1]
    OBVIOUS

LEMMA AppendFacts ==
    ASSUME NEW S, NEW q \in Seq(S), NEW x \in S
    PROVE  /\ Append(q, x) \in Seq(S) /\ Len(Append(q, x)) = Len(q) + 1
           /\ Append(q, x)[Len(q) + 1] = x
           /\ \A i \in 1..Len(q) : Append(q, x)[i] = q[i]
           /\ Append(q, x) # <<>>
    OBVIOUS

\* A queue of one element, taken apart.
LEMMA SingletonFacts ==
    ASSUME NEW S, NEW x \in S
    PROVE  /\ Append(<<>>, x) # <<>> /\ Head(Append(<<>>, x)) = x
           /\ Tail(Append(<<>>, x)) = <<>>
    OBVIOUS

LEMMA AttemptsType == ASSUME NEW j \in Jobs PROVE Attempts(j) \in Nat \ {0}
    BY ParametersAssumption DEF Attempts

\* The fields attempt() writes for a job that was never tried.
LEMMA FirstWrite ==
    ASSUME NEW j \in Jobs, NEW r, r = Written(j, NewJob(j))
    PROVE  /\ r \in JobRecord
           /\ r.promise = "pending" /\ r.writes = 1 /\ r.left = Attempts(j) - 1
           /\ Expects(j) => ~r.settled /\ r.timer = "timeout" /\ r.outcome = "none"
           /\ ~Expects(j) => r.settled /\ r.timer = "off" /\ r.outcome = "sent"
           /\ r # Unsent /\ r # NewJob(j)
<1> DEFINE n == Attempts(j)
<1>1. n \in Nat /\ n - 1 \in Int /\ 0 + 1 = 1
  BY AttemptsType
<1>2. CASE Expects(j)
  <2>1. r = [promise |-> "pending", settled |-> FALSE, left |-> n - 1,
             timer |-> "timeout", writes |-> 1, outcome |-> "none"]
    BY <1>1, <1>2 DEF Written, NewJob
  <2>2. r \in JobRecord
    BY <1>1, <2>1 DEF JobRecord, Promises, Timers, Outcomes
  <2>3. r # Unsent /\ r # NewJob(j)
    BY <2>1 DEF Unsent, NewJob
  <2> QED
    BY <1>2, <2>1, <2>2, <2>3
<1>3. CASE ~Expects(j)
  <2>1. r = [promise |-> "pending", settled |-> TRUE, left |-> n - 1,
             timer |-> "off", writes |-> 1, outcome |-> "sent"]
    BY <1>1, <1>3 DEF Written, NewJob
  <2>2. r \in JobRecord
    BY <1>1, <2>1 DEF JobRecord, Promises, Timers, Outcomes
  <2>3. r # Unsent /\ r # NewJob(j)
    BY <2>1 DEF Unsent, NewJob
  <2> QED
    BY <1>3, <2>1, <2>2, <2>3
<1> QED
  BY <1>2, <1>3

\* attempt() for a job that was never tried writes its packet.
LEMMA FirstAttempt ==
    ASSUME NEW j \in Jobs, NEW jobs, jobs[j] = NewJob(j), Attempt(j, jobs[j], jobs)
    PROVE  job' = [jobs EXCEPT ![j] = Written(j, NewJob(j))] /\ SetupListener(j)
    BY AttemptsType DEF Attempt, NewJob

\* A call of send while nothing is in execution starts the job at once.
LEMMA SendWhileIdle ==
    ASSUME IInv, NEW j \in Jobs, Send(j), active = NoJob
    PROVE  /\ queue' = <<>> /\ lowPriorityQueue' = <<>> /\ active' = j
           /\ job' = [job EXCEPT ![j] = Written(j, NewJob(j))]
           /\ SetupListener(j)
<1> DEFINE jobs == [job EXCEPT ![j] = NewJob(j)]
<1>1. queue = <<>> /\ lowPriorityQueue = <<>>
  BY DEF IInv, ActiveInv
<1>2. job \in [Jobs -> JobRecord]
  BY DEF IInv, TypeOK
<1>3. jobs[j] = NewJob(j) /\ [jobs EXCEPT ![j] = Written(j, NewJob(j))]
                               = [job EXCEPT ![j] = Written(j, NewJob(j))]
  BY <1>2
<1>4. CASE Priority[j] = "low"
  <2>1. ProcessQueue(<<>>, Append(<<>>, j), jobs)
    BY <1>1, <1>4 DEF Send
  <2>2. /\ queue' = <<>> /\ lowPriorityQueue' = <<>> /\ active' = j
        /\ Attempt(j, jobs[j], jobs)
    BY <2>1, SingletonFacts DEF ProcessQueue
  <2> QED
    BY <2>2, <1>3, FirstAttempt
<1>5. CASE Priority[j] # "low"
  <2>1. ProcessQueue(Append(<<>>, j), <<>>, jobs)
    BY <1>1, <1>5 DEF Send
  <2>2. /\ queue' = <<>> /\ lowPriorityQueue' = <<>> /\ active' = j
        /\ Attempt(j, jobs[j], jobs)
    BY <2>1, SingletonFacts DEF ProcessQueue
  <2> QED
    BY <2>2, <1>3, FirstAttempt
<1> QED
  BY <1>4, <1>5

\* processQueue between two jobs writes the first normal job, or the first low one
\* when no normal job waits, or leaves the manager idle.
LEMMA ProcessQueueFacts ==
    ASSUME IInv, ProcessQueue(queue, lowPriorityQueue, job)
    PROVE  \/ /\ queue # <<>> /\ queue' = Tail(queue) /\ lowPriorityQueue' = lowPriorityQueue
              /\ active' = Head(queue)
              /\ job' = [job EXCEPT ![Head(queue)] = Written(Head(queue), NewJob(Head(queue)))]
              /\ SetupListener(Head(queue))
           \/ /\ queue = <<>> /\ lowPriorityQueue # <<>>
              /\ queue' = queue /\ lowPriorityQueue' = Tail(lowPriorityQueue)
              /\ active' = Head(lowPriorityQueue)
              /\ job' = [job EXCEPT ![Head(lowPriorityQueue)] =
                              Written(Head(lowPriorityQueue), NewJob(Head(lowPriorityQueue)))]
              /\ SetupListener(Head(lowPriorityQueue))
           \/ /\ queue = <<>> /\ lowPriorityQueue = <<>>
              /\ active' = NoJob
              /\ UNCHANGED <<queue, lowPriorityQueue, job, ackListeners, packetAckListeners>>
<1>1. queue \in Seq(Jobs) /\ lowPriorityQueue \in Seq(Jobs)
  BY DEF IInv, TypeOK
<1>2. CASE queue # <<>>
  <2>1. Head(queue) \in Jobs /\ job[Head(queue)] = NewJob(Head(queue))
    BY <1>1, <1>2, TailFacts DEF IInv, QueueInv
  <2> QED
    BY <1>2, <2>1, FirstAttempt DEF ProcessQueue
<1>3. CASE queue = <<>> /\ lowPriorityQueue # <<>>
  <2>1. /\ Head(lowPriorityQueue) \in Jobs
        /\ job[Head(lowPriorityQueue)] = NewJob(Head(lowPriorityQueue))
    BY <1>1, <1>3, TailFacts DEF IInv, QueueInv
  <2> QED
    BY <1>3, <2>1, FirstAttempt DEF ProcessQueue
<1>4. CASE queue = <<>> /\ lowPriorityQueue = <<>>
  BY <1>4 DEF ProcessQueue
<1> QED
  BY <1>2, <1>3, <1>4

-----------------------------------------------------------------------------
\* What a step does to the callbacks.

Silent == (\A e \in Entities : ackListeners[e] = NoJob) /\ packetAckListeners = {}

\* Only a command inside its tx_timeout window has callbacks.
LEMMA SilentUnlessAwaiting ==
    ASSUME IInv, ~(active # NoJob /\ Awaiting(active))
    PROVE  Silent
    BY JobsAssumption
    DEF IInv, TypeOK, ListenersMatchTheCommand, AcksReachOnlyTheAwaitingJob, Awaiting, Silent

\* Removing the callbacks of the command in execution removes all there are.
LEMMA CleanupSilences ==
    ASSUME IInv, NEW j \in Jobs, active = j, CleanupListeners({j})
    PROVE  /\ Silent'
           /\ ackListeners' \in [Entities -> Jobs \cup {NoJob}]
           /\ packetAckListeners' \in SUBSET Jobs
<1>1. \A e \in Entities : ackListeners[e] # NoJob => ackListeners[e] = j /\ EntityOf[j] = e
  BY DEF IInv, ListenersMatchTheCommand, AcksReachOnlyTheAwaitingJob, Awaiting
<1>2. \A k \in packetAckListeners : k = j
  BY DEF IInv, ListenersMatchTheCommand, AcksReachOnlyTheAwaitingJob, Awaiting
<1> QED
  BY <1>1, <1>2 DEF CleanupListeners, Silent, IInv, TypeOK

LEMMA SilentIsEnough ==
    ASSUME Silent', \A j \in Jobs : ~Awaiting(j)'
    PROVE  ListenersMatchTheCommand'
    BY DEF Silent, ListenersMatchTheCommand, AcksReachOnlyTheAwaitingJob, AwaitingJobIsHeard

\* The callbacks of an attempt are those of the command in execution, and a command
\* nobody answers has none.
LEMMA SetupIsHeard ==
    ASSUME Silent, NEW n \in Jobs, SetupListener(n), active' = n,
           Expects(n) => Awaiting(n)', ~Expects(n) => ~Awaiting(n)'
    PROVE  /\ ListenersMatchTheCommand'
           /\ ackListeners' \in [Entities -> Jobs \cup {NoJob}]
           /\ packetAckListeners' \in SUBSET Jobs
<1>1. /\ \A e \in Entities : ackListeners'[e] = IF e = EntityOf[n] THEN n ELSE NoJob
      /\ ackListeners' \in [Entities -> Jobs \cup {NoJob}]
      /\ packetAckListeners' = {k \in {n} : AckOf[k] # NoAck}
  BY DEF SetupListener, Silent
<1>2. \A j \in Jobs : Awaiting(j)' => j = n
  BY DEF Awaiting
<1>3. n # NoJob /\ (EntityOf[n] \in Entities => Expects(n)) /\ (AckOf[n] # NoAck => Expects(n))
  BY JobsAssumption, NamesAssumption DEF Expects
<1>4. AcksReachOnlyTheAwaitingJob'
  BY <1>1, <1>3 DEF AcksReachOnlyTheAwaitingJob
<1>5. AwaitingJobIsHeard'
  BY <1>1, <1>2, ParametersAssumption DEF AwaitingJobIsHeard
<1> QED
  BY <1>1, <1>4, <1>5 DEF ListenersMatchTheCommand

-----------------------------------------------------------------------------
\* A step that changes nothing but the command in execution, and never unsettles it,
\* keeps every part of the invariant but the callbacks.
LEMMA ActiveStep ==
    ASSUME IInv, NEW j \in Jobs, active = j,
           NEW r \in JobRecord, job' = [job EXCEPT ![j] = r],
           Running(j)' \/ Ended(j)', job[j].settled => r.settled,
           UNCHANGED <<queue, lowPriorityQueue, active, ahead>>
    PROVE  /\ job' \in [Jobs -> JobRecord]
           /\ LifeInv' /\ ActiveInv' /\ WaitInv' /\ AheadInv'
           /\ QueueInv(queue, "normal", job)' /\ QueueInv(lowPriorityQueue, "low", job)'
<1>1. /\ job \in [Jobs -> JobRecord] /\ queue \in Seq(Jobs) /\ lowPriorityQueue \in Seq(Jobs)
      /\ ahead \in [Jobs -> SUBSET Jobs]
  BY DEF IInv, TypeOK
<1>2. /\ job' \in [Jobs -> JobRecord] /\ job'[j] = r
      /\ \A k \in Jobs : k # j => job'[k] = job[k]
  BY <1>1
<1>3. job[j] # NewJob(j) /\ job'[j] # NewJob(j)
  <2>1. j # NoJob
    BY JobsAssumption
  <2>2. Running(j) \/ Ended(j)
    BY <2>1 DEF IInv, ActiveInv
  <2> QED
    BY <2>2 DEF Running, Ended, NewJob
<1>4. \A k \in Jobs : k # j => (Running(k)' <=> Running(k)) /\ (Ended(k)' <=> Ended(k))
  BY <1>2 DEF Running, Ended
<1>5. LifeInv'
  BY <1>2, <1>4 DEF LifeInv, IInv
<1>6. ActiveInv'
  BY JobsAssumption DEF ActiveInv, IInv
<1>7. /\ \A i \in 1..Len(queue) : queue[i] \in Jobs \ {j}
      /\ \A i \in 1..Len(lowPriorityQueue) : lowPriorityQueue[i] \in Jobs \ {j}
  BY <1>1, <1>3 DEF IInv, QueueInv
<1>8. QueueInv(queue, "normal", job)' /\ QueueInv(lowPriorityQueue, "low", job)'
  BY <1>2, <1>7 DEF IInv, QueueInv
<1>9. WaitInv'
  BY <1>2, <1>3 DEF IInv, WaitInv, Waits
<1>10. \A k \in Jobs : job[k].settled => job'[k].settled
  BY <1>2
<1>11. AheadInv'
  <2>1. OrderInv(queue, job, active, ahead)' /\ OrderInv(lowPriorityQueue, job, active, ahead)'
    BY <1>1, <1>7, <1>10 DEF IInv, AheadInv, OrderInv
  <2>2. SamePriorityIsFifo'
    BY <1>1, <1>10 DEF IInv, AheadInv, SamePriorityIsFifo
  <2> QED
    BY <2>1, <2>2 DEF IInv, AheadInv
<1> QED
  BY <1>2, <1>5, <1>6, <1>8, <1>9, <1>11

\* A step that puts an untouched command n in execution, after the previous one has
\* been resolved, keeps the life cycle of every command and the callbacks.
LEMMA BeginStep ==
    ASSUME IInv, NEW n \in Jobs, NEW jobs \in [Jobs -> JobRecord],
           \A k \in Jobs : k # n => jobs[k] = job[k],
           job' = [jobs EXCEPT ![n] = Written(n, NewJob(n))],
           active' = n, SetupListener(n),
           active = NoJob \/ (active # NoJob /\ job[active].promise = "resolved")
    PROVE  /\ job' \in [Jobs -> JobRecord]
           /\ Running(n)' \/ Ended(n)'
           /\ LifeInv' /\ ActiveInv' /\ ListenersMatchTheCommand'
           /\ ackListeners' \in [Entities -> Jobs \cup {NoJob}]
           /\ packetAckListeners' \in SUBSET Jobs
<1> DEFINE r == Written(n, NewJob(n))
<1>1. /\ r \in JobRecord /\ r.promise = "pending" /\ r.writes = 1 /\ r.left = Attempts(n) - 1
      /\ Expects(n) => ~r.settled /\ r.timer = "timeout" /\ r.outcome = "none"
      /\ ~Expects(n) => r.settled /\ r.timer = "off" /\ r.outcome = "sent"
  BY FirstWrite
<1>2. /\ job' \in [Jobs -> JobRecord] /\ job'[n] = r
      /\ \A k \in Jobs : k # n => job'[k] = job[k]
  BY <1>1
<1>3. Attempts(n) \in Nat \ {0}
  BY AttemptsType
<1>4. Running(n)' \/ Ended(n)'
  <2>1. 1 \in 1..Attempts(n)
    BY <1>3
  <2>2. CASE Expects(n)
    BY <1>1, <1>2, <2>1, <2>2 DEF Running
  <2>3. CASE ~Expects(n)
    <3>1. /\ job'[n].promise = "pending" /\ job'[n].settled /\ job'[n].timer = "off"
          /\ job'[n].writes = 1 /\ job'[n].outcome = "sent"
      BY <1>1, <1>2, <2>3
    <3> QED
      BY <2>1, <2>3, <3>1 DEF Ended
  <2> QED
    BY <2>2, <2>3
<1>5. \A k \in Jobs : k # n => (Running(k)' <=> Running(k)) /\ (Ended(k)' <=> Ended(k))
  BY <1>2 DEF Running, Ended
<1>6. \A k \in Jobs : k # n => ~(Running(k) /\ active = k)
                              /\ (Ended(k) => job[k].promise # "pending")
  <2> TAKE k \in Jobs
  <2>1. active = k => job[k].promise = "resolved"
    BY JobsAssumption
  <2>2. ~(Running(k) /\ active = k)
    BY <2>1 DEF Running
  <2>3. Ended(k) => job[k] # Unsent /\ job[k] # NewJob(k) /\ ~Running(k)
    BY DEF Ended, Unsent, NewJob, Running
  <2>4. Ended(k) => job[k].promise # "pending"
    BY <2>1, <2>3 DEF IInv, LifeInv
  <2> QED
    BY <2>2, <2>4
<1>7. LifeInv'
  <2>1. ASSUME NEW k \in Jobs, k # n
        PROVE  job'[k] = Unsent \/ job'[k] = NewJob(k)
               \/ (Ended(k)' /\ job'[k].promise # "pending")
    BY <1>2, <1>5, <1>6, <2>1 DEF IInv, LifeInv
  <2> QED
    BY <1>4, <2>1 DEF LifeInv
<1>8. ActiveInv'
  BY <1>4, JobsAssumption DEF ActiveInv
<1>9. Silent
  <2>1. ~(active # NoJob /\ Awaiting(active))
    BY DEF IInv, ActiveInv, Running, Ended, Awaiting
  <2> QED
    BY <2>1, SilentUnlessAwaiting
<1>10. (Expects(n) => Awaiting(n)') /\ (~Expects(n) => ~Awaiting(n)')
  BY <1>1, <1>2 DEF Awaiting
<1> QED
  BY <1>2, <1>4, <1>7, <1>8, <1>9, <1>10, SetupIsHeard

\* The command at the front of a queue leaves it.
LEMMA LeaveFront ==
    ASSUME IInv, NEW q \in Seq(Jobs), q # <<>>, NEW p \in {"normal", "low"},
           QueueInv(q, p, job), OrderInv(q, job, active, ahead),
           job' = [job EXCEPT ![Head(q)] = Written(Head(q), NewJob(Head(q)))],
           active' = Head(q), UNCHANGED ahead,
           active # NoJob => job[active].settled
    PROVE  /\ QueueInv(Tail(q), p, job') /\ OrderInv(Tail(q), job', active', ahead')
           /\ \A i \in ahead[Head(q)] : job'[i].settled
           /\ \A j \in Jobs : Waits(j, q) /\ j # Head(q) => Waits(j, Tail(q))
<1> DEFINE h == Head(q)
           t == Tail(q)
<1>1. /\ t \in Seq(Jobs) /\ Len(t) = Len(q) - 1 /\ h \in Jobs /\ h = q[1] /\ Len(q) \in Nat \ {0}
      /\ \A i \in 1..Len(t) : t[i] = q[i + 1]
  BY TailFacts
<1>2. job \in [Jobs -> JobRecord] /\ ahead \in [Jobs -> SUBSET Jobs]
  BY DEF IInv, TypeOK
<1>3. \A k \in Jobs : k # h => job'[k] = job[k]
  BY <1>2
<1>4. \A i \in 1..Len(t) : i + 1 \in 1..Len(q) /\ t[i] \in Jobs /\ t[i] # h
  BY <1>1 DEF QueueInv
<1>5. QueueInv(t, p, job')
  BY <1>1, <1>3, <1>4 DEF QueueInv
<1>6. \A i \in Jobs : job[i].settled => job'[i].settled
  <2>1. job[h] = NewJob(h)
    BY <1>1 DEF QueueInv
  <2> QED
    BY <1>3, <2>1 DEF NewJob
<1>7. \A i \in Jobs : active = i => job[i].settled
  BY JobsAssumption
<1>8. OrderInv(t, job', active', ahead')
  <2> SUFFICES ASSUME NEW k \in 1..Len(t), NEW i \in ahead[t[k]]
               PROVE  job'[i].settled \/ active' = i \/ \E n \in 1..(k - 1) : t[n] = i
    BY DEF OrderInv
  <2>1. i \in Jobs /\ i \in ahead[q[k + 1]]
    BY <1>1, <1>2, <1>4
  <2>2. job[i].settled \/ active = i \/ \E n \in 1..k : q[n] = i
    BY <1>4, <2>1 DEF OrderInv
  <2>3. CASE \E n \in 1..k : q[n] = i
    <3>1. PICK n \in 1..k : q[n] = i
      BY <2>3
    <3>2. CASE n = 1
      BY <3>1, <3>2, <1>1
    <3>3. CASE n # 1
      <4>1. n - 1 \in 1..(k - 1) /\ n - 1 \in 1..Len(t) /\ t[n - 1] = q[n]
        BY <3>1, <3>3, <1>1
      <4> QED
        BY <4>1, <3>1
    <3> QED
      BY <3>2, <3>3
  <2> QED
    BY <2>1, <2>2, <2>3, <1>6, <1>7
<1>9. \A i \in ahead[h] : job'[i].settled
  <2>1. ASSUME NEW i \in ahead[h]
        PROVE  i \in Jobs /\ (job[i].settled \/ active = i)
    BY <1>1, <1>2, <2>1 DEF OrderInv
  <2> QED
    BY <2>1, <1>6, <1>7
<1>10. ASSUME NEW j \in Jobs, Waits(j, q), j # h
       PROVE  Waits(j, t)
  <2>1. PICK i \in 1..Len(q) : q[i] = j
    BY <1>10 DEF Waits
  <2>2. i # 1 /\ i - 1 \in 1..Len(t) /\ t[i - 1] = j
    BY <1>1, <1>10, <2>1
  <2> QED
    BY <2>2 DEF Waits
<1> QED
  BY <1>5, <1>8, <1>9, <1>10

-----------------------------------------------------------------------------
\* One lemma per action: each preserves the inductive invariant.

LEMMA InitEstablishes == Init => IInv
<1> SUFFICES ASSUME Init PROVE IInv
  OBVIOUS
<1>1. TypeOK
  BY DEF Init, TypeOK, JobRecord, Unsent, Promises, Timers, Outcomes
<1>2. LifeInv /\ ActiveInv
  BY DEF Init, LifeInv, ActiveInv
<1>3. QueueInv(queue, "normal", job) /\ QueueInv(lowPriorityQueue, "low", job)
  BY DEF Init, QueueInv
<1>4. WaitInv
  BY DEF Init, WaitInv, Unsent, NewJob
<1>5. ListenersMatchTheCommand
  BY DEF Init, ListenersMatchTheCommand, AcksReachOnlyTheAwaitingJob, AwaitingJobIsHeard, Awaiting, Unsent
<1>6. AheadInv
  BY DEF Init, AheadInv, OrderInv, SamePriorityIsFifo
<1> QED
  BY <1>1, <1>2, <1>3, <1>4, <1>5, <1>6 DEF IInv

\* The end of a command that was answered, by either kind of callback.
LEMMA AckStep ==
    ASSUME IInv, NEW S \in SUBSET Jobs, S # {}, \A k \in S : Awaiting(k), OnAck(S)
    PROVE  IInv'
<1> DEFINE j == active
           r == [job[j] EXCEPT !.settled = TRUE, !.outcome = "acked", !.timer = "off"]
<1>1. j \in Jobs /\ S = {j} /\ Awaiting(j) /\ job \in [Jobs -> JobRecord]
  BY DEF Awaiting, IInv, TypeOK
<1>2. {k \in S : ~job[k].settled} = {j}
  BY <1>1 DEF Awaiting
<1>3. job' = [job EXCEPT ![j] = r] /\ CleanupListeners({j})
      /\ UNCHANGED <<queue, lowPriorityQueue, active, ahead>>
  BY <1>1, <1>2 DEF OnAck
<1>4. Running(j)
  BY <1>1, JobsAssumption DEF IInv, ActiveInv, Awaiting, Ended
<1>5. r \in JobRecord /\ r.settled
  BY <1>1 DEF JobRecord, Outcomes, Timers
<1>6. Ended(j)'
  BY <1>1, <1>3, <1>4 DEF Running, Ended
<1>7. \A k \in Jobs : ~Awaiting(k)'
  BY <1>1, <1>3, <1>5 DEF Awaiting
<1> HIDE DEF r, j
<1>8. /\ job' \in [Jobs -> JobRecord]
      /\ LifeInv' /\ ActiveInv' /\ WaitInv' /\ AheadInv'
      /\ QueueInv(queue, "normal", job)' /\ QueueInv(lowPriorityQueue, "low", job)'
  BY <1>1, <1>3, <1>5, <1>6, ActiveStep DEF j
<1>9. /\ ListenersMatchTheCommand' /\ ackListeners' \in [Entities -> Jobs \cup {NoJob}]
      /\ packetAckListeners' \in SUBSET Jobs
  BY <1>1, <1>3, <1>7, CleanupSilences, SilentIsEnough DEF j
<1> QED
  BY <1>3, <1>8, <1>9 DEF IInv, TypeOK

LEMMA HandleAckStep ==
    ASSUME IInv, NEW e \in Entities, HandleAck(e)
    PROVE  IInv'
<1>1. ackListeners[e] \in Jobs /\ Awaiting(ackListeners[e])
  BY DEF HandleAck, IInv, TypeOK, ListenersMatchTheCommand, AcksReachOnlyTheAwaitingJob
<1> QED
  BY <1>1, AckStep DEF HandleAck

LEMMA HandlePacketAckStep ==
    ASSUME IInv, NEW matched \in SUBSET Acks, HandlePacketAck(matched)
    PROVE  IInv'
<1> DEFINE hit == {j \in packetAckListeners : AckOf[j] \in matched}
<1>1. hit \in SUBSET Jobs /\ hit # {} /\ \A k \in hit : Awaiting(k)
  BY DEF HandlePacketAck, IInv, TypeOK, ListenersMatchTheCommand, AcksReachOnlyTheAwaitingJob
<1>2. OnAck(hit)
  BY DEF HandlePacketAck
<1> QED
  BY <1>1, <1>2, AckStep

LEMMA TimersOfTheInvariant ==
    ASSUME IInv
    PROVE  TimersBelongToTheActiveJob
           /\ \A j \in Jobs : job[j].timer # "off" => Running(j)
<1>1. ASSUME NEW j \in Jobs, job[j].timer # "off"
      PROVE  Running(j) /\ active = j
  <2>1. job[j] # Unsent /\ job[j] # NewJob(j) /\ ~Ended(j)
    BY <1>1 DEF Unsent, NewJob, Ended
  <2> QED
    BY <2>1 DEF IInv, LifeInv
<1> QED
  BY <1>1 DEF TimersBelongToTheActiveJob, Running

LEMMA TxTimeoutStep ==
    ASSUME IInv, NEW j \in Jobs, TxTimeout(j)
    PROVE  IInv'
<1> DEFINE r == [job[j] EXCEPT !.timer = "interval"]
<1>1. active = j /\ Running(j) /\ ~job[j].settled
  BY TimersOfTheInvariant DEF TxTimeout, TimersBelongToTheActiveJob
<1>2. job \in [Jobs -> JobRecord] /\ job' = [job EXCEPT ![j] = r] /\ CleanupListeners({j})
      /\ UNCHANGED <<queue, lowPriorityQueue, active, ahead>>
  BY <1>1 DEF TxTimeout, IInv, TypeOK
<1>3. r \in JobRecord
  BY <1>2 DEF JobRecord, Timers
<1>4. Running(j)'
  BY <1>1, <1>2 DEF Running
<1>5. \A k \in Jobs : ~Awaiting(k)'
  BY <1>1, <1>2 DEF Awaiting
<1> HIDE DEF r
<1>6. /\ job' \in [Jobs -> JobRecord]
      /\ LifeInv' /\ ActiveInv' /\ WaitInv' /\ AheadInv'
      /\ QueueInv(queue, "normal", job)' /\ QueueInv(lowPriorityQueue, "low", job)'
  BY <1>1, <1>2, <1>3, <1>4, ActiveStep
<1>7. /\ ListenersMatchTheCommand' /\ ackListeners' \in [Entities -> Jobs \cup {NoJob}]
      /\ packetAckListeners' \in SUBSET Jobs
  BY <1>1, <1>2, <1>5, CleanupSilences, SilentIsEnough
<1> QED
  BY <1>2, <1>6, <1>7 DEF IInv, TypeOK

LEMMA TxDelayElapsedStep ==
    ASSUME IInv, NEW j \in Jobs, TxDelayElapsed(j)
    PROVE  IInv'
<1> DEFINE s == [job[j] EXCEPT !.timer = "off"]
           r == IF s.left - 1 < 0 THEN GivenUp(s) ELSE Written(j, s)
<1>1. /\ active = j /\ Running(j) /\ job[j].timer = "interval"
      /\ job \in [Jobs -> JobRecord] /\ j # NoJob
  BY TimersOfTheInvariant, JobsAssumption
  DEF TxDelayElapsed, TimersBelongToTheActiveJob, IInv, TypeOK
<1>2. /\ job' = [job EXCEPT ![j] = r]
      /\ IF s.left - 1 < 0 THEN CleanupListeners({j}) ELSE SetupListener(j)
      /\ UNCHANGED <<queue, lowPriorityQueue, active, ahead>>
  BY <1>1 DEF TxDelayElapsed, Attempt, Running
<1>3. /\ s \in JobRecord /\ s.left = job[j].left /\ s.writes = job[j].writes
      /\ s.promise = "pending" /\ s.timer = "off"
  BY <1>1 DEF JobRecord, Timers, Running
<1>4. /\ Attempts(j) \in Nat \ {0} /\ s.writes \in 1..Attempts(j)
      /\ s.left = Attempts(j) - s.writes /\ Expects(j)
  BY <1>1, <1>3, AttemptsType DEF Running
<1>5. CASE s.left - 1 < 0
  <2>1. r = [s EXCEPT !.left = s.left - 1, !.settled = TRUE, !.outcome = "failed"]
    BY <1>5 DEF GivenUp
  <2>2. s.writes = Attempts(j) /\ s.left - 1 \in Int
    BY <1>4, <1>5
  <2>3. r \in JobRecord
    BY <1>3, <2>1, <2>2 DEF JobRecord, Outcomes
  <2>4. Ended(j)'
    <3> HIDE DEF r, s
    <3>1. job'[j] = r
      BY <1>1, <1>2
    <3>2. /\ r.promise = "pending" /\ r.settled /\ r.outcome = "failed"
          /\ r.timer = "off" /\ r.writes = s.writes
      BY <1>3, <2>1 DEF JobRecord
    <3> QED
      BY <1>4, <2>2, <3>1, <3>2 DEF Ended
  <2>5. r.settled
    BY <1>3, <2>1 DEF JobRecord
  <2>6. \A k \in Jobs : ~Awaiting(k)'
    BY <1>1, <1>2, <2>5 DEF Awaiting
  <2> HIDE DEF r
  <2>7. /\ job' \in [Jobs -> JobRecord]
        /\ LifeInv' /\ ActiveInv' /\ WaitInv' /\ AheadInv'
        /\ QueueInv(queue, "normal", job)' /\ QueueInv(lowPriorityQueue, "low", job)'
    BY <1>1, <1>2, <2>3, <2>4, <2>5, ActiveStep
  <2>8. /\ ListenersMatchTheCommand' /\ ackListeners' \in [Entities -> Jobs \cup {NoJob}]
        /\ packetAckListeners' \in SUBSET Jobs
    BY <1>1, <1>2, <1>5, <2>6, CleanupSilences, SilentIsEnough
  <2> QED
    BY <1>2, <2>7, <2>8 DEF IInv, TypeOK
<1>6. CASE ~(s.left - 1 < 0)
  <2>1. r = [s EXCEPT !.left = s.left - 1, !.writes = s.writes + 1, !.timer = "timeout",
                      !.settled = FALSE, !.outcome = "none"]
    BY <1>4, <1>6 DEF Written
  <2>2. /\ s.writes + 1 \in 1..Attempts(j) /\ s.left - 1 \in Int
        /\ s.left - 1 = Attempts(j) - (s.writes + 1) /\ s.writes + 1 \in Nat
    BY <1>4, <1>6
  <2> HIDE DEF r, s
  <2>3. r \in JobRecord
    BY <1>3, <2>1, <2>2 DEF JobRecord, Outcomes, Timers
  <2>4. /\ job'[j].promise = "pending" /\ ~job'[j].settled /\ job'[j].outcome = "none"
        /\ job'[j].timer = "timeout" /\ job'[j].left = s.left - 1
        /\ job'[j].writes = s.writes + 1
    <3>1. job'[j] = r
      BY <1>1, <1>2
    <3>2. /\ r.promise = "pending" /\ ~r.settled /\ r.outcome = "none"
          /\ r.timer = "timeout" /\ r.left = s.left - 1 /\ r.writes = s.writes + 1
      BY <1>3, <2>1 DEF JobRecord
    <3> QED
      BY <3>1, <3>2
  <2>5. Running(j)' /\ Awaiting(j)'
    BY <1>1, <1>2, <1>4, <2>2, <2>4 DEF Running, Awaiting
  <2>6. ~job[j].settled
    BY <1>1 DEF Running
  <2>7. Silent
    BY <1>1, SilentUnlessAwaiting DEF Awaiting
  <2>8. /\ job' \in [Jobs -> JobRecord]
        /\ LifeInv' /\ ActiveInv' /\ WaitInv' /\ AheadInv'
        /\ QueueInv(queue, "normal", job)' /\ QueueInv(lowPriorityQueue, "low", job)'
    BY <1>1, <1>2, <2>3, <2>5, <2>6, ActiveStep
  <2>9. /\ ListenersMatchTheCommand' /\ ackListeners' \in [Entities -> Jobs \cup {NoJob}]
        /\ packetAckListeners' \in SUBSET Jobs
    BY <1>1, <1>2, <1>4, <1>6, <2>5, <2>7, SetupIsHeard
  <2> QED
    BY <1>2, <2>8, <2>9 DEF IInv, TypeOK
<1> QED
  BY <1>5, <1>6

LEMMA ResolveStep ==
    ASSUME IInv, NEW j \in Jobs, Resolve(j)
    PROVE  IInv'
<1> DEFINE r == [job[j] EXCEPT !.promise = "resolved"]
<1>1. /\ active = j /\ Ended(j) /\ job \in [Jobs -> JobRecord] /\ job[j].settled
      /\ job' = [job EXCEPT ![j] = r]
      /\ UNCHANGED <<queue, lowPriorityQueue, active, ackListeners, packetAckListeners, ahead>>
  BY JobsAssumption DEF Resolve, IInv, TypeOK, ActiveInv, Running
<1>2. r \in JobRecord /\ r.settled
  BY <1>1 DEF JobRecord, Promises
<1>3. Ended(j)'
  BY <1>1 DEF Ended
<1>4. \A k \in Jobs : ~Awaiting(k)'
  BY <1>1, <1>2 DEF Awaiting
<1>5. Silent'
  BY <1>1, SilentUnlessAwaiting DEF Awaiting, Silent
<1> HIDE DEF r
<1>6. /\ job' \in [Jobs -> JobRecord]
      /\ LifeInv' /\ ActiveInv' /\ WaitInv' /\ AheadInv'
      /\ QueueInv(queue, "normal", job)' /\ QueueInv(lowPriorityQueue, "low", job)'
  BY <1>1, <1>2, <1>3, ActiveStep
<1>7. ListenersMatchTheCommand'
  BY <1>4, <1>5, SilentIsEnough
<1> QED
  BY <1>1, <1>6, <1>7 DEF IInv, TypeOK

\* The queue that processQueue does not shift is not disturbed.
LEMMA OtherQueue ==
    ASSUME IInv, NEW q \in Seq(Jobs), NEW p \in {"normal", "low"},
           QueueInv(q, p, job), OrderInv(q, job, active, ahead),
           NEW n \in Jobs, Priority[n] # p, job[n] = NewJob(n),
           job' = [job EXCEPT ![n] = Written(n, NewJob(n))],
           UNCHANGED ahead, active # NoJob => job[active].settled
    PROVE  QueueInv(q, p, job') /\ OrderInv(q, job', active', ahead')
<1>1. \A k \in Jobs : k # n => job'[k] = job[k]
  BY DEF IInv, TypeOK
<1>2. \A i \in 1..Len(q) : q[i] \in Jobs /\ q[i] # n
  BY DEF QueueInv
<1>3. \A i \in Jobs : job[i].settled => job'[i].settled
  BY <1>1 DEF NewJob
<1>4. \A i \in Jobs : active = i => job[i].settled
  BY JobsAssumption
<1>5. ahead \in [Jobs -> SUBSET Jobs]
  BY DEF IInv, TypeOK
<1>6. QueueInv(q, p, job')
  BY <1>1, <1>2 DEF QueueInv
<1>7. OrderInv(q, job', active', ahead')
  BY <1>2, <1>3, <1>4, <1>5 DEF OrderInv
<1> QED
  BY <1>6, <1>7

\* Every command that still waits after n began waited before.
LEMMA WaitersAfterBegin ==
    ASSUME IInv, NEW n \in Jobs, job' = [job EXCEPT ![n] = Written(n, NewJob(n))],
           NEW k \in Jobs, job'[k] = NewJob(k)
    PROVE  k # n /\ (Waits(k, queue) \/ Waits(k, lowPriorityQueue))
<1>1. job \in [Jobs -> JobRecord]
  BY DEF IInv, TypeOK
<1>2. k # n
  BY <1>1, FirstWrite
<1> QED
  BY <1>1, <1>2 DEF IInv, WaitInv

LEMMA ReleaseStep ==
    ASSUME IInv, NEW j \in Jobs, Release(j)
    PROVE  IInv'
<1>1. /\ active = j /\ active # NoJob /\ job[active].promise = "resolved"
      /\ ProcessQueue(queue, lowPriorityQueue, job) /\ UNCHANGED ahead
  BY JobsAssumption DEF Release
<1>2. /\ queue \in Seq(Jobs) /\ lowPriorityQueue \in Seq(Jobs) /\ job \in [Jobs -> JobRecord]
      /\ ahead \in [Jobs -> SUBSET Jobs]
      /\ QueueInv(queue, "normal", job) /\ QueueInv(lowPriorityQueue, "low", job)
      /\ OrderInv(queue, job, active, ahead) /\ OrderInv(lowPriorityQueue, job, active, ahead)
      /\ \A i \in Jobs : \A k \in ahead[i] : Priority[k] = Priority[i] /\ k # i
  BY DEF IInv, TypeOK, AheadInv
<1>3. job[active].settled
  BY <1>1 DEF IInv, ActiveInv, Running, Ended
<1>4. CASE queue # <<>>
  <2> DEFINE h == Head(queue)
  <2>1. /\ queue' = Tail(queue) /\ lowPriorityQueue' = lowPriorityQueue /\ active' = h
        /\ job' = [job EXCEPT ![h] = Written(h, NewJob(h))] /\ SetupListener(h)
    BY <1>1, <1>4, ProcessQueueFacts
  <2>2. h \in Jobs /\ job[h] = NewJob(h) /\ Priority[h] # "low" /\ Tail(queue) \in Seq(Jobs)
    BY <1>2, <1>4, TailFacts DEF QueueInv
  <2>3. /\ job' \in [Jobs -> JobRecord] /\ LifeInv' /\ ActiveInv' /\ ListenersMatchTheCommand'
        /\ ackListeners' \in [Entities -> Jobs \cup {NoJob}] /\ packetAckListeners' \in SUBSET Jobs
    BY <1>1, <1>2, <2>1, <2>2, BeginStep
  <2>4. /\ QueueInv(Tail(queue), "normal", job') /\ OrderInv(Tail(queue), job', active', ahead')
        /\ \A i \in ahead[h] : job'[i].settled
        /\ \A k \in Jobs : Waits(k, queue) /\ k # h => Waits(k, Tail(queue))
    BY <1>1, <1>2, <1>3, <1>4, <2>1, LeaveFront
  <2>5. QueueInv(lowPriorityQueue, "low", job)' /\ OrderInv(lowPriorityQueue, job, active, ahead)'
    BY <1>1, <1>2, <1>3, <2>1, <2>2, OtherQueue
  <2>6. QueueInv(queue, "normal", job)' /\ OrderInv(queue, job, active, ahead)'
    BY <2>1, <2>4 DEF QueueInv, OrderInv
  <2>7. WaitInv'
    BY <2>1, <2>2, <2>4, WaitersAfterBegin DEF WaitInv, Waits
  <2>8. AheadInv'
    BY <1>1, <1>2, <2>1, <2>4, <2>5, <2>6 DEF AheadInv, SamePriorityIsFifo
  <2> QED
    BY <1>1, <1>2, <2>1, <2>2, <2>3, <2>5, <2>6, <2>7, <2>8 DEF IInv, TypeOK
<1>5. CASE queue = <<>> /\ lowPriorityQueue # <<>>
  <2> DEFINE h == Head(lowPriorityQueue)
  <2>1. /\ queue' = queue /\ lowPriorityQueue' = Tail(lowPriorityQueue) /\ active' = h
        /\ job' = [job EXCEPT ![h] = Written(h, NewJob(h))] /\ SetupListener(h)
    BY <1>1, <1>5, ProcessQueueFacts
  <2>2. /\ h \in Jobs /\ job[h] = NewJob(h) /\ Priority[h] # "normal"
        /\ Tail(lowPriorityQueue) \in Seq(Jobs)
    BY <1>2, <1>5, TailFacts DEF QueueInv
  <2>3. /\ job' \in [Jobs -> JobRecord] /\ LifeInv' /\ ActiveInv' /\ ListenersMatchTheCommand'
        /\ ackListeners' \in [Entities -> Jobs \cup {NoJob}] /\ packetAckListeners' \in SUBSET Jobs
    BY <1>1, <1>2, <2>1, <2>2, BeginStep
  <2>4. /\ QueueInv(Tail(lowPriorityQueue), "low", job') /\ OrderInv(Tail(lowPriorityQueue), job', active', ahead')
        /\ \A i \in ahead[h] : job'[i].settled
        /\ \A k \in Jobs : Waits(k, lowPriorityQueue) /\ k # h => Waits(k, Tail(lowPriorityQueue))
    BY <1>1, <1>2, <1>3, <1>5, <2>1, LeaveFront
  <2>5. QueueInv(queue, "normal", job)' /\ OrderInv(queue, job, active, ahead)'
    BY <1>1, <1>2, <1>3, <2>1, <2>2, OtherQueue
  <2>6. QueueInv(lowPriorityQueue, "low", job)' /\ OrderInv(lowPriorityQueue, job, active, ahead)'
    BY <2>1, <2>4 DEF QueueInv, OrderInv
  <2>7. WaitInv'
    BY <2>1, <2>2, <2>4, WaitersAfterBegin DEF WaitInv, Waits
  <2>8. AheadInv'
    BY <1>1, <1>2, <2>1, <2>4, <2>5, <2>6 DEF AheadInv, SamePriorityIsFifo
  <2> QED
    BY <1>1, <1>2, <2>1, <2>2, <2>3, <2>5, <2>6, <2>7, <2>8 DEF IInv, TypeOK
<1>6. CASE queue = <<>> /\ lowPriorityQueue = <<>>
  <2>1. /\ active' = NoJob
        /\ UNCHANGED <<queue, lowPriorityQueue, job, ackListeners, packetAckListeners>>
    BY <1>1, <1>6, ProcessQueueFacts
  <2>2. \A k \in Jobs : ~Awaiting(k)' /\ (Running(k)' <=> Running(k)) /\ (Ended(k)' <=> Ended(k))
    BY <2>1, JobsAssumption DEF Awaiting, Running, Ended
  <2>3. Silent'
    BY <1>3, <2>1, SilentUnlessAwaiting DEF Silent, Awaiting
  <2>4. ListenersMatchTheCommand'
    BY <2>2, <2>3, SilentIsEnough
  <2>5. LifeInv'
    BY <1>1, <2>1, <2>2 DEF IInv, LifeInv, Running
  <2>6. ActiveInv' /\ WaitInv' /\ QueueInv(queue, "normal", job)' /\ QueueInv(lowPriorityQueue, "low", job)'
    BY <1>6, <2>1 DEF IInv, ActiveInv, WaitInv, QueueInv, Waits
  <2>7. AheadInv'
    BY <1>1, <1>2, <1>6, <2>1 DEF AheadInv, OrderInv, SamePriorityIsFifo
  <2> QED
    BY <1>1, <1>2, <2>1, <2>4, <2>5, <2>6, <2>7 DEF IInv, TypeOK
<1> QED
  BY <1>4, <1>5, <1>6

\* Who is pending when j is sent: the command in execution, or one in a queue.
LEMMA PendingIsActiveOrWaits ==
    ASSUME IInv, NEW i \in Jobs, Pending(i)
    PROVE  active = i \/ Waits(i, queue) \/ Waits(i, lowPriorityQueue)
<1>1. job[i] # Unsent /\ ~Ended(i)
  BY DEF Pending, Unsent, Ended
<1>2. (Running(i) /\ active = i) \/ job[i] = NewJob(i)
  BY <1>1 DEF IInv, LifeInv
<1> QED
  BY <1>2 DEF IInv, WaitInv

LEMMA SendWhileIdleStep ==
    ASSUME IInv, NEW j \in Jobs, Send(j), active = NoJob
    PROVE  IInv'
<1>1. /\ queue' = <<>> /\ lowPriorityQueue' = <<>> /\ active' = j
      /\ job' = [job EXCEPT ![j] = Written(j, NewJob(j))] /\ SetupListener(j)
  BY SendWhileIdle
<1>2. /\ queue = <<>> /\ lowPriorityQueue = <<>> /\ job \in [Jobs -> JobRecord]
      /\ ahead \in [Jobs -> SUBSET Jobs]
  BY DEF IInv, TypeOK, ActiveInv
<1>3. /\ job' \in [Jobs -> JobRecord] /\ LifeInv' /\ ActiveInv' /\ ListenersMatchTheCommand'
      /\ ackListeners' \in [Entities -> Jobs \cup {NoJob}] /\ packetAckListeners' \in SUBSET Jobs
  BY <1>1, <1>2, BeginStep
<1>4. \A i \in Jobs : ~Pending(i)
  <2>1. \A i \in Jobs : ~Waits(i, queue) /\ ~Waits(i, lowPriorityQueue) /\ active # i
    BY <1>2, JobsAssumption DEF Waits
  <2> QED
    BY <2>1, PendingIsActiveOrWaits
<1>5. /\ ahead' \in [Jobs -> SUBSET Jobs] /\ ahead'[j] = {}
      /\ \A k \in Jobs : k # j => ahead'[k] = ahead[k] \ {j}
  BY <1>2, <1>4 DEF Send
<1>6. WaitInv'
  BY <1>1, <1>2, WaitersAfterBegin DEF WaitInv, Waits
<1>7. QueueInv(queue, "normal", job)' /\ QueueInv(lowPriorityQueue, "low", job)'
  BY <1>1 DEF QueueInv
<1>8. AheadInv'
  BY <1>1, <1>5 DEF IInv, AheadInv, OrderInv, SamePriorityIsFifo
<1> QED
  BY <1>1, <1>3, <1>5, <1>6, <1>7, <1>8 DEF IInv, TypeOK

\* A queue q of priority p behind which j is put, or that j's arrival does not change.
LEMMA EnqueueStep ==
    ASSUME IInv, NEW j \in Jobs, Send(j), active # NoJob,
           NEW q \in Seq(Jobs), NEW p \in {"normal", "low"},
           QueueInv(q, p, job), OrderInv(q, job, active, ahead),
           job' = [job EXCEPT ![j] = NewJob(j)], active' = active,
           \A i \in Jobs : Pending(i) /\ Priority[i] = p => active = i \/ Waits(i, q)
    PROVE  /\ QueueInv(q, p, job') /\ OrderInv(q, job', active', ahead')
           /\ Priority[j] = p => /\ QueueInv(Append(q, j), p, job')
                              /\ OrderInv(Append(q, j), job', active', ahead')
<1> DEFINE t == Append(q, j)
<1>1. /\ job \in [Jobs -> JobRecord] /\ ahead \in [Jobs -> SUBSET Jobs]
      /\ job[j].promise # "pending" /\ Len(q) \in Nat
  BY DEF IInv, TypeOK, Send
<1>2. /\ ahead'[j] = {i \in Jobs \ {j} : Pending(i) /\ Priority[i] = Priority[j]}
      /\ \A k \in Jobs : k # j => ahead'[k] = ahead[k] \ {j}
  BY DEF Send
<1>3. job'[j] = NewJob(j) /\ \A k \in Jobs : k # j => job'[k] = job[k]
  BY <1>1
<1>4. \A i \in 1..Len(q) : q[i] \in Jobs /\ q[i] # j
  BY <1>1 DEF QueueInv, NewJob
<1>5. QueueInv(q, p, job')
  BY <1>3, <1>4 DEF QueueInv
<1>6. OrderInv(q, job', active', ahead')
  <2> SUFFICES ASSUME NEW k \in 1..Len(q), NEW i \in ahead'[q[k]]
               PROVE  job'[i].settled \/ active' = i \/ \E n \in 1..(k - 1) : q[n] = i
    BY DEF OrderInv
  <2>1. i \in ahead[q[k]] /\ i \in Jobs /\ i # j
    BY <1>1, <1>2, <1>4
  <2> QED
    BY <1>3, <2>1 DEF OrderInv
<1>7. ASSUME Priority[j] = p
      PROVE  QueueInv(t, p, job') /\ OrderInv(t, job', active', ahead')
  <2>1. /\ t \in Seq(Jobs) /\ Len(t) = Len(q) + 1 /\ t[Len(q) + 1] = j
        /\ \A i \in 1..Len(q) : t[i] = q[i]
    BY AppendFacts
  <2>2. \A i \in 1..Len(t) : i = Len(q) + 1 \/ i \in 1..Len(q)
    BY <1>1, <2>1
  <2> HIDE DEF t
  <2>3. QueueInv(t, p, job')
    BY <1>3, <1>4, <1>5, <1>7, <2>1, <2>2 DEF QueueInv
  <2>4. OrderInv(t, job', active', ahead')
    <3> SUFFICES ASSUME NEW k \in 1..Len(t), NEW i \in ahead'[t[k]]
                 PROVE  job'[i].settled \/ active' = i \/ \E n \in 1..(k - 1) : t[n] = i
      BY DEF OrderInv
    <3>1. CASE k \in 1..Len(q)
      <4>1. i \in ahead'[q[k]]
        BY <2>1, <3>1
      <4>2. job'[i].settled \/ active' = i \/ \E n \in 1..(k - 1) : q[n] = i
        BY <1>6, <3>1, <4>1 DEF OrderInv
      <4>3. \A n \in 1..(k - 1) : t[n] = q[n]
        BY <1>1, <2>1, <3>1
      <4> QED
        BY <4>2, <4>3
    <3>2. CASE k = Len(q) + 1
      <4>1. i \in Jobs /\ Pending(i) /\ Priority[i] = p
        BY <1>2, <1>7, <2>1, <3>2
      <4>2. active = i \/ Waits(i, q)
        BY <4>1
      <4>3. \A n \in 1..Len(q) : n \in 1..(k - 1) /\ t[n] = q[n]
        BY <1>1, <2>1, <3>2
      <4> QED
        BY <4>2, <4>3 DEF Waits
    <3> QED
      BY <2>2, <3>1, <3>2
  <2> QED
    BY <2>3, <2>4
<1> QED
  BY <1>5, <1>6, <1>7

LEMMA SendWhileBusyStep ==
    ASSUME IInv, NEW j \in Jobs, Send(j), active # NoJob
    PROVE  IInv'
<1>1. /\ job' = [job EXCEPT ![j] = NewJob(j)]
      /\ UNCHANGED <<active, ackListeners, packetAckListeners>>
      /\ queue' = IF Priority[j] = "low" THEN queue ELSE Append(queue, j)
      /\ lowPriorityQueue' = IF Priority[j] = "low" THEN Append(lowPriorityQueue, j)
                                                   ELSE lowPriorityQueue
      /\ j # active
  BY DEF Send
<1>2. /\ queue \in Seq(Jobs) /\ lowPriorityQueue \in Seq(Jobs) /\ job \in [Jobs -> JobRecord]
      /\ ahead \in [Jobs -> SUBSET Jobs] /\ Priority[j] \in {"normal", "low"}
      /\ QueueInv(queue, "normal", job) /\ QueueInv(lowPriorityQueue, "low", job)
      /\ OrderInv(queue, job, active, ahead) /\ OrderInv(lowPriorityQueue, job, active, ahead)
  BY ParametersAssumption DEF IInv, TypeOK, AheadInv
<1>3. job'[j] = NewJob(j) /\ \A k \in Jobs : k # j => job'[k] = job[k]
  BY <1>2, <1>1
<1>4. \A i \in Jobs : Pending(i) =>
          \/ active = i
          \/ Waits(i, queue) /\ Priority[i] = "normal"
          \/ Waits(i, lowPriorityQueue) /\ Priority[i] = "low"
  BY <1>2, PendingIsActiveOrWaits DEF QueueInv, Waits
<1>5. /\ QueueInv(queue, "normal", job') /\ OrderInv(queue, job', active', ahead')
      /\ Priority[j] = "normal" => /\ QueueInv(Append(queue, j), "normal", job')
                                /\ OrderInv(Append(queue, j), job', active', ahead')
  BY <1>1, <1>2, <1>4, EnqueueStep
<1>6. /\ QueueInv(lowPriorityQueue, "low", job') /\ OrderInv(lowPriorityQueue, job', active', ahead')
      /\ Priority[j] = "low" => /\ QueueInv(Append(lowPriorityQueue, j), "low", job')
                             /\ OrderInv(Append(lowPriorityQueue, j), job', active', ahead')
  BY <1>1, <1>2, <1>4, EnqueueStep
<1>7. /\ QueueInv(queue, "normal", job)' /\ QueueInv(lowPriorityQueue, "low", job)'
      /\ OrderInv(queue, job, active, ahead)' /\ OrderInv(lowPriorityQueue, job, active, ahead)'
  <2>1. CASE Priority[j] = "low"
    BY <1>1, <1>5, <1>6, <2>1 DEF QueueInv, OrderInv
  <2>2. CASE Priority[j] = "normal"
    BY <1>1, <1>5, <1>6, <2>2 DEF QueueInv, OrderInv
  <2> QED
    BY <1>2, <2>1, <2>2
<1>8. queue' \in Seq(Jobs) /\ lowPriorityQueue' \in Seq(Jobs)
  BY <1>1, <1>2, AppendFacts
<1>9. NewJob(j) \in JobRecord
  BY AttemptsType DEF NewJob, JobRecord, Promises, Timers, Outcomes
<1>10. job' \in [Jobs -> JobRecord]
  BY <1>1, <1>2, <1>9
<1>11. \A k \in Jobs : k # j => (Running(k)' <=> Running(k)) /\ (Ended(k)' <=> Ended(k))
                              /\ (Awaiting(k)' <=> Awaiting(k))
  BY <1>1, <1>3 DEF Running, Ended, Awaiting
<1>12. LifeInv'
  BY <1>1, <1>3, <1>11 DEF IInv, LifeInv
<1>13. active \in Jobs
  BY DEF IInv, TypeOK
<1>14. ActiveInv'
  BY <1>1, <1>11, <1>13 DEF IInv, ActiveInv
<1>15. WaitInv'
  <2> SUFFICES ASSUME NEW k \in Jobs, job'[k] = NewJob(k)
               PROVE  Waits(k, queue') \/ Waits(k, lowPriorityQueue')
    BY DEF WaitInv, Waits
  <2>1. \A q \in Seq(Jobs) : Waits(j, Append(q, j)) /\ (Waits(k, q) => Waits(k, Append(q, j)))
    <3> TAKE q \in Seq(Jobs)
    <3>1. /\ Len(q) \in Nat /\ Len(Append(q, j)) = Len(q) + 1 /\ Append(q, j)[Len(q) + 1] = j
          /\ \A i \in 1..Len(q) : Append(q, j)[i] = q[i]
      BY AppendFacts
    <3>2. Len(q) + 1 \in 1..(Len(q) + 1) /\ \A i \in 1..Len(q) : i \in 1..(Len(q) + 1)
      BY <3>1
    <3> QED
      BY <3>1, <3>2 DEF Waits
  <2>2. CASE k = j
    BY <1>1, <1>2, <2>1, <2>2
  <2>3. CASE k # j
    <3>1. Waits(k, queue) \/ Waits(k, lowPriorityQueue)
      BY <1>3, <2>3 DEF IInv, WaitInv
    <3> QED
      BY <1>1, <1>2, <2>1, <3>1
  <2> QED
    BY <2>2, <2>3
<1>16. ListenersMatchTheCommand'
  <2>1. ~Awaiting(j)' /\ ~Awaiting(j)
    BY <1>1 DEF Awaiting
  <2> QED
    BY <1>1, <1>11, <2>1
    DEF IInv, TypeOK, ListenersMatchTheCommand, AcksReachOnlyTheAwaitingJob, AwaitingJobIsHeard
<1>17. /\ ahead' \in [Jobs -> SUBSET Jobs]
       /\ ahead'[j] = {i \in Jobs \ {j} : Pending(i) /\ Priority[i] = Priority[j]}
       /\ \A k \in Jobs : k # j => ahead'[k] = ahead[k] \ {j}
  BY <1>2 DEF Send
<1>18. AheadInv'
  <2>1. SamePriorityIsFifo'
    BY <1>1, <1>2, <1>3, <1>13, <1>17 DEF IInv, AheadInv, SamePriorityIsFifo
  <2>2. \A k \in Jobs : \A i \in ahead'[k] : Priority[i] = Priority[k] /\ i # k
    BY <1>17 DEF IInv, AheadInv
  <2> QED
    BY <1>7, <2>1, <2>2 DEF AheadInv
<1> QED
  BY <1>1, <1>7, <1>8, <1>10, <1>12, <1>14, <1>15, <1>16, <1>17, <1>18 DEF IInv, TypeOK

LEMMA NextPreserves == IInv /\ [Next]_vars => IInv'
<1> SUFFICES ASSUME IInv, [Next]_vars PROVE IInv'
  OBVIOUS
<1>1. ASSUME NEW j \in Jobs, Send(j) PROVE IInv'
  BY <1>1, SendWhileIdleStep, SendWhileBusyStep
<1>2. ASSUME NEW j \in Jobs, TxTimeout(j) PROVE IInv'
  BY <1>2, TxTimeoutStep
<1>3. ASSUME NEW j \in Jobs, TxDelayElapsed(j) PROVE IInv'
  BY <1>3, TxDelayElapsedStep
<1>4. ASSUME NEW j \in Jobs, Resolve(j) PROVE IInv'
  BY <1>4, ResolveStep
<1>5. ASSUME NEW j \in Jobs, Release(j) PROVE IInv'
  BY <1>5, ReleaseStep
<1>6. ASSUME NEW e \in Entities, HandleAck(e) PROVE IInv'
  BY <1>6, HandleAckStep
<1>7. ASSUME NEW matched \in SUBSET Acks, HandlePacketAck(matched) PROVE IInv'
  BY <1>7, HandlePacketAckStep
<1>8. CASE UNCHANGED vars
  BY <1>8 DEF vars, IInv, TypeOK, LifeInv, ActiveInv, QueueInv, WaitInv, Waits, ListenersMatchTheCommand,
     AheadInv, OrderInv, Running, Ended, Awaiting, AcksReachOnlyTheAwaitingJob,
     AwaitingJobIsHeard, SamePriorityIsFifo
<1> QED
  BY <1>1, <1>2, <1>3, <1>4, <1>5, <1>6, <1>7, <1>8 DEF Next

\* The inductive invariant of the command manager.
THEOREM InductiveInvariant == Spec => []IInv
<1>1. Init => IInv
  BY InitEstablishes
<1>2. IInv /\ [Next]_vars => IInv'
  BY NextPreserves
<1> QED
  BY <1>1, <1>2, PTL DEF Spec

\* Every field of the class keeps the kind of value it was declared with.
THEOREM TypeCorrect == Spec => []TypeOK
<1>1. IInv => TypeOK
  BY DEF IInv
<1> QED
  BY <1>1, InductiveInvariant, PTL

\* An ACK settles only the command whose packet was written last, and that command is
\* always heard: registration and cleanup of the two kinds of callback agree.
THEOREM CallbacksMatchTheCommand == Spec => []ListenersMatchTheCommand
<1>1. IInv => ListenersMatchTheCommand
  BY DEF IInv
<1> QED
  BY <1>1, InductiveInvariant, PTL

\* No timer of a finished command is left to write its packet again.
THEOREM TimersAreOwned == Spec => []TimersBelongToTheActiveJob
<1>1. IInv => TimersBelongToTheActiveJob
  BY TimersOfTheInvariant
<1> QED
  BY <1>1, InductiveInvariant, PTL

\* Commands of one priority are executed one after the other, in the order sent.
THEOREM FifoPerPriority == Spec => []SamePriorityIsFifo
<1>1. IInv => SamePriorityIsFifo
  BY DEF IInv, AheadInv
<1> QED
  BY <1>1, InductiveInvariant, PTL

\* Work in a queue is always taken up: an idle manager has none, and a promise that
\* is pending belongs to a command in execution or in a queue.
THEOREM NothingForgotten == Spec => []NoCommandIsForgotten
<1>1. IInv => NoCommandIsForgotten
  <2> SUFFICES ASSUME IInv PROVE NoCommandIsForgotten
    OBVIOUS
  <2>1. ASSUME NEW j \in Jobs, job[j].promise = "pending"
        PROVE  active = j \/ Waits(j, queue) \/ Waits(j, lowPriorityQueue)
    BY <2>1 DEF IInv, LifeInv, WaitInv, Unsent
  <2>2. /\ DOMAIN queue = 1..Len(queue)
        /\ DOMAIN lowPriorityQueue = 1..Len(lowPriorityQueue)
    BY DEF IInv, TypeOK
  <2> QED
    BY <2>1, <2>2 DEF NoCommandIsForgotten, Waits, IInv, ActiveInv
<1> QED
  BY <1>1, InductiveInvariant, PTL

\* A command is written at most once more than tx_retry_cnt, and fails only then.
THEOREM AttemptsBounded == Spec => []AttemptsAreAccounted
<1>1. IInv => AttemptsAreAccounted
  <2> SUFFICES ASSUME IInv, NEW j \in Jobs
               PROVE  /\ job[j].writes <= Attempts(j)
                      /\ job[j].outcome = "failed" => job[j].writes = Attempts(j)
                      /\ job[j].outcome = "acked"  => job[j].writes >= 1
                      /\ job[j].outcome = "sent"   => job[j].writes = 1 /\ ~Expects(j)
    BY DEF AttemptsAreAccounted
  <2>1. Attempts(j) \in Nat \ {0}
    BY AttemptsType
  <2>2. CASE job[j] = Unsent \/ job[j] = NewJob(j)
    BY <2>1, <2>2 DEF Unsent, NewJob
  <2>3. CASE Running(j)
    BY <2>1, <2>3 DEF Running
  <2>4. CASE Ended(j)
    BY <2>1, <2>4 DEF Ended
  <2> QED
    BY <2>2, <2>3, <2>4 DEF IInv, LifeInv
<1> QED
  BY <1>1, InductiveInvariant, PTL

-----------------------------------------------------------------------------
\* The refinement of the abstract service: what it sees of a command object.
Sends == [j \in Jobs |-> job[j].writes]
ResultOf(r) == IF r.promise = "pending" /\ ~r.settled THEN "waiting" ELSE r.outcome
Results == [j \in Jobs |-> ResultOf(job[j])]
Returned == [j \in Jobs |-> job[j].promise = "resolved"]

\* A step that changes one command object changes what is seen of that one.
LEMMA SeenOfOne ==
    ASSUME job \in [Jobs -> JobRecord], NEW j \in Jobs, NEW r, job' = [job EXCEPT ![j] = r]
    PROVE  /\ Sends' = [Sends EXCEPT ![j] = r.writes]
           /\ Results' = [Results EXCEPT ![j] = ResultOf(r)]
           /\ r.promise = "resolved" => Returned' = [Returned EXCEPT ![j] = TRUE]
           /\ r.promise # "resolved" => Returned' = [Returned EXCEPT ![j] = FALSE]
           /\ r.writes = job[j].writes => Sends' = Sends
           /\ ResultOf(r) = ResultOf(job[j]) => Results' = Results
           /\ r.promise = job[j].promise => Returned' = Returned
<1>1. \A k \in Jobs : job'[k] = IF k = j THEN r ELSE job[k]
  OBVIOUS
<1>2. /\ Sends' = [Sends EXCEPT ![j] = r.writes]
      /\ r.writes = job[j].writes => Sends' = Sends
  BY <1>1 DEF Sends
<1>3. /\ Results' = [Results EXCEPT ![j] = ResultOf(r)]
      /\ ResultOf(r) = ResultOf(job[j]) => Results' = Results
  BY <1>1 DEF Results
<1>4. /\ r.promise = "resolved" => Returned' = [Returned EXCEPT ![j] = TRUE]
      /\ r.promise # "resolved" => Returned' = [Returned EXCEPT ![j] = FALSE]
  BY <1>1 DEF Returned
<1>5. r.promise = job[j].promise => Returned' = Returned
  BY <1>1 DEF Returned
<1> QED
  BY <1>2, <1>3, <1>4, <1>5

\* A step that changes nothing the abstract service sees.
LEMMA SeenAlike ==
    ASSUME UNCHANGED <<queue, lowPriorityQueue, active>>,
           \A j \in Jobs : job'[j].writes = job[j].writes /\ ResultOf(job'[j]) = ResultOf(job[j])
                           /\ job'[j].promise = job[j].promise
    PROVE  UNCHANGED Service!svars
<1>1. UNCHANGED <<Sends, Results, Returned>>
  BY DEF Sends, Results, Returned
<1> QED
  BY <1>1 DEF Service!svars, Sends, Results, Returned, ResultOf

\* A command that send may be called for was never asked for or its caller has been told.
LEMMA FreeIsUnasked ==
    ASSUME IInv, NEW j \in Jobs, job[j].promise # "pending"
    PROVE  Results[j] = "none" \/ Returned[j]
<1>1. job[j] = Unsent \/ job[j].promise = "resolved"
  <2>1. NewJob(j).promise = "pending"
    BY DEF NewJob
  <2>2. Running(j) => job[j].promise = "pending"
    BY DEF Running
  <2>3. Ended(j) => job[j].promise \in {"pending", "resolved"}
    BY DEF Ended
  <2> QED
    BY <2>1, <2>2, <2>3 DEF IInv, LifeInv
<1>2. CASE job[j] = Unsent
  BY <1>2 DEF Unsent, Results, ResultOf
<1>3. CASE job[j].promise = "resolved"
  BY <1>3 DEF Returned
<1> QED
  BY <1>1, <1>2, <1>3

LEMMA SendImplements ==
    ASSUME IInv, NEW j \in Jobs, Send(j)
    PROVE  Service!AskWhileIdle(j) \/ Service!AskWhileBusy(j)
<1>1. /\ job \in [Jobs -> JobRecord] /\ active \in Jobs \cup {NoJob}
      /\ job[j].promise # "pending" /\ j # active
  BY DEF IInv, TypeOK, Send
<1>2. Results[j] = "none" \/ Returned[j]
  BY <1>1, FreeIsUnasked
<1>3. CASE active = NoJob
  <2>1. /\ queue' = <<>> /\ lowPriorityQueue' = <<>> /\ active' = j
        /\ job' = [job EXCEPT ![j] = Written(j, NewJob(j))]
        /\ queue = <<>> /\ lowPriorityQueue = <<>>
    BY <1>3, SendWhileIdle DEF IInv, ActiveInv
  <2> DEFINE r == Written(j, NewJob(j))
  <2>2. /\ r.writes = 1 /\ r.promise = "pending"
        /\ ResultOf(r) = IF Expects(j) THEN "waiting" ELSE "sent"
    BY FirstWrite DEF ResultOf
  <2> HIDE DEF r
  <2>3. /\ Sends' = [Sends EXCEPT ![j] = 1]
        /\ Results' = [Results EXCEPT ![j] = IF Expects(j) THEN "waiting" ELSE "sent"]
        /\ Returned' = [Returned EXCEPT ![j] = FALSE]
    <3>1. /\ Sends' = [Sends EXCEPT ![j] = r.writes]
          /\ Results' = [Results EXCEPT ![j] = ResultOf(r)]
          /\ r.promise # "resolved" => Returned' = [Returned EXCEPT ![j] = FALSE]
      BY <1>1, <2>1, SeenOfOne DEF r
    <3> QED
      BY <2>2, <3>1
  <2>4. Service!Start(j) = IF Expects(j) THEN "waiting" ELSE "sent"
    BY DEF Service!Start
  <2> QED
    BY <1>2, <1>3, <2>1, <2>3, <2>4
    DEF Service!AskWhileIdle, Sends, Results, Returned, ResultOf
<1>4. CASE active # NoJob
  <2>1. /\ job' = [job EXCEPT ![j] = NewJob(j)] /\ active' = active
        /\ IF Priority[j] = "normal"
           THEN queue' = Append(queue, j) /\ lowPriorityQueue' = lowPriorityQueue
           ELSE lowPriorityQueue' = Append(lowPriorityQueue, j) /\ queue' = queue
    BY <1>4, ParametersAssumption DEF Send
  <2>2. Results' = [Results EXCEPT ![j] = "waiting"] /\ Sends' = [Sends EXCEPT ![j] = 0]
        /\ Returned' = [Returned EXCEPT ![j] = FALSE]
    <3>1. /\ NewJob(j).writes = 0 /\ ResultOf(NewJob(j)) = "waiting"
          /\ NewJob(j).promise # "resolved"
      BY DEF NewJob, ResultOf
    <3>2. /\ Sends' = [Sends EXCEPT ![j] = NewJob(j).writes]
          /\ Results' = [Results EXCEPT ![j] = ResultOf(NewJob(j))]
          /\ NewJob(j).promise # "resolved" => Returned' = [Returned EXCEPT ![j] = FALSE]
      BY <1>1, <2>1, SeenOfOne
    <3> QED
      BY <3>1, <3>2
  <2> QED
    BY <1>1, <1>2, <1>4, <2>1, <2>2
    DEF Service!AskWhileBusy, Sends, Results, Returned, ResultOf
<1> QED
  BY <1>3, <1>4

LEMMA AckImplements ==
    ASSUME IInv, NEW S \in SUBSET Jobs, S # {}, \A k \in S : Awaiting(k), OnAck(S)
    PROVE  active \in Jobs /\ Service!End(active, "acked")
<1> DEFINE j == active
           r == [job[j] EXCEPT !.settled = TRUE, !.outcome = "acked", !.timer = "off"]
<1>1. /\ j \in Jobs /\ S = {j} /\ Awaiting(j) /\ job \in [Jobs -> JobRecord]
      /\ job[j] \in JobRecord
  BY DEF Awaiting, IInv, TypeOK
<1>2. {k \in S : ~job[k].settled} = {j}
  BY <1>1 DEF Awaiting
<1>3. job' = [job EXCEPT ![j] = r] /\ UNCHANGED <<queue, lowPriorityQueue, active>>
  BY <1>1, <1>2 DEF OnAck
<1>4. job[j].promise = "pending" /\ ~job[j].settled
  BY <1>1, JobsAssumption DEF IInv, ActiveInv, Awaiting, Ended, Running
<1>5. r.writes = job[j].writes /\ ResultOf(r) = "acked" /\ r.promise = "pending"
  BY <1>1, <1>4 DEF JobRecord, ResultOf
<1> HIDE DEF r, j
<1>6. /\ Sends' = Sends /\ Results' = [Results EXCEPT ![j] = "acked"] /\ Returned' = Returned
  <2>1. /\ Results' = [Results EXCEPT ![j] = ResultOf(r)]
        /\ r.writes = job[j].writes => Sends' = Sends
        /\ r.promise = job[j].promise => Returned' = Returned
    BY <1>1, <1>3, SeenOfOne
  <2> QED
    BY <1>4, <1>5, <2>1
<1>7. Results[j] = "waiting"
  BY <1>1, <1>4 DEF Results, ResultOf
<1> QED
  BY <1>1, <1>3, <1>6, <1>7 DEF Service!End, Sends, Results, Returned, ResultOf, j

LEMMA HandleAckImplements ==
    ASSUME IInv, NEW e \in Entities, HandleAck(e)
    PROVE  active \in Jobs /\ Service!End(active, "acked")
<1>1. ackListeners[e] \in Jobs /\ Awaiting(ackListeners[e])
  BY DEF HandleAck, IInv, TypeOK, ListenersMatchTheCommand, AcksReachOnlyTheAwaitingJob
<1> QED
  BY <1>1, AckImplements DEF HandleAck

LEMMA HandlePacketAckImplements ==
    ASSUME IInv, NEW matched \in SUBSET Acks, HandlePacketAck(matched)
    PROVE  active \in Jobs /\ Service!End(active, "acked")
<1> DEFINE hit == {j \in packetAckListeners : AckOf[j] \in matched}
<1>1. hit \in SUBSET Jobs /\ hit # {} /\ \A k \in hit : Awaiting(k)
  BY DEF HandlePacketAck, IInv, TypeOK, ListenersMatchTheCommand, AcksReachOnlyTheAwaitingJob
<1>2. OnAck(hit)
  BY DEF HandlePacketAck
<1> QED
  BY <1>1, <1>2, AckImplements

\* The silence after a transmission is not seen.
LEMMA TxTimeoutImplements ==
    ASSUME IInv, NEW j \in Jobs, TxTimeout(j)
    PROVE  UNCHANGED Service!svars
<1>1. job \in [Jobs -> JobRecord] /\ UNCHANGED <<queue, lowPriorityQueue, active>>
      /\ job' = [job EXCEPT ![j].timer = IF job[j].settled THEN "off" ELSE "interval"]
  BY DEF TxTimeout, IInv, TypeOK
<1>2. ASSUME NEW k \in Jobs
      PROVE  /\ job'[k].writes = job[k].writes /\ job'[k].promise = job[k].promise
             /\ job'[k].settled = job[k].settled /\ job'[k].outcome = job[k].outcome
  BY <1>1 DEF JobRecord
<1> QED
  BY <1>1, <1>2, SeenAlike DEF ResultOf

\* The next transmission, or the end of a command whose attempts are used up.
LEMMA TxDelayElapsedImplements ==
    ASSUME IInv, NEW j \in Jobs, TxDelayElapsed(j)
    PROVE  Service!Repeat(j) \/ Service!End(j, "failed")
<1> DEFINE s == [job[j] EXCEPT !.timer = "off"]
           r == IF s.left - 1 < 0 THEN GivenUp(s) ELSE Written(j, s)
<1>1. /\ active = j /\ Running(j) /\ job \in [Jobs -> JobRecord]
  BY TimersOfTheInvariant DEF TxDelayElapsed, TimersBelongToTheActiveJob, IInv, TypeOK
<1>2. job' = [job EXCEPT ![j] = r] /\ UNCHANGED <<queue, lowPriorityQueue, active>>
  BY <1>1 DEF TxDelayElapsed, Attempt, Running
<1>3. /\ s \in JobRecord /\ s.left = job[j].left /\ s.writes = job[j].writes
      /\ s.promise = "pending" /\ job[j].promise = "pending" /\ ~job[j].settled
  BY <1>1 DEF JobRecord, Timers, Running
<1>4. /\ Attempts(j) \in Nat \ {0} /\ s.writes \in 1..Attempts(j)
      /\ s.left = Attempts(j) - s.writes /\ Expects(j)
  BY <1>1, <1>3, AttemptsType DEF Running
<1>5. /\ Sends[j] = s.writes /\ Results[j] = "waiting" /\ Returned[j] = FALSE
      /\ [k \in Jobs |-> Attempts(k)][j] = Attempts(j)
  BY <1>3 DEF Sends, Results, ResultOf, Returned
<1>6. CASE s.left - 1 < 0
  <2>1. r.promise = "pending" /\ r.writes = s.writes /\ ResultOf(r) = "failed"
    BY <1>3, <1>6 DEF GivenUp, JobRecord, ResultOf
  <2>2. s.writes = Attempts(j)
    BY <1>4, <1>6
  <2> HIDE DEF r, s
  <2>3. Sends' = Sends /\ Results' = [Results EXCEPT ![j] = "failed"] /\ Returned' = Returned
    <3>1. /\ Results' = [Results EXCEPT ![j] = ResultOf(r)]
          /\ r.writes = job[j].writes => Sends' = Sends
          /\ r.promise = job[j].promise => Returned' = Returned
      BY <1>1, <1>2, SeenOfOne
    <3> QED
      BY <1>3, <2>1, <3>1
  <2> QED
    BY <1>1, <1>2, <1>5, <2>2, <2>3
    DEF Service!End, Sends, Results, Returned, ResultOf
<1>7. CASE ~(s.left - 1 < 0)
  <2>1. r.promise = "pending" /\ r.writes = s.writes + 1 /\ ResultOf(r) = "waiting"
    BY <1>3, <1>4, <1>7 DEF Written, JobRecord, ResultOf
  <2>2. s.writes < Attempts(j)
    BY <1>4, <1>7
  <2> HIDE DEF r, s
  <2>3. /\ Sends' = [Sends EXCEPT ![j] = Sends[j] + 1]
        /\ Results' = Results /\ Returned' = Returned
    <3>1. /\ Sends' = [Sends EXCEPT ![j] = r.writes]
          /\ ResultOf(r) = ResultOf(job[j]) => Results' = Results
          /\ r.promise = job[j].promise => Returned' = Returned
      BY <1>1, <1>2, SeenOfOne
    <3>2. ResultOf(job[j]) = "waiting"
      BY <1>3 DEF ResultOf
    <3> QED
      BY <1>3, <1>5, <2>1, <3>1, <3>2
  <2> QED
    BY <1>1, <1>2, <1>5, <2>2, <2>3
    DEF Service!Repeat, Sends, Results, Returned, ResultOf
<1> QED
  BY <1>6, <1>7

LEMMA ResolveImplements ==
    ASSUME IInv, NEW j \in Jobs, Resolve(j)
    PROVE  Service!Return(j)
<1> DEFINE r == [job[j] EXCEPT !.promise = "resolved"]
<1>1. /\ active = j /\ Ended(j) /\ job \in [Jobs -> JobRecord] /\ job[j].settled
      /\ job[j].promise = "pending" /\ job' = [job EXCEPT ![j] = r]
      /\ UNCHANGED <<queue, lowPriorityQueue, active>>
  BY JobsAssumption DEF Resolve, IInv, TypeOK, ActiveInv, Running
<1>2. /\ r.promise = "resolved" /\ r.writes = job[j].writes /\ ResultOf(r) = job[j].outcome
  BY <1>1 DEF JobRecord, ResultOf
<1>3. Results[j] = job[j].outcome /\ Results[j] # "waiting" /\ Returned[j] = FALSE
  BY <1>1 DEF Results, ResultOf, Returned, Ended
<1> HIDE DEF r
<1>4. Sends' = Sends /\ Results' = Results /\ Returned' = [Returned EXCEPT ![j] = TRUE]
  <2>1. /\ r.writes = job[j].writes => Sends' = Sends
        /\ ResultOf(r) = ResultOf(job[j]) => Results' = Results
        /\ r.promise = "resolved" => Returned' = [Returned EXCEPT ![j] = TRUE]
    BY <1>1, SeenOfOne
  <2>2. ResultOf(job[j]) = job[j].outcome
    BY <1>1 DEF ResultOf
  <2> QED
    BY <1>2, <2>1, <2>2
<1> QED
  BY <1>1, <1>3, <1>4 DEF Service!Return, Sends, Results, Returned, ResultOf

\* The next command is transmitted: what is seen of it, which its caller still waits for.
LEMMA ServeImplements ==
    ASSUME IInv, NEW n \in Jobs, job[n] = NewJob(n), active' = n,
           job' = [job EXCEPT ![n] = Written(n, NewJob(n))]
    PROVE  Service!Serve(n)
<1> DEFINE r == Written(n, NewJob(n))
<1>1. job \in [Jobs -> JobRecord]
  BY DEF IInv, TypeOK
<1>2. /\ r.writes = 1 /\ r.promise = "pending" /\ ResultOf(r) = Service!Start(n)
  <2>1. /\ r.writes = 1 /\ r.promise = "pending"
        /\ ResultOf(r) = IF Expects(n) THEN "waiting" ELSE "sent"
    BY FirstWrite DEF ResultOf
  <2>2. Service!Start(n) = IF Expects(n) THEN "waiting" ELSE "sent"
    BY DEF Service!Start
  <2> QED
    BY <2>1, <2>2
<1>3. job[n].promise = "pending"
  BY DEF NewJob
<1> HIDE DEF r
<1>4. /\ Sends' = [Sends EXCEPT ![n] = 1]
      /\ Results' = [Results EXCEPT ![n] = Service!Start(n)] /\ Returned' = Returned
  <2>1. /\ Sends' = [Sends EXCEPT ![n] = r.writes]
        /\ Results' = [Results EXCEPT ![n] = ResultOf(r)]
        /\ r.promise = job[n].promise => Returned' = Returned
    BY <1>1, SeenOfOne DEF r
  <2> QED
    BY <1>2, <1>3, <2>1
<1> QED
  BY <1>4 DEF Service!Serve, Sends, Results, Returned, ResultOf

LEMMA ReleaseImplements ==
    ASSUME IInv, NEW j \in Jobs, Release(j)
    PROVE  Service!NextTurn
<1>1. /\ queue \in Seq(Jobs) /\ lowPriorityQueue \in Seq(Jobs)
      /\ active # NoJob /\ active \in Jobs /\ Returned[active]
  BY JobsAssumption DEF IInv, TypeOK, Release, Returned
<1>2. ProcessQueue(queue, lowPriorityQueue, job)
  BY DEF Release
<1>3. CASE queue # <<>>
  <2>1. Head(queue) \in Jobs /\ job[Head(queue)] = NewJob(Head(queue))
    BY <1>1, <1>3, TailFacts DEF IInv, QueueInv
  <2>2. /\ queue' = Tail(queue) /\ lowPriorityQueue' = lowPriorityQueue
        /\ active' = Head(queue)
        /\ job' = [job EXCEPT ![Head(queue)] = Written(Head(queue), NewJob(Head(queue)))]
    BY <1>2, <1>3, ProcessQueueFacts
  <2>3. Service!Serve(Head(queue))
    <3>1. PICK n \in Jobs : n = Head(queue)
      BY <2>1
    <3>2. job[n] = NewJob(n) /\ active' = n /\ job' = [job EXCEPT ![n] = Written(n, NewJob(n))]
      BY <2>1, <2>2, <3>1
    <3>3. Service!Serve(n)
      BY <3>2, ServeImplements
    <3> QED
      BY <3>1, <3>3 DEF Service!Serve, Service!Start
  <2> QED
    BY <1>1, <1>3, <2>2, <2>3 DEF Service!NextTurn, Returned
<1>4. CASE queue = <<>> /\ lowPriorityQueue # <<>>
  <2>1. /\ Head(lowPriorityQueue) \in Jobs
        /\ job[Head(lowPriorityQueue)] = NewJob(Head(lowPriorityQueue))
    BY <1>1, <1>4, TailFacts DEF IInv, QueueInv
  <2>2. /\ queue' = queue /\ lowPriorityQueue' = Tail(lowPriorityQueue)
        /\ active' = Head(lowPriorityQueue)
        /\ job' = [job EXCEPT ![Head(lowPriorityQueue)] =
                        Written(Head(lowPriorityQueue), NewJob(Head(lowPriorityQueue)))]
    BY <1>2, <1>4, ProcessQueueFacts
  <2>3. Service!Serve(Head(lowPriorityQueue))
    <3>1. PICK n \in Jobs : n = Head(lowPriorityQueue)
      BY <2>1
    <3>2. job[n] = NewJob(n) /\ active' = n /\ job' = [job EXCEPT ![n] = Written(n, NewJob(n))]
      BY <2>1, <2>2, <3>1
    <3>3. Service!Serve(n)
      BY <3>2, ServeImplements
    <3> QED
      BY <3>1, <3>3 DEF Service!Serve, Service!Start
  <2> QED
    BY <1>1, <1>4, <2>2, <2>3 DEF Service!NextTurn, Returned
<1>5. CASE queue = <<>> /\ lowPriorityQueue = <<>>
  <2>1. active' = NoJob /\ UNCHANGED <<queue, lowPriorityQueue, job>>
    BY <1>2, <1>5, ProcessQueueFacts
  <2> QED
    BY <1>1, <1>5, <2>1 DEF Service!NextTurn, Returned
<1> QED
  BY <1>3, <1>4, <1>5

LEMMA InitImplements == Init => Service!Init
<1> SUFFICES ASSUME Init PROVE Service!Init
  OBVIOUS
<1>1. \A j \in Jobs : job[j].writes = 0 /\ job[j].promise = "none" /\ job[j].outcome = "none"
  BY DEF Init, Unsent
<1>2. \A j \in Jobs : (job[j].promise = "resolved") = FALSE
  BY <1>1
<1>3. [j \in Jobs |-> job[j].promise = "resolved"] = [c \in Jobs |-> FALSE]
  BY <1>2, Zenon
<1> QED
  BY <1>1, <1>3 DEF Init, Service!Init

LEMMA NextImplements == IInv /\ [Next]_vars => [Service!Next]_(Service!svars)
<1> SUFFICES ASSUME IInv, [Next]_vars PROVE [Service!Next]_(Service!svars)
  OBVIOUS
<1>1. ASSUME NEW j \in Jobs, Send(j) PROVE Service!Next
  BY <1>1, SendImplements DEF Service!Next
<1>2. ASSUME NEW j \in Jobs, TxTimeout(j) PROVE UNCHANGED Service!svars
  BY <1>2, TxTimeoutImplements
<1>3. ASSUME NEW j \in Jobs, TxDelayElapsed(j) PROVE Service!Next
  BY <1>3, TxDelayElapsedImplements DEF Service!Next
<1>4. ASSUME NEW j \in Jobs, Resolve(j) PROVE Service!Next
  BY <1>4, ResolveImplements DEF Service!Next
<1>5. ASSUME NEW j \in Jobs, Release(j) PROVE Service!Next
  BY <1>5, ReleaseImplements DEF Service!Next
<1>6. ASSUME NEW e \in Entities, HandleAck(e) PROVE Service!Next
  BY <1>6, HandleAckImplements DEF Service!Next
<1>7. ASSUME NEW matched \in SUBSET Acks, HandlePacketAck(matched) PROVE Service!Next
  BY <1>7, HandlePacketAckImplements DEF Service!Next
<1>8. CASE UNCHANGED vars
  BY <1>8, SeenAlike DEF vars, ResultOf
<1> QED
  BY <1>1, <1>2, <1>3, <1>4, <1>5, <1>6, <1>7, <1>8 DEF Next

\* Listeners, timers and promise reactions implement the abstract service: whoever calls
\* send sees two lines served one command at a time, the normal one first, each command
\* transmitted at least once and at most Tries times, and one result.
THEOREM ManagerImplementsService == Spec => ImplementsService
<1>1. Spec => Service!Spec
  BY InitImplements, NextImplements, InductiveInvariant, PTL DEF Spec, Service!Spec
<1> QED
  BY <1>1 DEF ImplementsService
=============================================================================
