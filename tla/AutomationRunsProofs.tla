------------------------ MODULE AutomationRunsProofs ------------------------
(***************************************************************************)
(* The safety of AutomationRuns for every number of automations and runs,  *)
(* and for bodies of any length.                                           *)
(*                                                                         *)
(* Base holds whatever the modes are edited to: the queue of an automation *)
(* holds its queued runs and only these, each one once.  So does Moves, of *)
(* every step: a run stays where it is, begins or goes one step on, which  *)
(* keeps it within the actions and a cancelled one where it is; and so     *)
(* does MapNamesRuns, for which Base is enough: a closure that is called   *)
(* was waiting, so it is not a run the map names.  That runs do not        *)
(* overlap and that a queue is served does not: the finally block acts on  *)
(* the mode its run was triggered in, so the runs of one automation must   *)
(* not be of modes that treat the map differently.  Apart says this of the *)
(* constants, KeptApart of the runs.                                       *)
(***************************************************************************)
EXTENDS AutomationRuns, SequenceTheorems, TLAPS

Places(a) == 1..Len(waiting[a])

QueueHolds ==
    /\ \A a \in Automations : \A i \in Places(a) :
          InQueuedMode(waiting[a][i], a) /\ run[waiting[a][i]].phase = "queued"
    /\ \A a \in Automations : \A i, j \in Places(a) :
          waiting[a][i] = waiting[a][j] => i = j
    /\ \A r \in Runs : run[r].phase = "queued" =>
          \E i \in Places(run[r].of) : waiting[run[r].of][i] = r

Base == Typed /\ QueueHolds

\* No automation is ever configured with a mode of S and with one of T.
Apart(S, T) ==
    \A m \in Mode0, a \in Automations :
        ({m[a]} \cup Edits) \cap S = {} \/ ({m[a]} \cup Edits) \cap T = {}

\* Automation a is not, will not be and has no run in a mode of S.
Avoids(a, S) ==
    /\ ({mode[a]} \cup Edits) \cap S = {}
    /\ \A r \in Runs : run[r].phase # "free" /\ run[r].of = a => run[r].mode \notin S

KeptApart(S, T) == \A a \in Automations : Avoids(a, S) \/ Avoids(a, T)

\* The map holds every run in progress of these modes.
Holds(M) ==
    \A r \in Runs : Live(r) /\ run[r].mode \in M => running[run[r].of] = r

\* What a closure waits behind is in progress or before it in the queue.
QueueInOrder ==
    \A a \in Automations : \A i \in Places(a) : \A p \in ahead[waiting[a][i]] :
        InQueuedMode(p, a) => Live(p) \/ \E j \in 1..(i - 1) : waiting[a][j] = p

OverlapInv ==
    Base /\ KeptApart({"single", "queued"}, {"restart"}) /\ Holds({"single", "queued"})

Ordered == QueuesAreServed /\ QueueInOrder /\ QueuedInOrder

QueueInv ==
    Base /\ KeptApart({"queued"}, {"single", "restart"}) /\ Holds({"queued"}) /\ Ordered

-----------------------------------------------------------------------------
(* The operators.                                                          *)

LEMMA IdleType ==
    /\ Idle \in RunRecord /\ Idle.phase = "free" /\ ~Idle.aborted
    /\ Idle.at = 1 /\ Idle.step = 1
  <1>1. (CHOOSE a \in Automations : TRUE) \in Automations
    BY RunsAssumption
  <1> QED BY <1>1 DEF Idle, NewRun, RunRecord, Modes

LEMMA NewRunType ==
  ASSUME NEW a \in Automations, NEW m \in Modes \cup {"manual"},
         NEW p \in {"free", "queued", "acting"}
  PROVE  /\ NewRun(a, m, p) \in RunRecord
         /\ NewRun(a, m, p).phase = p /\ NewRun(a, m, p).of = a /\ NewRun(a, m, p).mode = m
         /\ NewRun(a, m, p).at = 1 /\ NewRun(a, m, p).step = 1
  BY DEF NewRun, RunRecord

LEMMA PhaseChange ==
  ASSUME NEW x \in RunRecord, NEW p \in {"free", "queued", "acting"}
  PROVE  LET y == [x EXCEPT !.phase = p]
         IN  /\ y \in RunRecord
             /\ y.phase = p /\ y.of = x.of /\ y.mode = x.mode
             /\ y.at = x.at /\ y.step = x.step /\ y.aborted = x.aborted
  BY DEF RunRecord

LEMMA AbortedRun ==
  ASSUME NEW x \in RunRecord
  PROVE  LET y == [x EXCEPT !.aborted = TRUE]
         IN  /\ y \in RunRecord /\ y.aborted
             /\ y.phase = x.phase /\ y.of = x.of /\ y.mode = x.mode
             /\ y.at = x.at /\ y.step = x.step
  BY DEF RunRecord

LEMMA ActionChange ==
  ASSUME NEW x \in RunRecord
  PROVE  LET y == [x EXCEPT !.at = @ + 1, !.step = 1]
         IN  /\ y \in RunRecord /\ y.phase = x.phase /\ y.of = x.of /\ y.mode = x.mode
             /\ y.at = x.at + 1 /\ y.step = 1
  <1> DEFINE n == x.at + 1
             y == [[x EXCEPT !.at = n] EXCEPT !.step = 1]
  <1>1. n \in Nat
    BY DEF RunRecord
  <1> HIDE DEF n
  <1>2. /\ y \in RunRecord /\ y.phase = x.phase /\ y.of = x.of /\ y.mode = x.mode
        /\ y.at = n /\ y.step = 1
    BY <1>1 DEF RunRecord
  <1> QED BY <1>2 DEF n

LEMMA StepChange ==
  ASSUME NEW x \in RunRecord
  PROVE  LET y == [x EXCEPT !.step = @ + 1]
         IN  /\ y \in RunRecord /\ y.phase = x.phase /\ y.of = x.of /\ y.mode = x.mode
             /\ y.at = x.at /\ y.step = x.step + 1 /\ y.aborted = x.aborted
  <1> DEFINE n == x.step + 1
             y == [x EXCEPT !.step = n]
  <1>1. n \in Nat
    BY DEF RunRecord
  <1> HIDE DEF n
  <1>2. /\ y \in RunRecord /\ y.phase = x.phase /\ y.of = x.of /\ y.mode = x.mode
        /\ y.at = x.at /\ y.step = n /\ y.aborted = x.aborted
    BY <1>1 DEF RunRecord
  <1> QED BY <1>2 DEF n

LEMMA WaitingTypes ==
  ASSUME Typed, NEW a \in Automations
  PROVE  /\ Len(waiting[a]) \in Nat
         /\ \A i \in Places(a) : waiting[a][i] \in Runs
         /\ waiting[a] # <<>> <=> Len(waiting[a]) # 0
         /\ waiting[a] \in Seq(Runs)
  <1>1. waiting[a] \in Seq(Runs)
    BY DEF Typed
  <1> QED BY <1>1, LenProperties, ElementOfSeq, EmptySeq DEF Places

\* RunNextQueued as a relation of values, with which the lemmas can be instantiated.
Called(a, runs, skipped, run2, running2, waiting2) ==
    LET q == waiting[a]
        done == {q[i] : i \in 1..skipped}
        idle == [p \in Runs |-> IF p \in done THEN Idle ELSE runs[p]]
    IN  /\ waiting2 = [waiting EXCEPT ![a] = SubSeq(q, skipped + 2, Len(q))]
        /\ IF skipped = Len(q)
           THEN run2 = idle /\ running2 = [running EXCEPT ![a] = NoRun]
           ELSE /\ run2 = [idle EXCEPT ![q[skipped + 1]].phase = "acting"]
                /\ running2 = [running EXCEPT ![a] = q[skipped + 1]]

LEMMA NextIsCalled ==
  ASSUME NEW a, NEW runs, NEW skipped, RunNextQueued(a, runs, skipped)
  PROVE  skipped \in 0..Len(waiting[a]) /\ Called(a, runs, skipped, run', running', waiting')
  BY Zenon DEF RunNextQueued, Called

\* What the finally block leaves: the closures up to the skipped one are out of the queue,
\* those before it are free again, and it is the run that the map holds.
Settled(a, runs, skipped, run2, running2, waiting2) ==
    LET q == waiting[a]
    IN  /\ run2 \in [Runs -> RunRecord]
        /\ running2 \in [Automations -> Runs \cup {NoRun}]
        /\ waiting2 \in [Automations -> Seq(Runs)]
        /\ \A b \in Automations \ {a} : running2[b] = running[b] /\ waiting2[b] = waiting[b]
        /\ \A p \in Runs : (\A i \in Places(a) : p = q[i] => i > skipped + 1) => run2[p] = runs[p]
        /\ \A i \in 1..skipped : run2[q[i]] = Idle
        /\ skipped # Len(q) =>
              /\ running2[a] = q[skipped + 1]
              /\ run2[q[skipped + 1]] = [runs[q[skipped + 1]] EXCEPT !.phase = "acting"]
        /\ skipped = Len(q) => running2[a] = NoRun /\ Len(waiting2[a]) = 0
        /\ skipped # Len(q) => Len(waiting2[a]) = Len(q) - (skipped + 1)
        /\ \A i \in 1..Len(waiting2[a]) :
              i + (skipped + 1) \in Places(a) /\ waiting2[a][i] = q[i + (skipped + 1)]

LEMMA NextQueued ==
  ASSUME Typed, QueueHolds, NEW a \in Automations, NEW runs \in [Runs -> RunRecord],
         NEW skipped \in 0..Len(waiting[a]), NEW run2, NEW running2, NEW waiting2,
         Called(a, runs, skipped, run2, running2, waiting2)
  PROVE  Settled(a, runs, skipped, run2, running2, waiting2)
  <1> DEFINE q == waiting[a]
             done == {q[i] : i \in 1..skipped}
             idle == [p \in Runs |-> IF p \in done THEN Idle ELSE runs[p]]
             rest == SubSeq(q, skipped + 2, Len(q))
  <1>1. /\ Len(q) \in Nat /\ skipped \in Nat /\ skipped <= Len(q)
        /\ \A i \in 1..Len(q) : q[i] \in Runs
        /\ \A i, j \in 1..Len(q) : q[i] = q[j] => i = j
    BY WaitingTypes DEF QueueHolds, Places
  <1>2. /\ waiting2 = [waiting EXCEPT ![a] = rest]
        /\ IF skipped = Len(q)
           THEN run2 = idle /\ running2 = [running EXCEPT ![a] = NoRun]
           ELSE /\ run2 = [idle EXCEPT ![q[skipped + 1]].phase = "acting"]
                /\ running2 = [running EXCEPT ![a] = q[skipped + 1]]
    BY Zenon DEF Called
  <1> HIDE DEF idle
  <1>3. /\ idle \in [Runs -> RunRecord]
        /\ \A p \in Runs : (p \in done => idle[p] = Idle) /\ (p \notin done => idle[p] = runs[p])
    BY IdleType DEF idle
  <1>4. /\ rest \in Seq(Runs)
        /\ Len(rest) = IF skipped + 2 <= Len(q) THEN Len(q) - (skipped + 2) + 1 ELSE 0
        /\ \A i \in 1..(Len(q) - (skipped + 2) + 1) : rest[i] = q[skipped + 2 + i - 1]
    <2>1. \A i \in (skipped + 2)..Len(q) : q[i] \in Runs
      BY <1>1
    <2> QED BY <1>1, <2>1, SubSeqProperties
  <1> HIDE DEF rest
  <1>5. /\ waiting2 \in [Automations -> Seq(Runs)] /\ waiting2[a] = rest
        /\ \A b \in Automations \ {a} : waiting2[b] = waiting[b]
    BY <1>2, <1>4 DEF Typed
  <1>6. /\ running2 \in [Automations -> Runs \cup {NoRun}]
        /\ \A b \in Automations \ {a} : running2[b] = running[b]
        /\ skipped = Len(q) => running2[a] = NoRun
        /\ skipped # Len(q) => running2[a] = q[skipped + 1]
    <2>1. skipped # Len(q) => q[skipped + 1] \in Runs
      BY <1>1
    <2> QED BY <1>2, <2>1 DEF Typed
  <1>7. /\ Len(rest) \in Nat
        /\ skipped = Len(q) => Len(rest) = 0
        /\ skipped # Len(q) => Len(rest) = Len(q) - (skipped + 1)
        /\ \A i \in 1..Len(rest) : i + (skipped + 1) \in 1..Len(q) /\ rest[i] = q[i + (skipped + 1)]
    <2>1. /\ Len(rest) \in Nat
          /\ skipped = Len(q) => Len(rest) = 0
          /\ skipped # Len(q) => Len(rest) = Len(q) - (skipped + 1)
      BY <1>1, <1>4
    <2>2. ASSUME NEW i \in 1..Len(rest)
          PROVE  i + (skipped + 1) \in 1..Len(q) /\ rest[i] = q[i + (skipped + 1)]
      <3>1. i \in 1..(Len(q) - (skipped + 2) + 1) /\ i + (skipped + 1) \in 1..Len(q)
            /\ skipped + 2 + i - 1 = i + (skipped + 1)
        BY <1>1, <2>1, <2>2
      <3> QED BY <1>4, <3>1
    <2> QED BY <2>1, <2>2
  <1>8. ASSUME skipped # Len(q)
        PROVE  /\ run2 \in [Runs -> RunRecord]
               /\ q[skipped + 1] \in Runs /\ q[skipped + 1] \notin done
               /\ run2[q[skipped + 1]] = [runs[q[skipped + 1]] EXCEPT !.phase = "acting"]
               /\ \A p \in Runs \ {q[skipped + 1]} : run2[p] = idle[p]
    <2>1. skipped + 1 \in 1..Len(q) /\ \A i \in 1..skipped : i \in 1..Len(q) /\ i # skipped + 1
      BY <1>1, <1>8
    <2>2. q[skipped + 1] \in Runs /\ q[skipped + 1] \notin done
      BY <1>1, <2>1
    <2>3. idle[q[skipped + 1]] = runs[q[skipped + 1]]
      BY <1>3, <2>2
    <2>4. run2 = [idle EXCEPT ![q[skipped + 1]] = [idle[q[skipped + 1]] EXCEPT !.phase = "acting"]]
      BY <1>2, <1>8
    <2>5. [idle[q[skipped + 1]] EXCEPT !.phase = "acting"] \in RunRecord
      BY <1>3, <2>2, PhaseChange
    <2> HIDE DEF q, done
    <2> QED BY <1>3, <2>2, <2>3, <2>4, <2>5
  <1>9. run2 \in [Runs -> RunRecord]
    BY <1>2, <1>3, <1>8
  <1>10. ASSUME NEW p \in Runs, \A i \in Places(a) : p = q[i] => i > skipped + 1
         PROVE  run2[p] = runs[p]
    <2>1. p \notin done /\ (skipped # Len(q) => p # q[skipped + 1])
      BY <1>1, <1>10 DEF Places
    <2> QED BY <1>2, <1>3, <1>8, <2>1
  <1>11. ASSUME NEW i \in 1..skipped
         PROVE  run2[q[i]] = Idle
    <2>1. q[i] \in done /\ q[i] \in Runs /\ (skipped # Len(q) => q[i] # q[skipped + 1])
      BY <1>1, <1>8
    <2> QED BY <1>2, <1>3, <1>8, <2>1
  <1> HIDE DEF q
  <1>12. Places(a) = 1..Len(q)
    BY DEF Places, q
  <1> QED BY <1>5, <1>6, <1>7, <1>8, <1>9, <1>10, <1>11, <1>12, Zenon DEF Settled, q

\* The runs after it, when no queued run was touched before.
LEMMA NextQueuedRuns ==
  ASSUME Typed, QueueHolds, NEW a \in Automations, NEW runs \in [Runs -> RunRecord],
         \A p \in Runs : runs[p] = run[p] \/ (run[p].phase # "queued" /\ runs[p].phase = "free"),
         NEW skipped \in 0..Len(waiting[a]), Called(a, runs, skipped, run', running', waiting'),
         NEW p \in Runs
  PROVE  \/ /\ \E i \in Places(a) : i <= skipped /\ p = waiting[a][i]
            /\ run[p].phase = "queued" /\ run'[p] = Idle /\ run'[p].phase = "free"
         \/ /\ skipped # Len(waiting[a]) /\ p = waiting[a][skipped + 1]
            /\ run[p].phase = "queued" /\ run[p].of = a /\ run[p].mode = "queued"
            /\ run'[p] = [run[p] EXCEPT !.phase = "acting"] /\ running'[a] = p
         \/ /\ \A i \in Places(a) : p = waiting[a][i] => i > skipped + 1
            /\ run'[p] = runs[p]
  <1>0. Settled(a, runs, skipped, run', running', waiting')
    BY NextQueued, Zenon
  <1>1. Len(waiting[a]) \in Nat /\ skipped \in Nat /\ skipped <= Len(waiting[a])
    BY WaitingTypes
  <1>2. CASE \E i \in Places(a) : p = waiting[a][i]
    <2>1. PICK i \in Places(a) : p = waiting[a][i]
      BY <1>2
    <2>2. run[p].phase = "queued" /\ run[p].of = a /\ run[p].mode = "queued" /\ runs[p] = run[p]
      BY <2>1 DEF QueueHolds, InQueuedMode
    <2>3. \A j \in Places(a) : p = waiting[a][j] => j = i
      BY <2>1 DEF QueueHolds
    <2>4. CASE i <= skipped
      <3>1. i \in 1..skipped
        BY <1>1, <2>4 DEF Places
      <3>2. run'[p] = Idle /\ run'[p].phase = "free"
        BY <2>1, <3>1, <1>0, IdleType DEF Settled
      <3> QED BY <2>1, <2>2, <2>4, <3>2
    <2>5. CASE i = skipped + 1
      <3>1. skipped # Len(waiting[a])
        BY <1>1, <2>5 DEF Places
      <3>2. run'[p] = [runs[p] EXCEPT !.phase = "acting"] /\ running'[a] = p
        BY <2>1, <2>5, <3>1, <1>0 DEF Settled
      <3> QED BY <2>1, <2>2, <2>5, <3>1, <3>2
    <2>6. CASE i > skipped + 1
      <3>1. \A j \in Places(a) : p = waiting[a][j] => j > skipped + 1
        BY <2>3, <2>6
      <3>2. run'[p] = runs[p]
        BY <3>1, <1>0 DEF Settled
      <3> QED BY <3>1, <3>2
    <2>7. i \in Nat
      BY DEF Places
    <2> QED BY <1>1, <2>4, <2>5, <2>6, <2>7
  <1>3. CASE ~\E i \in Places(a) : p = waiting[a][i]
    <2>1. \A i \in Places(a) : p = waiting[a][i] => i > skipped + 1
      BY <1>3
    <2>2. run'[p] = runs[p]
      BY <2>1, <1>0 DEF Settled
    <2> QED BY <2>1, <2>2
  <1> QED BY <1>2, <1>3

-----------------------------------------------------------------------------
(* The queue, whatever the modes.                                          *)

\* A step keeps what is queued.
LEMMA QueueUntouched ==
  ASSUME QueueHolds, waiting' = waiting,
         \A p \in Runs : run[p].phase = "queued" \/ run'[p].phase = "queued" =>
            /\ run'[p].phase = run[p].phase
            /\ run'[p].of = run[p].of /\ run'[p].mode = run[p].mode,
         Typed
  PROVE  QueueHolds'
  <1>1. ASSUME NEW a \in Automations, NEW i \in Places(a)'
        PROVE  InQueuedMode(waiting[a][i], a)' /\ run'[waiting[a][i]].phase = "queued"
    <2>1. i \in Places(a)
      BY DEF Places
    <2> DEFINE p == waiting[a][i]
    <2>2. p \in Runs
      BY <2>1, WaitingTypes
    <2>3. run[p].phase = "queued" /\ run[p].mode = "queued" /\ run[p].of = a
      BY <2>1 DEF QueueHolds, InQueuedMode
    <2>4. run'[p].phase = "queued" /\ run'[p].mode = "queued" /\ run'[p].of = a
      BY <2>2, <2>3
    <2> QED BY <2>4 DEF InQueuedMode
  <1>2. ASSUME NEW r \in Runs, run'[r].phase = "queued"
        PROVE  \E i \in Places(run[r].of)' : waiting'[run'[r].of][i] = r
    <2>1. run[r].phase = "queued" /\ run'[r].of = run[r].of
      BY <1>2
    <2>2. PICK i \in Places(run[r].of) : waiting[run[r].of][i] = r
      BY <2>1 DEF QueueHolds
    <2> QED BY <2>1, <2>2 DEF Places
  <1>3. \A a \in Automations : \A i, j \in Places(a)' : waiting'[a][i] = waiting'[a][j] => i = j
    BY DEF QueueHolds, Places
  <1> QED BY <1>1, <1>2, <1>3 DEF QueueHolds

LEMMA QueueAfterNext ==
  ASSUME Typed, QueueHolds, NEW a \in Automations, NEW runs \in [Runs -> RunRecord],
         \A p \in Runs : runs[p] = run[p] \/ (run[p].phase # "queued" /\ runs[p].phase = "free"),
         NEW skipped \in 0..Len(waiting[a]), Called(a, runs, skipped, run', running', waiting')
  PROVE  QueueHolds'
  <1> DEFINE q == waiting[a]
  <1>0. Settled(a, runs, skipped, run', running', waiting')
    BY NextQueued, Zenon
  <1>1. /\ Len(q) \in Nat /\ skipped \in Nat /\ skipped <= Len(q)
        /\ \A i \in Places(a) : q[i] \in Runs /\ i \in Nat
    BY WaitingTypes DEF Places
  <1>2. /\ \A b \in Automations \ {a} : waiting'[b] = waiting[b]
        /\ \A i \in Places(a)' : /\ i + (skipped + 1) \in Places(a)
                                 /\ waiting'[a][i] = q[i + (skipped + 1)]
                                 /\ i \in Nat /\ i > 0
        /\ skipped # Len(q) => Len(waiting'[a]) = Len(q) - (skipped + 1)
        /\ skipped = Len(q) => Len(waiting'[a]) = 0
    BY <1>0 DEF Settled, Places
  <1>3. ASSUME NEW p \in Runs, NEW b \in Automations, NEW i \in Places(b), waiting[b][i] = p,
               b = a => i > skipped + 1
        PROVE  run'[p] = run[p] /\ run[p].phase = "queued" /\ run[p].mode = "queued" /\ run[p].of = b
    <2>1. run[p].phase = "queued" /\ run[p].mode = "queued" /\ run[p].of = b
      BY <1>3 DEF QueueHolds, InQueuedMode
    <2>2. \A j \in Places(a) : p = q[j] => j > skipped + 1
      <3> SUFFICES ASSUME NEW j \in Places(a), p = q[j] PROVE j > skipped + 1
        OBVIOUS
      <3>1. run[p].of = a
        BY DEF QueueHolds, InQueuedMode
      <3>2. b = a
        BY <2>1, <3>1
      <3>3. i = j
        BY <1>3, <3>2 DEF QueueHolds
      <3> QED BY <1>3, <3>2, <3>3
    <2>3. run'[p] = runs[p]
      BY <2>2, <1>0 DEF Settled
    <2> QED BY <2>1, <2>3
  <1>4. ASSUME NEW b \in Automations, NEW i \in Places(b)'
        PROVE  InQueuedMode(waiting[b][i], b)' /\ run'[waiting'[b][i]].phase = "queued"
    <2> DEFINE p == waiting'[b][i]
    <2>1. CASE b = a
      <3>1. i + (skipped + 1) \in Places(a) /\ p = q[i + (skipped + 1)] /\ i + (skipped + 1) > skipped + 1
        BY <1>1, <1>2, <2>1
      <3>2. p \in Runs
        BY <1>1, <3>1
      <3>3. run'[p] = run[p] /\ run[p].phase = "queued" /\ run[p].mode = "queued" /\ run[p].of = b
        BY <1>3, <2>1, <3>1, <3>2
      <3> QED BY <3>3 DEF InQueuedMode
    <2>2. CASE b # a
      <3>1. i \in Places(b) /\ p = waiting[b][i]
        BY <1>2, <2>2 DEF Places
      <3>2. p \in Runs
        BY <3>1, WaitingTypes
      <3>3. run'[p] = run[p] /\ run[p].phase = "queued" /\ run[p].mode = "queued" /\ run[p].of = b
        BY <1>3, <2>2, <3>1, <3>2
      <3> QED BY <3>3 DEF InQueuedMode
    <2> QED BY <2>1, <2>2
  <1>5. ASSUME NEW b \in Automations, NEW i \in Places(b)', NEW j \in Places(b)',
               waiting'[b][i] = waiting'[b][j]
        PROVE  i = j
    <2>1. CASE b = a
      <3>1. i + (skipped + 1) = j + (skipped + 1) /\ i \in Nat /\ j \in Nat
        BY <1>2, <1>5, <2>1 DEF QueueHolds
      <3> QED BY <1>1, <3>1
    <2>2. CASE b # a
      BY <1>2, <1>5, <2>2 DEF QueueHolds, Places
    <2> QED BY <2>1, <2>2
  <1>6. ASSUME NEW r \in Runs, run'[r].phase = "queued"
        PROVE  \E i \in Places(run[r].of)' : waiting'[run'[r].of][i] = r
    <2>1. /\ \A i \in Places(a) : r = q[i] => i > skipped + 1
          /\ run'[r] = runs[r]
      <3>1. run'[r] = [run[r] EXCEPT !.phase = "acting"] => run'[r].phase = "acting"
        BY PhaseChange DEF Typed
      <3> QED BY <1>6, <3>1, NextQueuedRuns
    <2>2. run'[r] = run[r] /\ run[r].phase = "queued"
      BY <1>6, <2>1
    <2>3. PICK i \in Places(run[r].of) : waiting[run[r].of][i] = r
      BY <2>2 DEF QueueHolds
    <2>4. CASE run[r].of = a
      <3>1. i > skipped + 1 /\ i \in 1..Len(q)
        BY <2>1, <2>3, <2>4 DEF Places
      <3> DEFINE j == i - (skipped + 1)
      <3>2. j \in 1..Len(waiting'[a]) /\ j + (skipped + 1) = i
        BY <1>1, <1>2, <3>1
      <3> HIDE DEF j
      <3>3. waiting'[a][j] = r /\ j \in Places(a)'
        BY <1>2, <2>3, <2>4, <3>2 DEF Places
      <3> QED BY <2>2, <2>4, <3>3
    <2>5. CASE run[r].of # a
      <3>1. run[r].of \in Automations
        BY DEF Typed, RunRecord
      <3>2. waiting'[run[r].of] = waiting[run[r].of]
        BY <1>2, <2>5, <3>1
      <3> QED BY <2>2, <2>3, <3>2 DEF Places
    <2> QED BY <2>4, <2>5
  <1> QED BY <1>4, <1>5, <1>6 DEF QueueHolds

-----------------------------------------------------------------------------
(* What every step does to the runs.                                       *)

\* A run keeps its automation and its mode until it is free, and begins with the mode its
\* automation has.
RunsKeepTheirMode ==
    \A r \in Runs : run'[r].phase # "free" =>
        \/ run[r].phase # "free" /\ run'[r].of = run[r].of /\ run'[r].mode = run[r].mode
        \/ run[r].phase = "free" /\ run'[r].mode \in {mode[run'[r].of], "manual"}

Lawful == Base' /\ RunsKeepTheirMode

\* The runs and the queue when a free run begins and the others are as in runs, which may be
\* cancelled.
LEMMA RunBegins ==
  ASSUME Base, NEW a \in Automations, NEW r \in Runs, run[r].phase = "free",
         NEW m \in {mode[a], "manual"}, m \in Modes \cup {"manual"},
         waiting' = waiting, run' \in [Runs -> RunRecord],
         run'[r] = NewRun(a, m, "acting"),
         \A p \in Runs \ {r} : run'[p] = run[p] \/ run'[p] = [run[p] EXCEPT !.aborted = TRUE]
  PROVE  QueueHolds' /\ RunsKeepTheirMode
  <1>1. run \in [Runs -> RunRecord] /\ Typed /\ QueueHolds
    BY DEF Base, Typed
  <1>2. run'[r].phase = "acting" /\ run'[r].of = a /\ run'[r].mode = m
    BY NewRunType
  <1>3. ASSUME NEW p \in Runs \ {r}
        PROVE  /\ run'[p].phase = run[p].phase /\ run'[p].of = run[p].of
               /\ run'[p].mode = run[p].mode
    <2>1. run[p] \in RunRecord
      BY <1>1
    <2>2. CASE run'[p] = run[p]
      BY <2>2
    <2>3. CASE run'[p] = [run[p] EXCEPT !.aborted = TRUE]
      BY <2>1, <2>3, AbortedRun
    <2> QED BY <2>2, <2>3
  <1>4. QueueHolds'
    <2>1. \A p \in Runs : run[p].phase = "queued" \/ run'[p].phase = "queued" =>
            /\ run'[p].phase = run[p].phase
            /\ run'[p].of = run[p].of /\ run'[p].mode = run[p].mode
      BY <1>2, <1>3
    <2> QED BY <1>1, <2>1, QueueUntouched
  <1>5. RunsKeepTheirMode
    BY <1>2, <1>3 DEF RunsKeepTheirMode
  <1> QED BY <1>4, <1>5

LEMMA PlainTriggersOK ==
  ASSUME Base, NEW a \in Automations, NEW r \in Runs,
         TriggerParallel(a, r) \/ TriggerSingle(a, r) \/ RunNow(a, r)
  PROVE  Lawful
  <1>1. PICK m \in {mode[a], "manual"} :
           /\ run' = [run EXCEPT ![r] = NewRun(a, m, "acting")]
           /\ run[r].phase = "free" /\ waiting' = waiting /\ UNCHANGED <<known, mode, ahead>>
           /\ running' = running \/ running' = [running EXCEPT ![a] = r]
    BY DEF TriggerParallel, TriggerSingle, RunNow, CanTrigger
  <1>2. Typed /\ m \in Modes \cup {"manual"}
    BY DEF Base, Typed
  <1>3. NewRun(a, m, "acting") \in RunRecord
    BY <1>2, NewRunType
  <1>4. run' \in [Runs -> RunRecord] /\ run'[r] = NewRun(a, m, "acting")
        /\ \A p \in Runs \ {r} : run'[p] = run[p]
    BY <1>1, <1>2, <1>3 DEF Typed
  <1>5. Typed'
    BY <1>1, <1>2, <1>4 DEF Typed
  <1> QED BY <1>1, <1>2, <1>4, <1>5, RunBegins DEF Lawful, Base

LEMMA TriggerRestartOK ==
  ASSUME Base, NEW a \in Automations, NEW r \in Runs, NEW hasActions \in BOOLEAN,
         TriggerRestart(a, r, hasActions)
  PROVE  Lawful
  <1> DEFINE aborted == [p \in Runs |-> IF p = running[a]
                                        THEN [run[p] EXCEPT !.aborted = TRUE] ELSE run[p]]
  <1>1. /\ run[r].phase = "free" /\ mode[a] = "restart" /\ waiting' = waiting
        /\ UNCHANGED <<known, mode, ahead>>
        /\ IF hasActions
           THEN /\ run' = [aborted EXCEPT ![r] = NewRun(a, "restart", "acting")]
                /\ running' = [running EXCEPT ![a] = r]
           ELSE /\ run' = aborted
                /\ running' = [running EXCEPT ![a] = NoRun]
    BY DEF TriggerRestart, CanTrigger
  <1>2. Typed /\ QueueHolds
    BY DEF Base
  <1>3. /\ aborted \in [Runs -> RunRecord]
        /\ \A p \in Runs : aborted[p] = run[p] \/ aborted[p] = [run[p] EXCEPT !.aborted = TRUE]
    BY <1>2, AbortedRun DEF Typed
  <1> HIDE DEF aborted
  <1>4. running' \in [Automations -> Runs \cup {NoRun}]
    BY <1>1, <1>2 DEF Typed
  <1>5. CASE hasActions
    <2>1. "restart" \in {mode[a], "manual"} /\ "restart" \in Modes \cup {"manual"}
      BY <1>1 DEF Modes
    <2>2. NewRun(a, "restart", "acting") \in RunRecord
      BY <2>1, NewRunType
    <2>3. /\ run' \in [Runs -> RunRecord] /\ run'[r] = NewRun(a, "restart", "acting")
          /\ \A p \in Runs \ {r} : run'[p] = run[p] \/ run'[p] = [run[p] EXCEPT !.aborted = TRUE]
      BY <1>1, <1>3, <1>5, <2>2
    <2>4. Typed'
      BY <1>1, <1>2, <1>4, <2>3 DEF Typed
    <2> QED BY <1>1, <2>1, <2>3, <2>4, RunBegins DEF Lawful, Base
  <1>6. CASE ~hasActions
    <2>1. ASSUME NEW p \in Runs
          PROVE  /\ run'[p].phase = run[p].phase /\ run'[p].of = run[p].of
                 /\ run'[p].mode = run[p].mode
      <3>1. run'[p] = run[p] \/ run'[p] = [run[p] EXCEPT !.aborted = TRUE]
        BY <1>1, <1>3, <1>6
      <3>2. run[p] \in RunRecord
        BY <1>2 DEF Typed
      <3> QED BY <3>1, <3>2, AbortedRun
    <2>2. Typed'
      BY <1>1, <1>2, <1>3, <1>4, <1>6 DEF Typed
    <2>3. QueueHolds'
      BY <1>1, <1>2, <2>1, QueueUntouched
    <2>4. RunsKeepTheirMode
      BY <2>1 DEF RunsKeepTheirMode, Live
    <2> QED BY <2>2, <2>3, <2>4 DEF Lawful, Base
  <1> QED BY <1>5, <1>6

\* A step within a run, or an edit.
LEMMA RunGoesOn ==
  ASSUME Base, Typed', waiting' = waiting,
         \A p \in Runs : /\ run'[p].phase = run[p].phase /\ run'[p].of = run[p].of
                         /\ run'[p].mode = run[p].mode
  PROVE  Lawful
  <1>1. QueueHolds'
    BY QueueUntouched DEF Base
  <1>2. RunsKeepTheirMode
    BY DEF RunsKeepTheirMode
  <1> QED BY <1>1, <1>2 DEF Lawful, Base

LEMMA StepsOK ==
  ASSUME Base, NEW r \in Runs, StepInsideAction(r) \/ NextAction(r)
  PROVE  Lawful
  <1>1. Typed /\ run[r] \in RunRecord /\ UNCHANGED <<known, mode, running, waiting, ahead>>
    BY DEF Base, Typed, StepInsideAction, NextAction
  <1> DEFINE x == [run[r] EXCEPT !.step = @ + 1]
             y == [run[r] EXCEPT !.at = @ + 1, !.step = 1]
  <1>2. /\ x \in RunRecord /\ x.phase = run[r].phase /\ x.of = run[r].of /\ x.mode = run[r].mode
    BY <1>1 DEF RunRecord
  <1>3. /\ y \in RunRecord /\ y.phase = run[r].phase /\ y.of = run[r].of /\ y.mode = run[r].mode
    BY <1>1, ActionChange
  <1>4. run' = [run EXCEPT ![r] = x] \/ run' = [run EXCEPT ![r] = y]
    BY DEF StepInsideAction, NextAction
  <1> HIDE DEF x, y
  <1>5. run' \in [Runs -> RunRecord] /\ \A p \in Runs \ {r} : run'[p] = run[p]
    BY <1>1, <1>2, <1>3, <1>4 DEF Typed
  <1>6. /\ run'[r].phase = run[r].phase /\ run'[r].of = run[r].of
        /\ run'[r].mode = run[r].mode
    BY <1>1, <1>2, <1>3, <1>4 DEF Typed
  <1>7. Typed'
    BY <1>1, <1>5 DEF Typed
  <1> QED BY <1>1, <1>5, <1>6, <1>7, RunGoesOn

LEMMA EditsOK ==
  ASSUME Base, NEW a \in Automations,
         RemoveAutomation(a) \/ \E m \in Edits \cup {mode[a]} : UpsertAutomation(a, m)
  PROVE  Lawful
  <1>1. UNCHANGED <<running, waiting, run, ahead>> /\ Typed
    BY DEF Base, RemoveAutomation, UpsertAutomation
  <1>2. known' \subseteq Automations /\ mode' \in [Automations -> Modes]
    <2>1. CASE RemoveAutomation(a)
      BY <1>1, <2>1 DEF RemoveAutomation, Typed
    <2>2. ASSUME NEW m \in Edits \cup {mode[a]}, UpsertAutomation(a, m)
          PROVE  known' \subseteq Automations /\ mode' \in [Automations -> Modes]
      <3>1. m \in Modes
        BY <1>1, ModesAssumption DEF Typed
      <3> QED BY <1>1, <2>2, <3>1 DEF UpsertAutomation, Typed
    <2> QED BY <2>1, <2>2
  <1>3. Typed'
    BY <1>1, <1>2 DEF Typed
  <1> QED BY <1>1, <1>3, RunGoesOn

LEMMA NextRunOK ==
  ASSUME Base, NEW a \in Automations, NEW runs \in [Runs -> RunRecord],
         \A p \in Runs : runs[p] = run[p] \/ (run[p].phase # "queued" /\ runs[p].phase = "free"),
         NEW skipped \in 0..Len(waiting[a]), Called(a, runs, skipped, run', running', waiting')
  PROVE  /\ run' \in [Runs -> RunRecord] /\ running' \in [Automations -> Runs \cup {NoRun}]
         /\ waiting' \in [Automations -> Seq(Runs)]
         /\ QueueHolds' /\ RunsKeepTheirMode
  <1>1. Typed /\ QueueHolds
    BY DEF Base
  <1>2. Settled(a, runs, skipped, run', running', waiting')
    BY <1>1, NextQueued, Zenon
  <1>3. QueueHolds'
    BY <1>1, QueueAfterNext, Zenon
  <1>4. ASSUME NEW p \in Runs, run'[p].phase # "free"
        PROVE  run[p].phase # "free" /\ run'[p].of = run[p].of /\ run'[p].mode = run[p].mode
    <2>1. \/ run'[p] = [run[p] EXCEPT !.phase = "acting"] /\ run[p].phase = "queued"
          \/ run'[p] = runs[p]
      BY <1>1, <1>4, NextQueuedRuns
    <2>2. run[p] \in RunRecord
      BY <1>1 DEF Typed
    <2>3. CASE run'[p] = runs[p]
      BY <1>4, <2>3
    <2>4. CASE run'[p] = [run[p] EXCEPT !.phase = "acting"] /\ run[p].phase = "queued"
      BY <2>2, <2>4, PhaseChange
    <2> QED BY <2>1, <2>3, <2>4
  <1>5. RunsKeepTheirMode
    BY <1>4 DEF RunsKeepTheirMode
  <1> QED BY <1>2, <1>3, <1>5 DEF Settled

LEMMA LeaveOK ==
  ASSUME Base, NEW r \in Runs, Live(r), Leave(r)
  PROVE  Lawful
  <1> DEFINE a == run[r].of
             runs == [run EXCEPT ![r] = Idle]
  <1>1. Typed /\ QueueHolds /\ a \in Automations /\ run[r].phase = "acting"
        /\ UNCHANGED <<known, mode, ahead>>
    BY DEF Base, Typed, RunRecord, Live, Leave
  <1>2. /\ runs \in [Runs -> RunRecord] /\ runs[r].phase = "free"
        /\ \A p \in Runs \ {r} : runs[p] = run[p]
    BY <1>1, IdleType DEF Typed
  <1> HIDE DEF runs
  <1>3. CASE run' = runs /\ waiting' = waiting /\ (running' = running \/ running' = [running EXCEPT ![a] = NoRun])
    <2>1. QueueHolds'
      <3>1. \A p \in Runs : run[p].phase = "queued" \/ run'[p].phase = "queued" =>
              /\ run'[p].phase = run[p].phase
              /\ run'[p].of = run[p].of /\ run'[p].mode = run[p].mode
        BY <1>1, <1>2, <1>3
      <3> QED BY <1>1, <1>3, <3>1, QueueUntouched
    <2>2. RunsKeepTheirMode
      BY <1>2, <1>3 DEF RunsKeepTheirMode, Live
    <2>3. Typed'
      BY <1>1, <1>2, <1>3 DEF Typed
    <2> QED BY <2>1, <2>2, <2>3 DEF Lawful, Base
  <1>4. CASE \E skipped \in 0..Len(waiting[a]) : RunNextQueued(a, runs, skipped)
    <2>1. PICK skipped \in 0..Len(waiting[a]) : RunNextQueued(a, runs, skipped)
      BY <1>4
    <2>2. Called(a, runs, skipped, run', running', waiting')
      BY <2>1, Zenon DEF RunNextQueued, Called
    <2>3. \A p \in Runs : runs[p] = run[p] \/ (run[p].phase # "queued" /\ runs[p].phase = "free")
      BY <1>1, <1>2
    <2> HIDE DEF a
    <2>4. /\ run' \in [Runs -> RunRecord] /\ running' \in [Automations -> Runs \cup {NoRun}]
          /\ waiting' \in [Automations -> Seq(Runs)]
          /\ QueueHolds' /\ RunsKeepTheirMode
      BY <1>1, <1>2, <2>2, <2>3, NextRunOK, Zenon
    <2>5. Typed'
      BY <1>1, <2>4 DEF Typed
    <2> QED BY <2>4, <2>5 DEF Lawful, Base
  <1>5. run[r].mode \in {"parallel", "single", "restart", "queued", "manual"}
    BY <1>1 DEF Typed, RunRecord, Modes
  <1>6. CASE run[r].mode \in {"parallel", "manual"}
    BY <1>3, <1>6 DEF Leave, runs
  <1>7. CASE run[r].mode \in {"single", "restart"}
    BY <1>3, <1>7 DEF Leave, runs
  <1>8. CASE run[r].mode = "queued"
    BY <1>4, <1>8 DEF Leave, runs
  <1> QED BY <1>5, <1>6, <1>7, <1>8

\* A closure is put in the queue.
LEMMA EnqueueOK ==
  ASSUME Base, NEW a \in Automations, NEW r \in Runs, NEW hasActions \in BOOLEAN,
         TriggerQueued(a, r, hasActions), running[a] # NoRun
  PROVE  /\ run' \in [Runs -> RunRecord] /\ run'[r] = NewRun(a, "queued", "queued")
         /\ run[r].phase = "free" /\ mode[a] = "queued" /\ running' = running
         /\ \A p \in Runs \ {r} : run'[p] = run[p]
         /\ waiting' \in [Automations -> Seq(Runs)]
         /\ \A b \in Automations \ {a} : waiting'[b] = waiting[b]
         /\ Len(waiting'[a]) = Len(waiting[a]) + 1
         /\ waiting'[a][Len(waiting[a]) + 1] = r
         /\ \A i \in Places(a) : waiting'[a][i] = waiting[a][i]
         /\ QueueHolds'
  <1>1. /\ Typed /\ QueueHolds /\ Len(waiting[a]) \in Nat /\ waiting[a] \in Seq(Runs)
        /\ \A b \in Automations : \A i \in Places(b) : waiting[b][i] \in Runs
    BY WaitingTypes DEF Base
  <1>2. /\ run' = [run EXCEPT ![r] = NewRun(a, "queued", "queued")]
        /\ waiting' = [waiting EXCEPT ![a] = Append(waiting[a], r)]
        /\ running' = running /\ run[r].phase = "free" /\ mode[a] = "queued"
    BY DEF TriggerQueued, CanTrigger
  <1>3. /\ NewRun(a, "queued", "queued") \in RunRecord
        /\ NewRun(a, "queued", "queued").phase = "queued"
        /\ NewRun(a, "queued", "queued").of = a
        /\ NewRun(a, "queued", "queued").mode = "queued"
    BY NewRunType DEF Modes
  <1>4. /\ run' \in [Runs -> RunRecord] /\ run'[r] = NewRun(a, "queued", "queued")
        /\ \A p \in Runs \ {r} : run'[p] = run[p]
    BY <1>1, <1>2, <1>3 DEF Typed
  <1>5. /\ Append(waiting[a], r) \in Seq(Runs)
        /\ Len(Append(waiting[a], r)) = Len(waiting[a]) + 1
        /\ Append(waiting[a], r)[Len(waiting[a]) + 1] = r
        /\ \A i \in Places(a) : Append(waiting[a], r)[i] = waiting[a][i]
    BY <1>1, AppendProperties DEF Places
  <1>6. /\ waiting' \in [Automations -> Seq(Runs)]
        /\ \A b \in Automations \ {a} : waiting'[b] = waiting[b]
        /\ waiting'[a] = Append(waiting[a], r)
    BY <1>1, <1>2, <1>5 DEF Typed
  <1>7. ASSUME NEW b \in Automations, NEW i \in Places(b)'
        PROVE  \/ b = a /\ i = Len(waiting[a]) + 1 /\ waiting'[b][i] = r
               \/ i \in Places(b) /\ waiting'[b][i] = waiting[b][i] /\ waiting[b][i] \in Runs \ {r}
    <2>1. CASE b = a
      <3>1. i \in Places(a) \/ i = Len(waiting[a]) + 1
        BY <1>1, <1>5, <1>6, <2>1 DEF Places
      <3>2. i \in Places(a) => waiting[a][i] # r
        BY <1>2 DEF QueueHolds, Base
      <3> QED BY <1>1, <1>5, <1>6, <2>1, <3>1, <3>2
    <2>2. CASE b # a
      <3>1. i \in Places(b) /\ waiting'[b][i] = waiting[b][i]
        BY <1>6, <2>2 DEF Places
      <3>2. waiting[b][i] # r
        BY <1>2, <3>1 DEF QueueHolds, Base
      <3> QED BY <1>1, <3>1, <3>2
    <2> QED BY <2>1, <2>2
  <1>8. ASSUME NEW b \in Automations, NEW i \in Places(b)'
        PROVE  InQueuedMode(waiting[b][i], b)' /\ run'[waiting'[b][i]].phase = "queued"
    <2>1. CASE b = a /\ waiting'[b][i] = r
      BY <1>3, <1>4, <2>1 DEF InQueuedMode
    <2>2. CASE i \in Places(b) /\ waiting'[b][i] = waiting[b][i] /\ waiting[b][i] \in Runs \ {r}
      <3>1. InQueuedMode(waiting[b][i], b) /\ run[waiting[b][i]].phase = "queued"
        BY <1>1, <2>2 DEF QueueHolds
      <3> QED BY <1>4, <2>2, <3>1 DEF InQueuedMode
    <2> QED BY <1>7, <2>1, <2>2
  <1>9. ASSUME NEW b \in Automations, NEW i \in Places(b)', NEW j \in Places(b)',
               waiting'[b][i] = waiting'[b][j]
        PROVE  i = j
    BY <1>1, <1>7, <1>9 DEF QueueHolds
  <1>10. ASSUME NEW p \in Runs, run'[p].phase = "queued"
         PROVE  \E i \in Places(run[p].of)' : waiting'[run'[p].of][i] = p
    <2>1. CASE p = r
      <3>1. Len(waiting[a]) + 1 \in Places(a)'
        BY <1>1, <1>5, <1>6 DEF Places
      <3> QED BY <1>3, <1>4, <1>5, <1>6, <2>1, <3>1
    <2>2. CASE p # r
      <3>1. run'[p] = run[p]
        BY <1>4, <2>2
      <3>2. PICK i \in Places(run[p].of) : waiting[run[p].of][i] = p
        BY <1>1, <1>10, <3>1 DEF QueueHolds
      <3>3. run[p].of \in Automations
        BY <1>1 DEF Typed, RunRecord
      <3>4. CASE run[p].of = a
        <4>1. i \in Places(a)' /\ waiting'[a][i] = p
          BY <1>1, <1>5, <1>6, <3>2, <3>4 DEF Places
        <4> QED BY <3>1, <3>4, <4>1
      <3>5. CASE run[p].of # a
        <4>1. waiting'[run[p].of] = waiting[run[p].of]
          BY <1>6, <3>3, <3>5
        <4> QED BY <3>1, <3>2, <4>1 DEF Places
      <3> QED BY <3>4, <3>5
    <2> QED BY <2>1, <2>2
  <1>11. QueueHolds'
    BY <1>8, <1>9, <1>10 DEF QueueHolds
  <1> QED BY <1>2, <1>4, <1>5, <1>6, <1>11

LEMMA TriggerQueuedOK ==
  ASSUME Base, NEW a \in Automations, NEW r \in Runs, NEW hasActions \in BOOLEAN,
         TriggerQueued(a, r, hasActions)
  PROVE  Lawful
  <1>1. /\ Typed /\ QueueHolds /\ run[r].phase = "free" /\ mode[a] = "queued"
        /\ UNCHANGED <<known, mode>>
    BY DEF Base, TriggerQueued, CanTrigger
  <1>2. ahead' \in [Runs -> SUBSET Runs]
    BY <1>1 DEF TriggerQueued, Typed
  <1>3. CASE running[a] # NoRun
    <2>1. /\ run' \in [Runs -> RunRecord] /\ run'[r] = NewRun(a, "queued", "queued")
          /\ running' = running /\ waiting' \in [Automations -> Seq(Runs)]
          /\ \A p \in Runs \ {r} : run'[p] = run[p]
          /\ QueueHolds'
      BY <1>3, EnqueueOK
    <2>2. run'[r].phase = "queued" /\ run'[r].of = a /\ run'[r].mode = "queued"
      BY <2>1, NewRunType DEF Modes
    <2>3. Typed'
      BY <1>1, <1>2, <2>1 DEF Typed
    <2>4. RunsKeepTheirMode
      BY <1>1, <2>1, <2>2 DEF RunsKeepTheirMode, Live
    <2> QED BY <2>1, <2>3, <2>4 DEF Lawful, Base
  <1>4. CASE running[a] = NoRun /\ hasActions
    <2>1. /\ run' = [run EXCEPT ![r] = NewRun(a, "queued", "acting")]
          /\ running' = [running EXCEPT ![a] = r] /\ waiting' = waiting
      BY <1>4 DEF TriggerQueued
    <2>2. "queued" \in {mode[a], "manual"} /\ "queued" \in Modes \cup {"manual"}
      BY <1>1 DEF Modes
    <2>3. NewRun(a, "queued", "acting") \in RunRecord
      BY <2>2, NewRunType
    <2>4. run' \in [Runs -> RunRecord] /\ run'[r] = NewRun(a, "queued", "acting")
          /\ \A p \in Runs \ {r} : run'[p] = run[p]
      BY <1>1, <2>1, <2>3 DEF Typed
    <2>5. Typed'
      BY <1>1, <1>2, <2>1, <2>4 DEF Typed
    <2> QED BY <1>1, <2>1, <2>2, <2>4, <2>5, RunBegins DEF Lawful, Base
  <1>5. CASE running[a] = NoRun /\ ~hasActions
    <2>1. PICK skipped \in 0..Len(waiting[a]) : RunNextQueued(a, run, skipped)
      BY <1>5 DEF TriggerQueued
    <2>2. Called(a, run, skipped, run', running', waiting')
      BY <2>1, Zenon DEF RunNextQueued, Called
    <2>3. run \in [Runs -> RunRecord]
          /\ \A p \in Runs : run[p] = run[p] \/ (run[p].phase # "queued" /\ run[p].phase = "free")
      BY <1>1 DEF Typed
    <2>4. /\ run' \in [Runs -> RunRecord] /\ running' \in [Automations -> Runs \cup {NoRun}]
          /\ waiting' \in [Automations -> Seq(Runs)]
          /\ QueueHolds' /\ RunsKeepTheirMode
      BY <2>2, <2>3, NextRunOK, Zenon
    <2>5. Typed'
      BY <1>1, <1>2, <2>4 DEF Typed
    <2> QED BY <2>4, <2>5 DEF Lawful, Base
  <1> QED BY <1>3, <1>4, <1>5

LEMMA InitBase == Init => Base
  <1> SUFFICES ASSUME Init PROVE Base
    OBVIOUS
  <1>1. Typed
    BY IdleType, ModesAssumption DEF Init, Typed
  <1>2. \A a \in Automations : Places(a) = {}
    BY DEF Init, Places
  <1>3. \A r \in Runs : run[r].phase = "free"
    BY IdleType DEF Init
  <1> QED BY <1>1, <1>2, <1>3 DEF Base, QueueHolds

LEMMA NextLawful == Base /\ [Next]_vars => Lawful
  <1> SUFFICES ASSUME Base, [Next]_vars PROVE Lawful
    OBVIOUS
  <1>1. ASSUME NEW a \in Automations, NEW r \in Runs,
               TriggerParallel(a, r) \/ TriggerSingle(a, r) \/ RunNow(a, r)
        PROVE  Lawful
    BY <1>1, PlainTriggersOK
  <1>2. ASSUME NEW a \in Automations, NEW r \in Runs, NEW hasActions \in BOOLEAN,
               TriggerRestart(a, r, hasActions)
        PROVE  Lawful
    BY <1>2, TriggerRestartOK
  <1>3. ASSUME NEW a \in Automations, NEW r \in Runs, NEW hasActions \in BOOLEAN,
               TriggerQueued(a, r, hasActions)
        PROVE  Lawful
    BY <1>3, TriggerQueuedOK
  <1>4. ASSUME NEW r \in Runs, StepInsideAction(r) \/ NextAction(r)
        PROVE  Lawful
    BY <1>4, StepsOK
  <1>5. ASSUME NEW r \in Runs, Finish(r) \/ StopAction(r)
        PROVE  Lawful
    BY <1>5, LeaveOK DEF Finish, StopAction
  <1>6. ASSUME NEW a \in Automations,
               RemoveAutomation(a) \/ \E m \in Edits \cup {mode[a]} : UpsertAutomation(a, m)
        PROVE  Lawful
    BY <1>6, EditsOK
  <1>7. CASE UNCHANGED vars
    <2>1. Typed'
      BY <1>7 DEF Base, Typed, vars
    <2> QED BY <1>7, <2>1, RunGoesOn DEF vars
  <1> QED BY <1>1, <1>2, <1>3, <1>4, <1>5, <1>6, <1>7 DEF Next

-----------------------------------------------------------------------------
\* Every variable holds values of its kind, and the queue of an automation holds exactly
\* its queued runs, in whatever way its mode is edited while they wait.
THEOREM BaseInvariant == Spec => []Base
  <1>1. Base /\ [Next]_vars => Base'
    BY NextLawful DEF Lawful
  <1> QED BY <1>1, InitBase, PTL DEF Spec

-----------------------------------------------------------------------------
(* Where a run is in the actions of its automation.                        *)

Stays(p) ==
    /\ run'[p].of = run[p].of /\ run'[p].at = run[p].at /\ run'[p].step = run[p].step
    /\ run[p].aborted => run'[p].aborted

Begins(p) ==
    /\ run'[p].of \in Automations /\ run'[p].at = 1 /\ run'[p].step = 1
    /\ ~(Live(p) /\ Live(p)')

Proceeds(p) ==
    /\ run'[p].of = run[p].of
    /\ \/ /\ run'[p].at = run[p].at /\ run'[p].step = run[p].step + 1
          /\ run[p].step < Len(Steps(p))
          /\ run'[p].aborted = run[p].aborted /\ ~(run[p].aborted /\ Steps(p)[run[p].step + 1])
       \/ /\ run'[p].at = run[p].at + 1 /\ run'[p].step = 1
          /\ run[p].at < Len(Actions(p)) /\ ~run[p].aborted

Moves == \A p \in Runs : Stays(p) \/ Begins(p) \/ Proceeds(p)

LEMMA SameRunStays ==
  ASSUME Base, NEW p \in Runs, run'[p] = run[p] \/ run'[p] = [run[p] EXCEPT !.aborted = TRUE]
  PROVE  Stays(p)
  <1>1. run[p] \in RunRecord
    BY DEF Base, Typed
  <1>2. CASE run'[p] = run[p]
    BY <1>2 DEF Stays
  <1>3. CASE run'[p] = [run[p] EXCEPT !.aborted = TRUE]
    BY <1>1, <1>3, AbortedRun DEF Stays
  <1> QED BY <1>2, <1>3

\* A free run is taken, and others may be cancelled.
LEMMA NewRunMoves ==
  ASSUME Base, NEW a \in Automations, NEW r \in Runs, run[r].phase = "free",
         NEW m \in Modes \cup {"manual"}, NEW ph \in {"queued", "acting"},
         run'[r] = NewRun(a, m, ph),
         \A p \in Runs \ {r} : run'[p] = run[p] \/ run'[p] = [run[p] EXCEPT !.aborted = TRUE]
  PROVE  Moves
  <1>1. Begins(r)
    BY NewRunType DEF Begins, Live
  <1>2. \A p \in Runs \ {r} : Stays(p)
    BY SameRunStays
  <1> QED BY <1>1, <1>2 DEF Moves

\* The finally block calls closures; those that have nothing to do are free again.
LEMMA NextQueuedMoves ==
  ASSUME Base, NEW a \in Automations, NEW runs \in [Runs -> RunRecord],
         \A p \in Runs : runs[p] = run[p] \/ (run[p].phase # "queued" /\ runs[p] = Idle),
         NEW skipped \in 0..Len(waiting[a]), RunNextQueued(a, runs, skipped)
  PROVE  Moves
  <1> SUFFICES ASSUME NEW p \in Runs PROVE Stays(p) \/ Begins(p) \/ Proceeds(p)
    BY DEF Moves
  <1>1. Typed /\ QueueHolds /\ run[p] \in RunRecord
    BY DEF Base, Typed
  <1>2. Called(a, runs, skipped, run', running', waiting')
    BY NextIsCalled, Zenon
  <1>3. \A o \in Runs : runs[o] = run[o] \/ (run[o].phase # "queued" /\ runs[o].phase = "free")
    BY IdleType
  <1>4. \/ run'[p] = Idle
        \/ run'[p] = [run[p] EXCEPT !.phase = "acting"]
        \/ run'[p] = runs[p]
    BY <1>1, <1>2, <1>3, NextQueuedRuns
  <1>5. CASE run'[p] = Idle
    BY <1>5, IdleType DEF Begins, Live, RunRecord
  <1>6. CASE run'[p] = [run[p] EXCEPT !.phase = "acting"]
    BY <1>1, <1>6, PhaseChange DEF Stays
  <1>7. CASE run'[p] = run[p]
    BY <1>7, SameRunStays
  <1> QED BY <1>4, <1>5, <1>6, <1>7

LEMMA TriggersMove ==
  ASSUME Base, NEW a \in Automations, NEW r \in Runs,
         \/ TriggerParallel(a, r) \/ TriggerSingle(a, r) \/ RunNow(a, r)
         \/ \E hasActions \in BOOLEAN : TriggerRestart(a, r, hasActions) \/ TriggerQueued(a, r, hasActions)
  PROVE  Moves
  <1>1. Typed /\ run \in [Runs -> RunRecord] /\ run[r].phase = "free"
    BY DEF Base, Typed, TriggerParallel, TriggerSingle, RunNow, TriggerRestart, TriggerQueued, CanTrigger
  <1>2. ASSUME NEW m \in Modes \cup {"manual"}, NEW ph \in {"queued", "acting"},
               run' = [run EXCEPT ![r] = NewRun(a, m, ph)]
        PROVE  Moves
    <2>1. run'[r] = NewRun(a, m, ph) /\ \A p \in Runs \ {r} : run'[p] = run[p]
      BY <1>1, <1>2
    <2> QED BY <1>1, <2>1, NewRunMoves
  <1>3. CASE TriggerParallel(a, r) \/ TriggerSingle(a, r) \/ RunNow(a, r)
    <2>1. \E m \in Modes \cup {"manual"} : run' = [run EXCEPT ![r] = NewRun(a, m, "acting")]
      BY <1>3 DEF TriggerParallel, TriggerSingle, RunNow, Modes
    <2> QED BY <1>2, <2>1
  <1>4. ASSUME NEW hasActions \in BOOLEAN, TriggerRestart(a, r, hasActions)
        PROVE  Moves
    <2> DEFINE aborted == [p \in Runs |-> IF p = running[a]
                                          THEN [run[p] EXCEPT !.aborted = TRUE] ELSE run[p]]
    <2>1. \/ run' = [aborted EXCEPT ![r] = NewRun(a, "restart", "acting")]
          \/ run' = aborted
      BY <1>4 DEF TriggerRestart
    <2>2. \A p \in Runs : aborted[p] = run[p] \/ aborted[p] = [run[p] EXCEPT !.aborted = TRUE]
      OBVIOUS
    <2>3. DOMAIN aborted = Runs
      OBVIOUS
    <2> HIDE DEF aborted
    <2>4. CASE run' = aborted
      BY <2>2, <2>4, SameRunStays DEF Moves
    <2>5. CASE run' = [aborted EXCEPT ![r] = NewRun(a, "restart", "acting")]
      <3>1. run'[r] = NewRun(a, "restart", "acting") /\ \A p \in Runs \ {r} : run'[p] = aborted[p]
        BY <2>3, <2>5
      <3> QED BY <1>1, <2>2, <3>1, NewRunMoves DEF Modes
    <2> QED BY <2>1, <2>4, <2>5
  <1>5. ASSUME NEW hasActions \in BOOLEAN, TriggerQueued(a, r, hasActions)
        PROVE  Moves
    <2>1. \/ \E ph \in {"queued", "acting"} : run' = [run EXCEPT ![r] = NewRun(a, "queued", ph)]
          \/ \E skipped \in 0..Len(waiting[a]) : RunNextQueued(a, run, skipped)
      BY <1>5 DEF TriggerQueued
    <2>2. CASE \E ph \in {"queued", "acting"} : run' = [run EXCEPT ![r] = NewRun(a, "queued", ph)]
      BY <1>2, <2>2 DEF Modes
    <2>3. CASE \E skipped \in 0..Len(waiting[a]) : RunNextQueued(a, run, skipped)
      BY <1>1, <2>3, NextQueuedMoves
    <2> QED BY <2>1, <2>2, <2>3
  <1> QED BY <1>3, <1>4, <1>5

LEMMA StepsMove ==
  ASSUME Base, NEW r \in Runs, StepInsideAction(r) \/ NextAction(r)
  PROVE  Moves
  <1>1. run \in [Runs -> RunRecord] /\ run[r] \in RunRecord
    BY DEF Base, Typed
  <1> DEFINE x == [run[r] EXCEPT !.step = @ + 1]
             y == [run[r] EXCEPT !.at = @ + 1, !.step = 1]
  <1>2. \/ /\ run' = [run EXCEPT ![r] = x]
           /\ run[r].step < Len(Steps(r)) /\ ~(run[r].aborted /\ Steps(r)[run[r].step + 1])
        \/ run' = [run EXCEPT ![r] = y] /\ run[r].at < Len(Actions(r)) /\ ~run[r].aborted
    BY DEF StepInsideAction, NextAction
  <1>3. x.of = run[r].of /\ x.at = run[r].at /\ x.step = run[r].step + 1 /\ x.aborted = run[r].aborted
    BY <1>1, StepChange
  <1>4. y.of = run[r].of /\ y.at = run[r].at + 1 /\ y.step = 1
    BY <1>1, ActionChange
  <1> HIDE DEF x, y
  <1>5. \A p \in Runs \ {r} : run'[p] = run[p]
    BY <1>1, <1>2
  <1>6. Proceeds(r)
    <2>1. CASE /\ run' = [run EXCEPT ![r] = x]
               /\ run[r].step < Len(Steps(r)) /\ ~(run[r].aborted /\ Steps(r)[run[r].step + 1])
      <3>1. run'[r] = x
        BY <1>1, <2>1
      <3> QED BY <1>3, <2>1, <3>1 DEF Proceeds
    <2>2. CASE run' = [run EXCEPT ![r] = y] /\ run[r].at < Len(Actions(r)) /\ ~run[r].aborted
      <3>1. run'[r] = y
        BY <1>1, <2>2
      <3> QED BY <1>4, <2>2, <3>1 DEF Proceeds
    <2> QED BY <1>2, <2>1, <2>2
  <1> QED BY <1>5, <1>6, SameRunStays DEF Moves

LEMMA LeaveMoves ==
  ASSUME Base, NEW r \in Runs, Live(r), Leave(r)
  PROVE  Moves
  <1> DEFINE a == run[r].of
             runs == [run EXCEPT ![r] = Idle]
  <1>1. /\ run \in [Runs -> RunRecord] /\ a \in Automations /\ run[r].phase = "acting"
        /\ run[r].mode \in {"parallel", "single", "restart", "queued", "manual"}
    BY DEF Base, Typed, RunRecord, Modes, Live
  <1>2. /\ runs \in [Runs -> RunRecord] /\ runs[r] = Idle
        /\ \A p \in Runs \ {r} : runs[p] = run[p]
    BY <1>1, IdleType
  <1>3. run' = runs \/ \E skipped \in 0..Len(waiting[a]) : RunNextQueued(a, runs, skipped)
    BY <1>1 DEF Leave
  <1> HIDE DEF runs, a
  <1>4. CASE run' = runs
    <2>1. Begins(r)
      BY <1>2, <1>4, IdleType DEF Begins, Live, RunRecord
    <2> QED BY <1>2, <1>4, <2>1, SameRunStays DEF Moves
  <1>5. CASE \E skipped \in 0..Len(waiting[a]) : RunNextQueued(a, runs, skipped)
    <2>1. \A p \in Runs : runs[p] = run[p] \/ (run[p].phase # "queued" /\ runs[p] = Idle)
      BY <1>1, <1>2
    <2> QED BY <1>1, <1>2, <1>5, <2>1, NextQueuedMoves
  <1> QED BY <1>3, <1>4, <1>5

LEMMA NextMoves == Base /\ [Next]_vars => Moves
  <1> SUFFICES ASSUME Base, [Next]_vars PROVE Moves
    OBVIOUS
  <1>1. CASE UNCHANGED run
    BY <1>1, SameRunStays DEF Moves
  <1>2. ASSUME NEW r \in Runs, Finish(r) \/ StopAction(r)
        PROVE  Moves
    BY <1>2, LeaveMoves DEF Finish, StopAction
  <1> QED BY <1>1, <1>2, TriggersMove, StepsMove DEF Next, vars, RemoveAutomation, UpsertAutomation

\* Every automation has an action and every action a step.
LEMMA BodyTypes ==
  ASSUME NEW a \in Automations
  PROVE  /\ Len(Body[a]) \in Nat \ {0}
         /\ \A i \in 1..Len(Body[a]) : Len(Body[a][i]) \in Nat \ {0}
  <1>1. Body[a] \in Seq(Seq(BOOLEAN) \ {<<>>}) /\ Body[a] # <<>>
    BY BodyAssumption
  <1>2. Len(Body[a]) \in Nat \ {0}
    BY <1>1, EmptySeq, LenProperties
  <1>3. ASSUME NEW i \in 1..Len(Body[a])
        PROVE  Len(Body[a][i]) \in Nat \ {0}
    <2>1. Body[a][i] \in Seq(BOOLEAN) /\ Body[a][i] # <<>>
      BY <1>1, ElementOfSeq
    <2> QED BY <2>1, EmptySeq, LenProperties
  <1> QED BY <1>2, <1>3

LEMMA StaysWithinBody ==
  ASSUME Base, WithinBody, Moves, Base'
  PROVE  WithinBody'
  <1> SUFFICES ASSUME NEW p \in Runs
               PROVE  /\ run'[p].at \in 1..Len(Body[run'[p].of])
                      /\ run'[p].step \in 1..Len(Body[run'[p].of][run'[p].at])
    BY DEF WithinBody, Actions, Steps
  <1>1. /\ run[p].of \in Automations /\ run'[p].of \in Automations
        /\ run[p].at \in Nat /\ run[p].step \in Nat
    BY DEF Base, Typed, RunRecord
  <1>2. /\ run[p].at \in 1..Len(Body[run[p].of])
        /\ run[p].step \in 1..Len(Body[run[p].of][run[p].at])
    BY DEF WithinBody, Actions, Steps
  <1>3. CASE Stays(p)
    BY <1>2, <1>3 DEF Stays
  <1>4. CASE Begins(p)
    <2>1. /\ Len(Body[run'[p].of]) \in Nat \ {0} /\ run'[p].at = 1 /\ run'[p].step = 1
      BY <1>1, <1>4, BodyTypes DEF Begins
    <2>2. run'[p].at \in 1..Len(Body[run'[p].of])
      BY <2>1
    <2>3. Len(Body[run'[p].of][run'[p].at]) \in Nat \ {0}
      BY <1>1, <2>2, BodyTypes
    <2> QED BY <2>1, <2>2, <2>3
  <1>5. CASE Proceeds(p)
    <2> DEFINE n == Len(Body[run[p].of])
    <2>1. n \in Nat \ {0} /\ \A i \in 1..n : Len(Body[run[p].of][i]) \in Nat \ {0}
      BY <1>1, BodyTypes
    <2>2. CASE /\ run'[p].at = run[p].at /\ run'[p].step = run[p].step + 1
               /\ run[p].step < Len(Steps(p)) /\ run'[p].of = run[p].of
      <3>1. Len(Body[run[p].of][run[p].at]) \in Nat \ {0} /\ run[p].step < Len(Body[run[p].of][run[p].at])
        BY <1>2, <2>1, <2>2 DEF Steps, Actions
      <3>2. run[p].step + 1 \in 1..Len(Body[run[p].of][run[p].at])
        BY <1>1, <3>1
      <3> QED BY <1>2, <2>2, <3>2
    <2>3. CASE /\ run'[p].at = run[p].at + 1 /\ run'[p].step = 1
               /\ run[p].at < Len(Actions(p)) /\ run'[p].of = run[p].of
      <3>1. run[p].at < n
        BY <2>3 DEF Actions
      <3>2. run[p].at + 1 \in 1..n
        BY <1>1, <2>1, <3>1
      <3>3. Len(Body[run[p].of][run[p].at + 1]) \in Nat \ {0}
        BY <2>1, <3>2
      <3> QED BY <2>3, <3>2, <3>3
    <2> QED BY <1>5, <2>2, <2>3 DEF Proceeds
  <1> QED BY <1>3, <1>4, <1>5 DEF Moves

-----------------------------------------------------------------------------
(* What the map names.                                                     *)

\* In state f of the runs p is in progress and one that the map is kept for.
NamedIn(f, p, a) ==
    p \in Runs /\ f[p].phase = "acting" /\ f[p].mode \notin {"parallel", "manual"} /\ f[p].of = a

LEMMA NamedInMap ==
  ASSUME Base, MapNamesRuns, NEW a \in Automations, running[a] # NoRun
  PROVE  NamedIn(run, running[a], a)
  BY DEF MapNamesRuns, NamedIn, Tracked, Live, Base, Typed

LEMMA MapNamesNext ==
  ASSUME \A a \in Automations : running'[a] # NoRun => NamedIn(run', running'[a], a)
  PROVE  MapNamesRuns'
  BY DEF MapNamesRuns, NamedIn, Tracked, Live

\* A run that is named stays so as long as its phase, mode and automation do.
LEMMA NamedStays ==
  ASSUME NEW p, NEW a, NamedIn(run, p, a), run'[p].phase = run[p].phase,
         run'[p].of = run[p].of, run'[p].mode = run[p].mode
  PROVE  NamedIn(run', p, a)
  BY DEF NamedIn

LEMMA SameRunNamed ==
  ASSUME Base, NEW p, NEW a, NamedIn(run, p, a),
         run'[p] = run[p] \/ run'[p] = [run[p] EXCEPT !.aborted = TRUE]
  PROVE  NamedIn(run', p, a)
  <1>1. run[p] \in RunRecord
    BY DEF Base, Typed, NamedIn
  <1>2. run'[p].phase = run[p].phase /\ run'[p].of = run[p].of /\ run'[p].mode = run[p].mode
    BY <1>1, AbortedRun
  <1> QED BY <1>2, NamedStays

\* A free run is taken, and registered or not; others may be cancelled.
LEMMA NewRunNamed ==
  ASSUME Base, MapNamesRuns, NEW a \in Automations, NEW r \in Runs, run[r].phase = "free",
         \A p \in Runs \ {r} : run'[p] = run[p] \/ run'[p] = [run[p] EXCEPT !.aborted = TRUE],
         \/ running' = running
         \/ running' = [running EXCEPT ![a] = NoRun]
         \/ /\ running' = [running EXCEPT ![a] = r]
            /\ \E m \in {"single", "restart", "queued"} : run'[r] = NewRun(a, m, "acting")
  PROVE  MapNamesRuns'
  <1> SUFFICES ASSUME NEW b \in Automations, running'[b] # NoRun
               PROVE  NamedIn(run', running'[b], b)
    BY MapNamesNext
  <1>1. running \in [Automations -> Runs \cup {NoRun}]
    BY DEF Base, Typed
  <1>2. CASE running'[b] = running[b]
    <2>1. NamedIn(run, running[b], b)
      BY <1>2, NamedInMap
    <2>2. running[b] \in Runs \ {r}
      BY <2>1 DEF NamedIn
    <2> QED BY <1>2, <2>1, <2>2, SameRunNamed
  <1>3. CASE /\ running' = [running EXCEPT ![a] = r] /\ b = a
             /\ \E m \in {"single", "restart", "queued"} : run'[r] = NewRun(a, m, "acting")
    <2>1. PICK m \in {"single", "restart", "queued"} : run'[r] = NewRun(a, m, "acting")
      BY <1>3
    <2>2. run'[r].phase = "acting" /\ run'[r].of = a /\ run'[r].mode = m
      BY <2>1, NewRunType DEF Modes
    <2>3. running'[b] = r
      BY <1>1, <1>3
    <2> QED BY <1>3, <2>2, <2>3 DEF NamedIn
  <1> QED BY <1>1, <1>2, <1>3

\* The finally block: the map forgets the run or has the one that is called.
LEMMA NextQueuedNamed ==
  ASSUME Base, MapNamesRuns, NEW a \in Automations, NEW runs \in [Runs -> RunRecord],
         \A p \in Runs : runs[p] = run[p] \/ (run[p].phase # "queued" /\ runs[p].phase = "free"),
         \A b \in Automations \ {a} : running[b] # NoRun => runs[running[b]] = run[running[b]],
         NEW skipped \in 0..Len(waiting[a]), RunNextQueued(a, runs, skipped)
  PROVE  MapNamesRuns'
  <1> SUFFICES ASSUME NEW b \in Automations, running'[b] # NoRun
               PROVE  NamedIn(run', running'[b], b)
    BY MapNamesNext
  <1>1. Typed /\ QueueHolds /\ run \in [Runs -> RunRecord]
    BY DEF Base, Typed
  <1>2. Called(a, runs, skipped, run', running', waiting')
    BY NextIsCalled, Zenon
  <1>3. Settled(a, runs, skipped, run', running', waiting')
    BY <1>1, <1>2, NextQueued, Zenon
  <1>4. CASE b = a
    <2>1. skipped # Len(waiting[a]) /\ running'[a] = waiting[a][skipped + 1]
      BY <1>3, <1>4 DEF Settled
    <2> DEFINE p == waiting[a][skipped + 1]
    <2>2. skipped + 1 \in Places(a)
      BY <1>1, <2>1, WaitingTypes DEF Places
    <2>3. p \in Runs /\ run[p].phase = "queued" /\ run[p].of = a /\ run[p].mode = "queued"
      BY <1>1, <2>2, WaitingTypes DEF QueueHolds, InQueuedMode
    <2>4. run'[p] = [runs[p] EXCEPT !.phase = "acting"] /\ runs[p] = run[p]
      BY <1>3, <2>1, <2>3 DEF Settled
    <2> HIDE DEF p
    <2>5. run'[p].phase = "acting" /\ run'[p].of = a /\ run'[p].mode = "queued"
      BY <1>1, <2>3, <2>4, PhaseChange
    <2>6. running'[b] = p
      BY <1>4, <2>1 DEF p
    <2> QED BY <1>4, <2>3, <2>5, <2>6 DEF NamedIn
  <1>5. CASE b # a
    <2>1. running'[b] = running[b]
      BY <1>3, <1>5 DEF Settled
    <2>2. NamedIn(run, running[b], b)
      BY <2>1, NamedInMap
    <2>3. running[b] \in Runs /\ run[running[b]].phase = "acting" /\ runs[running[b]] = run[running[b]]
      BY <1>5, <2>1, <2>2 DEF NamedIn
    <2>4. run'[running[b]] = run[running[b]]
      <3>1. \A i \in Places(a) : running[b] # waiting[a][i]
        BY <1>1, <2>3 DEF QueueHolds
      <3> QED BY <1>3, <2>3, <3>1 DEF Settled
    <2> QED BY <2>1, <2>2, <2>4, SameRunNamed
  <1> QED BY <1>4, <1>5

LEMMA TriggersNamed ==
  ASSUME Base, MapNamesRuns, NEW a \in Automations, NEW r \in Runs,
         \/ TriggerParallel(a, r) \/ TriggerSingle(a, r) \/ RunNow(a, r)
         \/ \E hasActions \in BOOLEAN : TriggerRestart(a, r, hasActions) \/ TriggerQueued(a, r, hasActions)
  PROVE  MapNamesRuns'
  <1>1. /\ run \in [Runs -> RunRecord] /\ run[r].phase = "free"
        /\ running \in [Automations -> Runs \cup {NoRun}]
    BY DEF Base, Typed, TriggerParallel, TriggerSingle, RunNow, TriggerRestart, TriggerQueued, CanTrigger
  <1>2. ASSUME NEW m \in {"parallel", "single", "queued", "manual"}, NEW ph \in {"queued", "acting"},
               run' = [run EXCEPT ![r] = NewRun(a, m, ph)],
               \/ running' = running
               \/ running' = [running EXCEPT ![a] = r] /\ ph = "acting" /\ m \in {"single", "queued"}
        PROVE  MapNamesRuns'
    <2>1. run'[r] = NewRun(a, m, ph) /\ \A p \in Runs \ {r} : run'[p] = run[p]
      BY <1>1, <1>2
    <2>2. \/ running' = running
          \/ /\ running' = [running EXCEPT ![a] = r]
             /\ \E k \in {"single", "restart", "queued"} : run'[r] = NewRun(a, k, "acting")
      BY <1>2, <2>1
    <2> QED BY <1>1, <2>1, <2>2, NewRunNamed
  <1>3. CASE TriggerParallel(a, r) \/ TriggerSingle(a, r) \/ RunNow(a, r)
    BY <1>2, <1>3 DEF TriggerParallel, TriggerSingle, RunNow
  <1>4. ASSUME NEW hasActions \in BOOLEAN, TriggerRestart(a, r, hasActions)
        PROVE  MapNamesRuns'
    <2> DEFINE aborted == [p \in Runs |-> IF p = running[a]
                                          THEN [run[p] EXCEPT !.aborted = TRUE] ELSE run[p]]
    <2>1. \/ /\ run' = [aborted EXCEPT ![r] = NewRun(a, "restart", "acting")]
             /\ running' = [running EXCEPT ![a] = r]
          \/ run' = aborted /\ running' = [running EXCEPT ![a] = NoRun]
      BY <1>4 DEF TriggerRestart
    <2>2. \A p \in Runs : aborted[p] = run[p] \/ aborted[p] = [run[p] EXCEPT !.aborted = TRUE]
      OBVIOUS
    <2>3. DOMAIN aborted = Runs
      OBVIOUS
    <2> HIDE DEF aborted
    <2>4. CASE run' = aborted /\ running' = [running EXCEPT ![a] = NoRun]
      BY <1>1, <2>2, <2>4, NewRunNamed
    <2>5. CASE /\ run' = [aborted EXCEPT ![r] = NewRun(a, "restart", "acting")]
               /\ running' = [running EXCEPT ![a] = r]
      <3>1. run'[r] = NewRun(a, "restart", "acting") /\ \A p \in Runs \ {r} : run'[p] = aborted[p]
        BY <2>3, <2>5
      <3> QED BY <1>1, <2>2, <2>5, <3>1, NewRunNamed
    <2> QED BY <2>1, <2>4, <2>5
  <1>5. ASSUME NEW hasActions \in BOOLEAN, TriggerQueued(a, r, hasActions)
        PROVE  MapNamesRuns'
    <2>1. \/ run' = [run EXCEPT ![r] = NewRun(a, "queued", "queued")] /\ running' = running
          \/ /\ run' = [run EXCEPT ![r] = NewRun(a, "queued", "acting")]
             /\ running' = [running EXCEPT ![a] = r]
          \/ \E skipped \in 0..Len(waiting[a]) : RunNextQueued(a, run, skipped)
      BY <1>5 DEF TriggerQueued
    <2>2. CASE \E skipped \in 0..Len(waiting[a]) : RunNextQueued(a, run, skipped)
      BY <1>1, <2>2, NextQueuedNamed
    <2> QED BY <1>2, <2>1, <2>2
  <1> QED BY <1>3, <1>4, <1>5

LEMMA StepsNamed ==
  ASSUME Base, MapNamesRuns, NEW r \in Runs, StepInsideAction(r) \/ NextAction(r)
  PROVE  MapNamesRuns'
  <1>1. run \in [Runs -> RunRecord] /\ run[r] \in RunRecord /\ running' = running
    BY DEF Base, Typed, StepInsideAction, NextAction
  <1> DEFINE x == [run[r] EXCEPT !.step = @ + 1]
             y == [run[r] EXCEPT !.at = @ + 1, !.step = 1]
  <1>2. run' = [run EXCEPT ![r] = x] \/ run' = [run EXCEPT ![r] = y]
    BY DEF StepInsideAction, NextAction
  <1>3. x.phase = run[r].phase /\ x.of = run[r].of /\ x.mode = run[r].mode
    BY <1>1, StepChange
  <1>4. y.phase = run[r].phase /\ y.of = run[r].of /\ y.mode = run[r].mode
    BY <1>1, ActionChange
  <1> HIDE DEF x, y
  <1>5. \A p \in Runs : /\ run'[p].phase = run[p].phase /\ run'[p].of = run[p].of
                        /\ run'[p].mode = run[p].mode
    BY <1>1, <1>2, <1>3, <1>4
  <1>6. ASSUME NEW b \in Automations, running'[b] # NoRun
        PROVE  NamedIn(run', running'[b], b)
    <2>1. NamedIn(run, running[b], b) /\ running[b] \in Runs
      BY <1>1, <1>6, NamedInMap DEF NamedIn
    <2> QED BY <1>1, <1>5, <2>1, NamedStays
  <1> QED BY <1>6, MapNamesNext

LEMMA LeaveNamed ==
  ASSUME Base, MapNamesRuns, NEW r \in Runs, Live(r), Leave(r)
  PROVE  MapNamesRuns'
  <1> DEFINE a == run[r].of
             runs == [run EXCEPT ![r] = Idle]
  <1>1. /\ run \in [Runs -> RunRecord] /\ a \in Automations /\ run[r].phase = "acting"
        /\ running \in [Automations -> Runs \cup {NoRun}]
        /\ run[r].mode \in {"parallel", "single", "restart", "queued", "manual"}
    BY DEF Base, Typed, RunRecord, Modes, Live
  <1>2. /\ runs \in [Runs -> RunRecord] /\ runs[r].phase = "free"
        /\ \A p \in Runs \ {r} : runs[p] = run[p]
    BY <1>1, IdleType
  <1>3. \/ run' = runs /\ running' = running /\ run[r].mode \in {"parallel", "manual"}
        \/ run' = runs /\ running' = [running EXCEPT ![a] = NoRun]
        \/ \E skipped \in 0..Len(waiting[a]) : RunNextQueued(a, runs, skipped)
    BY <1>1 DEF Leave
  <1>4. run[r].of = a
    OBVIOUS
  <1> HIDE DEF runs, a
  <1>5. ASSUME NEW b \in Automations, running[b] # NoRun, b # a \/ run[r].mode \in {"parallel", "manual"}
        PROVE  NamedIn(run, running[b], b) /\ running[b] \in Runs \ {r}
    <2>1. NamedIn(run, running[b], b)
      BY <1>5, NamedInMap
    <2> QED BY <1>4, <1>5, <2>1 DEF NamedIn
  <1>6. CASE /\ run' = runs
             /\ \/ running' = running /\ run[r].mode \in {"parallel", "manual"}
                \/ running' = [running EXCEPT ![a] = NoRun]
    <2>1. ASSUME NEW b \in Automations, running'[b] # NoRun
          PROVE  NamedIn(run', running'[b], b)
      <3>1. running'[b] = running[b] /\ (b # a \/ run[r].mode \in {"parallel", "manual"})
        BY <1>1, <1>6, <2>1
      <3>2. NamedIn(run, running[b], b) /\ running[b] \in Runs \ {r}
        BY <1>5, <2>1, <3>1
      <3> QED BY <1>2, <1>6, <3>1, <3>2, SameRunNamed
    <2> QED BY <2>1, MapNamesNext
  <1>7. CASE \E skipped \in 0..Len(waiting[a]) : RunNextQueued(a, runs, skipped)
    <2>1. \A p \in Runs : runs[p] = run[p] \/ (run[p].phase # "queued" /\ runs[p].phase = "free")
      BY <1>1, <1>2
    <2>2. \A b \in Automations \ {a} : running[b] # NoRun => runs[running[b]] = run[running[b]]
      BY <1>2, <1>5
    <2> QED BY <1>1, <1>2, <1>7, <2>1, <2>2, NextQueuedNamed
  <1> QED BY <1>3, <1>6, <1>7

LEMMA NextNamed ==
  ASSUME Base, MapNamesRuns, [Next]_vars
  PROVE  MapNamesRuns'
  <1>1. CASE UNCHANGED <<run, running>>
    BY <1>1 DEF MapNamesRuns, Tracked, Live
  <1>2. ASSUME NEW r \in Runs, Finish(r) \/ StopAction(r)
        PROVE  MapNamesRuns'
    BY <1>2, LeaveNamed DEF Finish, StopAction
  <1> QED BY <1>1, <1>2, TriggersNamed, StepsNamed DEF Next, vars, RemoveAutomation, UpsertAutomation

-----------------------------------------------------------------------------
\* The loop of executeAutomation stays in the actions of the automation, and its finally block
\* leaves only runs in progress in runningAutomations, on every way out of the run and in
\* whatever way the modes are edited meanwhile.
THEOREM RunTypes == Spec => []TypeOK
  <1>1. Init => WithinBody /\ MapNamesRuns
    <2> SUFFICES ASSUME Init PROVE WithinBody /\ MapNamesRuns
      OBVIOUS
    <2>1. MapNamesRuns
      BY DEF Init, MapNamesRuns
    <2>2. ASSUME NEW r \in Runs
          PROVE  run[r].at \in 1..Len(Actions(r)) /\ run[r].step \in 1..Len(Steps(r))
      <3>1. run[r].at = 1 /\ run[r].step = 1 /\ run[r].of \in Automations
        BY IdleType DEF Init, RunRecord
      <3>2. Len(Actions(r)) \in Nat \ {0} /\ 1 \in 1..Len(Actions(r))
        BY <3>1, BodyTypes DEF Actions
      <3>3. Len(Steps(r)) \in Nat \ {0}
        BY <3>1, <3>2, BodyTypes DEF Actions, Steps
      <3> QED BY <3>1, <3>2, <3>3
    <2> QED BY <2>1, <2>2 DEF WithinBody
  <1>2. Base /\ Base' /\ WithinBody /\ MapNamesRuns /\ [Next]_vars => WithinBody' /\ MapNamesRuns'
    BY NextMoves, StaysWithinBody, NextNamed
  <1>3. Base /\ WithinBody /\ MapNamesRuns => TypeOK
    BY DEF Base, TypeOK
  <1> QED BY <1>1, <1>2, <1>3, BaseInvariant, PTL DEF Spec

\* A run whose signal is aborted stays aborted and begins nothing more, on any level of if,
\* repeat and choose, but the rest of a script it is in: in every mode and through every edit.
THEOREM AbortedRunsStop == Spec => CancelledRunsStop
  <1>1. Base /\ [Next]_vars =>
          [\A r \in Runs : Live(r) /\ run[r].aborted /\ Live(r)' =>
              /\ run'[r].aborted /\ run'[r].at = run[r].at
              /\ run'[r].step # run[r].step => ~Steps(r)[run'[r].step]]_vars
    BY NextMoves DEF Moves, Stays, Begins, Proceeds
  <1> QED BY <1>1, BaseInvariant, PTL DEF Spec, CancelledRunsStop

-----------------------------------------------------------------------------
(* Modes that are kept apart, and what the map holds.                      *)

LEMMA InitApart ==
  ASSUME Init, NEW S, NEW T, Apart(S, T)
  PROVE  KeptApart(S, T)
  <1>1. mode \in Mode0 /\ \A r \in Runs : run[r].phase = "free"
    BY IdleType DEF Init
  <1>2. \A a \in Automations : ({mode[a]} \cup Edits) \cap S = {} \/ ({mode[a]} \cup Edits) \cap T = {}
    BY <1>1 DEF Apart
  <1> QED BY <1>1, <1>2 DEF KeptApart, Avoids

LEMMA ModesEdited ==
  ASSUME Base, [Next]_vars
  PROVE  \A a \in Automations : mode'[a] \in {mode[a]} \cup Edits
  <1>1. mode \in [Automations -> Modes]
    BY DEF Base, Typed
  <1>2. CASE mode' = mode
    BY <1>2
  <1>3. ASSUME NEW b \in Automations, NEW m \in Edits \cup {mode[b]}, UpsertAutomation(b, m)
        PROVE  \A a \in Automations : mode'[a] \in {mode[a]} \cup Edits
    BY <1>1, <1>3 DEF UpsertAutomation
  <1>4. mode' = mode \/ \E b \in Automations : \E m \in Edits \cup {mode[b]} : UpsertAutomation(b, m)
    BY DEF Next, vars, TriggerParallel, TriggerSingle, RunNow, TriggerRestart, TriggerQueued,
           StepInsideAction, NextAction, Finish, StopAction, Leave, RemoveAutomation
  <1> QED BY <1>2, <1>3, <1>4

LEMMA StaysApart ==
  ASSUME Base, [Next]_vars, NEW S \in SUBSET Modes, NEW T \in SUBSET Modes, KeptApart(S, T)
  PROVE  KeptApart(S, T)'
  <1>1. ASSUME NEW a \in Automations, NEW X \in SUBSET Modes, Avoids(a, X)
        PROVE  Avoids(a, X)'
    <2>1. mode'[a] \in {mode[a]} \cup Edits /\ ({mode[a]} \cup Edits) \cap X = {}
      BY <1>1, ModesEdited DEF Avoids
    <2>2. ({mode'[a]} \cup Edits) \cap X = {}
      BY <2>1
    <2>3. ASSUME NEW r \in Runs, run'[r].phase # "free", run'[r].of = a
          PROVE  run'[r].mode \notin X
      <3>1. \/ run[r].phase # "free" /\ run[r].of = a /\ run'[r].mode = run[r].mode
            \/ run'[r].mode = mode[a] \/ run'[r].mode = "manual"
        BY <2>3, NextLawful DEF Lawful, RunsKeepTheirMode
      <3>2. "manual" \notin X
        BY DEF Modes
      <3> QED BY <1>1, <2>1, <3>1, <3>2 DEF Avoids
    <2> QED BY <2>2, <2>3 DEF Avoids
  <1> QED BY <1>1 DEF KeptApart

\* The modes that use the map.
MapModes == {"single", "restart", "queued"}

\* While the run that the map may forget is of a mode outside M, no run of the automation is
\* of a mode of M.
LEMMA OtherModes ==
  ASSUME NEW M \in SUBSET MapModes, KeptApart(M, MapModes \ M), NEW a \in Automations,
         \/ mode[a] \in MapModes \ M
         \/ \E r \in Runs : run[r].phase # "free" /\ run[r].of = a /\ run[r].mode \in MapModes \ M
  PROVE  \A p \in Runs : run[p].phase # "free" /\ run[p].of = a => run[p].mode \notin M
  BY DEF KeptApart, Avoids

\* The finally block in terms of the runs in progress afterwards.
LEMMA NextInMap ==
  ASSUME Base, NEW a \in Automations, NEW runs \in [Runs -> RunRecord],
         \A p \in Runs : runs[p] = run[p] \/ (run[p].phase # "queued" /\ runs[p].phase = "free"),
         NEW skipped \in 0..Len(waiting[a]), Called(a, runs, skipped, run', running', waiting'),
         NEW p \in Runs, Live(p)'
  PROVE  \/ run'[p].of = a /\ run'[p].mode = "queued" /\ running'[a] = p
         \/ Live(p) /\ run'[p] = run[p] /\ runs[p] = run[p]
  <1>1. Typed /\ QueueHolds /\ run[p] \in RunRecord
    BY DEF Base, Typed
  <1>2. run'[p].phase = "acting"
    BY DEF Live
  <1>3. \/ /\ run[p].of = a /\ run[p].mode = "queued"
           /\ run'[p] = [run[p] EXCEPT !.phase = "acting"] /\ running'[a] = p
        \/ run'[p] = runs[p]
    BY <1>1, <1>2, NextQueuedRuns
  <1>4. CASE run'[p] = runs[p]
    BY <1>2, <1>4 DEF Live
  <1>5. CASE /\ run[p].of = a /\ run[p].mode = "queued"
             /\ run'[p] = [run[p] EXCEPT !.phase = "acting"] /\ running'[a] = p
    BY <1>1, <1>5, PhaseChange
  <1> QED BY <1>3, <1>4, <1>5

LEMMA NextRunHolds ==
  ASSUME Base, NEW a \in Automations, NEW runs \in [Runs -> RunRecord],
         \A p \in Runs : runs[p] = run[p] \/ (run[p].phase # "queued" /\ runs[p].phase = "free"),
         NEW skipped \in 0..Len(waiting[a]), Called(a, runs, skipped, run', running', waiting'),
         NEW M \in SUBSET MapModes, Holds(M),
         \A p \in Runs : Live(p) /\ runs[p] = run[p] /\ run[p].of = a => run[p].mode \notin M
  PROVE  Holds(M)'
  <1>1. Typed /\ QueueHolds
    BY DEF Base
  <1>0. Settled(a, runs, skipped, run', running', waiting')
    BY <1>1, NextQueued, Zenon
  <1>2. \A b \in Automations \ {a} : running'[b] = running[b]
    BY <1>0 DEF Settled
  <1>3. ASSUME NEW p \in Runs, Live(p)', run'[p].mode \in M
        PROVE  running'[run'[p].of] = p
    <2>1. CASE run'[p].of = a /\ running'[a] = p
      BY <2>1
    <2>2. CASE Live(p) /\ run'[p] = run[p] /\ runs[p] = run[p]
      <3>1. run[p].of \in Automations \ {a}
        BY <1>1, <1>3, <2>2 DEF Typed, RunRecord
      <3> QED BY <1>2, <1>3, <2>2, <3>1 DEF Holds
    <2> QED BY <1>3, <2>1, <2>2, NextInMap
  <1> QED BY <1>3 DEF Holds

\* A run of a leaves, or one begins, and the map has the one of its modes that is in progress.
LEMMA HoldsKept ==
  ASSUME Base, NEW M \in SUBSET MapModes, Holds(M), NEW a \in Automations,
         \A b \in Automations \ {a} : running'[b] = running[b],
         \A p \in Runs : Live(p)' /\ run'[p].mode \in M =>
            \/ run'[p].of = a /\ running'[a] = p
            \/ /\ Live(p) /\ run'[p].of = run[p].of /\ run'[p].mode = run[p].mode
               /\ run[p].of # a \/ running'[a] = running[a]
  PROVE  Holds(M)'
  <1>1. ASSUME NEW p \in Runs, Live(p)', run'[p].mode \in M
        PROVE  running'[run'[p].of] = p
    <2>1. CASE run'[p].of = a /\ running'[a] = p
      BY <2>1
    <2>2. CASE /\ Live(p) /\ run'[p].of = run[p].of /\ run'[p].mode = run[p].mode
               /\ run[p].of # a \/ running'[a] = running[a]
      <3>1. running[run[p].of] = p
        BY <1>1, <2>2 DEF Holds
      <3>2. run[p].of \in Automations
        BY DEF Base, Typed, RunRecord
      <3> QED BY <2>2, <3>1, <3>2
    <2> QED BY <1>1, <2>1, <2>2
  <1> QED BY <1>1 DEF Holds

LEMMA HoldsTrigger ==
  ASSUME Base, NEW M \in SUBSET MapModes, "restart" \notin M, KeptApart(M, MapModes \ M), Holds(M),
         NEW a \in Automations, NEW r \in Runs, NEW hasActions \in BOOLEAN,
         \/ TriggerParallel(a, r) \/ TriggerSingle(a, r) \/ RunNow(a, r)
         \/ TriggerRestart(a, r, hasActions)
  PROVE  Holds(M)'
  <1>1. Typed /\ run[r].phase = "free"
    BY DEF Base, TriggerParallel, TriggerSingle, RunNow, TriggerRestart, CanTrigger
  <1>2. CASE TriggerParallel(a, r) \/ RunNow(a, r)
    <2>1. PICK m \in {"parallel", "manual"} :
            run' = [run EXCEPT ![r] = NewRun(a, m, "acting")] /\ running' = running
      BY <1>2 DEF TriggerParallel, RunNow
    <2>2. run'[r].mode = m /\ m \notin M
      BY <1>1, <2>1 DEF Typed, MapModes, NewRun
    <2>3. \A p \in Runs \ {r} : run'[p] = run[p]
      BY <1>1, <2>1 DEF Typed
    <2> QED BY <2>1, <2>2, <2>3, HoldsKept DEF Live
  <1>3. CASE TriggerSingle(a, r)
    <2>1. /\ run' = [run EXCEPT ![r] = NewRun(a, "single", "acting")]
          /\ running' = [running EXCEPT ![a] = r]
          /\ running[a] = NoRun /\ mode[a] = "single"
      BY <1>3 DEF TriggerSingle, CanTrigger
    <2>2. /\ run'[r].of = a /\ running'[a] = r
          /\ \A p \in Runs \ {r} : run'[p] = run[p]
          /\ \A b \in Automations \ {a} : running'[b] = running[b]
      BY <1>1, <2>1 DEF Typed, NewRun
    <2>3. \A p \in Runs : Live(p) /\ run[p].of = a => run[p].mode \notin M
      <3>1. CASE "single" \in M
        BY <2>1, RunsAssumption DEF Holds
      <3>2. CASE "single" \notin M
        <4>1. mode[a] \in MapModes \ M
          BY <2>1, <3>2 DEF MapModes
        <4> QED BY <4>1, OtherModes DEF Live
      <3> QED BY <3>1, <3>2
    <2> QED BY <2>2, <2>3, HoldsKept DEF Live
  <1>4. CASE TriggerRestart(a, r, hasActions)
    <2> DEFINE aborted == [p \in Runs |-> IF p = running[a]
                                          THEN [run[p] EXCEPT !.aborted = TRUE] ELSE run[p]]
    <2>1. /\ mode[a] = "restart"
          /\ \/ /\ run' = [aborted EXCEPT ![r] = NewRun(a, "restart", "acting")]
                /\ running' = [running EXCEPT ![a] = r]
             \/ /\ run' = aborted
                /\ running' = [running EXCEPT ![a] = NoRun]
      BY <1>4 DEF TriggerRestart, CanTrigger
    <2>2. \A p \in Runs : /\ aborted[p].phase = run[p].phase /\ aborted[p].of = run[p].of
                          /\ aborted[p].mode = run[p].mode
      BY <1>1, AbortedRun DEF Typed
    <2>3. aborted \in [Runs -> RunRecord]
      BY <1>1, AbortedRun DEF Typed
    <2> HIDE DEF aborted
    <2>4. /\ \A p \in Runs \ {r} : /\ run'[p].phase = run[p].phase /\ run'[p].of = run[p].of
                                   /\ run'[p].mode = run[p].mode
          /\ \A b \in Automations \ {a} : running'[b] = running[b]
      BY <1>1, <2>1, <2>2, <2>3 DEF Typed
    <2>5. Live(r)' => run'[r].of = a /\ running'[a] = r
      <3>1. CASE run' = aborted
        BY <1>1, <2>2, <3>1 DEF Live
      <3>2. CASE /\ run' = [aborted EXCEPT ![r] = NewRun(a, "restart", "acting")]
                 /\ running' = [running EXCEPT ![a] = r]
        <4>1. running'[a] = r
          BY <1>1, <3>2 DEF Typed
        <4>2. run'[r] = NewRun(a, "restart", "acting")
          BY <2>3, <3>2
        <4> QED BY <4>1, <4>2 DEF NewRun
      <3> QED BY <2>1, <3>1, <3>2, Zenon
    <2>6. \A p \in Runs : Live(p) /\ run[p].of = a => run[p].mode \notin M
      <3>1. mode[a] \in MapModes \ M
        BY <2>1 DEF MapModes
      <3> QED BY <3>1, OtherModes DEF Live
    <2> QED BY <2>4, <2>5, <2>6, HoldsKept DEF Live
  <1> QED BY <1>2, <1>3, <1>4

LEMMA HoldsTriggerQueued ==
  ASSUME Base, NEW M \in SUBSET MapModes, KeptApart(M, MapModes \ M), Holds(M),
         NEW a \in Automations, NEW r \in Runs, NEW hasActions \in BOOLEAN,
         TriggerQueued(a, r, hasActions)
  PROVE  Holds(M)'
  <1>1. Typed /\ run[r].phase = "free" /\ mode[a] = "queued"
    BY DEF Base, TriggerQueued, CanTrigger
  <1>2. CASE running[a] # NoRun
    <2>1. /\ running' = running /\ run'[r] = NewRun(a, "queued", "queued")
          /\ \A p \in Runs \ {r} : run'[p] = run[p]
      BY <1>2, EnqueueOK
    <2>2. run'[r].phase = "queued"
      BY <2>1 DEF NewRun
    <2> QED BY <2>1, <2>2, HoldsKept DEF Live
  <1>3. CASE running[a] = NoRun
    <2>1. \A p \in Runs : Live(p) /\ run[p].of = a => run[p].mode \notin M
      BY <1>3, RunsAssumption DEF Holds
    <2>2. CASE hasActions
      <3>1. /\ run' = [run EXCEPT ![r] = NewRun(a, "queued", "acting")]
            /\ running' = [running EXCEPT ![a] = r]
        BY <1>3, <2>2 DEF TriggerQueued
      <3>2. /\ run'[r].of = a /\ running'[a] = r
            /\ \A p \in Runs \ {r} : run'[p] = run[p]
            /\ \A b \in Automations \ {a} : running'[b] = running[b]
        BY <1>1, <3>1 DEF Typed, NewRun
      <3> QED BY <2>1, <3>2, HoldsKept DEF Live
    <2>3. CASE ~hasActions
      <3>1. PICK skipped \in 0..Len(waiting[a]) : RunNextQueued(a, run, skipped)
        BY <1>3, <2>3 DEF TriggerQueued
      <3>2. Called(a, run, skipped, run', running', waiting')
        BY <3>1, Zenon DEF RunNextQueued, Called
      <3>3. /\ run \in [Runs -> RunRecord]
            /\ \A p \in Runs : run[p] = run[p] \/ (run[p].phase # "queued" /\ run[p].phase = "free")
            /\ \A p \in Runs : Live(p) /\ run[p] = run[p] /\ run[p].of = a => run[p].mode \notin M
        BY <1>1, <2>1 DEF Typed
      <3> QED BY <3>2, <3>3, NextRunHolds, Zenon
    <2> QED BY <2>2, <2>3
  <1> QED BY <1>2, <1>3

LEMMA HoldsLeave ==
  ASSUME Base, NEW M \in SUBSET MapModes, KeptApart(M, MapModes \ M), Holds(M),
         NEW r \in Runs, Live(r), Leave(r)
  PROVE  Holds(M)'
  <1> DEFINE a == run[r].of
             runs == [run EXCEPT ![r] = Idle]
  <1>1. Typed /\ a \in Automations /\ run[r].phase = "acting"
    BY DEF Base, Typed, RunRecord, Live
  <1>2. /\ runs \in [Runs -> RunRecord] /\ runs[r].phase = "free" /\ runs[r] # run[r]
        /\ \A p \in Runs \ {r} : runs[p] = run[p]
    BY <1>1, IdleType DEF Typed
  <1>3. run[r].mode \in {"parallel", "single", "restart", "queued", "manual"}
    BY <1>1 DEF Typed, RunRecord, Modes
  <1> HIDE DEF runs
  <1>4. CASE run[r].mode \in {"parallel", "manual"}
    <2>1. run' = runs /\ running' = running
      BY <1>4 DEF Leave, runs
    <2> QED BY <1>1, <1>2, <2>1, HoldsKept DEF Live
  <1>5. CASE run[r].mode \in MapModes
    <2>1. \A p \in Runs \ {r} : Live(p) /\ run[p].of = a => run[p].mode \notin M
      <3>1. CASE run[r].mode \in M
        BY <3>1 DEF Holds
      <3>2. CASE run[r].mode \notin M
        <4>1. \E q \in Runs : run[q].phase # "free" /\ run[q].of = a /\ run[q].mode \in MapModes \ M
          BY <1>1, <1>5, <3>2
        <4> QED BY <1>1, <4>1, OtherModes DEF Live
      <3> QED BY <3>1, <3>2
    <2>2. CASE run[r].mode \in {"single", "restart"}
      <3>1. run' = runs /\ running' = [running EXCEPT ![a] = NoRun]
        BY <2>2 DEF Leave, runs
      <3>2. \A b \in Automations \ {a} : running'[b] = running[b]
        BY <1>1, <3>1 DEF Typed
      <3> HIDE DEF a
      <3>3. \A p \in Runs : Live(p)' /\ run'[p].mode \in M =>
              /\ Live(p) /\ run'[p].of = run[p].of /\ run'[p].mode = run[p].mode
              /\ run[p].of # a
        BY <1>2, <2>1, <3>1 DEF Live
      <3> QED BY <1>1, <3>2, <3>3, HoldsKept
    <2>3. CASE run[r].mode = "queued"
      <3>1. PICK skipped \in 0..Len(waiting[a]) : RunNextQueued(a, runs, skipped)
        BY <2>3 DEF Leave, runs
      <3>2. Called(a, runs, skipped, run', running', waiting')
        BY <3>1, Zenon DEF RunNextQueued, Called
      <3> HIDE DEF a
      <3>3. /\ \A p \in Runs : runs[p] = run[p] \/ (run[p].phase # "queued" /\ runs[p].phase = "free")
            /\ \A p \in Runs : Live(p) /\ runs[p] = run[p] /\ run[p].of = a => run[p].mode \notin M
        BY <1>1, <1>2, <2>1
      <3> QED BY <1>1, <1>2, <3>2, <3>3, NextRunHolds, Zenon
    <2> QED BY <1>5, <2>2, <2>3 DEF MapModes
  <1> QED BY <1>3, <1>4, <1>5 DEF MapModes

\* Nothing begins or ends.
LEMMA HoldsStill ==
  ASSUME NEW M, Holds(M), running' = running,
         \A p \in Runs : /\ run'[p].phase = run[p].phase /\ run'[p].of = run[p].of
                         /\ run'[p].mode = run[p].mode
  PROVE  Holds(M)'
  BY DEF Holds, Live

LEMMA StepsKeepShape ==
  ASSUME Base, NEW r \in Runs, StepInsideAction(r) \/ NextAction(r)
  PROVE  /\ UNCHANGED <<known, mode, running, waiting, ahead>>
         /\ \A p \in Runs : /\ run'[p].phase = run[p].phase /\ run'[p].of = run[p].of
                            /\ run'[p].mode = run[p].mode
  <1>1. Typed /\ run[r] \in RunRecord /\ UNCHANGED <<known, mode, running, waiting, ahead>>
    BY DEF Base, Typed, StepInsideAction, NextAction
  <1> DEFINE x == [run[r] EXCEPT !.step = @ + 1]
             y == [run[r] EXCEPT !.at = @ + 1, !.step = 1]
  <1>2. x.phase = run[r].phase /\ x.of = run[r].of /\ x.mode = run[r].mode
    BY <1>1 DEF RunRecord
  <1>3. y.phase = run[r].phase /\ y.of = run[r].of /\ y.mode = run[r].mode
    BY <1>1, ActionChange
  <1>4. run' = [run EXCEPT ![r] = x] \/ run' = [run EXCEPT ![r] = y]
    BY DEF StepInsideAction, NextAction
  <1> HIDE DEF x, y
  <1>5. /\ \A p \in Runs \ {r} : run'[p] = run[p]
        /\ run'[r] = x \/ run'[r] = y
    BY <1>1, <1>4 DEF Typed
  <1> QED BY <1>1, <1>2, <1>3, <1>5

LEMMA HoldsNext ==
  ASSUME Base, [Next]_vars, NEW M \in SUBSET MapModes, "restart" \notin M,
         KeptApart(M, MapModes \ M), Holds(M)
  PROVE  Holds(M)'
  <1>1. ASSUME NEW a \in Automations, NEW r \in Runs,
               \/ TriggerParallel(a, r) \/ TriggerSingle(a, r) \/ RunNow(a, r)
               \/ \E hasActions \in BOOLEAN : TriggerRestart(a, r, hasActions)
        PROVE  Holds(M)'
    BY <1>1, HoldsTrigger
  <1>2. ASSUME NEW a \in Automations, NEW r \in Runs, NEW hasActions \in BOOLEAN,
               TriggerQueued(a, r, hasActions)
        PROVE  Holds(M)'
    BY <1>2, HoldsTriggerQueued
  <1>3. ASSUME NEW r \in Runs, StepInsideAction(r) \/ NextAction(r)
        PROVE  Holds(M)'
    BY <1>3, StepsKeepShape, HoldsStill
  <1>4. ASSUME NEW r \in Runs, Finish(r) \/ StopAction(r)
        PROVE  Holds(M)'
    BY <1>4, HoldsLeave DEF Finish, StopAction
  <1>5. CASE UNCHANGED <<running, run>>
    BY <1>5, HoldsStill
  <1>6. ASSUME NEW a \in Automations,
               RemoveAutomation(a) \/ \E m \in Edits \cup {mode[a]} : UpsertAutomation(a, m)
        PROVE  Holds(M)'
    BY <1>5, <1>6 DEF RemoveAutomation, UpsertAutomation
  <1> QED BY <1>1, <1>2, <1>3, <1>4, <1>5, <1>6 DEF Next, vars

-----------------------------------------------------------------------------
\* When no automation is ever configured both with the restart mode and with one of the
\* modes single and queued, runs of these two do not overlap: whatever is triggered, edited
\* and stopped, the map holds the one that is in progress.
THEOREM RunsDoNotOverlap ==
    Apart({"single", "queued"}, {"restart"}) => (Spec => []NoOverlap)
  <1> SUFFICES ASSUME Apart({"single", "queued"}, {"restart"}) PROVE Spec => []NoOverlap
    OBVIOUS
  <1>1. Init => OverlapInv
    <2>1. Init => Holds({"single", "queued"})
      BY IdleType DEF Init, Holds, Live
    <2> QED BY <2>1, InitBase, InitApart DEF OverlapInv
  <1>2. OverlapInv /\ [Next]_vars => OverlapInv'
    <2> SUFFICES ASSUME OverlapInv, [Next]_vars PROVE OverlapInv'
      OBVIOUS
    <2> DEFINE M == {"single", "queued"}
    <2>1. M \in SUBSET MapModes /\ MapModes \ M = {"restart"}
      BY DEF MapModes
    <2>2. Base /\ KeptApart(M, MapModes \ M) /\ Holds(M)
      BY <2>1 DEF OverlapInv
    <2>3. Base'
      BY <2>2, NextLawful DEF Lawful
    <2>4. KeptApart(M, {"restart"})'
      <3>1. M \in SUBSET Modes /\ {"restart"} \in SUBSET Modes
        BY DEF Modes
      <3> QED BY <3>1, StaysApart DEF OverlapInv
    <2>5. Holds(M)'
      BY <2>1, <2>2, HoldsNext
    <2> QED BY <2>3, <2>4, <2>5 DEF OverlapInv
  <1>3. OverlapInv => NoOverlap
    BY DEF OverlapInv, Holds, NoOverlap, Tracked
  <1> QED BY <1>1, <1>2, <1>3, PTL DEF Spec

-----------------------------------------------------------------------------
(* The order of the queue.                                                 *)

LEMMA QueueModes ==
  /\ {"queued"} \in SUBSET MapModes /\ "restart" \notin {"queued"}
  /\ MapModes \ {"queued"} = {"single", "restart"}
  /\ {"queued"} \in SUBSET Modes /\ {"single", "restart"} \in SUBSET Modes
  BY DEF MapModes, Modes

LEMMA NobodyWaits ==
  ASSUME QueueInv, NEW a \in Automations,
         \/ mode[a] \in {"single", "restart"}
         \/ \E r \in Runs : run[r].phase # "free" /\ run[r].of = a /\ run[r].mode \in {"single", "restart"}
  PROVE  waiting[a] = <<>>
  <1>1. Base /\ Typed /\ QueueHolds /\ KeptApart({"queued"}, MapModes \ {"queued"})
    BY QueueModes DEF QueueInv, Ordered, Base
  <1>2. \A p \in Runs : run[p].phase # "free" /\ run[p].of = a => run[p].mode \notin {"queued"}
    BY <1>1, QueueModes, OtherModes
  <1>3. Len(waiting[a]) \in Nat /\ \A i \in Places(a) : waiting[a][i] \in Runs
    BY <1>1, WaitingTypes
  <1>4. ASSUME Len(waiting[a]) # 0
        PROVE  FALSE
    <2>1. 1 \in Places(a)
      BY <1>3, <1>4 DEF Places
    <2>2. InQueuedMode(waiting[a][1], a) /\ waiting[a][1] \in Runs
      BY <1>1, <1>3, <2>1 DEF QueueHolds
    <2> QED BY <1>2, <2>2 DEF InQueuedMode
  <1> QED BY <1>1, <1>4, WaitingTypes

\* A step after which no other run is in the queued mode.
LEMMA OrderKept ==
  ASSUME QueueInv, waiting' = waiting, ahead' = ahead,
         \A p \in Runs : run'[p].phase # "free" /\ run'[p].mode = "queued" =>
            run'[p].phase = run[p].phase /\ run'[p].of = run[p].of /\ run'[p].mode = run[p].mode
  PROVE  QueueInOrder' /\ QueuedInOrder'
  <1>1. Typed /\ QueueInOrder /\ QueuedInOrder
    BY DEF QueueInv, Ordered, Base
  <1>2. ASSUME NEW p \in Runs, NEW a \in Automations, InQueuedMode(p, a)'
        PROVE  InQueuedMode(p, a) /\ (Live(p) <=> Live(p)')
    BY <1>2 DEF InQueuedMode, Live
  <1>3. ASSUME NEW a \in Automations, NEW i \in Places(a)', NEW p \in ahead'[waiting'[a][i]],
               InQueuedMode(p, a)'
        PROVE  Live(p)' \/ \E j \in 1..(i - 1) : waiting'[a][j] = p
    <2>1. i \in Places(a) /\ p \in ahead[waiting[a][i]]
      BY DEF Places
    <2>2. waiting[a][i] \in Runs
      BY <1>1, <2>1, WaitingTypes
    <2>3. p \in Runs
      BY <1>1, <2>1, <2>2 DEF Typed
    <2> QED BY <1>1, <1>2, <1>3, <2>1, <2>3 DEF QueueInOrder
  <1>4. ASSUME NEW r \in Runs, Live(r)', run'[r].mode = "queued", NEW p \in ahead'[r],
               InQueuedMode(p, run[r].of)'
        PROVE  FALSE
    <2>1. Live(r) /\ run[r].mode = "queued" /\ run'[r].of = run[r].of /\ run[r].of \in Automations
      BY <1>1, <1>4 DEF Live, Typed, RunRecord
    <2>2. p \in Runs /\ p \in ahead[r]
      BY <1>1 DEF Typed
    <2>3. InQueuedMode(p, run[r].of)
      BY <1>2, <1>4, <2>1, <2>2 DEF InQueuedMode
    <2> QED BY <1>1, <2>1, <2>2, <2>3 DEF QueuedInOrder
  <1> QED BY <1>3, <1>4 DEF QueueInOrder, QueuedInOrder

LEMMA OrderTrigger ==
  ASSUME QueueInv, NEW a \in Automations, NEW r \in Runs, NEW hasActions \in BOOLEAN,
         \/ TriggerParallel(a, r) \/ TriggerSingle(a, r) \/ RunNow(a, r)
         \/ TriggerRestart(a, r, hasActions)
  PROVE  Ordered'
  <1>1. /\ Base /\ Typed /\ run[r].phase = "free" /\ waiting' = waiting /\ ahead' = ahead
        /\ QueuesAreServed
    BY DEF QueueInv, Ordered, Base, TriggerParallel, TriggerSingle, RunNow, TriggerRestart, CanTrigger
  <1> DEFINE aborted == [p \in Runs |-> IF p = running[a]
                                        THEN [run[p] EXCEPT !.aborted = TRUE] ELSE run[p]]
  <1>2. \E m \in {"parallel", "single", "restart", "manual"} :
           \/ run' = [run EXCEPT ![r] = NewRun(a, m, "acting")]
           \/ run' = [aborted EXCEPT ![r] = NewRun(a, m, "acting")]
           \/ run' = aborted
    <2>1. CASE TriggerParallel(a, r) \/ TriggerSingle(a, r) \/ RunNow(a, r)
      BY <2>1 DEF TriggerParallel, TriggerSingle, RunNow
    <2>2. CASE TriggerRestart(a, r, hasActions)
      BY <2>2 DEF TriggerRestart
    <2> QED BY <2>1, <2>2
  <1>3. /\ aborted \in [Runs -> RunRecord]
        /\ \A p \in Runs : /\ aborted[p].phase = run[p].phase /\ aborted[p].of = run[p].of
                           /\ aborted[p].mode = run[p].mode
    BY <1>1, AbortedRun DEF Typed
  <1>4. \/ running' = running \/ running' = [running EXCEPT ![a] = r]
        \/ running' = [running EXCEPT ![a] = NoRun] /\ mode[a] = "restart"
    BY DEF TriggerParallel, TriggerSingle, RunNow, TriggerRestart
  <1> HIDE DEF aborted
  <1>5. ASSUME NEW p \in Runs, run'[p].phase # "free", run'[p].mode = "queued"
        PROVE  run'[p].phase = run[p].phase /\ run'[p].of = run[p].of /\ run'[p].mode = run[p].mode
    <2>1. PICK m \in {"parallel", "single", "restart", "manual"} :
             \/ run' = [run EXCEPT ![r] = NewRun(a, m, "acting")]
             \/ run' = [aborted EXCEPT ![r] = NewRun(a, m, "acting")]
             \/ run' = aborted
      BY <1>2
    <2>2. NewRun(a, m, "acting").mode # "queued"
      BY DEF NewRun
    <2>3. \/ run'[p] = run[p] \/ run'[p] = aborted[p] \/ run'[p] = NewRun(a, m, "acting")
      BY <1>1, <1>3, <2>1 DEF Typed
    <2> QED BY <1>3, <1>5, <2>2, <2>3
  <1>6. QueueInOrder' /\ QueuedInOrder'
    BY <1>1, <1>5, OrderKept
  <1>7. ASSUME NEW b \in Automations, waiting'[b] # <<>>
        PROVE  running'[b] # NoRun
    <2>1. running[b] # NoRun /\ waiting[b] # <<>>
      BY <1>1, <1>7 DEF QueuesAreServed
    <2>2. mode[a] = "restart" => b # a
      BY <2>1, NobodyWaits
    <2> QED BY <1>1, <1>4, <2>1, <2>2, RunsAssumption DEF Typed
  <1> QED BY <1>6, <1>7 DEF Ordered, QueuesAreServed

LEMMA OrderStill ==
  ASSUME QueueInv, UNCHANGED <<running, waiting, ahead>>,
         \A p \in Runs : /\ run'[p].phase = run[p].phase /\ run'[p].of = run[p].of
                         /\ run'[p].mode = run[p].mode
  PROVE  Ordered'
  <1>1. QueueInOrder' /\ QueuedInOrder'
    BY OrderKept
  <1> QED BY <1>1 DEF Ordered, QueuesAreServed, QueueInv, Ordered

\* Who waits or acts when the queue is empty and the map has no run.
LEMMA NobodyAhead ==
  ASSUME QueueInv, NEW a \in Automations, running[a] = NoRun
  PROVE  waiting[a] = <<>> /\ \A p \in Runs : ~InQueuedMode(p, a)
  <1>1. /\ Base /\ Typed /\ QueueHolds /\ Holds({"queued"}) /\ QueuesAreServed
    BY DEF QueueInv, Ordered, Base
  <1>2. waiting[a] = <<>>
    BY <1>1 DEF QueuesAreServed
  <1>3. Places(a) = {}
    BY <1>1, <1>2, WaitingTypes DEF Places
  <1>4. ASSUME NEW p \in Runs, InQueuedMode(p, a)
        PROVE  FALSE
    <2>1. run[p].phase \in {"queued", "acting"} /\ run[p].of = a /\ run[p].mode = "queued"
      BY <1>1, <1>4 DEF InQueuedMode, Typed, RunRecord
    <2>2. CASE run[p].phase = "queued"
      BY <1>1, <1>3, <2>1, <2>2 DEF QueueHolds
    <2>3. CASE run[p].phase = "acting"
      BY <1>1, <2>1, <2>3, RunsAssumption DEF Holds, Live
    <2> QED BY <2>1, <2>2, <2>3
  <1> QED BY <1>2, <1>4

LEMMA OrderTriggerQueued ==
  ASSUME QueueInv, NEW a \in Automations, NEW r \in Runs, NEW hasActions \in BOOLEAN,
         TriggerQueued(a, r, hasActions)
  PROVE  Ordered'
  <1>1. /\ Base /\ Typed /\ QueueHolds /\ Holds({"queued"})
        /\ QueuesAreServed /\ QueueInOrder /\ QueuedInOrder
        /\ run[r].phase = "free" /\ mode[a] = "queued"
        /\ Len(waiting[a]) \in Nat
        /\ \A b \in Automations : \A i \in Places(b) : waiting[b][i] \in Runs
    BY WaitingTypes DEF QueueInv, Ordered, Base, TriggerQueued, CanTrigger
  <1>2. /\ \A p \in Runs \ {r} : ahead'[p] = ahead[p] \ {r} /\ ahead[p] \subseteq Runs
        /\ ahead'[r] = {o \in Runs : InQueuedMode(o, a)}
    BY <1>1 DEF TriggerQueued, Typed
  <1>3. \A b \in Automations : \A i \in Places(b) : waiting[b][i] \in Runs \ {r}
    BY <1>1 DEF QueueHolds
  <1>4. \A b \in Automations : ~InQueuedMode(r, b)
    BY <1>1 DEF InQueuedMode
  \* What the others are behind.
  <1>5. ASSUME \A p \in Runs \ {r} : run'[p] = run[p],
               NEW o \in Runs \ {r}, Live(o)', run'[o].mode = "queued",
               NEW p \in ahead'[o], InQueuedMode(p, run[o].of)'
        PROVE  FALSE
    <2>1. p \in Runs \ {r} /\ p \in ahead[o] /\ run'[p] = run[p] /\ run'[o] = run[o]
      BY <1>2, <1>5
    <2>2. Live(o) /\ run[o].mode = "queued" /\ InQueuedMode(p, run[o].of)
      BY <1>5, <2>1 DEF Live, InQueuedMode
    <2> QED BY <1>1, <2>1, <2>2 DEF QueuedInOrder
  <1>6. ASSUME \A p \in Runs \ {r} : run'[p] = run[p],
               NEW b \in Automations, NEW i \in Places(b), NEW p \in ahead'[waiting[b][i]],
               InQueuedMode(p, b)'
        PROVE  Live(p)' \/ \E j \in 1..(i - 1) : waiting[b][j] = p
    <2>1. p \in Runs \ {r} /\ p \in ahead[waiting[b][i]] /\ run'[p] = run[p]
      BY <1>2, <1>3, <1>6
    <2>2. InQueuedMode(p, b) /\ (Live(p) <=> Live(p)')
      BY <1>6, <2>1 DEF Live, InQueuedMode
    <2> QED BY <1>1, <2>1, <2>2 DEF QueueInOrder
  <1>7. CASE running[a] # NoRun
    <2>1. /\ run'[r] = NewRun(a, "queued", "queued") /\ running' = running
          /\ \A p \in Runs \ {r} : run'[p] = run[p]
          /\ \A b \in Automations \ {a} : waiting'[b] = waiting[b]
          /\ Len(waiting'[a]) = Len(waiting[a]) + 1
          /\ waiting'[a][Len(waiting[a]) + 1] = r
          /\ \A i \in Places(a) : waiting'[a][i] = waiting[a][i]
      BY <1>1, <1>7, EnqueueOK
    <2>2. ~Live(r)'
      BY <2>1 DEF NewRun, Live
    <2>3. QueuesAreServed'
      BY <1>1, <1>7, <2>1 DEF QueuesAreServed
    <2>4. QueuedInOrder'
      BY <1>5, <2>1, <2>2 DEF QueuedInOrder
    <2>5. ASSUME NEW b \in Automations, NEW i \in Places(b)', NEW p \in ahead'[waiting'[b][i]],
                 InQueuedMode(p, b)'
          PROVE  Live(p)' \/ \E j \in 1..(i - 1) : waiting'[b][j] = p
      <3>1. CASE i \in Places(b)
        <4>1. /\ waiting'[b][i] = waiting[b][i]
              /\ \A j \in 1..(i - 1) : waiting'[b][j] = waiting[b][j]
          <5>1. \A j \in 1..(i - 1) : j \in Places(b)
            BY <3>1 DEF Places
          <5> QED BY <2>1, <3>1, <5>1
        <4>2. Live(p)' \/ \E j \in 1..(i - 1) : waiting[b][j] = p
          BY <1>6, <2>1, <2>5, <3>1, <4>1
        <4> QED BY <4>1, <4>2
      <3>2. CASE i \notin Places(b)
        <4>1. b = a /\ i = Len(waiting[a]) + 1
          BY <1>1, <2>1, <3>2 DEF Places
        <4>2. p \in Runs \ {r} /\ InQueuedMode(p, a) /\ run'[p] = run[p]
          BY <1>2, <1>4, <2>1, <4>1
        <4>3. CASE run[p].phase = "queued"
          <5>1. run[p].of = a
            BY <4>2 DEF InQueuedMode
          <5>2. PICK j \in Places(a) : waiting[a][j] = p
            BY <1>1, <4>2, <4>3, <5>1 DEF QueueHolds
          <5>3. j \in 1..(i - 1)
            BY <1>1, <4>1 DEF Places
          <5> QED BY <2>1, <4>1, <5>2, <5>3
        <4>4. CASE run[p].phase # "queued"
          <5>1. run[p].phase = "acting"
            BY <1>1, <4>2, <4>4 DEF InQueuedMode, Typed, RunRecord
          <5> QED BY <4>2, <5>1 DEF Live
        <4> QED BY <4>3, <4>4
      <3> QED BY <3>1, <3>2
    <2> QED BY <2>3, <2>4, <2>5 DEF Ordered, QueueInOrder
  <1>8. CASE running[a] = NoRun
    <2>1. waiting[a] = <<>> /\ \A p \in Runs : ~InQueuedMode(p, a)
      BY <1>8, NobodyAhead
    <2>2. /\ \A p \in Runs \ {r} : run'[p] = run[p]
          /\ \A b \in Automations \ {a} : waiting'[b] = waiting[b] /\ running'[b] = running[b]
          /\ waiting'[a] = <<>>
          /\ Live(r)' => run'[r].of = a
      <3>1. CASE hasActions
        <4>1. /\ run' = [run EXCEPT ![r] = NewRun(a, "queued", "acting")]
              /\ running' = [running EXCEPT ![a] = r] /\ waiting' = waiting
          BY <1>8, <3>1 DEF TriggerQueued
        <4> QED BY <1>1, <2>1, <4>1 DEF Typed, NewRun
      <3>2. CASE ~hasActions
        <4>1. PICK skipped \in 0..Len(waiting[a]) : RunNextQueued(a, run, skipped)
          BY <1>8, <3>2 DEF TriggerQueued
        <4>2. Called(a, run, skipped, run', running', waiting')
          BY <4>1, Zenon DEF RunNextQueued, Called
        <4>3. run \in [Runs -> RunRecord]
          BY <1>1 DEF Typed
        <4>4. Settled(a, run, skipped, run', running', waiting')
          BY <1>1, <4>2, <4>3, NextQueued, Zenon
        <4>5. Len(waiting[a]) = 0 /\ skipped = 0 /\ Places(a) = {}
          BY <2>1, <1>1, WaitingTypes DEF Places
        <4>6. /\ \A p \in Runs : run'[p] = run[p]
              /\ \A b \in Automations \ {a} : waiting'[b] = waiting[b] /\ running'[b] = running[b]
              /\ waiting' \in [Automations -> Seq(Runs)] /\ Len(waiting'[a]) = 0
          BY <4>4, <4>5 DEF Settled
        <4>7. waiting'[a] = <<>>
          BY <4>6, EmptySeq
        <4> QED BY <1>1, <4>6, <4>7 DEF Live
      <3> QED BY <3>1, <3>2
    <2>3. QueuesAreServed'
      BY <1>1, <2>2 DEF QueuesAreServed
    <2>4. QueuedInOrder'
      <3>1. ASSUME Live(r)', NEW p \in ahead'[r]
            PROVE  ~InQueuedMode(p, run[r].of)'
        <4>1. p \in Runs /\ InQueuedMode(p, a)
          BY <1>2
        <4> QED BY <2>1, <4>1
      <3> QED BY <1>5, <2>2, <3>1 DEF QueuedInOrder
    <2>5. ASSUME NEW b \in Automations, NEW i \in Places(b)', NEW p \in ahead'[waiting'[b][i]],
                 InQueuedMode(p, b)'
          PROVE  Live(p)' \/ \E j \in 1..(i - 1) : waiting'[b][j] = p
      <3>1. waiting'[b] = waiting[b]
        BY <2>1, <2>2
      <3>2. i \in Places(b)
        BY <3>1 DEF Places
      <3> QED BY <1>6, <2>2, <2>5, <3>1, <3>2
    <2> QED BY <2>3, <2>4, <2>5 DEF Ordered, QueueInOrder
  <1> QED BY <1>7, <1>8

\* The finally block of a queued run.
LEMMA OrderAfterNext ==
  ASSUME QueueInv, NEW r \in Runs, Live(r), run[r].mode = "queued",
         NEW a \in Automations, run[r].of = a,
         NEW runs \in [Runs -> RunRecord], runs[r].phase = "free",
         \A p \in Runs \ {r} : runs[p] = run[p],
         NEW skipped \in 0..Len(waiting[a]), Called(a, runs, skipped, run', running', waiting'),
         ahead' = ahead
  PROVE  Ordered'
  <1> DEFINE q == waiting[a]
  <1>1. /\ Base /\ Typed /\ QueueHolds /\ Holds({"queued"})
        /\ QueuesAreServed /\ QueueInOrder /\ QueuedInOrder
        /\ Len(q) \in Nat /\ skipped \in Nat /\ skipped <= Len(q)
        /\ run[r].phase = "acting"
        /\ \A b \in Automations : \A i \in Places(b) : waiting[b][i] \in Runs
    BY WaitingTypes DEF QueueInv, Ordered, Base, Live
  <1>2. \A p \in Runs : runs[p] = run[p] \/ (run[p].phase # "queued" /\ runs[p].phase = "free")
    BY <1>1
  <1>3. Settled(a, runs, skipped, run', running', waiting')
    BY <1>1, NextQueued, Zenon
  <1>4. /\ \A b \in Automations \ {a} : waiting'[b] = waiting[b] /\ running'[b] = running[b]
        /\ skipped = Len(q) => running'[a] = NoRun /\ Len(waiting'[a]) = 0
        /\ skipped # Len(q) => running'[a] = q[skipped + 1]
        /\ \A i \in 1..Len(waiting'[a]) :
              i + (skipped + 1) \in Places(a) /\ waiting'[a][i] = q[i + (skipped + 1)]
        /\ waiting' \in [Automations -> Seq(Runs)]
    BY <1>3 DEF Settled
  \* Who was in the queued mode before, and acted.
  <1>5. ASSUME NEW p \in Runs, run'[p].phase # "free"
        PROVE  /\ p # r /\ run[p].phase # "free"
               /\ run'[p].of = run[p].of /\ run'[p].mode = run[p].mode
               /\ Live(p) => Live(p)'
               /\ \A j \in Places(a) : q[j] = p => j > skipped /\ (j = skipped + 1 => Live(p)')
    <2>1. \/ /\ skipped # Len(q) /\ p = q[skipped + 1] /\ run[p].phase = "queued"
             /\ run'[p] = [run[p] EXCEPT !.phase = "acting"]
          \/ /\ \A i \in Places(a) : p = q[i] => i > skipped + 1
             /\ run'[p] = runs[p]
      BY <1>1, <1>2, <1>5, NextQueuedRuns
    <2>2. CASE /\ skipped # Len(q) /\ p = q[skipped + 1] /\ run[p].phase = "queued"
               /\ run'[p] = [run[p] EXCEPT !.phase = "acting"]
      <3>1. run[p] \in RunRecord
        BY <1>1 DEF Typed
      <3>2. run'[p].phase = "acting" /\ run'[p].of = run[p].of /\ run'[p].mode = run[p].mode
        BY <2>2, <3>1, PhaseChange
      <3>3. \A j \in Places(a) : q[j] = p => j = skipped + 1
        <4>1. skipped + 1 \in Places(a)
          BY <1>1, <2>2 DEF Places
        <4> QED BY <1>1, <2>2, <4>1 DEF QueueHolds
      <3>4. \A j \in Places(a) : q[j] = p => j > skipped
        BY <1>1, <3>3
      <3> QED BY <1>1, <2>2, <3>2, <3>4 DEF Live
    <2>3. CASE /\ \A i \in Places(a) : p = q[i] => i > skipped + 1
               /\ run'[p] = runs[p]
      <3>1. p # r /\ run'[p] = run[p]
        BY <1>5, <2>3
      <3>2. \A j \in Places(a) : q[j] = p => j > skipped /\ j # skipped + 1
        BY <1>1, <2>3 DEF Places
      <3> QED BY <1>5, <3>1, <3>2 DEF Live
    <2> QED BY <2>1, <2>2, <2>3
  \* Only those behind the run that is called next are still in its way.
  <1>6. ASSUME NEW i \in Places(a), NEW p \in ahead[q[i]], InQueuedMode(p, a)'
        PROVE  p \in Runs /\ \E j \in Places(a) : q[j] = p /\ j > skipped /\ j < i
                                /\ (j = skipped + 1 => Live(p)')
    <2>1. p \in Runs
      BY <1>1 DEF Typed
    <2>2. run'[p].phase # "free" /\ run'[p].of = a /\ run'[p].mode = "queued"
      BY <1>6 DEF InQueuedMode
    <2>3. InQueuedMode(p, a) /\ p # r /\ run[p].of = a /\ run[p].mode = "queued"
      BY <1>5, <2>1, <2>2 DEF InQueuedMode
    <2>4. ~Live(p)
      BY <1>1, <2>1, <2>3 DEF Holds
    <2>5. PICK j \in 1..(i - 1) : q[j] = p
      BY <1>1, <2>3, <2>4, <1>6 DEF QueueInOrder
    <2>6. j \in Places(a) /\ j < i
      BY <1>1 DEF Places
    <2> QED BY <1>5, <2>1, <2>2, <2>5, <2>6
  <1>7. QueuesAreServed'
    <2>1. ASSUME waiting'[a] # <<>>
          PROVE  running'[a] # NoRun
      <3>1. Len(waiting'[a]) # 0
        BY <1>4, <2>1, EmptySeq
      <3>2. skipped # Len(q) /\ skipped + 1 \in Places(a)
        BY <1>1, <1>4, <3>1 DEF Places
      <3> QED BY <1>1, <1>4, <3>2, RunsAssumption
    <2> QED BY <1>1, <1>4, <2>1 DEF QueuesAreServed
  <1>8. ASSUME NEW o \in Runs, Live(o)', run'[o].mode = "queued",
               NEW p \in ahead'[o], InQueuedMode(p, run[o].of)'
        PROVE  FALSE
    <2>1. p \in Runs /\ p \in ahead[o]
      BY <1>1 DEF Typed
    <2>2. \/ run'[o].of = a /\ running'[a] = o
          \/ Live(o) /\ run'[o] = run[o] /\ runs[o] = run[o]
      BY <1>1, <1>2, <1>8, NextInMap
    <2>3. CASE run'[o].of = a /\ running'[a] = o
      <3>1. skipped # Len(q) /\ o = q[skipped + 1] /\ skipped + 1 \in Places(a)
        BY <1>1, <1>4, <2>3, RunsAssumption DEF Places
      <3>2. \E j \in Places(a) : j > skipped /\ j < skipped + 1
        BY <1>6, <1>8, <2>1, <2>3, <3>1
      <3> QED BY <1>1, <3>2 DEF Places
    <2>4. CASE Live(o) /\ run'[o] = run[o] /\ runs[o] = run[o]
      <3>1. InQueuedMode(p, run[o].of)
        BY <1>5, <1>8, <2>1, <2>4 DEF InQueuedMode
      <3> QED BY <1>1, <1>8, <2>1, <2>4, <3>1 DEF QueuedInOrder
    <2> QED BY <2>2, <2>3, <2>4
  <1>9. ASSUME NEW b \in Automations, NEW i \in Places(b)', NEW p \in ahead'[waiting'[b][i]],
               InQueuedMode(p, b)'
        PROVE  Live(p)' \/ \E j \in 1..(i - 1) : waiting'[b][j] = p
    <2>1. CASE b = a
      <3>1. /\ i + (skipped + 1) \in Places(a) /\ i \in 1..Len(waiting'[a])
            /\ p \in ahead[q[i + (skipped + 1)]]
        BY <1>4, <2>1 DEF Places
      <3>2. PICK j \in Places(a) : /\ q[j] = p /\ j > skipped /\ j < i + (skipped + 1)
                                   /\ (j = skipped + 1 => Live(p)')
        BY <1>6, <1>9, <2>1, <3>1
      <3> DEFINE k == j - (skipped + 1)
      <3>3. CASE j # skipped + 1
        <4>1. /\ k \in 1..(i - 1) /\ k \in 1..Len(waiting'[a])
              /\ k + (skipped + 1) = j
          BY <1>1, <3>1, <3>2, <3>3 DEF Places
        <4> HIDE DEF k
        <4>2. waiting'[a][k] = p
          BY <1>4, <3>2, <4>1
        <4> QED BY <2>1, <4>1, <4>2
      <3> QED BY <3>2, <3>3
    <2>2. CASE b # a
      <3>1. waiting'[b] = waiting[b] /\ i \in Places(b) /\ p \in ahead[waiting[b][i]]
        BY <1>4, <2>2 DEF Places
      <3>2. p \in Runs
        BY <1>1, <3>1 DEF Typed
      <3>3. InQueuedMode(p, b) /\ (Live(p) => Live(p)')
        BY <1>5, <1>9, <3>2 DEF InQueuedMode
      <3> QED BY <1>1, <3>1, <3>3 DEF QueueInOrder
    <2> QED BY <2>1, <2>2
  <1> QED BY <1>7, <1>8, <1>9 DEF Ordered, QueueInOrder, QueuedInOrder

LEMMA OrderLeave ==
  ASSUME QueueInv, NEW r \in Runs, Live(r), Leave(r)
  PROVE  Ordered'
  <1> DEFINE a == run[r].of
             runs == [run EXCEPT ![r] = Idle]
  <1>1. /\ Typed /\ a \in Automations /\ run[r].phase = "acting" /\ ahead' = ahead
        /\ QueuesAreServed
    BY DEF QueueInv, Ordered, Base, Typed, RunRecord, Live, Leave
  <1>2. /\ runs \in [Runs -> RunRecord] /\ runs[r].phase = "free"
        /\ \A p \in Runs \ {r} : runs[p] = run[p]
    BY <1>1, IdleType DEF Typed
  <1>3. run[r].mode \in {"parallel", "single", "restart", "queued", "manual"}
    BY <1>1 DEF Typed, RunRecord, Modes
  <1> HIDE DEF runs
  <1>4. CASE run[r].mode # "queued"
    <2>1. run' = runs /\ waiting' = waiting
          /\ \/ running' = running
             \/ running' = [running EXCEPT ![a] = NoRun] /\ run[r].mode \in {"single", "restart"}
      BY <1>3, <1>4 DEF Leave, runs
    <2>2. QueueInOrder' /\ QueuedInOrder'
      <3>1. \A p \in Runs : run'[p].phase # "free" /\ run'[p].mode = "queued" =>
              run'[p].phase = run[p].phase /\ run'[p].of = run[p].of /\ run'[p].mode = run[p].mode
        BY <1>2, <2>1
      <3> QED BY <1>1, <2>1, <3>1, OrderKept
    <2>3. ASSUME NEW b \in Automations, waiting'[b] # <<>>
          PROVE  running'[b] # NoRun
      <3>1. running[b] # NoRun /\ waiting[b] # <<>>
        BY <1>1, <2>1, <2>3 DEF QueuesAreServed
      <3>2. run[r].mode \in {"single", "restart"} => waiting[a] = <<>>
        BY <1>1, NobodyWaits
      <3> QED BY <1>1, <2>1, <3>1, <3>2 DEF Typed
    <2> QED BY <2>2, <2>3 DEF Ordered, QueuesAreServed
  <1>5. CASE run[r].mode = "queued"
    <2>1. PICK skipped \in 0..Len(waiting[a]) : RunNextQueued(a, runs, skipped)
      BY <1>5 DEF Leave, runs
    <2>2. Called(a, runs, skipped, run', running', waiting')
      BY <2>1, Zenon DEF RunNextQueued, Called
    <2>3. run[r].of = a
      OBVIOUS
    <2> HIDE DEF a
    <2> QED BY <1>1, <1>2, <1>5, <2>2, <2>3, OrderAfterNext, Zenon
  <1> QED BY <1>4, <1>5

LEMMA OrderNext ==
  ASSUME QueueInv, [Next]_vars
  PROVE  Ordered'
  <1>1. ASSUME NEW a \in Automations, NEW r \in Runs,
               \/ TriggerParallel(a, r) \/ TriggerSingle(a, r) \/ RunNow(a, r)
               \/ \E hasActions \in BOOLEAN : TriggerRestart(a, r, hasActions)
        PROVE  Ordered'
    BY <1>1, OrderTrigger
  <1>2. ASSUME NEW a \in Automations, NEW r \in Runs, NEW hasActions \in BOOLEAN,
               TriggerQueued(a, r, hasActions)
        PROVE  Ordered'
    BY <1>2, OrderTriggerQueued
  <1>3. ASSUME NEW r \in Runs, StepInsideAction(r) \/ NextAction(r)
        PROVE  Ordered'
    BY <1>3, StepsKeepShape, OrderStill DEF QueueInv
  <1>4. ASSUME NEW r \in Runs, Finish(r) \/ StopAction(r)
        PROVE  Ordered'
    BY <1>4, OrderLeave DEF Finish, StopAction
  <1>5. CASE UNCHANGED <<running, waiting, run, ahead>>
    BY <1>5, OrderStill
  <1>6. ASSUME NEW a \in Automations,
               RemoveAutomation(a) \/ \E m \in Edits \cup {mode[a]} : UpsertAutomation(a, m)
        PROVE  Ordered'
    BY <1>5, <1>6 DEF RemoveAutomation, UpsertAutomation
  <1> QED BY <1>1, <1>2, <1>3, <1>4, <1>5, <1>6 DEF Next, vars

\* When no automation is ever configured both with the queued mode and with one of the modes
\* single and restart, which clear the map without a look at the queue: QueueInv holds.
THEOREM QueueInvariant ==
    Apart({"queued"}, {"single", "restart"}) => (Spec => []QueueInv)
  <1> SUFFICES ASSUME Apart({"queued"}, {"single", "restart"}) PROVE Spec => []QueueInv
    OBVIOUS
  <1>1. Init => QueueInv
    <2> SUFFICES ASSUME Init PROVE QueueInv
      OBVIOUS
    <2>1. /\ \A r \in Runs : run[r].phase = "free"
          /\ \A a \in Automations : waiting[a] = <<>>
      BY IdleType DEF Init
    <2>2. Holds({"queued"}) /\ QueuedInOrder /\ QueuesAreServed
      BY <2>1 DEF Holds, Live, QueuedInOrder, QueuesAreServed
    <2>3. QueueInOrder
      BY <2>1 DEF QueueInOrder, Places
    <2> QED BY <2>2, <2>3, InitBase, InitApart DEF QueueInv, Ordered
  <1>2. QueueInv /\ [Next]_vars => QueueInv'
    <2> SUFFICES ASSUME QueueInv, [Next]_vars PROVE QueueInv'
      OBVIOUS
    <2>1. Base /\ KeptApart({"queued"}, {"single", "restart"}) /\ Holds({"queued"})
      BY DEF QueueInv
    <2>2. Base'
      BY <2>1, NextLawful DEF Lawful
    <2>3. KeptApart({"queued"}, {"single", "restart"})'
      BY <2>1, QueueModes, StaysApart
    <2>4. Holds({"queued"})'
      <3>1. KeptApart({"queued"}, MapModes \ {"queued"})
        BY <2>1, QueueModes
      <3> QED BY <2>1, <3>1, QueueModes, HoldsNext
    <2> QED BY <2>2, <2>3, <2>4, OrderNext DEF QueueInv
  <1> QED BY <1>1, <1>2, PTL DEF Spec

\* Queued closures are always behind a run whose finally block calls the next one.
THEOREM NoQueueIsForgotten ==
    Apart({"queued"}, {"single", "restart"}) => (Spec => []QueuesAreServed)
  <1> SUFFICES ASSUME Apart({"queued"}, {"single", "restart"}) PROVE Spec => []QueuesAreServed
    OBVIOUS
  <1>1. Spec => []QueueInv
    BY QueueInvariant
  <1>2. QueueInv => QueuesAreServed
    BY DEF QueueInv, Ordered
  <1> QED BY <1>1, <1>2, PTL

\* Queued triggers are executed in the order in which they fired.
THEOREM QueueIsFirstInFirstOut ==
    Apart({"queued"}, {"single", "restart"}) => (Spec => []QueuedInOrder)
  <1> SUFFICES ASSUME Apart({"queued"}, {"single", "restart"}) PROVE Spec => []QueuedInOrder
    OBVIOUS
  <1>1. Spec => []QueueInv
    BY QueueInvariant
  <1>2. QueueInv => QueuedInOrder
    BY DEF QueueInv, Ordered
  <1> QED BY <1>1, <1>2, PTL
=============================================================================
