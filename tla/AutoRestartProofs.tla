------------------------- MODULE AutoRestartProofs -------------------------
(***************************************************************************)
(* The safety of AutoRestart for every set of faults and timers: a fault   *)
(* that is reported once keeps a restart on the way.  A call of schedule   *)
(* goes from one stage to the next (loading, timers, executing,            *)
(* triggering), so what is shown first is what each operation of the       *)
(* service does to the number of calls of its fault and that it leaves the *)
(* calls of the others alone; the properties of the links follow.          *)
(***************************************************************************)
EXTENDS AutoRestart, FiniteSetTheorems, TLAPS

\* The calls of a fault are counted right, and the map holds a timer that is pending.
CallsOK(k) ==
    /\ IsFiniteSet(timers[k])
    /\ Calls(k) <= MaxCalls
    /\ scheduled[k] # None => scheduled[k] \in timers[k]

CallTypes ==
    /\ loading \in [Faults -> Nat] /\ executing \in [Faults -> Nat] /\ triggering \in [Faults -> Nat]
    /\ timers \in [Faults -> SUBSET Timers] /\ scheduled \in [Faults -> Timers \cup {None}]

CallsInv == CallTypes /\ \A k \in Faults : CallsOK(k)

LinkTypes ==
    /\ process \in {"running", "exiting", "exited", "crashed"}
    /\ link \in [Faults -> {"closed", "open", "up", "down", "dead", "idle"}]
    /\ start \in [Faults -> {"starting", "started", "failed"}]
    /\ settings \in [enabled : BOOLEAN, writing : BOOLEAN]
    /\ skipped \in [Faults -> BOOLEAN]

\* Only the port of a bridge that has started can have ended with an error: a start that
\* succeeds, which clears the fault, never meets one.
DeadIsStarted == \A k \in Faults : link[k] = "dead" => start[k] = "started"

IInv == LinkTypes /\ CallsInv /\ DeadIsStarted /\ LastingFaultIsPending

-----------------------------------------------------------------------------
(* The calls of a fault.                                                   *)

LEMMA CallsType ==
  ASSUME CallsInv, NEW k \in Faults
  PROVE  /\ Cardinality(timers[k]) \in Nat /\ Calls(k) \in 0..MaxCalls
         /\ {loading[k], executing[k], triggering[k]} \subseteq 0..MaxCalls
  <1>1. Cardinality(timers[k]) \in Nat
    BY FS_CardinalityType DEF CallsInv, CallsOK
  <1>2. loading[k] \in Nat /\ executing[k] \in Nat /\ triggering[k] \in Nat
    BY DEF CallsInv, CallTypes
  <1>3. loading[k] + Cardinality(timers[k]) + executing[k] + triggering[k] <= MaxCalls
    BY DEF CallsInv, CallsOK, Calls
  <1> QED BY <1>1, <1>2, <1>3, BoundAssumption DEF BoundAssumption, Calls

\* A fault in the map has a call: its timer.
LEMMA ScheduledHasCall ==
  ASSUME CallsInv, NEW k \in Faults, scheduled[k] # None
  PROVE  Calls(k) > 0
  <1>1. scheduled[k] \in timers[k] /\ IsFiniteSet(timers[k])
    BY DEF CallsInv, CallsOK
  <1>2. Cardinality(timers[k]) # 0
    BY <1>1, FS_EmptySet
  <1>3. loading[k] \in Nat /\ executing[k] \in Nat /\ triggering[k] \in Nat
    BY DEF CallsInv, CallTypes
  <1> QED BY <1>2, <1>3, CallsType DEF Calls

\* The fault j is left alone by a step about another one.
Same(j) ==
    /\ loading'[j] = loading[j] /\ timers'[j] = timers[j] /\ scheduled'[j] = scheduled[j]
    /\ executing'[j] = executing[j] /\ triggering'[j] = triggering[j]

LEMMA SameOK ==
  ASSUME CallsInv, CallTypes', NEW k \in Faults, CallsOK(k)',
         \A j \in Faults \ {k} : Same(j)
  PROVE  CallsInv' /\ \A j \in Faults \ {k} : Calls(j)' = Calls(j)
  BY DEF CallsInv, CallsOK, Calls, Same

LEMMA ScheduleOK ==
  ASSUME CallsInv, NEW k \in Faults, Schedule(k)
  PROVE  /\ CallsInv' /\ Calls(k)' > 0
         /\ \A j \in Faults \ {k} : Calls(j)' = Calls(j)
  <1>1. CallTypes' /\ \A j \in Faults \ {k} : Same(j)
    BY DEF CallsInv, CallTypes, Schedule, More, Same
  <1>2. CASE scheduled[k] = None
    <2>1. /\ loading'[k] = loading[k] + 1
          /\ UNCHANGED <<timers, scheduled, executing, triggering>>
      BY <1>2 DEF CallsInv, CallTypes, Schedule, More
    <2>2. Calls(k)' = Calls(k) + 1
      BY <2>1, CallsType DEF Calls, CallsInv, CallTypes
    <2>3. Calls(k)' <= MaxCalls /\ Calls(k)' > 0
      BY <2>2, CallsType, BoundAssumption DEF BoundAssumption, Schedule
    <2>4. CallsOK(k)'
      BY <2>1, <2>3 DEF CallsInv, CallsOK
    <2> QED BY <1>1, <2>3, <2>4, SameOK
  <1>3. CASE scheduled[k] # None
    <2>1. UNCHANGED calls
      BY <1>3 DEF Schedule, calls
    <2>2. CallsOK(k)' /\ Calls(k)' = Calls(k)
      BY <2>1 DEF CallsInv, CallsOK, Calls, calls
    <2> QED BY <1>1, <1>3, <2>2, SameOK, ScheduledHasCall
  <1> QED BY <1>2, <1>3

LEMMA ClearOK ==
  ASSUME CallsInv, NEW k \in Faults, Clear(k)
  PROVE  CallsInv' /\ \A j \in Faults \ {k} : Calls(j)' = Calls(j)
  <1>1. CallTypes' /\ \A j \in Faults \ {k} : Same(j)
    BY DEF CallsInv, CallTypes, Clear, Same
  <1>2. /\ timers'[k] = timers[k] \ {scheduled[k]} /\ scheduled'[k] = None
        /\ UNCHANGED <<loading, executing, triggering>>
    BY DEF CallsInv, CallTypes, Clear
  <1>3. IsFiniteSet(timers[k])
    BY DEF CallsInv, CallsOK
  <1>4. /\ IsFiniteSet(timers'[k]) /\ Cardinality(timers'[k]) \in Nat
        /\ Cardinality(timers'[k]) <= Cardinality(timers[k])
    <2>1. IsFiniteSet(timers[k] \ {scheduled[k]})
      BY <1>3, FS_RemoveElement
    <2>2. timers[k] \ {scheduled[k]} \in SUBSET timers[k]
      OBVIOUS
    <2>3. /\ Cardinality(timers[k] \ {scheduled[k]}) <= Cardinality(timers[k])
          /\ Cardinality(timers[k] \ {scheduled[k]}) \in Nat
      BY <1>3, <2>1, <2>2, FS_Subset, FS_CardinalityType
    <2> QED BY <1>2, <2>1, <2>3
  <1>5. Calls(k)' <= MaxCalls
    BY <1>2, <1>4, CallsType, BoundAssumption DEF BoundAssumption, Calls, CallsInv, CallTypes
  <1>6. CallsOK(k)'
    BY <1>2, <1>4, <1>5 DEF CallsOK
  <1> QED BY <1>1, <1>6, SameOK

\* The stages after the first: a call goes on to the next one, or ends.
LEMMA SetTimerOK ==
  ASSUME CallsInv, NEW k \in Faults, NEW t \in Timers, SetTimer(k, t)
  PROVE  CallsInv' /\ \A j \in Faults : Calls(j)' = Calls(j)
  <1>1. CallTypes' /\ \A j \in Faults \ {k} : Same(j)
    BY DEF CallsInv, CallTypes, SetTimer, Less, Same
  <1>2. /\ loading'[k] = loading[k] - 1 /\ timers'[k] = timers[k] \cup {t} /\ t \notin timers[k]
        /\ scheduled'[k] = t
        /\ UNCHANGED <<executing, triggering>>
    BY DEF CallsInv, CallTypes, SetTimer, Less
  <1>3. IsFiniteSet(timers[k])
    BY DEF CallsInv, CallsOK
  <1>4. IsFiniteSet(timers'[k]) /\ Cardinality(timers'[k]) = Cardinality(timers[k]) + 1
    <2>1. /\ IsFiniteSet(timers[k] \cup {t})
          /\ Cardinality(timers[k] \cup {t})
                = IF t \in timers[k] THEN Cardinality(timers[k]) ELSE Cardinality(timers[k]) + 1
      BY <1>3, FS_AddElement
    <2> QED BY <1>2, <2>1
  <1>5. Calls(k)' = Calls(k)
    BY <1>2, <1>4, CallsType DEF Calls, CallsInv, CallTypes
  <1>6. CallsOK(k)'
    BY <1>2, <1>4, <1>5, CallsType, BoundAssumption DEF BoundAssumption, CallsInv, CallsOK
  <1> QED BY <1>1, <1>5, <1>6, SameOK

LEMMA FireOK ==
  ASSUME CallsInv, NEW k \in Faults, Fire(k)
  PROVE  CallsInv' /\ \A j \in Faults : Calls(j)' = Calls(j)
  <1>1. PICK t \in timers[k] :
            /\ timers' = [timers EXCEPT ![k] = @ \ {t}]
            /\ scheduled' = [scheduled EXCEPT ![k] = None]
            /\ executing' = More(executing, k)
            /\ UNCHANGED <<process, loading, triggering, skipped>>
    BY DEF Fire
  <1>2. CallTypes' /\ \A j \in Faults \ {k} : Same(j)
    BY <1>1 DEF CallsInv, CallTypes, More, Same
  <1>3. /\ timers'[k] = timers[k] \ {t} /\ scheduled'[k] = None
        /\ executing'[k] = executing[k] + 1
        /\ UNCHANGED <<loading, triggering>>
    BY <1>1 DEF CallsInv, CallTypes, More
  <1>4. IsFiniteSet(timers[k])
    BY DEF CallsInv, CallsOK
  <1>5. IsFiniteSet(timers'[k]) /\ Cardinality(timers'[k]) = Cardinality(timers[k]) - 1
    <2>1. /\ IsFiniteSet(timers[k] \ {t})
          /\ Cardinality(timers[k] \ {t})
                = IF t \in timers[k] THEN Cardinality(timers[k]) - 1 ELSE Cardinality(timers[k])
      BY <1>4, FS_RemoveElement
    <2> QED BY <1>1, <1>3, <2>1
  <1>6. Calls(k)' = Calls(k)
    BY <1>3, <1>5, CallsType DEF Calls, CallsInv, CallTypes
  <1>7. CallsOK(k)'
    BY <1>3, <1>5, <1>6, CallsType, BoundAssumption DEF BoundAssumption, CallsInv, CallsOK
  <1> QED BY <1>2, <1>6, <1>7, SameOK

LEMMA ExecuteRestartOK ==
  ASSUME CallsInv, NEW k \in Faults, ExecuteRestart(k)
  PROVE  CallsInv' /\ \A j \in Faults : Calls(j)' = Calls(j)
  <1>1. CallTypes' /\ \A j \in Faults \ {k} : Same(j)
    BY DEF CallsInv, CallTypes, ExecuteRestart, Less, More, Same
  <1>2. /\ executing'[k] = executing[k] - 1 /\ triggering'[k] = triggering[k] + 1
        /\ UNCHANGED <<loading, timers, scheduled>>
    BY DEF CallsInv, CallTypes, ExecuteRestart, Less, More
  <1>3. Calls(k)' = Calls(k)
    BY <1>2, CallsType DEF Calls, CallsInv, CallTypes
  <1>4. CallsOK(k)'
    BY <1>2, <1>3 DEF CallsInv, CallsOK
  <1> QED BY <1>1, <1>3, <1>4, SameOK

\* A call that ends, whichever stage it was in.
Ends(k) ==
    \/ loading[k] > 0 /\ loading' = Less(loading, k) /\ UNCHANGED <<executing, triggering>>
    \/ executing[k] > 0 /\ executing' = Less(executing, k) /\ UNCHANGED <<loading, triggering>>
    \/ triggering[k] > 0 /\ triggering' = Less(triggering, k) /\ UNCHANGED <<loading, executing>>

LEMMA EndsOK ==
  ASSUME CallsInv, NEW k \in Faults, Ends(k), UNCHANGED <<timers, scheduled>>
  PROVE  CallsInv' /\ \A j \in Faults \ {k} : Calls(j)' = Calls(j)
  <1>1. CallTypes' /\ \A j \in Faults \ {k} : Same(j)
    BY DEF CallsInv, CallTypes, Ends, Less, Same
  <1>2. \/ loading'[k] = loading[k] - 1 /\ UNCHANGED <<executing, triggering>>
        \/ executing'[k] = executing[k] - 1 /\ UNCHANGED <<loading, triggering>>
        \/ triggering'[k] = triggering[k] - 1 /\ UNCHANGED <<loading, executing>>
    BY DEF CallsInv, CallTypes, Ends, Less
  <1>3. Calls(k)' = Calls(k) - 1
    BY <1>2, CallsType DEF Calls, CallsInv, CallTypes
  <1>4. CallsOK(k)'
    BY <1>3, CallsType, BoundAssumption DEF BoundAssumption, CallsInv, CallsOK
  <1> QED BY <1>1, <1>4, SameOK

LEMMA SameCallsOK ==
  ASSUME CallsInv, UNCHANGED calls
  PROVE  CallsInv' /\ \A j \in Faults : Calls(j)' = Calls(j)
  BY DEF CallsInv, CallTypes, CallsOK, Calls, calls

\* A process that has just been started has no calls and nothing to report.
Fresh ==
    /\ link = FirstLink /\ start = FirstStart
    /\ loading = Each(0) /\ timers = Each({}) /\ scheduled = Each(None)
    /\ executing = Each(0) /\ triggering = Each(0) /\ skipped = Each(FALSE)

FreshInv ==
    /\ CallsInv /\ DeadIsStarted /\ LastingFaultIsPending
    /\ link \in [Faults -> {"closed", "open", "up", "down", "dead", "idle"}]
    /\ start \in [Faults -> {"starting", "started", "failed"}]
    /\ skipped \in [Faults -> BOOLEAN]

LEMMA FreshOK == Fresh => FreshInv
  <1> SUFFICES ASSUME Fresh PROVE FreshInv
    OBVIOUS
  <1>1. CallTypes
    BY DEF Fresh, CallTypes, Each
  <1>2. ASSUME NEW k \in Faults PROVE CallsOK(k)
    <2>1. timers[k] = {} /\ loading[k] = 0 /\ executing[k] = 0 /\ triggering[k] = 0
          /\ scheduled[k] = None
      BY DEF Fresh, Each
    <2>2. Calls(k) <= MaxCalls
      BY <2>1, FS_EmptySet, BoundAssumption DEF BoundAssumption, Calls
    <2> QED BY <2>1, <2>2, FS_EmptySet DEF CallsOK
  <1>3. /\ link \in [Faults -> {"closed", "open", "up", "down", "dead", "idle"}]
        /\ start \in [Faults -> {"starting", "started", "failed"}]
        /\ \A k \in Faults : ~ReportedOnce(k) /\ link[k] # "dead"
    BY DEF Fresh, FirstLink, FirstStart, ReportedOnce
  <1>4. skipped \in [Faults -> BOOLEAN]
    BY DEF Fresh, Each
  <1> QED BY <1>1, <1>2, <1>3, <1>4 DEF FreshInv, CallsInv, DeadIsStarted, LastingFaultIsPending

LEMMA InitOK == Init => IInv
  <1> SUFFICES ASSUME Init PROVE IInv
    OBVIOUS
  <1>1. Fresh
    BY DEF Init, Fresh
  <1> QED BY <1>1, FreshOK DEF Init, IInv, FreshInv, LinkTypes

-----------------------------------------------------------------------------
(* The steps.                                                              *)

\* A step about the link of k that keeps the calls of the other faults: what is left to show
\* of it is about k.
LEMMA LinkStepOK ==
  ASSUME IInv, NEW k \in Faults, CallsInv', \A j \in Faults \ {k} : Calls(j)' = Calls(j),
         NEW l \in {"closed", "open", "up", "down", "dead", "idle"}, link' = [link EXCEPT ![k] = l],
         NEW s \in {"starting", "started", "failed"}, start' = [start EXCEPT ![k] = s],
         UNCHANGED <<process, settings, skipped>>,
         l = "dead" => s = "started",
         l = "dead" \/ (s = "failed" /\ l = "closed") =>
            Calls(k)' > 0 \/ (ReportedOnce(k) /\ Calls(k)' = Calls(k))
  PROVE  IInv'
  <1>1. /\ link'[k] = l /\ start'[k] = s
        /\ \A j \in Faults \ {k} : link'[j] = link[j] /\ start'[j] = start[j]
    BY DEF IInv, LinkTypes
  <1>2. LinkTypes' /\ DeadIsStarted'
    BY <1>1 DEF IInv, LinkTypes, DeadIsStarted
  <1>3. LastingFaultIsPending'
    <2> SUFFICES ASSUME NEW j \in Faults, process = "running", ReportedOnce(j)', ~skipped[j]
                 PROVE  Calls(j)' > 0
      BY DEF LastingFaultIsPending
    <2>1. CASE j = k
      <3>1. l = "dead" \/ (s = "failed" /\ l = "closed")
        BY <1>1, <2>1 DEF ReportedOnce
      <3>2. ReportedOnce(k) => Calls(k) > 0
        BY <2>1 DEF IInv, LastingFaultIsPending
      <3> QED BY <2>1, <3>1, <3>2
    <2>2. CASE j # k
      <3>1. ReportedOnce(j) /\ Calls(j)' = Calls(j)
        BY <1>1, <2>2 DEF ReportedOnce
      <3> QED BY <3>1 DEF IInv, LastingFaultIsPending
    <2> QED BY <2>1, <2>2
  <1> QED BY <1>2, <1>3 DEF IInv

LEMMA LinkOK ==
  ASSUME IInv, NEW k \in Faults, Link(k)
  PROVE  IInv'
  <1>1. UNCHANGED <<process, settings, skipped>>
    BY DEF Link
  <1>2. /\ start = [start EXCEPT ![k] = start[k]] /\ start[k] \in {"starting", "started", "failed"}
        /\ link = [link EXCEPT ![k] = link[k]]
        /\ link[k] \in {"closed", "open", "up", "down", "dead", "idle"}
        /\ link[k] = "dead" => start[k] = "started"
    BY DEF IInv, LinkTypes, DeadIsStarted
  <1>3. CASE Open(k)
    <2>1. PICK kind \in {"up", "open"} : link' = [link EXCEPT ![k] = kind]
      BY <1>3 DEF Open
    <2>2. UNCHANGED <<start, calls>>
      BY <1>3 DEF Open
    <2> QED BY <1>1, <1>2, <2>1, <2>2, SameCallsOK, LinkStepOK DEF IInv
  <1>4. CASE PortFails(k)
    <2>1. start[k] = "started" /\ link' = [link EXCEPT ![k] = "dead"] /\ Schedule(k) /\ start' = start
      BY <1>4 DEF PortFails
    <2> QED BY <1>1, <1>2, <2>1, ScheduleOK, LinkStepOK DEF IInv
  <1>5. CASE IdleTimeout(k)
    <2>1. link' = [link EXCEPT ![k] = "idle"] /\ UNCHANGED <<start, calls>>
      BY <1>5 DEF IdleTimeout
    <2> QED BY <1>1, <1>2, <2>1, SameCallsOK, LinkStepOK DEF IInv
  <1>6. CASE Lose(k)
    <2>1. link' = [link EXCEPT ![k] = "down"] /\ Schedule(k) /\ start' = start
      BY <1>6 DEF Lose
    <2> QED BY <1>1, <1>2, <2>1, ScheduleOK, LinkStepOK DEF IInv
  <1>7. CASE Report(k)
    <2>1. Schedule(k) /\ link' = link /\ start' = start
      BY <1>7 DEF Report
    <2> QED BY <1>1, <1>2, <2>1, ScheduleOK, LinkStepOK DEF IInv
  <1>8. CASE Recover(k)
    <2>1. link' = [link EXCEPT ![k] = "up"] /\ Clear(k) /\ start' = start
      BY <1>8 DEF Recover
    <2> QED BY <1>1, <1>2, <2>1, ClearOK, LinkStepOK DEF IInv
  <1>9. CASE StartSucceeds(k)
    <2>1. /\ start[k] = "starting" /\ link[k] # "closed" /\ link' = link
          /\ start' = [start EXCEPT ![k] = "started"] /\ Clear(k)
      BY <1>9 DEF StartSucceeds
    <2> QED BY <1>1, <1>2, <2>1, ClearOK, LinkStepOK DEF IInv
  <1>10. CASE StartFails(k)
    <2>1. /\ start[k] = "starting" /\ start' = [start EXCEPT ![k] = "failed"]
          /\ Schedule(k) /\ link' = link
      BY <1>10 DEF StartFails
    <2> QED BY <1>1, <1>2, <2>1, ScheduleOK, LinkStepOK DEF IInv
  <1> QED
    BY <1>3, <1>4, <1>5, <1>6, <1>7, <1>8, <1>9, <1>10 DEF Link

\* A step of the service that ends no call without noting it, or ends the process.
LEMMA ServiceStepOK ==
  ASSUME IInv, NEW k \in Faults, CallsInv', \A j \in Faults \ {k} : Calls(j)' = Calls(j),
         UNCHANGED <<link, start, settings>>,
         process' \in {"running", "exiting", "exited", "crashed"},
         process' = "running" => process = "running",
         skipped' = skipped \/ skipped' = [skipped EXCEPT ![k] = TRUE],
         process' # "running" \/ skipped' = [skipped EXCEPT ![k] = TRUE] \/ Calls(k)' = Calls(k)
  PROVE  IInv'
  <1>1. /\ skipped' \in [Faults -> BOOLEAN]
        /\ \A j \in Faults : skipped[j] => skipped'[j]
        /\ skipped' = [skipped EXCEPT ![k] = TRUE] => skipped'[k]
    BY DEF IInv, LinkTypes
  <1>2. LinkTypes' /\ DeadIsStarted'
    BY <1>1 DEF IInv, LinkTypes, DeadIsStarted
  <1>3. LastingFaultIsPending'
    <2> SUFFICES ASSUME NEW j \in Faults, process' = "running", ReportedOnce(j)', ~skipped'[j]
                 PROVE  Calls(j)' > 0
      BY DEF LastingFaultIsPending
    <2>1. process = "running" /\ ReportedOnce(j) /\ ~skipped[j]
      BY <1>1 DEF ReportedOnce
    <2>2. Calls(j) > 0
      BY <2>1 DEF IInv, LastingFaultIsPending
    <2>3. Calls(j)' = Calls(j)
      BY <1>1
    <2> QED BY <2>2, <2>3
  <1> QED BY <1>2, <1>3 DEF IInv

LEMMA ServiceOK ==
  ASSUME IInv, NEW k \in Faults, Service(k)
  PROVE  IInv'
  <1>1. CallsInv /\ process \in {"running", "exiting", "exited", "crashed"}
        /\ UNCHANGED <<link, start, settings>>
    BY DEF IInv, LinkTypes, Service
  <1>2. CASE \E t \in Timers : SetTimer(k, t)
    <2>1. PICK t \in Timers : SetTimer(k, t)
      BY <1>2
    <2>2. process' = process /\ skipped' = skipped
      BY <2>1 DEF SetTimer
    <2> QED BY <1>1, <2>1, <2>2, SetTimerOK, ServiceStepOK
  <1>3. CASE Fire(k)
    <2>1. process' = process /\ skipped' = skipped
      BY <1>3 DEF Fire
    <2> QED BY <1>1, <1>3, <2>1, FireOK, ServiceStepOK
  <1>4. CASE ExecuteRestart(k)
    <2>1. process' = process /\ skipped' = skipped
      BY <1>4 DEF ExecuteRestart
    <2> QED BY <1>1, <1>4, <2>1, ExecuteRestartOK, ServiceStepOK
  <1>5. CASE ScheduleRejected(k)
    <2>1. process' = "crashed" /\ UNCHANGED <<calls, skipped>>
      BY <1>5 DEF ScheduleRejected
    <2> QED BY <1>1, <2>1, SameCallsOK, ServiceStepOK
  <1>6. CASE ScheduleDisabled(k) \/ ExecuteSkipped(k) \/ TriggerFailed(k)
    <2>1. /\ Ends(k) /\ UNCHANGED <<timers, scheduled>>
          /\ process' = process /\ skipped' = [skipped EXCEPT ![k] = TRUE]
      BY <1>6 DEF ScheduleDisabled, ExecuteSkipped, TriggerFailed, Skip, Ends
    <2> QED BY <1>1, <2>1, EndsOK, ServiceStepOK
  <1>7. CASE RestartTriggered(k)
    <2>1. /\ Ends(k) /\ UNCHANGED <<timers, scheduled>>
          /\ process' = "exiting" /\ skipped' = skipped
      BY <1>7 DEF RestartTriggered, Ends
    <2> QED BY <1>1, <2>1, EndsOK, ServiceStepOK
  <1> QED BY <1>2, <1>3, <1>4, <1>5, <1>6, <1>7 DEF Service

\* A step that leaves links and calls alone and does not start the process.
LEMMA OtherStepOK ==
  ASSUME IInv, UNCHANGED <<link, start, calls, skipped>>,
         process' \in {"running", "exiting", "exited", "crashed"},
         process' = "running" => process = "running",
         settings' \in [enabled : BOOLEAN, writing : BOOLEAN]
  PROVE  IInv'
  <1>1. CallsInv' /\ \A j \in Faults : Calls(j)' = Calls(j)
    BY SameCallsOK DEF IInv
  <1>2. LinkTypes' /\ DeadIsStarted'
    BY DEF IInv, LinkTypes, DeadIsStarted
  <1>3. LastingFaultIsPending'
    BY <1>1 DEF IInv, LastingFaultIsPending, ReportedOnce
  <1> QED BY <1>1, <1>2, <1>3 DEF IInv

LEMMA LaunchOK == IInv /\ Launch => IInv'
  <1> SUFFICES ASSUME IInv, Launch PROVE IInv'
    OBVIOUS
  <1>1. Fresh'
    BY DEF Launch, Fresh, FirstLink, FirstStart, Each
  <1>2. FreshInv'
    BY <1>1, FreshOK, PTL
  <1>3. process' = "running" /\ settings' \in [enabled : BOOLEAN, writing : BOOLEAN]
    <2>1. settings.enabled \in BOOLEAN
      BY DEF IInv, LinkTypes
    <2>2. \E e \in BOOLEAN : settings' = [enabled |-> e, writing |-> FALSE]
      BY <2>1 DEF Launch
    <2> QED BY <2>2 DEF Launch
  <1> QED BY <1>2, <1>3 DEF IInv, FreshInv, LinkTypes

LEMMA StepOK == IInv /\ [Next]_vars => IInv'
  <1> SUFFICES ASSUME IInv, [Next]_vars PROVE IInv'
    OBVIOUS
  <1>1. /\ process \in {"running", "exiting", "exited", "crashed"}
        /\ settings \in [enabled : BOOLEAN, writing : BOOLEAN]
    BY DEF IInv, LinkTypes
  <1>2. CASE \E k \in Faults : Link(k) \/ Service(k)
    BY <1>2, LinkOK, ServiceOK
  <1>3. CASE \E k \in Faults : PortFailsUnheard(k)
    <2>1. /\ process' = "crashed"
          /\ UNCHANGED <<link, start, calls, settings, skipped>>
      BY <1>3 DEF PortFailsUnheard
    <2> QED BY <1>1, <2>1, OtherStepOK
  <1>4. CASE \E enabled \in BOOLEAN : SaveSettings(enabled)
    BY <1>1, <1>4, OtherStepOK DEF SaveSettings
  <1>5. CASE SettingsSaved
    BY <1>1, <1>5, OtherStepOK DEF SettingsSaved
  <1>6. CASE RequestRestart \/ Exit
    BY <1>1, <1>6, OtherStepOK DEF RequestRestart, Exit
  <1>7. CASE Launch
    BY <1>7, LaunchOK
  <1>8. CASE UNCHANGED vars
    BY <1>1, <1>8, OtherStepOK DEF vars, calls
  <1> QED
    BY <1>2, <1>3, <1>4, <1>5, <1>6, <1>7, <1>8 DEF Next

-----------------------------------------------------------------------------
\* The inductive invariant of AutoRestart.
THEOREM RestartInvariant == Spec => []IInv
  <1> QED BY InitOK, StepOK, PTL DEF Spec

\* The types, the bound on the calls of a fault, and that the timer in the map is pending.
THEOREM RestartTypes == Spec => []TypeOK
  <1>1. IInv => TypeOK
    <2> SUFFICES ASSUME IInv PROVE TypeOK
      OBVIOUS
    <2>1. \A k \in Faults :
             /\ {loading[k], executing[k], triggering[k]} \subseteq 0..MaxCalls
             /\ Calls(k) \in 0..MaxCalls
             /\ scheduled[k] # None => scheduled[k] \in timers[k]
      BY CallsType DEF IInv, CallsInv, CallsOK
    <2> QED BY <2>1 DEF IInv, LinkTypes, CallsInv, CallTypes, TypeOK
  <1> QED BY <1>1, RestartInvariant, PTL

\* A fault that is reported once only keeps its restart on the way.
THEOREM OnceReportedStaysPending == Spec => []LastingFaultIsPending
  <1>1. IInv => LastingFaultIsPending
    BY DEF IInv
  <1> QED BY <1>1, RestartInvariant, PTL
=============================================================================
