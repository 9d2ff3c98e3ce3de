---------------------------- MODULE AutoRestart ----------------------------
(***************************************************************************)
(* The automatic restart of the service process after a fault that lasts:  *)
(* AutoRestartService (packages/service/src/services/                      *)
(* auto-restart.service.ts) and the events server.ts feeds it.  A fault    *)
(* has a key, "serial:<port>" or "integration:<port>".  While its link is  *)
(* down every failed attempt to reconnect reports it again; a port that    *)
(* could not be opened when the bridge started, or that has ended with an  *)
(* error, reports once.  Of the serial ports a TCP connection reconnects,  *)
(* a local device does not.                                                *)
(*                                                                         *)
(* schedule() and executeRestart() read the settings file, which the web   *)
(* interface overwrites in place.  A restart ends the process, and         *)
(* hassio-addon/run.sh starts it again when its exit code is 0.            *)
(***************************************************************************)
EXTENDS FiniteSets, Naturals

CONSTANTS
    Faults,   \* the keys
    Serial,   \* those of serial ports; the others are of MQTT connections
    Timers,   \* names for the timers of one fault
    None,
    MaxCalls  \* bound: calls of schedule for one fault that have not ended, their timers included

ASSUME BoundAssumption == MaxCalls \in Nat

VARIABLES
    process,   \* running, exiting (the 500 ms of restartProcess), exited, crashed
    link,      \* closed (never opened), open (a device), up, down (a TCP connection or a MQTT client),
               \* dead (ended with an error), idle (a device that the watchdog has closed)
    start,     \* of the bridge of a serial port: starting, started, failed
    loading,   \* number of schedule calls that await the settings
    timers,    \* the timers that are pending
    scheduled, \* the timer in the map of the service, or None
    executing, \* number of executeRestart calls that await the settings
    triggering,\* number of executeRestart calls that await triggerRestart
    settings,  \* [enabled, writing]: what the file holds, and whether it is being overwritten
    skipped    \* history: some call for the fault, since the launch, found restarts disabled or failed

calls == <<loading, timers, scheduled, executing, triggering>>
vars == <<process, link, start, loading, timers, scheduled, executing, triggering, settings, skipped>>

Alive == process \in {"running", "exiting"}
Calls(k) == loading[k] + Cardinality(timers[k]) + executing[k] + triggering[k]
Each(v) == [k \in Faults |-> v]
Less(f, k) == [f EXCEPT ![k] = @ - 1]
More(f, k) == [f EXCEPT ![k] = @ + 1]

-----------------------------------------------------------------------------
\* A process that has just been started: no MQTT client is connected, no port is open.
FirstLink == [k \in Faults |-> IF k \in Serial THEN "closed" ELSE "down"]
FirstStart == [k \in Faults |-> IF k \in Serial THEN "starting" ELSE "started"]

Init ==
    /\ process = "running" /\ link = FirstLink /\ start = FirstStart
    /\ loading = Each(0) /\ timers = Each({}) /\ scheduled = Each(None)
    /\ executing = Each(0) /\ triggering = Each(0) /\ skipped = Each(FALSE)
    /\ settings = [enabled |-> TRUE, writing |-> FALSE]

\* schedule up to its await: a fault that is in the map is not scheduled again.
Schedule(k) ==
    /\ Calls(k) < MaxCalls
    /\ loading' = IF scheduled[k] = None THEN More(loading, k) ELSE loading
    /\ UNCHANGED <<timers, scheduled, executing, triggering>>

\* Fault: clear stops the timer and leaves the fault in the map.
ClearTimerOnly(k) ==
    /\ timers' = [timers EXCEPT ![k] = @ \ {scheduled[k]}]
    /\ UNCHANGED <<loading, scheduled, executing, triggering>>

Clear(k) ==
    /\ timers' = [timers EXCEPT ![k] = @ \ {scheduled[k]}]
    /\ scheduled' = [scheduled EXCEPT ![k] = None]
    /\ UNCHANGED <<loading, executing, triggering>>

-----------------------------------------------------------------------------
(* The links.                                                              *)

\* createSerialPortConnection has opened the port; no event says so.
Open(k) ==
    /\ start[k] = "starting" /\ link[k] = "closed"
    /\ \E kind \in {"up", "open"} : link' = [link EXCEPT ![k] = kind]
    /\ UNCHANGED <<start, calls>>

\* 'error' of the port, which the bridge listens to once it has started.
PortFails(k) ==
    /\ k \in Serial /\ start[k] = "started" /\ link[k] \in {"open", "up", "down"}
    /\ link' = [link EXCEPT ![k] = "dead"]
    /\ Schedule(k) /\ UNCHANGED start

\* The watchdog of a started bridge: no data for serial_idle, nothing is said.
IdleTimeout(k) ==
    /\ start[k] = "started" /\ link[k] = "open"
    /\ link' = [link EXCEPT ![k] = "idle"]
    /\ UNCHANGED <<start, calls>>

\* 'reconnecting' of the port, or 'close' and 'error' of the MQTT client.
Lose(k) ==
    /\ link[k] = "up" /\ link' = [link EXCEPT ![k] = "down"]
    /\ Schedule(k) /\ UNCHANGED start

\* The same events when an attempt to reconnect fails.
Report(k) == link[k] = "down" /\ Schedule(k) /\ UNCHANGED <<link, start>>

\* 'reconnected' of the port, 'connect' of the MQTT client.
Recover(k) ==
    /\ link[k] = "down" /\ link' = [link EXCEPT ![k] = "up"]
    /\ Clear(k) /\ UNCHANGED start

\* The events of a bridge whose port is open also come while it is still starting, and its
\* success clears the fault whatever the port has met since.
StartSucceeds(k) ==
    /\ start[k] = "starting" /\ link[k] # "closed"
    /\ start' = [start EXCEPT ![k] = "started"]
    /\ Clear(k) /\ UNCHANGED link

\* Fault: a start that failed is left to the user.
StartFailsSilently(k) ==
    /\ start[k] = "starting"
    /\ start' = [start EXCEPT ![k] = "failed"]
    /\ UNCHANGED <<link, calls>>

StartFails(k) ==
    /\ start[k] = "starting"
    /\ start' = [start EXCEPT ![k] = "failed"]
    /\ Schedule(k) /\ UNCHANGED link

Link(k) ==
    /\ Alive
    /\ \/ Open(k) \/ StartSucceeds(k) \/ StartFails(k)
       \/ Lose(k) \/ Report(k) \/ Recover(k) \/ PortFails(k) \/ IdleTimeout(k)
    /\ UNCHANGED <<process, settings, skipped>>

\* The same error before there is a listener for it.
PortFailsUnheard(k) ==
    /\ Alive /\ process' = "crashed"
    /\ k \in Serial /\ start[k] = "starting" /\ link[k] # "closed"
    /\ UNCHANGED <<link, start, calls, settings, skipped>>

-----------------------------------------------------------------------------
(* The service.                                                            *)

Skip(k) == skipped' = [skipped EXCEPT ![k] = TRUE]

\* The rest of schedule; t is the timer it creates.  Another call may have been here meanwhile.
SetTimer(k, t) ==
    /\ loading[k] > 0 /\ settings.enabled /\ t \notin timers[k]
    /\ loading' = Less(loading, k)
    /\ timers' = [timers EXCEPT ![k] = @ \cup {t}]
    /\ scheduled' = [scheduled EXCEPT ![k] = t]
    /\ UNCHANGED <<process, executing, triggering, skipped>>

ScheduleDisabled(k) ==
    /\ loading[k] > 0 /\ ~settings.enabled
    /\ loading' = Less(loading, k) /\ Skip(k)
    /\ UNCHANGED <<process, timers, scheduled, executing, triggering>>

\* Half of the file is not JSON: nobody handles the rejection of schedule, which ends the process.
ScheduleRejected(k) ==
    /\ loading[k] > 0 /\ settings.writing
    /\ process' = "crashed"
    /\ UNCHANGED <<calls, skipped>>

\* Fault: the fault stays in the map when its timer has fired.
FireUnforgotten(k) ==
    \E t \in timers[k] :
        /\ timers' = [timers EXCEPT ![k] = @ \ {t}]
        /\ executing' = More(executing, k)
        /\ UNCHANGED <<process, loading, scheduled, triggering, skipped>>

\* The timer: executeRestart forgets the fault, whichever timer of it the map holds.
Fire(k) ==
    \E t \in timers[k] :
        /\ timers' = [timers EXCEPT ![k] = @ \ {t}]
        /\ scheduled' = [scheduled EXCEPT ![k] = None]
        /\ executing' = More(executing, k)
        /\ UNCHANGED <<process, loading, triggering, skipped>>

ExecuteRestart(k) ==
    /\ executing[k] > 0 /\ settings.enabled
    /\ executing' = Less(executing, k) /\ triggering' = More(triggering, k)
    /\ UNCHANGED <<process, loading, timers, scheduled, skipped>>

\* Disabled in the meantime, or the file could not be read.
ExecuteSkipped(k) ==
    /\ executing[k] > 0 /\ (~settings.enabled \/ settings.writing)
    /\ executing' = Less(executing, k) /\ Skip(k)
    /\ UNCHANGED <<process, loading, timers, scheduled, triggering>>

\* The file .restart-required has been written; restartProcess.
RestartTriggered(k) ==
    /\ triggering[k] > 0 /\ triggering' = Less(triggering, k)
    /\ process' = "exiting"
    /\ UNCHANGED <<loading, timers, scheduled, executing, skipped>>

\* It could not be written.
TriggerFailed(k) ==
    /\ triggering[k] > 0 /\ triggering' = Less(triggering, k) /\ Skip(k)
    /\ UNCHANGED <<process, loading, timers, scheduled, executing>>

Service(k) ==
    /\ Alive
    /\ \/ \E t \in Timers : SetTimer(k, t)
       \/ ScheduleDisabled(k) \/ ScheduleRejected(k) \/ Fire(k)
       \/ ExecuteRestart(k) \/ ExecuteSkipped(k) \/ RestartTriggered(k) \/ TriggerFailed(k)
    /\ UNCHANGED <<link, start, settings>>

-----------------------------------------------------------------------------
(* The settings and the process.                                           *)

SaveSettings(enabled) ==
    /\ Alive /\ ~settings.writing
    /\ settings' = [enabled |-> enabled, writing |-> TRUE]
    /\ UNCHANGED <<process, link, start, calls, skipped>>

SettingsSaved ==
    /\ Alive /\ settings.writing
    /\ settings' = [settings EXCEPT !.writing = FALSE]
    /\ UNCHANGED <<process, link, start, calls, skipped>>

\* POST /api/system/restart, and the other routes that restart.
RequestRestart ==
    /\ process = "running" /\ process' = "exiting"
    /\ UNCHANGED <<link, start, calls, settings, skipped>>

Exit ==
    /\ process = "exiting" /\ process' = "exited"
    /\ UNCHANGED <<link, start, calls, settings, skipped>>

\* run.sh starts the service again, the user one that has crashed.  A file that was being
\* written may be complete or not be there, in which case the defaults are saved.
Launch ==
    /\ process \in {"exited", "crashed"}
    /\ process' = "running" /\ link' = FirstLink /\ start' = FirstStart
    /\ loading' = Each(0) /\ timers' = Each({}) /\ scheduled' = Each(None)
    /\ executing' = Each(0) /\ triggering' = Each(0) /\ skipped' = Each(FALSE)
    /\ \E enabled \in {settings.enabled, TRUE} :
          settings' = [enabled |-> IF settings.writing THEN enabled ELSE settings.enabled,
                       writing |-> FALSE]

Next ==
    \/ \E k \in Faults : Link(k) \/ PortFailsUnheard(k) \/ Service(k)
    \/ \E enabled \in BOOLEAN : SaveSettings(enabled)
    \/ SettingsSaved \/ RequestRestart \/ Exit \/ Launch

Spec == Init /\ [][Next]_vars

\* Timers fire, files are read and written, failed attempts to reconnect are reported, run.sh
\* restarts; not for ever does the write of .restart-required fail.
Fairness ==
    /\ \A k \in Faults :
        /\ WF_vars(Alive /\ Report(k) /\ UNCHANGED <<process, settings, skipped>>)
        /\ WF_vars(Service(k))
        /\ SF_vars(Alive /\ RestartTriggered(k) /\ UNCHANGED <<link, start, settings>>)
    /\ WF_vars(SettingsSaved) /\ WF_vars(Exit) /\ WF_vars(process = "exited" /\ Launch)

FairSpec == Spec /\ Fairness

-----------------------------------------------------------------------------
\* The values of the variables; the timer in the map of the service is pending, as a fault in
\* the map without one would never be scheduled again.
TypeOK ==
    /\ process \in {"running", "exiting", "exited", "crashed"}
    /\ link \in [Faults -> {"closed", "open", "up", "down", "dead", "idle"}]
    /\ start \in [Faults -> {"starting", "started", "failed"}]
    /\ timers \in [Faults -> SUBSET Timers]
    /\ scheduled \in [Faults -> Timers \cup {None}]
    /\ settings \in [enabled : BOOLEAN, writing : BOOLEAN]
    /\ skipped \in [Faults -> BOOLEAN]
    /\ \A k \in Faults :
        /\ {loading[k], executing[k], triggering[k]} \subseteq 0..MaxCalls
        /\ Calls(k) \in 0..MaxCalls
        /\ scheduled[k] # None => scheduled[k] \in timers[k]

\* A fault that is reported once only.
ReportedOnce(k) == link[k] = "dead" \/ (start[k] = "failed" /\ link[k] = "closed")

\* A port that could not be opened at the start or has ended with an error, which is reported
\* once only, keeps its restart on the way whatever happens to other faults and happened to
\* this one before, unless restarts were disabled at one of the two times this is asked or
\* the restart itself failed.
LastingFaultIsPending ==
    \A k \in Faults :
        process = "running" /\ ReportedOnce(k) /\ ~skipped[k] => Calls(k) > 0

\* A reported fault does not last for ever while automatic restarts are enabled: the process
\* restarts, also when some attempts to restart fail.
NoFaultLastsForEver ==
    \A k \in Faults :
        []<>~(/\ process = "running" /\ settings = [enabled |-> TRUE, writing |-> FALSE]
              /\ \/ link[k] = "down"
                 \/ ReportedOnce(k) /\ ~skipped[k])

\* Documented: when the link recovers before the time is over its restart is cancelled.
RecoveredFaultDoesNotRestart ==
    [][\A k \in Faults : executing'[k] > executing[k] => link[k] # "up"]_vars

\* docs/config/serial.md:14 says of serial_idle that the connection is tried again when no
\* packet has been received for that time.  A device is closed, and neither opened again nor
\* reported for a restart.
IdlePortIsTriedAgain ==
    \A k \in Faults : process = "running" /\ link[k] = "idle" ~> process # "running"
=============================================================================
