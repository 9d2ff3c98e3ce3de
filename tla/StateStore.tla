----------------------------- MODULE StateStore -----------------------------
(***************************************************************************)
(* The states of the entities of one bridge and the places that keep them: *)
(* the StateManager (packages/core/src/state/state-manager.ts), the cache  *)
(* of payloads all StateManagers of the process share (state/store.ts),    *)
(* the file the states are saved to a second after a change, and the       *)
(* retained messages of the MQTT broker, which MqttConnector.start reads   *)
(* (transports/mqtt/mqtt.connector.ts) and a 'state:changed' event writes. *)
(*                                                                         *)
(* The bridge may be stopped and started again in the process, and the     *)
(* process may end at any time: server.ts does not flush what is unsaved.  *)
(* The state of an entity is one value, which an update replaces; an       *)
(* update that changes nothing is a step that is not taken.                *)
(*                                                                         *)
(* Assumed: the file is read, or written, within the second a save timer   *)
(* lasts, no write fails while the process lives, and the broker keeps     *)
(* what is published to it.                                                *)
(***************************************************************************)

CONSTANTS
    Entities, Values, None,
    Torn,       \* the content of a file whose writing has begun and not ended
    Kind,       \* device: not optimistic; always, restore: optimistic, with restore_mode
                \* ALWAYS_* or RESTORE_DEFAULT_*
    Default,    \* getDefaultStateForMode
    Internal,   \* entity.internal
    Restarts    \* "bridge": stopped and started in the process; "process": ended

ASSUME NoneAssumption == None \notin Values
ASSUME TornAssumption == Torn \notin [Entities -> Values \cup {None}]
ASSUME KindAssumption == Kind \in [Entities -> {"device", "always", "restore"}]
ASSUME DefaultAssumption == Default \in [Entities -> Values] /\ Internal \subseteq Entities

VARIABLES
    phase,       \* of HomeNetBridge.initialize: stopped, loading, cleaning, restoring, running
    deviceStates,
    stateCache,  \* the payload last recorded for the topic of an entity
    saveTimer,   \* saveTimer of this StateManager is pending
    leftover,    \* the deviceStates of stopped StateManagers whose saveTimer is pending
    writing,     \* the contents of the writeFile calls in progress
    file,        \* states_cache_<port>.json
    retained,    \* the retained messages of the broker
    overwritten  \* history: a stopped StateManager has written the file since this one read or wrote it

vars == <<phase, deviceStates, stateCache, saveTimer, leftover, writing, file, retained, overwritten>>

States == [Entities -> Values \cup {None}]
Unknown == [e \in Entities |-> None]
OfKind(k) == {e \in Entities : Kind[e] = k}

\* f with the values g has for the entities in S.
Overlay(f, S, g) == [e \in Entities |-> IF e \in S THEN g[e] ELSE f[e]]

-----------------------------------------------------------------------------
Init ==
    /\ phase = "stopped"
    /\ deviceStates = Unknown /\ stateCache = Unknown
    /\ saveTimer = FALSE /\ leftover = {} /\ writing = {}
    /\ file = Unknown /\ retained = Unknown
    /\ overwritten = FALSE

\* Fault: the cache of payloads of the previous bridge is kept.
StartUncleared ==
    /\ phase = "stopped" /\ phase' = "loading"
    /\ deviceStates' = Overlay(Unknown, OfKind("always"), Default)
    /\ stateCache' = Overlay(stateCache, OfKind("always"), Default)
    /\ saveTimer' = (OfKind("always") \ Internal # {})
    /\ UNCHANGED <<leftover, writing, file, retained, overwritten>>

\* initialize clears the cache of payloads; the constructor of StateManager gives the
\* ALWAYS_* entities their default.  No connector listens to its events yet.
Start ==
    /\ phase = "stopped" /\ phase' = "loading"
    /\ deviceStates' = Overlay(Unknown, OfKind("always"), Default)
    /\ stateCache' = deviceStates'
    /\ saveTimer' = (OfKind("always") \ Internal # {})
    /\ UNCHANGED <<leftover, writing, file, retained, overwritten>>

\* loadLocalCache: what the file holds of the entities that are not ALWAYS_*.  A file that
\* cannot be parsed is logged; one that held an entity that is skipped is written anew.
LoadLocalCache ==
    /\ phase = "loading"
    /\ LET saved == IF file = Torn THEN {} ELSE {e \in Entities : file[e] # None}
           kept  == saved \ OfKind("always")
       IN  /\ deviceStates' = Overlay(deviceStates, kept, file)
           /\ IF saved = kept
              THEN phase' = "restoring" /\ UNCHANGED file
              ELSE phase' = "cleaning" /\ file' = Torn
    /\ overwritten' = (writing # {})
    /\ UNCHANGED <<stateCache, saveTimer, leftover, writing, retained>>

Cleaned ==
    /\ phase = "cleaning" /\ phase' = "restoring"
    /\ file' = deviceStates
    /\ UNCHANGED <<deviceStates, stateCache, saveTimer, leftover, writing, retained, overwritten>>

\* Fault: only the entities just restored or initialized are published.
FinishRestorePublishingFew(S) ==
    /\ phase = "restoring" /\ phase' = "running"
    /\ S \subseteq {e \in OfKind("restore") : retained[e] # None}
    /\ LET missing == {e \in OfKind("restore") \ S : deviceStates[e] = None}
           states  == Overlay(Overlay(deviceStates, S, retained), missing, Default)
       IN  /\ deviceStates' = states
           /\ stateCache' = Overlay(stateCache, S \cup missing, states)
           /\ saveTimer' = (saveTimer \/ S # {} \/ missing \ Internal # {})
           /\ retained' = Overlay(retained, (S \cup missing) \ Internal, states)
    /\ UNCHANGED <<leftover, writing, file, overwritten>>

\* The retained messages of the entities in S have arrived in time: restoreEntityState for
\* each, then the default of every RESTORE_DEFAULT_* entity that has no state, then the
\* connector listens to 'state:changed' and publishRestoredLocalStates emits them all.
FinishRestore(S) ==
    /\ phase = "restoring" /\ phase' = "running"
    /\ S \subseteq {e \in OfKind("restore") : retained[e] # None}
    /\ LET missing == {e \in OfKind("restore") \ S : deviceStates[e] = None}
           states  == Overlay(Overlay(deviceStates, S, retained), missing, Default)
           public  == {e \in Entities \ Internal : states[e] # None}
       IN  /\ deviceStates' = states
           /\ stateCache' = Overlay(stateCache, S \cup missing, states)
           /\ saveTimer' = (saveTimer \/ S # {} \/ missing \ Internal # {})
           /\ retained' = Overlay(retained, public, states)
    /\ UNCHANGED <<leftover, writing, file, overwritten>>

\* Fault: a change is not saved.
UpdateUnsaved(e, v) ==
    /\ phase \in {"restoring", "running"}
    /\ deviceStates[e] # v
    /\ deviceStates' = [deviceStates EXCEPT ![e] = v]
    /\ stateCache' = [stateCache EXCEPT ![e] = v]
    /\ retained' = IF e \notin Internal /\ phase = "running"
                   THEN [retained EXCEPT ![e] = v] ELSE retained
    /\ UNCHANGED <<phase, saveTimer, leftover, writing, file, overwritten>>

\* applyStateUpdate: a packet (once the bridge runs), a command or an automation (also
\* while the retained messages are awaited).  A payload that is in the cache already is
\* not published; an internal entity is neither published nor saved.
Update(e, v) ==
    /\ phase \in {"restoring", "running"}
    /\ deviceStates[e] # v
    /\ deviceStates' = [deviceStates EXCEPT ![e] = v]
    /\ stateCache' = [stateCache EXCEPT ![e] = v]
    /\ IF stateCache[e] = v \/ e \in Internal
       THEN UNCHANGED <<saveTimer, retained>>
       ELSE /\ saveTimer' = TRUE
            /\ retained' = IF phase = "running" THEN [retained EXCEPT ![e] = v] ELSE retained
    /\ UNCHANGED <<phase, leftover, writing, file, overwritten>>

\* Fault: a second write starts before the first has ended.
SaveTimerAnyway ==
    /\ saveTimer /\ phase \in {"restoring", "running"}
    /\ saveTimer' = FALSE
    /\ writing' = writing \cup {deviceStates} /\ file' = Torn
    /\ UNCHANGED <<phase, deviceStates, stateCache, leftover, retained, overwritten>>

\* saveStatesDebounced: the timer writes what deviceStates holds when it fires.
SaveTimer ==
    /\ saveTimer /\ phase \in {"restoring", "running"} /\ writing = {}
    /\ saveTimer' = FALSE
    /\ writing' = {deviceStates} /\ file' = Torn
    /\ overwritten' = FALSE
    /\ UNCHANGED <<phase, deviceStates, stateCache, leftover, retained>>

\* The same timer of a StateManager whose bridge was stopped.
LeftoverTimer(states) ==
    /\ states \in leftover /\ writing = {}
    /\ leftover' = leftover \ {states}
    /\ writing' = {states} /\ file' = Torn
    /\ overwritten' = TRUE
    /\ UNCHANGED <<phase, deviceStates, stateCache, saveTimer, retained>>

WriteDone(states) ==
    /\ states \in writing /\ writing' = {} /\ file' = states
    /\ UNCHANGED <<phase, deviceStates, stateCache, saveTimer, leftover, retained, overwritten>>

\* bridge.stop: the connector no longer listens; the StateManager is dropped as it is.
\* Bound: a bridge is not stopped again before the timer of the last one has fired.
Stop ==
    /\ "bridge" \in Restarts /\ leftover = {}
    /\ phase = "running" /\ phase' = "stopped"
    /\ leftover' = leftover \cup {s \in {deviceStates} : saveTimer}
    /\ saveTimer' = FALSE
    /\ UNCHANGED <<deviceStates, stateCache, writing, file, retained, overwritten>>

\* The process ends; what it was writing stays torn.
Crash ==
    /\ "process" \in Restarts
    /\ phase' = "stopped"
    /\ stateCache' = Unknown /\ deviceStates' = Unknown
    /\ saveTimer' = FALSE /\ leftover' = {} /\ writing' = {}
    /\ UNCHANGED <<file, retained, overwritten>>

Next ==
    \/ Start \/ LoadLocalCache \/ Cleaned
    \/ \E S \in SUBSET Entities : FinishRestore(S)
    \/ \E e \in Entities, v \in Values : Update(e, v)
    \/ \E states \in leftover : LeftoverTimer(states)
    \/ \E states \in writing : WriteDone(states)
    \/ SaveTimer \/ Stop \/ Crash

Spec == Init /\ [][Next]_vars

\* Timers fire and writes end.
FairSpec == Spec /\ WF_vars(SaveTimer) /\ WF_vars(\E states \in writing : WriteDone(states))

-----------------------------------------------------------------------------
\* Every variable holds values of the kind the code keeps in it.
TypeOK ==
    /\ phase \in {"stopped", "loading", "cleaning", "restoring", "running"}
    /\ deviceStates \in States /\ stateCache \in States /\ retained \in States
    /\ file \in States \cup {Torn}
    /\ saveTimer \in BOOLEAN /\ overwritten \in BOOLEAN
    /\ leftover \subseteq States /\ writing \subseteq States /\ \A s, t \in writing : s = t

\* The rest of the world sees what the bridge believes: while it runs, the retained message
\* of an entity that is not internal is its state, however it came by it.
BrokerAgrees ==
    phase = "running" =>
        \A e \in Entities \ Internal : deviceStates[e] # None => retained[e] = deviceStates[e]

\* The cache of payloads, which outlives the StateManager, never hides a change: what it
\* holds for an entity of the running bridge is the state of that entity, the default of an
\* ALWAYS_* entity, which is not restored, included.
CacheHidesNoChange ==
    phase # "stopped" =>
        \A e \in Entities : stateCache[e] # None => stateCache[e] = deviceStates[e]

\* What a restart would read is never older than the last save: when no save is pending
\* or in progress, the file holds the state of every entity that is not internal, unless
\* the timer of a stopped StateManager has written the file behind the back of this one.
QuietFileIsCurrent ==
    phase = "running" /\ ~saveTimer /\ writing = {} /\ ~overwritten =>
        \A e \in Entities \ Internal : deviceStates[e] # None =>
            file # Torn /\ file[e] = deviceStates[e]

\* A bridge that goes on running gets its states to the file for good, once they stop
\* changing.
StatesReachTheFile ==
    (<>[](phase = "running" /\ ~overwritten) /\ <>[][deviceStates' = deviceStates]_vars) =>
        <>[](~saveTimer /\ file # Torn /\ \A e \in Entities \ Internal : file[e] = deviceStates[e])
=============================================================================
