-------------------------- MODULE StateStoreProofs --------------------------
(***************************************************************************)
(* The invariants of StateStore for every set of entities and values,      *)
(* every configuration of them and every order of restarts.  That the      *)
(* broker and the file agree with the states leans on the cache of         *)
(* payloads, which decides whether an update is published and saved, and   *)
(* on what may be in the file, or on its way to it, in each phase of the   *)
(* start; IInv says both.                                                  *)
(***************************************************************************)
EXTENDS StateStore, TLAPS

\* The content c has every state a restart should find.
Current(states, c) ==
    \A e \in Entities \ Internal : states[e] # None => c # Torn /\ c[e] = states[e]

\* Before the local cache is read only the defaults of ALWAYS_* entities are known, and cached.
LoadingInv ==
    phase = "loading" =>
        /\ \A e \in Entities : deviceStates[e] # None \/ stateCache[e] # None => Kind[e] = "always"
        /\ ~saveTimer => \A e \in Entities \ Internal : Kind[e] # "always"

\* What is in the file or on its way to it, while no save is pending and no timer of a
\* stopped StateManager has interfered.
FileInv ==
    ~overwritten =>
        /\ phase = "cleaning" => writing = {}
        /\ phase \in {"restoring", "running"} /\ ~saveTimer =>
            /\ writing = {} => Current(deviceStates, file)
            /\ \A s \in writing : Current(deviceStates, s)

IInv == TypeOK /\ BrokerAgrees /\ CacheHidesNoChange /\ LoadingInv /\ FileInv

-----------------------------------------------------------------------------
(* Values that other ones are laid over.                                   *)

LEMMA UnknownType == Unknown \in States
  BY DEF Unknown, States

LEMMA DefaultType == Default \in States
  BY DefaultAssumption DEF States

LEMMA OverlayType ==
  ASSUME NEW f \in States, NEW S, NEW g, S = {} \/ g \in States
  PROVE  Overlay(f, S, g) \in States
  BY DEF Overlay, States

LEMMA OverlayFacts ==
  ASSUME NEW f, NEW S, NEW g
  PROVE  /\ \A e \in Entities \cap S : Overlay(f, S, g)[e] = g[e]
         /\ \A e \in Entities \ S : Overlay(f, S, g)[e] = f[e]
  BY DEF Overlay

\* An update with a payload the cache does not have is one it does not have anything newer of.
LEMMA CacheMissesUpdates ==
  ASSUME IInv, NEW e \in Entities, NEW v \in Values, Update(e, v)
  PROVE  stateCache[e] # v
  BY NoneAssumption DEF NoneAssumption, IInv, CacheHidesNoChange, Update

LEMMA InitOK == Init => IInv
  <1> SUFFICES ASSUME Init PROVE IInv
    OBVIOUS
  <1>1. TypeOK
    BY UnknownType DEF Init, TypeOK
  <1> QED BY <1>1 DEF Init, IInv, BrokerAgrees, CacheHidesNoChange, LoadingInv, FileInv

-----------------------------------------------------------------------------
(* The steps, one lemma for each.                                          *)

LEMMA StartOK == IInv /\ Start => IInv'
  <1> SUFFICES ASSUME IInv, Start PROVE IInv'
    OBVIOUS
  <1> DEFINE A == OfKind("always")
  <1>1. deviceStates' \in States /\ stateCache' = deviceStates'
    BY UnknownType, DefaultType, OverlayType DEF Start
  <1>2. TypeOK'
    BY <1>1 DEF IInv, TypeOK, Start
  <1>3. LoadingInv'
    <2>1. \A e \in Entities : deviceStates'[e] # None => Kind[e] = "always"
      BY DEF Start, Overlay, Unknown, OfKind
    <2>2. ~saveTimer' => \A e \in Entities \ Internal : Kind[e] # "always"
      BY DEF Start, OfKind
    <2> QED BY <1>1, <2>1, <2>2 DEF LoadingInv
  <1>4. BrokerAgrees' /\ CacheHidesNoChange' /\ FileInv'
    BY <1>1 DEF BrokerAgrees, CacheHidesNoChange, FileInv, Start
  <1> QED BY <1>2, <1>3, <1>4 DEF IInv

LEMMA LoadLocalCacheOK == IInv /\ LoadLocalCache => IInv'
  <1> SUFFICES ASSUME IInv, LoadLocalCache PROVE IInv'
    OBVIOUS
  <1> DEFINE saved == IF file = Torn THEN {} ELSE {e \in Entities : file[e] # None}
             kept  == saved \ OfKind("always")
  <1>1. /\ phase = "loading" /\ deviceStates' = Overlay(deviceStates, kept, file)
        /\ \/ saved = kept /\ phase' = "restoring" /\ file' = file
           \/ phase' = "cleaning" /\ file' = Torn
        /\ overwritten' = (writing # {})
        /\ UNCHANGED <<stateCache, saveTimer, leftover, writing, retained>>
    BY DEF LoadLocalCache
  <1>2. kept = {} \/ (file # Torn /\ file \in States)
    BY DEF IInv, TypeOK
  <1> HIDE DEF kept
  <1>3. TypeOK'
    <2>1. deviceStates' \in States
      BY <1>1, <1>2, OverlayType DEF IInv, TypeOK
    <2> QED BY <1>1, <2>1 DEF IInv, TypeOK
  <1>4. CacheHidesNoChange'
    <2> SUFFICES ASSUME NEW e \in Entities, stateCache[e] # None
                 PROVE  stateCache[e] = deviceStates'[e]
      BY <1>1 DEF CacheHidesNoChange
    <2>1. Kind[e] = "always" /\ stateCache[e] = deviceStates[e]
      BY <1>1 DEF IInv, LoadingInv, CacheHidesNoChange
    <2>2. e \notin kept
      BY <2>1 DEF kept, OfKind
    <2> QED BY <1>1, <2>1, <2>2, OverlayFacts
  <1>5. FileInv'
    <2> SUFFICES ASSUME ~overwritten', phase' = "restoring", ~saveTimer
                 PROVE  Current(deviceStates', file)
      BY <1>1 DEF FileInv
    <2> SUFFICES ASSUME NEW e \in Entities \ Internal, deviceStates'[e] # None
                 PROVE  file # Torn /\ file[e] = deviceStates'[e]
      BY DEF Current
    <2>1. Kind[e] # "always"
      BY <1>1 DEF IInv, LoadingInv
    <2>2. deviceStates[e] = None
      BY <1>1, <2>1 DEF IInv, LoadingInv
    <2>3. e \in kept
      BY <1>1, <2>2, OverlayFacts
    <2> QED BY <1>1, <1>2, <2>3, OverlayFacts
  <1>6. BrokerAgrees' /\ LoadingInv'
    BY <1>1 DEF BrokerAgrees, LoadingInv
  <1> QED BY <1>3, <1>4, <1>5, <1>6 DEF IInv

LEMMA CleanedOK == IInv /\ Cleaned => IInv'
  <1> SUFFICES ASSUME IInv, Cleaned PROVE IInv'
    OBVIOUS
  <1>1. TypeOK' /\ deviceStates # Torn
    BY TornAssumption DEF TornAssumption, States, IInv, TypeOK, Cleaned
  <1>2. FileInv'
    BY <1>1 DEF IInv, FileInv, Cleaned, Current
  <1> QED
    BY <1>1, <1>2 DEF IInv, BrokerAgrees, CacheHidesNoChange, LoadingInv, Cleaned

LEMMA FinishRestoreOK ==
  ASSUME IInv, NEW S \in SUBSET Entities, FinishRestore(S)
  PROVE  IInv'
  <1> DEFINE missing == {e \in OfKind("restore") \ S : deviceStates[e] = None}
             base    == Overlay(deviceStates, S, retained)
             states  == Overlay(base, missing, Default)
             public  == {e \in Entities \ Internal : states[e] # None}
  <1>1. /\ phase = "restoring" /\ phase' = "running"
        /\ deviceStates' = states
        /\ stateCache' = Overlay(stateCache, S \cup missing, states)
        /\ saveTimer' = (saveTimer \/ S # {} \/ missing \ Internal # {})
        /\ retained' = Overlay(retained, public, states)
        /\ UNCHANGED <<leftover, writing, file, overwritten>>
    BY DEF FinishRestore
  <1>2. states \in States
    <2>1. base \in States
      BY OverlayType DEF IInv, TypeOK
    <2> QED BY <2>1, DefaultType, OverlayType
  <1>3. \A e \in Entities \ (S \cup missing) : states[e] = deviceStates[e]
    BY OverlayFacts
  <1> HIDE DEF missing, base, states
  <1>4. TypeOK'
    BY <1>1, <1>2, OverlayType DEF IInv, TypeOK
  <1>5. BrokerAgrees'
    BY <1>1, OverlayFacts DEF BrokerAgrees
  <1>6. CacheHidesNoChange'
    <2> SUFFICES ASSUME NEW e \in Entities, stateCache'[e] # None
                 PROVE  stateCache'[e] = deviceStates'[e]
      BY DEF CacheHidesNoChange
    <2>1. CASE e \in S \cup missing
      BY <1>1, <2>1, OverlayFacts
    <2>2. CASE e \notin S \cup missing
      <3>1. stateCache'[e] = stateCache[e]
        BY <1>1, <2>2, OverlayFacts
      <3> QED BY <1>1, <1>3, <2>2, <3>1 DEF IInv, CacheHidesNoChange
    <2> QED BY <2>1, <2>2
  <1>7. FileInv'
    <2> SUFFICES ASSUME ~overwritten, ~saveTimer'
                 PROVE  /\ writing = {} => Current(deviceStates', file)
                        /\ \A s \in writing : Current(deviceStates', s)
      BY <1>1 DEF FileInv
    <2>1. ~saveTimer /\ S = {} /\ missing \subseteq Internal
      BY <1>1
    <2>2. \A e \in Entities \ Internal : deviceStates'[e] = deviceStates[e]
      BY <1>1, <1>3, <2>1
    <2> QED BY <1>1, <2>1, <2>2 DEF IInv, FileInv, Current
  <1>8. LoadingInv'
    BY <1>1 DEF LoadingInv
  <1> QED BY <1>4, <1>5, <1>6, <1>7, <1>8 DEF IInv

LEMMA UpdateOK ==
  ASSUME IInv, NEW e \in Entities, NEW v \in Values, Update(e, v)
  PROVE  IInv'
  <1>1. stateCache[e] # v
    BY CacheMissesUpdates
  <1>2. /\ phase \in {"restoring", "running"}
        /\ deviceStates' = [deviceStates EXCEPT ![e] = v]
        /\ stateCache' = [stateCache EXCEPT ![e] = v]
        /\ IF e \in Internal
           THEN saveTimer' = saveTimer /\ retained' = retained
           ELSE /\ saveTimer' = TRUE
                /\ retained' = IF phase = "running" THEN [retained EXCEPT ![e] = v] ELSE retained
        /\ UNCHANGED <<phase, leftover, writing, file, overwritten>>
    BY <1>1 DEF Update
  <1>3. TypeOK'
    BY <1>2 DEF IInv, TypeOK, States
  <1>4. BrokerAgrees'
    BY <1>2 DEF IInv, TypeOK, States, BrokerAgrees
  <1>5. CacheHidesNoChange'
    BY <1>2 DEF IInv, TypeOK, States, CacheHidesNoChange
  <1>6. FileInv'
    <2>1. CASE e \in Internal
      <3>1. \A d \in Entities \ Internal : deviceStates'[d] = deviceStates[d]
        BY <1>2, <2>1 DEF IInv, TypeOK, States
      <3> QED BY <1>2, <2>1, <3>1 DEF IInv, FileInv, Current
    <2>2. CASE e \notin Internal
      BY <1>2, <2>2 DEF FileInv
    <2> QED BY <2>1, <2>2
  <1>7. LoadingInv'
    BY <1>2 DEF LoadingInv
  <1> QED BY <1>3, <1>4, <1>5, <1>6, <1>7 DEF IInv

LEMMA SaveTimerOK == IInv /\ SaveTimer => IInv'
  <1> SUFFICES ASSUME IInv, SaveTimer PROVE IInv'
    OBVIOUS
  <1>1. TypeOK' /\ deviceStates # Torn
    BY TornAssumption DEF TornAssumption, States, IInv, TypeOK, SaveTimer
  <1>2. FileInv'
    BY <1>1 DEF FileInv, SaveTimer, Current
  <1> QED
    BY <1>1, <1>2 DEF IInv, BrokerAgrees, CacheHidesNoChange, LoadingInv, SaveTimer

LEMMA LeftoverTimerOK ==
  ASSUME IInv, NEW states \in leftover, LeftoverTimer(states)
  PROVE  IInv'
  BY DEF IInv, TypeOK, BrokerAgrees, CacheHidesNoChange, LoadingInv, FileInv, LeftoverTimer

LEMMA WriteDoneOK ==
  ASSUME IInv, NEW states \in writing, WriteDone(states)
  PROVE  IInv'
  <1>1. TypeOK'
    BY DEF IInv, TypeOK, WriteDone
  <1>2. FileInv'
    BY DEF IInv, FileInv, WriteDone
  <1> QED
    BY <1>1, <1>2 DEF IInv, BrokerAgrees, CacheHidesNoChange, LoadingInv, WriteDone

LEMMA StopOK == IInv /\ Stop => IInv'
  BY DEF IInv, TypeOK, BrokerAgrees, CacheHidesNoChange, LoadingInv, FileInv, Stop

LEMMA CrashOK == IInv /\ Crash => IInv'
  BY UnknownType
  DEF IInv, TypeOK, BrokerAgrees, CacheHidesNoChange, LoadingInv, FileInv, Crash

LEMMA StutterOK == IInv /\ UNCHANGED vars => IInv'
  BY DEF IInv, TypeOK, BrokerAgrees, CacheHidesNoChange, LoadingInv, FileInv, Current, vars

-----------------------------------------------------------------------------
\* The inductive invariant of StateStore.
THEOREM StoreInvariant == Spec => []IInv
  <1>1. IInv /\ [Next]_vars => IInv'
    BY StartOK, LoadLocalCacheOK, CleanedOK, FinishRestoreOK, UpdateOK, SaveTimerOK,
       LeftoverTimerOK, WriteDoneOK, StopOK, CrashOK, StutterOK
    DEF Next
  <1> QED BY <1>1, InitOK, PTL DEF Spec

\* The types, and that the file is written by one call at a time.
THEOREM StoreTypes == Spec => []TypeOK
  <1>1. IInv => TypeOK
    BY DEF IInv
  <1> QED BY <1>1, StoreInvariant, PTL

\* While the bridge runs the retained message of a public entity is its state.
THEOREM BrokerFollows == Spec => []BrokerAgrees
  <1>1. IInv => BrokerAgrees
    BY DEF IInv
  <1> QED BY <1>1, StoreInvariant, PTL

\* The cache of payloads never holds anything but the present state.
THEOREM CacheIsHonest == Spec => []CacheHidesNoChange
  <1>1. IInv => CacheHidesNoChange
    BY DEF IInv
  <1> QED BY <1>1, StoreInvariant, PTL

\* When no save is pending or in progress a restart would find every state in the file.
THEOREM FileIsCurrent == Spec => []QuietFileIsCurrent
  <1>1. IInv => QuietFileIsCurrent
    BY DEF IInv, FileInv, Current, QuietFileIsCurrent
  <1> QED BY <1>1, StoreInvariant, PTL
=============================================================================
