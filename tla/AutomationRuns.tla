--------------------------- MODULE AutomationRuns ---------------------------
(***************************************************************************)
(* The runs of automations (packages/core/src/automation/                  *)
(* automation-manager.ts): what a trigger does in each of the four modes,  *)
(* how a run goes through its actions, how the restart mode aborts it and  *)
(* what its finally block does to the map runningAutomations and to the    *)
(* queue of the queued mode; and the edits the configuration routes make   *)
(* while runs are in progress.                                             *)
(*                                                                         *)
(* executeAutomation runs synchronously up to the first await of an action *)
(* and again from one await to the next, so one action of the model is one *)
(* such stretch.  A member of Runs names one call of executeAutomation (or *)
(* the closure that will make it); it is free again once that call ended.  *)
(***************************************************************************)
EXTENDS Naturals, Sequences, FiniteSets

CONSTANTS
    Automations, Runs, NoRun,
    Mode0,   \* the modes the automations may be configured with at the start
    Edits,   \* the modes an edit may change an automation to
    Body     \* the actions of each automation: Body[a][i] has an entry for every step of
             \* action i (one for a delay or a command; one for each action inside if,
             \* repeat, choose or a script), which says whether the abort signal is
             \* looked at before that step: not before those inside a script, which is
             \* not handed the signal

Modes == {"parallel", "single", "restart", "queued"}

ASSUME RunsAssumption == NoRun \notin Runs /\ Automations # {}
ASSUME ModesAssumption == Mode0 \subseteq [Automations -> Modes] /\ Edits \subseteq Modes
ASSUME BodyAssumption ==
    \A a \in Automations : Body[a] \in Seq(Seq(BOOLEAN) \ {<<>>}) /\ Body[a] # <<>>

VARIABLES
    known,    \* automationList, as the set of its ids
    mode,     \* automation.mode
    running,  \* runningAutomations: id -> the run whose AbortController it holds
    waiting,  \* automationQueues: id -> the closures of the queued mode
    run,      \* the state of each run
    ahead     \* history: the runs of the queued mode in progress or waiting when a run was queued

vars == <<known, mode, running, waiting, run, ahead>>

RunRecord == [phase   : {"free", "queued", "acting"},
              of      : Automations,
              mode    : Modes \cup {"manual"},  \* the mode it was triggered in
              at      : Nat,                    \* the index of the action it awaits
              step    : Nat,                    \* the step of that action
              aborted : BOOLEAN]                \* abortController.signal.aborted

Live(r)    == run[r].phase = "acting"
InQueuedMode(r, a) == run[r].phase # "free" /\ run[r].mode = "queued" /\ run[r].of = a
Actions(r) == Body[run[r].of]
Steps(r)   == Actions(r)[run[r].at]
Tracked(r) == Live(r) /\ run[r].mode \notin {"parallel", "manual"}

\* A run in phase p, at its first action.
NewRun(a, m, p) == [phase |-> p, of |-> a, mode |-> m, at |-> 1, step |-> 1,
                    aborted |-> FALSE]

Idle == NewRun(CHOOSE a \in Automations : TRUE, "parallel", "free")

-----------------------------------------------------------------------------
Init ==
    /\ known = Automations
    /\ mode \in Mode0
    /\ running = [a \in Automations |-> NoRun]
    /\ waiting = [a \in Automations |-> <<>>]
    /\ run = [r \in Runs |-> Idle]
    /\ ahead = [r \in Runs |-> {}]

\* A trigger of automation a fires and r names the execution it asks for.
CanTrigger(a, r) == a \in known /\ run[r].phase = "free"

\* parallel and single: when the guard is false and there is no else branch the
\* finally block has run before executeAutomation returns, and nothing has changed.
TriggerParallel(a, r) ==
    /\ CanTrigger(a, r) /\ mode[a] = "parallel"
    /\ run' = [run EXCEPT ![r] = NewRun(a, "parallel", "acting")]
    /\ UNCHANGED <<known, mode, running, waiting, ahead>>

\* Fault: runningAutomations is not consulted.
TriggerSingleAnyway(a, r) ==
    /\ CanTrigger(a, r) /\ mode[a] = "single"
    /\ run' = [run EXCEPT ![r] = NewRun(a, "single", "acting")]
    /\ running' = [running EXCEPT ![a] = r]
    /\ UNCHANGED <<known, mode, waiting, ahead>>

\* single: ignored while runningAutomations has the id.
TriggerSingle(a, r) ==
    /\ CanTrigger(a, r) /\ mode[a] = "single"
    /\ running[a] = NoRun
    /\ run' = [run EXCEPT ![r] = NewRun(a, "single", "acting")]
    /\ running' = [running EXCEPT ![a] = r]
    /\ UNCHANGED <<known, mode, waiting, ahead>>

\* restart: abort the run whose controller the map holds, then register this one,
\* which leaves the map at once when it has no action to execute.
TriggerRestart(a, r, hasActions) ==
    /\ CanTrigger(a, r) /\ mode[a] = "restart"
    /\ LET q == running[a]
           aborted == [p \in Runs |-> IF p = q THEN [run[p] EXCEPT !.aborted = TRUE] ELSE run[p]]
       IN  IF hasActions
           THEN /\ run' = [aborted EXCEPT ![r] = NewRun(a, "restart", "acting")]
                /\ running' = [running EXCEPT ![a] = r]
           ELSE /\ run' = aborted
                /\ running' = [running EXCEPT ![a] = NoRun]
    /\ UNCHANGED <<known, mode, waiting, ahead>>

\* Fault: the closure called next is the one queued last (pop for shift).
RunLastQueued(a, runs, skipped) ==
    LET q == waiting[a]
    IN  /\ skipped = 0
        /\ waiting' = [waiting EXCEPT ![a] = SubSeq(q, 1, Len(q) - 1)]
        /\ IF q = <<>>
           THEN run' = runs /\ running' = [running EXCEPT ![a] = NoRun]
           ELSE /\ run' = [runs EXCEPT ![q[Len(q)]].phase = "acting"]
                /\ running' = [running EXCEPT ![a] = q[Len(q)]]

\* Fault: no closure is called.
RunNoneQueued(a, runs, skipped) ==
    /\ skipped = 0
    /\ run' = runs /\ running' = [running EXCEPT ![a] = NoRun]
    /\ UNCHANGED waiting

\* The finally block of a queued run of a, every other run being as in runs: the map
\* forgets the id, and the closures at the front of the queue are called until one
\* of them has an action to wait for; each of those before it (skipped many) had none.
RunNextQueued(a, runs, skipped) ==
    LET q == waiting[a]
        done == {q[i] : i \in 1..skipped}
        idle == [p \in Runs |-> IF p \in done THEN Idle ELSE runs[p]]
    IN  /\ skipped \in 0..Len(q)
        /\ waiting' = [waiting EXCEPT ![a] = SubSeq(q, skipped + 2, Len(q))]
        /\ IF skipped = Len(q)
           THEN run' = idle /\ running' = [running EXCEPT ![a] = NoRun]
           ELSE /\ run' = [idle EXCEPT ![q[skipped + 1]].phase = "acting"]
                /\ running' = [running EXCEPT ![a] = q[skipped + 1]]

\* queued: put in the queue while runningAutomations has the id, else executed.
TriggerQueued(a, r, hasActions) ==
    /\ CanTrigger(a, r) /\ mode[a] = "queued"
    /\ IF running[a] # NoRun
       THEN /\ run' = [run EXCEPT ![r] = NewRun(a, "queued", "queued")]
            /\ waiting' = [waiting EXCEPT ![a] = Append(@, r)]
            /\ UNCHANGED running
       ELSE /\ IF hasActions
               THEN /\ run' = [run EXCEPT ![r] = NewRun(a, "queued", "acting")]
                    /\ running' = [running EXCEPT ![a] = r]
                    /\ UNCHANGED waiting
               ELSE \E skipped \in 0..Len(waiting[a]) : RunNextQueued(a, run, skipped)
    /\ ahead' = [p \in Runs |-> IF p = r
                                THEN {o \in Runs : InQueuedMode(o, a)}
                                ELSE ahead[p] \ {r}]
    /\ UNCHANGED <<known, mode>>

\* runAutomationThen: the actions without guard, mode, map or abort signal.
RunNow(a, r) ==
    /\ CanTrigger(a, r)
    /\ run' = [run EXCEPT ![r] = NewRun(a, "manual", "acting")]
    /\ UNCHANGED <<known, mode, running, waiting, ahead>>

\* Fault: the signal is not handed on to the branches of if, repeat and choose.
StepUnsignalled(r) ==
    /\ Live(r) /\ run[r].step < Len(Steps(r))
    /\ run' = [run EXCEPT ![r].step = @ + 1]
    /\ UNCHANGED <<known, mode, running, waiting, ahead>>

\* The next action inside if, repeat, choose or a script.
StepInsideAction(r) ==
    /\ Live(r) /\ run[r].step < Len(Steps(r))
    /\ ~(run[r].aborted /\ Steps(r)[run[r].step + 1])
    /\ run' = [run EXCEPT ![r].step = @ + 1]
    /\ UNCHANGED <<known, mode, running, waiting, ahead>>

\* An action ended, after its last step or earlier with an error that is logged, and
\* the run goes on.
NextAction(r) ==
    /\ Live(r) /\ run[r].at < Len(Actions(r))
    /\ ~run[r].aborted
    /\ run' = [run EXCEPT ![r].at = @ + 1, ![r].step = 1]
    /\ UNCHANGED <<known, mode, running, waiting, ahead>>

\* The run returns and its finally block is executed.
Leave(r) ==
    LET a == run[r].of
        runs == [run EXCEPT ![r] = Idle]
    IN  /\ CASE run[r].mode \in {"parallel", "manual"} ->
                    run' = runs /\ UNCHANGED <<running, waiting>>
             [] run[r].mode \in {"single", "restart"} ->
                    /\ run' = runs /\ running' = [running EXCEPT ![a] = NoRun]
                    /\ UNCHANGED waiting
             [] run[r].mode = "queued" ->
                    \E skipped \in 0..Len(waiting[a]) : RunNextQueued(a, runs, skipped)
        /\ UNCHANGED <<known, mode, ahead>>

\* After the last action, or at the first look at an aborted signal.
Finish(r) ==
    /\ Live(r) /\ (run[r].at = Len(Actions(r)) \/ run[r].aborted)
    /\ Leave(r)

\* Fault: the clean-up follows the loop instead of standing in a finally block, and the
\* return of a run that is stopped goes past it.
StopActionUncleaned(r) ==
    /\ Live(r)
    /\ run' = [run EXCEPT ![r] = Idle]
    /\ UNCHANGED <<known, mode, running, waiting, ahead>>

\* Fault: a stopped run forgets the map but leaves the queue alone.
StopActionOnly(r) ==
    /\ Live(r) /\ run[r].mode # "manual"
    /\ run' = [run EXCEPT ![r] = Idle]
    /\ running' = [running EXCEPT ![run[r].of] = NoRun]
    /\ UNCHANGED <<known, mode, waiting, ahead>>

\* The stop action throws StopActionError through every enclosing action; a manual run
\* is ended by any error.
StopAction(r) == Live(r) /\ Leave(r)

\* The configuration routes: upsertAutomation with a mode, removeAutomation.
UpsertAutomation(a, m) ==
    /\ known' = known \cup {a} /\ mode' = [mode EXCEPT ![a] = m]
    /\ UNCHANGED <<running, waiting, run, ahead>>

RemoveAutomation(a) ==
    /\ a \in known /\ known' = known \ {a}
    /\ UNCHANGED <<mode, running, waiting, run, ahead>>

Advance(r) == StepInsideAction(r) \/ NextAction(r) \/ Finish(r)

Next ==
    \/ \E a \in Automations, r \in Runs :
         \/ TriggerParallel(a, r) \/ TriggerSingle(a, r) \/ RunNow(a, r)
         \/ \E hasActions \in BOOLEAN : TriggerRestart(a, r, hasActions) \/ TriggerQueued(a, r, hasActions)
    \/ \E r \in Runs : StepInsideAction(r) \/ NextAction(r) \/ Finish(r) \/ StopAction(r)
    \/ \E a \in Automations : RemoveAutomation(a) \/ \E m \in Edits \cup {mode[a]} : UpsertAutomation(a, m)

Spec == Init /\ [][Next]_vars

\* Every action an automation awaits ends: delays and waits have a timer, a command
\* is resolved whether it is answered or not.
FairSpec == Spec /\ \A r \in Runs : WF_vars(Advance(r))

-----------------------------------------------------------------------------
\* Every variable holds values of the kind the class holds.
Typed ==
    /\ known \subseteq Automations
    /\ mode \in [Automations -> Modes]
    /\ running \in [Automations -> Runs \cup {NoRun}]
    /\ waiting \in [Automations -> Seq(Runs)]
    /\ run \in [Runs -> RunRecord]
    /\ ahead \in [Runs -> SUBSET Runs]

\* A run is at a step of an action of its automation.
WithinBody == \A r \in Runs : run[r].at \in 1..Len(Actions(r)) /\ run[r].step \in 1..Len(Steps(r))

\* An id in runningAutomations stands for a run of that automation in progress: a stale one
\* would have a single automation ignore, and a queued one hold back, every trigger to come.
MapNamesRuns ==
    \A a \in Automations : running[a] # NoRun =>
        Tracked(running[a]) /\ run[running[a]].of = a

\* The kinds of values, that the loop of executeAutomation stays in the actions, and that its
\* finally block leaves no id of a run that has ended in the map.
TypeOK == Typed /\ WithinBody /\ MapNamesRuns

\* single and queued: at most one run of the automation at a time, however triggers,
\* empty branches and stop actions interleave.
NoOverlap ==
    \A p, r \in Runs : p # r /\ Tracked(p) /\ Tracked(r) /\ run[p].of = run[r].of =>
        ~(run[p].mode \in {"single", "queued"} /\ run[p].mode = run[r].mode)

\* queued: triggers are executed in the order they fired; a run that executes has
\* behind it every run that was queued or executing when it was queued.
QueuedInOrder ==
    \A r \in Runs : Live(r) /\ run[r].mode = "queued" =>
        \A p \in ahead[r] : ~InQueuedMode(p, run[r].of)

\* queued: a queue that holds closures has a run whose finally block will call them.
QueuesAreServed ==
    \A a \in Automations : waiting[a] # <<>> => running[a] # NoRun

\* restart: a trigger cancels the run in progress, so at most one run of the
\* automation is not cancelled.
RestartLeavesOneRun ==
    \A p, r \in Runs : p # r /\ Tracked(p) /\ Tracked(r) /\ run[p].of = run[r].of =>
        ~(run[p].mode = "restart" /\ run[r].mode = "restart"
          /\ ~run[p].aborted /\ ~run[r].aborted)

\* A cancelled run stays cancelled, whatever starts after it, and begins nothing more, on
\* whatever level of if, repeat and choose it is, but the rest of a script it is in.
CancelledRunsStop ==
    [][\A r \in Runs : Live(r) /\ run[r].aborted /\ Live(r)' =>
          /\ run'[r].aborted /\ run'[r].at = run[r].at
          /\ run'[r].step # run[r].step => ~Steps(r)[run'[r].step]]_vars

\* Every run that was queued is executed or found to have nothing to do, and every
\* run ends.
EveryRunEnds ==
    \A r \in Runs : run[r].phase # "free" ~> run[r].phase = "free"
=============================================================================
