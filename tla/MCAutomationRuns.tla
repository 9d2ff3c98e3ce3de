-------------------------- MODULE MCAutomationRuns --------------------------
(***************************************************************************)
(* One automation, as another has entries of its own in both maps, and     *)
(* three runs: three triggers are needed to lose track of a restarted run, *)
(* and to have two closures behind a run, the smallest queue whose order   *)
(* can go wrong.  Two actions give a run a boundary at which it looks at   *)
(* its abort signal; the first is an if whose branch has a script of two   *)
(* actions and a delay: the second action of the script begins although    *)
(* the run has been cancelled, the delay does not.                         *)
(***************************************************************************)
EXTENDS AutomationRuns, TLC

CONSTANTS hall, r1, r2, r3

MCRuns == {r1, r2, r3}
MCOne == {hall}

MCModes   == {hall :> m : m \in {"queued", "restart", "single"}}
MCRestart == {hall :> "restart"}

MCBodies == (hall :> << <<TRUE, FALSE, TRUE>>, <<TRUE>> >>)
MCPlain  == (hall :> << <<TRUE>>, <<TRUE>> >>)
=============================================================================
