---------------------------- MODULE MCStateStore ----------------------------
(***************************************************************************)
(* One entity of each kind, the one an automation keeps for itself being   *)
(* internal, and two values: an old one that a stale copy would bring back *)
(* and a new one.  A public entity that is not optimistic behaves as the   *)
(* one in a RESTORE_DEFAULT mode, but for the default it does not get.     *)
(***************************************************************************)
EXTENDS StateStore, TLC

CONSTANTS virtual, holder, flag, on, off

MCKind == (virtual :> "always") @@ (holder :> "restore") @@ (flag :> "device")
MCDefault == [e \in {virtual, holder, flag} |-> off]
=============================================================================
