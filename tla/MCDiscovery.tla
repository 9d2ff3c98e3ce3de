---------------------------- MODULE MCDiscovery ----------------------------
(***************************************************************************)
(* An entity and one that is linked to it, plain or with the options that  *)
(* change when they are published; two names, an old and a new one.        *)
(***************************************************************************)
EXTENDS Discovery, TLC

CONSTANTS plug, voltage, n1, n2

MCLinks == voltage :> plug
MCOptions == [{voltage} -> {"plain", "always", "hidden"}]
=============================================================================
