---------------------------- MODULE MCDiscovery ----------------------------
(***************************************************************************)
(* A small instance of Discovery for TLC.  The text "optimize" hints at a  *)
(* light pack and names a client-only mod.                                 *)
(***************************************************************************)
EXTENDS Discovery

CONSTANTS plain, optimize

=============================================================================
