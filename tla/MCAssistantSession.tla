------------------------- MODULE MCAssistantSession -------------------------
(***************************************************************************)
(* A small instance of AssistantSession for TLC.                           *)
(***************************************************************************)
EXTENDS AssistantSession

CONSTANTS bf1, bf2, pk1, pk2, bad, odd, dA, dB

=============================================================================
