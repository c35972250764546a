----------------------------- MODULE MCDesktop -----------------------------
(* Constants for model-checking Desktop. *)
EXTENDS Desktop

CONSTANTS f1, good, bad, blank, none

MCFolders == {f1}
MCPacks == {good, bad}
MCBadPacks == {bad}
=============================================================================
