--------------------------- MODULE MCCodexClient ---------------------------
(* CodexClient for TLC.                                                    *)
EXTENDS CodexClient

CONSTANTS run, hello, later, approve
=============================================================================
