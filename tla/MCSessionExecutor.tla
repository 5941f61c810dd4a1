-------------------------- MODULE MCSessionExecutor --------------------------
(* SessionExecutor for TLC: three calls of run over two sessions.          *)
EXTENDS SessionExecutor
=============================================================================
