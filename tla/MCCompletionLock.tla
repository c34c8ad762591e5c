-------------------------- MODULE MCCompletionLock --------------------------
(* TLC instance of CompletionLock.                                          *)
EXTENDS CompletionLock
=============================================================================
