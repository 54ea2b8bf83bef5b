------------------------------- MODULE MCServer -------------------------------
(***************************************************************************)
(* Three calls, one worker thread.  The checkpoint is one above the lowest *)
(* block, and a reorganisation right above it rewinds below it.            *)
(***************************************************************************)
EXTENDS Server, TLC

CONSTANTS r1, r2, r3

MCRequest  == {r1, r2, r3}
MCRewindTo == {0, 2}
=============================================================================
