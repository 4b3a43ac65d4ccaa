----------------------------- MODULE MCPwThread -----------------------------
(* PwThread with two workers.                                               *)
EXTENDS PwThread

CONSTANTS c, o, w1, w2
=============================================================================
