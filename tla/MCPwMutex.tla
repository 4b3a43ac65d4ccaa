----------------------------- MODULE MCPwMutex ------------------------------
(* TLC instance of PwMutex.                                                 *)
EXTENDS PwMutex
CONSTANTS t1, t2, t3
=============================================================================
