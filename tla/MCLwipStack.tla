---------------------------- MODULE MCLwipStack -----------------------------
(* TLC instance of LwipStack.                                               *)
EXTENDS LwipStack
=============================================================================
