----------------------------- MODULE MCNxDriver -----------------------------
(* TLC instance of NxDriver.                                                *)
EXTENDS NxDriver
CONSTANTS p1, p2
=============================================================================
