----------------------------- MODULE MCPwTimer -----------------------------
(* PwTimer with a tick count of two bits and three bits of time.            *)
EXTENDS PwTimer

MCDeadlines == {0, 3, 5, 9}
=============================================================================
