------------------------- MODULE MCTerminalSession -------------------------
(***************************************************************************)
(* TerminalSession for TLC.  The source's four buffers of 4096 bytes all   *)
(* shrink to the same one or two bytes; the processes print several        *)
(* bufferfuls and the user types from less to more than the queue holds.   *)
(***************************************************************************)
EXTENDS TerminalSession
=============================================================================
