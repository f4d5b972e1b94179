-------------------------- MODULE MCTerminalBuffer --------------------------
(* Constants for model-checking TerminalBuffer. *)
EXTENDS TerminalBuffer

CONSTANT a

\* Empty rows, and text down to the second row of the ring.
MCReflows == {[r \in Objects |-> Blank],
              [r \in Objects |-> IF r < 2 THEN a ELSE Blank]}
=============================================================================
