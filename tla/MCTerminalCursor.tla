-------------------------- MODULE MCTerminalCursor --------------------------
(* Values for the constants of TerminalCursor that a configuration cannot    *)
(* write down: a screen that gets more rows and less, and one that gets more *)
(* columns and less; tab stops in the column to the left of the screen.      *)
EXTENDS TerminalCursor

RowsChange == {<<2, 2>>, <<3, 2>>}
ColumnsChange == {<<2, 2>>, <<2, 3>>}
LeftOfScreen == {-1}
=============================================================================
