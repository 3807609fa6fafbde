---------------------------- MODULE MCStreamWrite ----------------------------
(* Instances of StreamWrite for TLC: two columns, up to five rows, batches of *)
(* one row, of two (the last one short), and of all.                          *)
EXTENDS StreamWrite

CONSTANTS x, y

MCCols == {x, y}
MCSizes == {0, 1, 5}
MCBudgets == {1, 4, 100}
MCCuts == {0, 2, 5}
==============================================================================
