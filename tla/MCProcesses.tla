---------------------------- MODULE MCProcesses ----------------------------
(* Instances of Processes for TLC.                                          *)
EXTENDS Processes

CONSTANT Cat        \* a program other than the shell

MCPrograms == {Shell, Cat}

\* 0 and 2 are ordinary, 257 and 1 are what the special case of halt is about
\* (257 has the low byte 1).
MCStatuses == {0, 1, 2, 257}
=============================================================================
