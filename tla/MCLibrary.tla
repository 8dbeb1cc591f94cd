----------------------------- MODULE MCLibrary ------------------------------
(* Instances of LibraryCalls for TLC.                                       *)
EXTENDS LibraryCalls

\* A program, a text, a directory without bytes of its own, a name without NUL
\* that fills its entry, an entry never used, and one more program of a name
\* that is taken.
MCEntries ==
    0 :> [name |-> <<1>>, exe |-> TRUE, size |-> 9] @@
    1 :> [name |-> <<2>>, exe |-> FALSE, size |-> 9] @@
    2 :> [name |-> <<2, 1>>, exe |-> FALSE, size |-> 0] @@
    3 :> [name |-> <<1, 2, 1>>, exe |-> TRUE, size |-> 9] @@
    4 :> [name |-> <<>>, exe |-> FALSE, size |-> 0] @@
    5 :> [name |-> <<2>>, exe |-> TRUE, size |-> 9]
=============================================================================
