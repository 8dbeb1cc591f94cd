----------------------------- MODULE MCPrograms -----------------------------
(* Instances of Programs for TLC.                                           *)
EXTENDS Programs

\* The directory, a file of two blocks, and one more name of it that begins with '.'.
MCEntries ==
    << [name |-> ".", type |-> "dir", inode |-> 0],
       [name |-> "frame0", type |-> "file", inode |-> 1],
       [name |-> ".hidden", type |-> "file", inode |-> 1] >>

MCInodes ==
    0 :> [length |-> 0, data_block |-> [b \in 0..1 |-> 0]] @@
    1 :> [length |-> 2, data_block |-> [b \in 0..2 |-> 3 - b]]

\* cat of a file, and of none; the other programs, which ignore their argument;
\* and no program.
MCCommands ==
    {[name |-> "cat", arg |-> "frame0"], [name |-> "cat", arg |-> ""],
     [name |-> "ls", arg |-> "frame0"], [name |-> "grep", arg |-> "frame0"],
     [name |-> "syserr", arg |-> "frame0"], [name |-> "missing", arg |-> ""]}

MCNegative == -1073741823
=============================================================================
