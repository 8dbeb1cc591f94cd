------------------------------ MODULE MCFiles -------------------------------
(* Instances of Files for TLC.                                              *)
EXTENDS Files

\* The directory, the clock and a file of two blocks.
MCEntries ==
    << [name |-> ".", type |-> "dir", inode |-> 0],
       [name |-> "rtc", type |-> "rtc", inode |-> 0],
       [name |-> "frame0", type |-> "file", inode |-> 1] >>

\* The file's blocks are not in order on the image.
MCInodes ==
    0 :> [length |-> 0, data_block |-> [b \in 0..1 |-> 0]] @@
    1 :> [length |-> 3, data_block |-> [b \in 0..1 |-> 3 - b]]

\* Less than a block, and a number that is huge when unsigned.
MCReadSizes == {1, -1}
=============================================================================
