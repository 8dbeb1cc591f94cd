------------------------------- MODULE Files --------------------------------
(***************************************************************************)
(* The file descriptors of the processes (open, read, close, execute and   *)
(* halt in system_call.c) and reading from the file system's image         *)
(* (file_sys_module.c).                                                    *)
(*                                                                         *)
(* A control block is memory: a new process finds in it what its           *)
(* predecessor in the slot left.  The processes form a stack (module       *)
(* Processes); only the running one's descriptors change.  A byte is       *)
(* identified by where it is stored, <<data block, offset>>.  Calls that   *)
(* fail, and reads and writes that move no position, change nothing here.  *)
(***************************************************************************)
EXTENDS Integers, Sequences, FiniteSetsExt, SequencesExt

CONSTANTS
    MAX_PROCESSES,      \* slots of the process table
    MAX_OPEN_FILE,      \* descriptors of a process
    DATA_BLOCK_SIZE,    \* bytes in a data block
    WORD,               \* how many values an unsigned number has, 2^32
    dir_entries,        \* the directory: a sequence of [name, type, inode]
    inodes,             \* inode number -> [length, data_block]
    ReadSizes           \* values of nbytes programs pass

ASSUME SizesAssumption ==
    /\ MAX_PROCESSES \in Nat \ {0}
    /\ MAX_OPEN_FILE \in Nat /\ MAX_OPEN_FILE > 2
    /\ DATA_BLOCK_SIZE \in Nat \ {0}
    /\ WORD \in Nat \ {0}
    /\ ReadSizes \subseteq Int

\* A well-formed image; data_block has an entry past the last block in use.
ASSUME ImageAssumption ==
    /\ dir_entries \in Seq([name : STRING, type : {"rtc", "dir", "file"}, inode : Nat])
    /\ \A i \in 1..Len(dir_entries) : dir_entries[i].inode \in DOMAIN inodes
    /\ \A n \in DOMAIN inodes :
          /\ n \in Nat /\ inodes[n].length \in Nat
          /\ \A b \in 0..(inodes[n].length \div DATA_BLOCK_SIZE) :
                inodes[n].data_block[b] \in Nat

VARIABLES
    f_descs,            \* process -> descriptor -> its contents
    active_proc_num,    \* the running process
    calls,              \* process -> the open it is in
    opened,             \* history: process -> descriptor -> entries opened through it
    got                 \* history: process -> descriptor -> what its reads returned

vars == <<f_descs, active_proc_num, calls, opened, got>>

ProcIds == 0..(MAX_PROCESSES - 1)

Fds == 0..(MAX_OPEN_FILE - 1)

\* Descriptors 0 and 1 are the terminal's.
FileFds == Fds \ {0, 1}

FLAG_INACTIVE == 0

FLAG_ACTIVE == 1

\* The operations tables; "unset" is memory never written.
Tables == {"rtc", "file", "dir", "stdin", "stdout", "no_file", "unset"}

Desc == [table : Tables, inode : Nat, file_pos : Nat, flags : {FLAG_INACTIVE, FLAG_ACTIVE}]

Entries == {dir_entries[i] : i \in 1..Len(dir_entries)}

\* A process is in its program, or in open with a descriptor taken.
Call == [at : {"user"}] \cup [at : {"opening"}, fd : FileFds, entry : Entries]

InProgram == [at |-> "user"]

Running == active_proc_num

Descs == f_descs[Running]

InUser == calls[Running].at = "user"

Active(p) == {fd \in FileFds : f_descs[p][fd].flags = FLAG_ACTIVE}

-----------------------------------------------------------------------------
(* The file system.                                                         *)

\* read_dentry_by_name: the first entry of that name.
DentryByName(name) ==
    dir_entries[Min({i \in 1..Len(dir_entries) : dir_entries[i].name = name})]

\* The length argument of read_data is unsigned.
Unsigned(n) == n % WORD

\* read_data: how many bytes its loop copies.
BytesCopied(inode, offset, nbytes) ==
    IF offset >= inodes[inode].length
      THEN 0
      ELSE Min({Unsigned(nbytes), inodes[inode].length - offset + 1})

\* read_data: the block and the place in it after one more byte.
NextCursor(cursor) ==
    IF cursor.loc + 1 = DATA_BLOCK_SIZE THEN [block |-> cursor.block + 1, loc |-> 0]
                                        ELSE [cursor EXCEPT !.loc = @ + 1]

\* read_data: where the i-th byte is taken from.
Cursor(offset) ==
    LET at[i \in Nat] ==
          IF i = 0 THEN [block |-> offset \div DATA_BLOCK_SIZE,
                         loc |-> offset % DATA_BLOCK_SIZE]
                   ELSE NextCursor(at[i - 1])
    IN  at

\* read_data: the bytes it copies.
ReadData(inode, offset, nbytes) ==
    [i \in 1..BytesCopied(inode, offset, nbytes) |->
        LET cursor == Cursor(offset)[i - 1]
        IN  <<inodes[inode].data_block[cursor.block], cursor.loc>>]

-----------------------------------------------------------------------------
(* Programs.                                                                *)

\* The descriptors an execute leaves: the terminal's are set, the others are
\* as they were.
Started(descs) ==
    [descs EXCEPT ![0].flags = FLAG_ACTIVE, ![0].table = "stdin",
                  ![1].flags = FLAG_ACTIVE, ![1].table = "stdout"]

\* The machine starts with cleared memory.
Blank == [table |-> "unset", inode |-> 0, file_pos |-> 0, flags |-> FLAG_INACTIVE]

NoHistory == [fd \in FileFds |-> <<>>]

Init ==
    /\ f_descs = [p \in ProcIds |-> IF p = 0 THEN Started([fd \in Fds |-> Blank])
                                             ELSE [fd \in Fds |-> Blank]]
    /\ active_proc_num = 0
    /\ calls = [p \in ProcIds |-> InProgram]
    /\ opened = [p \in ProcIds |-> NoHistory]
    /\ got = [p \in ProcIds |-> NoHistory]

\* open's changes to the descriptor it takes.
TakenAsItIs(desc) == [desc EXCEPT !.flags = FLAG_ACTIVE]

Taken(desc) == [desc EXCEPT !.flags = FLAG_ACTIVE, !.file_pos = 0]

\* The descriptors open looks at.
OneTooMany == 2..MAX_OPEN_FILE

Candidates == 2..(MAX_OPEN_FILE - 1)

Free == Candidates \ Active(Running)

\* open finds the file and takes a descriptor.
OpenTakes(name) ==
    /\ InUser
    /\ Free # {}
    /\ f_descs' = [f_descs EXCEPT ![Running][Min(Free)] = Taken(@)]
    /\ calls' = [calls EXCEPT ![Running] =
                   [at |-> "opening", fd |-> Min(Free), entry |-> DentryByName(name)]]
    /\ UNCHANGED <<active_proc_num, opened, got>>

EnteredTable(desc, entry) == [desc EXCEPT !.table = entry.type]

\* What open enters into the descriptor for each type of file.
Entered(desc, entry) ==
    [desc EXCEPT !.table = entry.type,
                 !.inode = IF entry.type = "file" THEN entry.inode ELSE 0]

\* open, after the file's own open function (rtc_open waits for nothing but can
\* be interrupted for long): it enters table and inode and returns.
OpenEnters ==
    LET call == calls[Running]
    IN  /\ call.at = "opening"
        /\ f_descs' = [f_descs EXCEPT ![Running][call.fd] = Entered(@, call.entry)]
        /\ calls' = [calls EXCEPT ![Running] = InProgram]
        /\ opened' = [opened EXCEPT ![Running][call.fd] = <<call.entry>>]
        /\ got' = [got EXCEPT ![Running][call.fd] = <<>>]
        /\ UNCHANGED active_proc_num

\* file_read
FileRead(fd, nbytes) ==
    LET bytes == ReadData(Descs[fd].inode, Descs[fd].file_pos, nbytes)
    IN  /\ InUser
        /\ fd \in Active(Running)
        /\ Descs[fd].table = "file"
        /\ f_descs' = [f_descs EXCEPT ![Running][fd].file_pos = @ + Len(bytes)]
        /\ got' = [got EXCEPT ![Running][fd] = @ \o bytes]
        /\ UNCHANGED <<active_proc_num, calls, opened>>

\* dir_read returns the next name.
DirRead(fd) ==
    /\ InUser
    /\ fd \in Active(Running)
    /\ Descs[fd].table = "dir"
    /\ Descs[fd].file_pos < Len(dir_entries)
    /\ f_descs' = [f_descs EXCEPT ![Running][fd].file_pos = @ + 1]
    /\ got' = [got EXCEPT ![Running][fd] =
                 Append(@, dir_entries[Descs[fd].file_pos + 1].name)]
    /\ UNCHANGED <<active_proc_num, calls, opened>>

\* Where the next reading of the directory begins.
SecondName == 1

FirstName == 0

\* dir_read past the last name returns 0 and starts over.
DirReadEnds(fd) ==
    /\ InUser
    /\ fd \in Active(Running)
    /\ Descs[fd].table = "dir"
    /\ Descs[fd].file_pos >= Len(dir_entries)
    /\ f_descs' = [f_descs EXCEPT ![Running][fd].file_pos = FirstName]
    /\ got' = [got EXCEPT ![Running][fd] = <<>>]
    /\ UNCHANGED <<active_proc_num, calls, opened>>

\* close: the table and the rest stay.
Close(fd) ==
    /\ InUser
    /\ fd \in Active(Running)
    /\ f_descs' = [f_descs EXCEPT ![Running][fd].flags = FLAG_INACTIVE]
    /\ opened' = [opened EXCEPT ![Running][fd] = <<>>]
    /\ got' = [got EXCEPT ![Running][fd] = <<>>]
    /\ UNCHANGED <<active_proc_num, calls>>

\* execute, by the program or, at any time, by a key.
Execute ==
    /\ Running + 1 \in ProcIds
    /\ active_proc_num' = Running + 1
    /\ f_descs' = [f_descs EXCEPT ![Running + 1] = Started(@)]
    /\ UNCHANGED <<calls, opened, got>>

\* What halt leaves of a descriptor.
NotClosed(fd, desc) == [desc EXCEPT !.table = "no_file"]

Closed(fd, desc) ==
    [desc EXCEPT !.table = "no_file",
                 !.flags = IF fd \in FileFds THEN FLAG_INACTIVE ELSE @]

\* halt closes every descriptor, also one whose open it interrupts; a file's
\* close function cannot prevent that.  (The table of such a descriptor is its
\* last user's.  If it was never set, calling through it is a page fault, which
\* halts the process again, with this descriptor already given back.)
\* Process 0 is replaced by a new shell in its slot.
Halt ==
    LET left == [fd \in Fds |-> Closed(fd, Descs[fd])]
    IN  /\ f_descs' = [f_descs EXCEPT ![Running] = IF Running = 0 THEN Started(left) ELSE left]
        /\ active_proc_num' = IF Running = 0 THEN 0 ELSE Running - 1
        /\ calls' = [calls EXCEPT ![Running] = InProgram]
        /\ opened' = [opened EXCEPT ![Running] = NoHistory]
        /\ got' = [got EXCEPT ![Running] = NoHistory]

Next ==
    \/ \E entry \in Entries : OpenTakes(entry.name)
    \/ OpenEnters
    \/ \E fd \in FileFds :
          \/ \E nbytes \in ReadSizes : FileRead(fd, nbytes)
          \/ DirRead(fd)
          \/ DirReadEnds(fd)
          \/ Close(fd)
    \/ Execute
    \/ Halt

Spec == Init /\ [][Next]_vars

-----------------------------------------------------------------------------
(* Properties.                                                              *)

TypeOK ==
    /\ f_descs \in [ProcIds -> [Fds -> Desc]]
    /\ active_proc_num \in ProcIds
    /\ calls \in [ProcIds -> Call]

\* The descriptor an interrupted or running open has taken.
Opening(p) == {fd \in FileFds : calls[p].at = "opening" /\ calls[p].fd = fd}

\* A descriptor is in use exactly if its process has opened it and not closed it:
\* none leaks from a process killed at any point to its successor in the slot,
\* which does not clear them, and none in use is given out again.  A slot above
\* the running process has none in use.  (open, close, halt, execute)
InUseIsOpened ==
    \A p \in ProcIds :
        /\ Active(p) \ Opening(p) = {fd \in FileFds : opened[p][fd] # <<>>}
        /\ p > active_proc_num => Active(p) = {}

\* A descriptor leads to the file it was opened for: the table is that of the
\* file's type and the inode the file's, whatever was opened through it before.
\* (open)
LeadsToItsFile ==
    \A p \in ProcIds, fd \in FileFds :
        opened[p][fd] # <<>> =>
            LET entry == opened[p][fd][1]
            IN  /\ f_descs[p][fd].table = entry.type
                /\ entry.type = "file" => f_descs[p][fd].inode = entry.inode

\* Byte number k of a file, counted from 0: by division, without a cursor.
ByteOfFile(inode, k) ==
    <<inodes[inode].data_block[k \div DATA_BLOCK_SIZE], k % DATA_BLOCK_SIZE>>

\* However a program cuts its reads of a file, and whatever else it and others
\* open, read and close in between, it is given the bytes of the file once each
\* and in order from the first one on, and at most one thing more.
\* (read_data, file_read)
FileReadInOrder ==
    \A p \in ProcIds, fd \in FileFds :
        opened[p][fd] # <<>> /\ f_descs[p][fd].table = "file" =>
            LET inode == f_descs[p][fd].inode
                bytes == got[p][fd]
            IN  /\ Len(bytes) = f_descs[p][fd].file_pos
                /\ Len(bytes) <= inodes[inode].length + 1
                /\ \A k \in 1..Min({Len(bytes), inodes[inode].length}) :
                      bytes[k] = ByteOfFile(inode, k - 1)

\* Between two ends a directory's reader is given every name once, in order.
\* (dir_read, read_dentry_by_index)
DirReadListsAll ==
    [][\A fd \in FileFds :
          DirReadEnds(fd) =>
              got[Running][fd] = [i \in 1..Len(dir_entries) |-> dir_entries[i].name]]_vars

-----------------------------------------------------------------------------
(* What the comments say and the code does not do.                          *)

\* "0 indicatees end of file" (read_data): a program that reads until it gets 0
\* has been given the file, not more.
ReadsStopAtEnd ==
    \A p \in ProcIds, fd \in FileFds :
        opened[p][fd] # <<>> /\ f_descs[p][fd].table = "file" =>
            Len(got[p][fd]) <= inodes[f_descs[p][fd].inode].length
=============================================================================
