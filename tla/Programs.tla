------------------------------ MODULE Programs ------------------------------
(***************************************************************************)
(* The programs that run on chapOS (src/chapOS/syscalls): the shell, cat,  *)
(* ls, grep and the tests of syserr, as clients of the system calls of     *)
(* module Files, with keys that launch a shell on top of the running       *)
(* program or end it between any two of its steps and inside its opens.    *)
(*                                                                         *)
(* A program reads a directory name by name and a file in pieces.  The     *)
(* directory holds itself and files; the executables' own files, and the   *)
(* clock (module Rtc), are left out of it.  What grep finds in a line, and *)
(* all wording, is left out.                                               *)
(***************************************************************************)
EXTENDS Files

CONSTANTS
    Commands,       \* what is typed: [name, arg]
    DotNames,       \* the names that begin with a '.'
    BUFSIZE,        \* bytes the programs read at a time
    NEG_FD, BIG_FD, \* descriptors syserr tries
    NEG_NUM, BIG_NUM \* system call numbers it tries

ASSUME CommandsAssumption ==
    /\ Commands \subseteq [name : STRING, arg : STRING]
    /\ BUFSIZE \in Nat \ {0} /\ BUFSIZE < WORD
    /\ 1..BUFSIZE \subseteq ReadSizes

ASSUME OutOfRangeAssumption ==
    /\ NEG_FD \in Int /\ NEG_FD < 0 /\ BIG_FD \in Int /\ BIG_FD >= MAX_OPEN_FILE
    /\ NEG_NUM \in Int /\ NEG_NUM < 1 /\ BIG_NUM \in Int /\ BIG_NUM > 10

\* The empty name.
NoName == ""

\* The directory has an entry for itself, and none of the names that syserr takes
\* for missing.
ASSUME NamesAssumption ==
    LET names == {dir_entries[i].name : i \in 1..Len(dir_entries)}
    IN  /\ "." \in names /\ "." \in DotNames
        /\ \A i \in 1..Len(dir_entries) : dir_entries[i].name = "." => dir_entries[i].type = "dir"
        /\ names \cap {"helloo", "shel", NoName} = {}

VARIABLES
    task,           \* process -> its program, how it was started, and where it is
    arg_buff,       \* process -> the argument in its control block
    ended           \* history: process -> how the last program its shell executed ended

allVars == <<vars, task, arg_buff, ended>>

Executables == {"shell", "cat", "ls", "grep", "syserr"}

Names == {entry.name : entry \in Entries}

\* file is grep's descriptor of a file.  syserr is at a step of a test, with fail and
\* cnt of that test and main's sum fails, and stops behind the test last.
Begun(prog, by) ==
    [prog |-> prog, by |-> by, at |-> "start", fd |-> -1, file |-> -1,
     test |-> 1, last |-> 1, step |-> 1, fail |-> 0, fails |-> 0, cnt |-> 0,
     rval |-> 0, printed |-> <<>>]

NoTask == Begun("none", "none")

T == task[Running]

At(prog, place) == InUser /\ T.prog = prog /\ T.at = place

\* The running program goes on as t.
Goes(t) == task' = [task EXCEPT ![Running] = t] /\ UNCHANGED <<arg_buff, ended>>

GoesTo(place) == Goes([T EXCEPT !.at = place])

StartsAll ==
    /\ Init
    /\ task = [p \in ProcIds |-> IF p = 0 THEN Begun("shell", "boot") ELSE NoTask]
    /\ arg_buff = [p \in ProcIds |-> NoName]
    /\ ended = [p \in ProcIds |-> "none"]

-----------------------------------------------------------------------------
(* Starting and ending programs.                                            *)

\* execute with a file that is there and a process to spare.
Starts(prog, arg, by) ==
    /\ Execute
    /\ task' = [task EXCEPT ![Running] = IF by = "shell" THEN [@ EXCEPT !.at = "waiting"] ELSE @,
                            ![Running + 1] = Begun(prog, by)]
    /\ arg_buff' = [arg_buff EXCEPT ![Running + 1] = arg]
    /\ UNCHANGED ended

\* What halt returns to the parent's execute.
ByteOnly(status) == status % 256

ReturnCode(status) == IF status % 256 = 1 THEN 256 ELSE status % 256

Cause(status) == IF status = 1 THEN "exception" ELSE IF status = 0 THEN "well" ELSE "badly"

\* halt closes a descriptor whose open it interrupts through the table of its last
\* user.  Where none was ever set the call is a page fault, and its handler halts
\* the process in turn.
ClosesUnset == \E fd \in Active(Running) : Descs[fd].table = "unset"

HaltStatus(status) == IF ClosesUnset THEN 1 ELSE status

\* The slot's shell, or its program's, hears no more of it.
Forgotten == [ended EXCEPT ![Running] = "none"]

\* halt: a shell that called execute gets the status, a program under a launched
\* shell goes on where it was, and the first shell is started again.
Ends(status) ==
    /\ Halt
    /\ UNCHANGED arg_buff
    /\ IF Running > 0 /\ T.by = "shell"
         THEN /\ task' = [task EXCEPT ![Running] = NoTask,
                                      ![Running - 1].at = "answer",
                                      ![Running - 1].rval = ReturnCode(HaltStatus(status))]
              /\ ended' = [Forgotten EXCEPT ![Running - 1] = Cause(HaltStatus(status))]
         ELSE /\ task' = [task EXCEPT ![Running] =
                            IF Running = 0 THEN Begun("shell", "boot") ELSE NoTask]
              /\ ended' = Forgotten

-----------------------------------------------------------------------------
(* System calls, as a program sees them.                                    *)

CannotOpen(name) == name \notin Names \/ Free = {}

Opens(name) == ~CannotOpen(name) /\ OpenTakes(name)

\* What a read of a file or the directory delivers.
Delivered(fd, nbytes) ==
    LET desc == Descs[fd]
    IN  CASE desc.table = "file" -> ReadData(desc.inode, desc.file_pos, nbytes)
          [] desc.table = "dir" /\ desc.file_pos < Len(dir_entries) ->
               <<dir_entries[desc.file_pos + 1].name>>
          [] OTHER -> <<>>

Reads(fd, nbytes) == FileRead(fd, nbytes) \/ DirRead(fd) \/ DirReadEnds(fd)

\* read, write and close look at the descriptor first.
InUse(fd) == fd \in Fds /\ Descs[fd].flags = FLAG_ACTIVE

USER_IMG_START == 134217728

USER_IMG_END == 138412032

\* vidmap's test of the address, and main_syscall's of the number.
BadAddress(addr) == addr < USER_IMG_START \/ addr >= USER_IMG_END

BadNumber(eax) == eax > 10 \/ eax < 1

\* Calls that return -1.
Refuses(try) ==
    \/ try.op = "open" /\ CannotOpen(try.name)
    \/ try.op = "read" /\ (~InUse(try.n) \/ try.n = 1)
    \/ try.op = "write" /\ (~InUse(try.n) \/ try.n # 1)
    \/ try.op = "close" /\ (try.n \in {0, 1} \/ ~InUse(try.n))
    \/ try.op = "vidmap" /\ BadAddress(try.n)
    \/ try.op = "number" /\ BadNumber(try.n)

-----------------------------------------------------------------------------
(* shell                                                                    *)

\* The shell reads a line and executes it, or leaves.
ShellExecutes(command) ==
    /\ At("shell", "start")
    /\ command.name \in Executables
    /\ Starts(command.name, command.arg, "shell")

ShellRefused(command) ==
    /\ At("shell", "start")
    /\ command.name \notin Executables \/ Running + 1 \notin ProcIds
    /\ task' = [task EXCEPT ![Running].at = "answer", ![Running].rval = -1]
    /\ ended' = [ended EXCEPT ![Running] = "refused"]
    /\ UNCHANGED <<vars, arg_buff>>

ShellExits == At("shell", "start") /\ Ends(0)

\* What the shell says of execute's result.
Message(rval) ==
    CASE rval = -1 -> "no such command"
      [] rval = 256 -> "program terminated by exception"
      [] rval = 0 -> "nothing"
      [] OTHER -> "program terminated abnormally"

ShellAnswers ==
    /\ At("shell", "answer")
    /\ task' = [task EXCEPT ![Running] = Begun("shell", T.by)]
    /\ ended' = [ended EXCEPT ![Running] = "none"]
    /\ UNCHANGED <<vars, arg_buff>>

-----------------------------------------------------------------------------
(* cat, ls and grep                                                         *)

\* The file a program is about to open, and its status if it cannot.
Wants(t) ==
    CASE t.prog = "cat" /\ t.at = "start" -> [name |-> arg_buff[active_proc_num], status |-> 2]
      [] t.prog = "ls" /\ t.at = "start" -> [name |-> ".", status |-> 2]
      [] t.prog = "grep" /\ t.at = "start" -> [name |-> ".", status |-> 2]
      [] t.prog = "grep" /\ t.at = "file" -> [name |-> Last(t.printed), status |-> 3]

Opener == InUser /\ \/ T.prog \in {"cat", "ls", "grep"} /\ T.at = "start"
                    \/ T.prog = "grep" /\ T.at = "file"

FileOpens ==
    /\ Opener
    /\ Opens(Wants(T).name)
    /\ UNCHANGED <<task, arg_buff, ended>>

FileNotFound == Opener /\ CannotOpen(Wants(T).name) /\ Ends(Wants(T).status)

\* cat and ls write what they read.
Copies ==
    /\ At("cat", "read") \/ At("ls", "read")
    /\ Delivered(T.fd, BUFSIZE) # <<>>
    /\ Reads(T.fd, BUFSIZE)
    /\ Goes([T EXCEPT !.printed = @ \o Delivered(T.fd, BUFSIZE)])

\* A read returns 0.
CopiedAll ==
    /\ At("cat", "read") \/ At("ls", "read") \/ At("grep", "read")
    /\ Delivered(T.fd, BUFSIZE) = <<>>
    /\ Reads(T.fd, BUFSIZE)
    /\ GoesTo("end")

CopyEnds == (At("cat", "end") \/ At("ls", "end") \/ At("grep", "end")) /\ Ends(0)

\* grep takes the next name, unless it begins with a '.'.
GrepNextName ==
    LET name == Delivered(T.fd, BUFSIZE)
    IN  /\ At("grep", "read")
        /\ name # <<>>
        /\ DirRead(T.fd)
        /\ IF name[1] \in DotNames
             THEN GoesTo("read")
             ELSE Goes([T EXCEPT !.at = "file", !.printed = @ \o name])

AfterAny(bytes) == "text"

AfterPiece(bytes) == IF bytes = <<>> THEN "close" ELSE "text"

\* do_one_file: as much as its buffer has room for.
GrepReads(nbytes) ==
    /\ At("grep", "text")
    /\ Reads(T.file, nbytes)
    /\ GoesTo(AfterPiece(Delivered(T.file, nbytes)))

GrepCloses == At("grep", "close") /\ Close(T.file) /\ GoesTo("read")

-----------------------------------------------------------------------------
(* syserr                                                                   *)

\* A call, and whether it is one of err_open_lots, which counts failures.
Try(op, n) == [op |-> op, n |-> n, name |-> NoName, lots |-> FALSE]

TryOpen(name) == [Try("open", 0) EXCEPT !.name = name]

Lots(try) == [try EXCEPT !.lots = TRUE]

EachFd(op, first) == [i \in 1..(MAX_OPEN_FILE - first) |-> Try(op, first + i - 1)]

\* The calls each test makes.
err_neg_fd == << Try("read", NEG_FD), Try("write", NEG_FD), Try("close", NEG_FD) >>

err_big_fd == << Try("read", BIG_FD), Try("write", BIG_FD), Try("close", BIG_FD) >>

err_open_lots ==
    [i \in 1..(MAX_OPEN_FILE - 1) |-> Lots(TryOpen("."))]
      \o [i \in 1..(MAX_OPEN_FILE - 2) |-> Lots(EachFd("close", 2)[i])]

err_open == << TryOpen("helloo"), TryOpen("shel"), TryOpen(NoName) >>

err_unopened == EachFd("close", 0) \o EachFd("read", 2) \o EachFd("write", 2)

err_vidmap == << Try("vidmap", 0), Try("vidmap", 4194304) >>

err_stdin_out == << Try("write", 0), Try("read", 1) >>

err_syscall_num == << Try("number", BIG_NUM), Try("number", NEG_NUM), Try("number", 0) >>

Tests == << err_neg_fd, err_big_fd, err_open_lots, err_open,
            err_unopened, err_vidmap, err_stdin_out, err_syscall_num >>

\* main: all tests, one of them, or none for a number it does not know.
TestChoices ==
    {<<1, Len(Tests)>>, <<Len(Tests) + 1, Len(Tests)>>} \cup {<<k, k>> : k \in 1..Len(Tests)}

\* It reads which from the keyboard.
SyserrChooses ==
    /\ At("syserr", "start")
    /\ \E chosen \in TestChoices :
          Goes([T EXCEPT !.at = "tests", !.test = chosen[1], !.last = chosen[2]])
    /\ UNCHANGED vars

Finished(t) == t.test > t.last

TestCall == Tests[T.test][T.step]

Trying(ops) == At("syserr", "tests") /\ ~Finished(T) /\ TestCall.op \in ops

\* A test fails if one of its calls succeeds, err_open_lots if not exactly one of
\* its opens fails; a test that is over adds its result to main's.
Judged(t, try, refused) ==
    LET over == t.step = Len(Tests[t.test])
        cnt == IF try.lots /\ try.op = "open" /\ refused THEN t.cnt + 1 ELSE t.cnt
        fail == IF try.lots THEN IF cnt = 1 THEN 0 ELSE 2
                            ELSE IF refused THEN t.fail ELSE 2
    IN  [t EXCEPT !.test = IF over THEN @ + 1 ELSE @,
                  !.step = IF over THEN 1 ELSE @ + 1,
                  !.cnt = cnt,
                  !.fail = IF over THEN 0 ELSE fail,
                  !.fails = IF over THEN @ + fail ELSE @]

SyserrTries ==
    /\ Trying({"read", "write", "vidmap", "number"})
    /\ Goes(Judged(T, TestCall, Refuses(TestCall)))
    /\ IF TestCall.op = "read" /\ ~Refuses(TestCall) THEN Reads(TestCall.n, BUFSIZE) ELSE UNCHANGED vars

SyserrCloses ==
    /\ Trying({"close"})
    /\ Goes(Judged(T, TestCall, Refuses(TestCall)))
    /\ IF Refuses(TestCall) THEN UNCHANGED vars ELSE Close(TestCall.n)

SyserrOpens ==
    /\ Trying({"open"})
    /\ Opens(TestCall.name)
    /\ UNCHANGED <<task, arg_buff, ended>>

SyserrCannotOpen ==
    /\ Trying({"open"})
    /\ CannotOpen(TestCall.name)
    /\ Goes(Judged(T, TestCall, TRUE))
    /\ UNCHANGED vars

SyserrEnds == At("syserr", "tests") /\ Finished(T) /\ Ends(T.fails)

-----------------------------------------------------------------------------
(* The system.                                                              *)

\* What a program does with the descriptor open gives it.
Received(t, fd) ==
    CASE t.prog = "syserr" -> Judged(t, TestCall, FALSE)
      [] t.prog = "grep" /\ t.at = "file" -> [t EXCEPT !.at = "text", !.file = fd]
      [] OTHER -> [t EXCEPT !.at = "read", !.fd = fd]

OpenReturns == OpenEnters /\ Goes(Received(T, calls[Running].fd))

\* The running program's next step, unless it waits for a line.
ProgramStep ==
    \/ OpenReturns
    \/ ShellAnswers
    \/ FileOpens
    \/ FileNotFound
    \/ Copies
    \/ CopiedAll
    \/ CopyEnds
    \/ GrepNextName
    \/ \E nbytes \in 1..BUFSIZE : GrepReads(nbytes)
    \/ GrepCloses
    \/ SyserrTries
    \/ SyserrCloses
    \/ SyserrOpens
    \/ SyserrCannotOpen
    \/ SyserrEnds

\* A line is typed to a shell or to syserr.
LineTyped ==
    \/ \E command \in Commands : ShellExecutes(command) \/ ShellRefused(command)
    \/ ShellExits
    \/ SyserrChooses

\* Alt+Fn on a terminal without a shell.
KeyLaunches == Starts("shell", NoName, "key")

KeyKills == Ends(0)

\* A program can be ended by an exception anywhere in its own code.
Faults == InUser /\ Ends(1)

ProgramsNext == ProgramStep \/ LineTyped \/ KeyLaunches \/ KeyKills \/ Faults

\* The processor does not stop: the running program takes its next step at last.
ProgramsSpec == StartsAll /\ [][ProgramsNext]_allVars /\ WF_allVars(ProgramStep)

-----------------------------------------------------------------------------
(* Properties.                                                              *)

\* syserr's tests pass whatever ran in its process's slot before, however that
\* ended, and whatever is launched on top of it meanwhile: refused calls change
\* nothing, opens give out every descriptor once, and a closed one is refused.
\* (ece391syserr.c; open, read, write, close, vidmap, halt)
TestsPass == \A p \in ProcIds : task[p].fails = 0

FileNames == [i \in DOMAIN dir_entries |-> dir_entries[i].name]

\* How many of the first n names grep does not skip.
FilesAmong(n) == Cardinality({j \in 1..n : dir_entries[j].name \notin DotNames})

\* What a program that ends well has printed (for grep, the files it has read:
\* all, each in its place).
InFull(t, arg) ==
    LET entry == DentryByName(IF t.prog = "cat" THEN arg ELSE ".")
    IN  CASE t.prog = "grep" ->
               /\ Len(t.printed) = FilesAmong(Len(dir_entries))
               /\ \A i \in 1..Len(dir_entries) :
                     dir_entries[i].name \notin DotNames =>
                        t.printed[FilesAmong(i)] = dir_entries[i].name
          [] t.prog # "grep" /\ entry.type = "dir" -> t.printed = FileNames
          [] t.prog # "grep" /\ entry.type = "file" ->
               LET length == inodes[entry.inode].length
               IN  /\ Len(t.printed) \in {length, length + 1}
                   /\ \A k \in 1..length : t.printed[k] = ByteOfFile(entry.inode, k - 1)

\* A program that ends by itself with status 0 has done all its work: cat has
\* printed every byte of the file in order and at most one thing more, ls every
\* name once, and grep has looked into every file whose name does not begin with a
\* '.', although reads come in pieces and other programs open, read and end on top
\* of it and before it in its slot.
\* (ece391cat.c, ece391ls.c, ece391grep.c; file_read, dir_read, getargs)
PrintedInFull == [][CopyEnds => InFull(T, arg_buff[Running])]_allVars

\* The shell tells the four ways a command can end apart, whatever was launched
\* and ended between the command's end and the shell's answer; a program a key ends
\* inside its first open has ended by an exception, in halt.
\* (ece391shell.c; halt's return value and its calls of close)
ShellTellsCause ==
    [][ShellAnswers =>
         Message(T.rval) =
           CASE ended[Running] = "refused" -> "no such command"
             [] ended[Running] = "exception" -> "program terminated by exception"
             [] ended[Running] = "badly" -> "program terminated abnormally"
             [] ended[Running] = "well" -> "nothing"]_allVars

\* A shell waits for a command, syserr before its tests for their number.
ReadsLine(t) == t.prog = "shell" \/ (t.prog = "syserr" /\ t.at = "start")

\* No program runs on top for ever without a key, unless it waits for a line, as a
\* shell and syserr before its tests do: every loop over reads comes to the read
\* that returns 0.
\* (ece391cat.c, ece391ls.c, ece391grep.c, ece391syserr.c; read_data, dir_read)
ProgramsEnd == \A p \in ProcIds : ~<>[](Running = p /\ ~ReadsLine(task[p]))
=============================================================================
