--------------------------- MODULE ProgramsProofs ---------------------------
(***************************************************************************)
(* Proofs about module Programs.  Its programs are clients of module       *)
(* Files, so what FilesProofs proves holds of them.  The inductive         *)
(* invariant adds what the row of a process is at each place of its        *)
(* program.                                                                *)
(***************************************************************************)
EXTENDS Programs, FilesProofs, FiniteSetTheorems

-----------------------------------------------------------------------------
(* The inductive invariant.  t, c, descs, o, g and arg are a process's       *)
(* entries in task, calls, f_descs, opened, got and arg_buff.                *)

Printable == STRING \cup {ByteOfFile(n, k) : n \in DOMAIN inodes, k \in Nat}

Task ==
    [prog : Executables \cup {"none"}, by : {"none", "boot", "shell", "key"},
     at : {"start", "waiting", "answer", "read", "end", "file", "text", "close", "tests"},
     fd : Int, file : Int, test : Nat, last : Nat, step : Nat, fail : Nat, fails : Nat,
     cnt : Nat, rval : Int, printed : Seq(Printable)]

ActiveIn(descs) == {fd \in FileFds : descs[fd].flags = FLAG_ACTIVE}

Self == DentryByName(".")

GoodShell(t, c) == t.at \in {"start", "waiting", "answer"} /\ c.at = "user"

\* The entry cat or ls copies.
Copied(t, arg) == DentryByName(IF t.prog = "cat" THEN arg ELSE ".")

\* cat and ls have printed what their descriptor has delivered.
GoodCopier(t, c, o, g, arg) ==
    \/ /\ t.at = "start" /\ t.printed = <<>>
       /\ c.at = "opening" => c.entry = Copied(t, arg)
    \/ /\ t.at = "read" /\ c.at = "user"
       /\ t.fd \in FileFds /\ o[t.fd] = <<Copied(t, arg)>>
       /\ t.printed = g[t.fd]
    \/ t.at = "end" /\ c.at = "user" /\ InFull(t, arg)

\* grep has looked at all files among the first n names.
LookedUpTo(t, n) ==
    /\ Len(t.printed) = FilesAmong(n)
    /\ \A i \in 1..n :
          dir_entries[i].name \notin DotNames => t.printed[FilesAmong(i)] = dir_entries[i].name

GoodGrep(t, c, descs, o, arg) ==
    \/ /\ t.at = "start" /\ t.printed = <<>>
       /\ c.at = "opening" => c.entry = Self
    \/ /\ t.at \in {"read", "file", "text", "close"}
       /\ t.fd \in FileFds /\ o[t.fd] = <<Self>>
       /\ LookedUpTo(t, descs[t.fd].file_pos)
       /\ t.at # "file" => c.at = "user"
       /\ t.at \in {"text", "close"} => t.file \in FileFds /\ t.file # t.fd /\ o[t.file] # <<>>
    \/ t.at = "end" /\ c.at = "user" /\ InFull(t, arg)

\* err_open_lots at its step s: first it opens, then it closes.
GoodLots(s, cnt, c, descs) ==
    IF s < MAX_OPEN_FILE
      THEN /\ cnt = 0
           /\ c.at = "user" => ActiveIn(descs) = 2..s
           /\ c.at = "opening" => c.fd = s + 1 /\ ActiveIn(descs) = 2..(s + 1)
      ELSE cnt = 1 /\ c.at = "user" /\ ActiveIn(descs) = (s - MAX_OPEN_FILE + 2)..(MAX_OPEN_FILE - 1)

\* Outside err_open_lots syserr has no descriptor.
GoodSyserr(t, c, descs) ==
    /\ t.at \in {"start", "tests"}
    /\ t.at = "start" => t.test = 1 /\ t.step = 1 /\ t.cnt = 0
    /\ t.last \in 1..8 /\ t.test \in 1..9
    /\ t.test <= 8 => t.step \in 1..Len(Tests[t.test])
    /\ t.test < 3 => t.cnt = 0
    /\ IF t.test = 3 THEN GoodLots(t.step, t.cnt, c, descs)
                     ELSE c.at = "user" /\ ActiveIn(descs) = {} /\ t.fail = 0

GoodTask(t, c, descs, o, g, arg) ==
    /\ t.prog = "none" => c.at = "user"
    /\ t.prog = "shell" => GoodShell(t, c)
    /\ t.prog \in {"cat", "ls"} => GoodCopier(t, c, o, g, arg)
    /\ t.prog = "grep" => GoodGrep(t, c, descs, o, arg)
    /\ t.prog = "syserr" => GoodSyserr(t, c, descs)
    /\ t.fails = 0

\* A shell's result of execute and what became of the program.
GoodAnswer(t, e) ==
    t.prog = "shell" /\ t.at = "answer" =>
        /\ e \in {"refused", "exception", "badly", "well"}
        /\ Message(t.rval) = CASE e = "refused" -> "no such command"
                               [] e = "exception" -> "program terminated by exception"
                               [] e = "badly" -> "program terminated abnormally"
                               [] e = "well" -> "nothing"

\* A program its shell executed has that shell below, waiting for it.
ShellWaits(p) ==
    p > 0 /\ p <= active_proc_num /\ task[p].by = "shell" =>
        task[p - 1].prog = "shell" /\ task[p - 1].at = "waiting"

TaskRow(p) == GoodTask(task[p], calls[p], f_descs[p], opened[p], got[p], arg_buff[p])

TasksTabular ==
    /\ task \in [ProcIds -> Task]
    /\ arg_buff = [p \in ProcIds |-> arg_buff[p]]
    /\ ended = [p \in ProcIds |-> ended[p]]

ProgramsInv ==
    /\ TasksTabular
    /\ \A p \in ProcIds : TaskRow(p) /\ GoodAnswer(task[p], ended[p]) /\ ShellWaits(p)

-----------------------------------------------------------------------------
(* Programs are clients of Files.                                           *)

\* Names of the directory lead to entries of that name.
LEMMA NameFacts == ASSUME NEW name \in Names
                   PROVE  DentryByName(name) \in Entries /\ DentryByName(name).name = name
  <1>1. PICK entry \in Entries : name = entry.name
    BY DEF Names
  <1>2. QED
    BY <1>1, DentryFacts

\* The directory's own entry leads to the directory.
LEMMA SelfFacts == /\ "." \in Names /\ Self \in Entries /\ Self.type = "dir"
                   /\ Names \cap {"helloo", "shel", NoName} = {}
  <1>1. Names = {dir_entries[i].name : i \in 1..Len(dir_entries)}
    BY DEF Names, Entries
  <1>2. "." \in Names /\ Names \cap {"helloo", "shel", NoName} = {}
    BY <1>1, NamesAssumption
  <1>3. Self \in Entries /\ Self.name = "."
    BY <1>2, NameFacts DEF Self
  <1>4. PICK i \in 1..Len(dir_entries) : Self = dir_entries[i]
    BY <1>3 DEF Entries
  <1>5. QED
    BY <1>2, <1>3, <1>4, NamesAssumption

LEMMA OpenIsNext == ASSUME NEW name \in Names, OpenTakes(name) PROVE Next
  BY DEF Names, Next

LEMMA ReadIsNext == ASSUME NEW fd, NEW nbytes \in 1..BUFSIZE, Reads(fd, nbytes) PROVE Next
  <1>1. nbytes \in ReadSizes
    BY CommandsAssumption
  <1>2. fd \in FileFds
    BY DEF Reads, FileRead, DirRead, DirReadEnds, Active
  <1>3. QED
    BY <1>1, <1>2 DEF Reads, Next

LEMMA CloseIsNext == ASSUME NEW fd, Close(fd) PROVE Next
  BY DEF Close, Active, Next

\* What programs do to processes and descriptors is what Files allows.
LEMMA ProgramsStepIsNext == [ProgramsNext]_allVars => [Next]_vars
  <1> SUFFICES ASSUME [ProgramsNext]_allVars, ~UNCHANGED vars PROVE Next
    OBVIOUS
  <1>1. BUFSIZE \in 1..BUFSIZE
    BY CommandsAssumption
  <1>2. ProgramsNext
    BY DEF allVars
  <1>3. CASE \E prog, arg, by : Starts(prog, arg, by)
    BY <1>3 DEF Starts, Next
  <1>4. CASE \E status : Ends(status)
    BY <1>4 DEF Ends, Next
  <1>5. CASE ProgramStep
    <2>1. CASE OpenReturns
      BY <2>1 DEF OpenReturns, Next
    <2>2. CASE ShellAnswers \/ SyserrCannotOpen
      BY <2>2 DEF ShellAnswers, SyserrCannotOpen
    <2>3. CASE FileOpens \/ SyserrOpens
      BY <2>3, OpenIsNext DEF FileOpens, SyserrOpens, Opens, CannotOpen
    <2>4. CASE FileNotFound \/ CopyEnds \/ SyserrEnds
      BY <1>4, <2>4 DEF FileNotFound, CopyEnds, SyserrEnds
    <2>5. CASE Copies \/ CopiedAll
      BY <1>1, <2>5, ReadIsNext DEF Copies, CopiedAll
    <2>6. CASE GrepNextName
      BY <1>1, <2>6, ReadIsNext DEF GrepNextName, Reads
    <2>7. CASE \E nbytes \in 1..BUFSIZE : GrepReads(nbytes)
      BY <2>7, ReadIsNext DEF GrepReads
    <2>8. CASE GrepCloses \/ SyserrCloses
      BY <2>8, CloseIsNext DEF GrepCloses, SyserrCloses
    <2>9. CASE SyserrTries
      BY <1>1, <2>9, ReadIsNext DEF SyserrTries
    <2>10. QED
      BY <1>5, <2>1, <2>2, <2>3, <2>4, <2>5, <2>6, <2>7, <2>8, <2>9 DEF ProgramStep
  <1>6. CASE LineTyped
    <2>1. CASE \E command \in Commands : ShellExecutes(command)
      BY <1>3, <2>1 DEF ShellExecutes
    <2>2. CASE \E command \in Commands : ShellRefused(command)
      BY <2>2 DEF ShellRefused
    <2>3. CASE ShellExits
      BY <1>4, <2>3 DEF ShellExits
    <2>4. CASE SyserrChooses
      BY <2>4 DEF SyserrChooses
    <2>5. QED
      BY <1>6, <2>1, <2>2, <2>3, <2>4 DEF LineTyped
  <1>7. CASE KeyLaunches \/ KeyKills \/ Faults
    BY <1>3, <1>4, <1>7 DEF KeyLaunches, KeyKills, Faults
  <1>8. QED
    BY <1>2, <1>5, <1>6, <1>7 DEF ProgramsNext

\* The programs and the keys together use processes and descriptors as module Files
\* says: what is proved of Files holds of them.
THEOREM ProgramsUseFiles == ProgramsSpec => Spec
  <1>1. StartsAll => Init
    BY DEF StartsAll
  <1>2. QED
    BY <1>1, ProgramsStepIsNext, PTL DEF ProgramsSpec, Spec

THEOREM FilesInvariance == ProgramsSpec => []IInv
  BY ProgramsUseFiles, Invariance, PTL

-----------------------------------------------------------------------------
(* What the operations of Files do to the running process's row.             *)

\* A step leaves the rows of the other processes alone.
OwnRowOnly ==
    /\ UNCHANGED active_proc_num
    /\ \A q \in ProcIds : q # Running =>
          /\ f_descs'[q] = f_descs[q] /\ calls'[q] = calls[q]
          /\ opened'[q] = opened[q] /\ got'[q] = got[q]

\* A step leaves what it does not touch of the running process's descriptors alone.
OtherFdsSame(fd) ==
    \A x \in FileFds : x # fd => /\ f_descs'[Running][x] = Descs[x]
                                 /\ opened'[Running][x] = opened[Running][x]
                                 /\ got'[Running][x] = got[Running][x]

LEMMA UnchangedEffect == ASSUME IInv, UNCHANGED vars
                         PROVE  /\ OwnRowOnly
                                /\ f_descs' = f_descs /\ calls' = calls
                                /\ opened' = opened /\ got' = got
  BY DEF vars, OwnRowOnly

LEMMA OpenTakesEffect ==
    ASSUME IInv, NEW name, OpenTakes(name)
    PROVE  LET fd == Min(Free)
           IN  /\ OwnRowOnly /\ OtherFdsSame(fd)
               /\ calls[Running].at = "user"
               /\ fd \in FileFds /\ fd \notin ActiveIn(Descs)
               /\ \A x \in FileFds : x \notin ActiveIn(Descs) => fd <= x
               /\ calls'[Running] = [at |-> "opening", fd |-> fd, entry |-> DentryByName(name)]
               /\ opened'[Running] = opened[Running] /\ got'[Running] = got[Running]
               /\ ActiveIn(f_descs'[Running]) = ActiveIn(Descs) \cup {fd}
               /\ opened[Running][fd] = <<>>
  <1> DEFINE fd == Min(Free)
  <1>1. /\ fd \in Free /\ \A x \in Free : fd <= x
        /\ Free = FileFds \ ActiveIn(Descs)
    <2>1. Free \subseteq Nat /\ Free # {}
      BY SizesAssumption DEF Free, Candidates, OpenTakes
    <2>2. Free = FileFds \ ActiveIn(Descs)
      BY SizesAssumption DEF Free, Candidates, Active, ActiveIn, Descs, FileFds, Fds
    <2>3. QED
      BY <2>1, <2>2, MinFacts
  <1> HIDE DEF fd
  <1>2. fd \in FileFds /\ fd \notin ActiveIn(Descs)
    BY <1>1
  <1>3. /\ Running \in ProcIds /\ Tabular /\ fd \in Fds
        /\ f_descs[Running] = [x \in Fds |-> f_descs[Running][x]]
        /\ GoodDesc(fd, Descs[fd], calls[Running], opened[Running][fd], got[Running][fd], TRUE)
        /\ Descs[fd] \in Desc
    BY <1>2, DescFacts
  <1>4. /\ f_descs' = [f_descs EXCEPT ![Running] = [Descs EXCEPT ![fd] = Taken(Descs[fd])]]
        /\ calls' = [calls EXCEPT ![Running] =
                       [at |-> "opening", fd |-> fd, entry |-> DentryByName(name)]]
        /\ UNCHANGED <<active_proc_num, opened, got>>
        /\ calls[Running].at = "user"
    BY DEF OpenTakes, InUser, Descs, fd
  <1>5. /\ f_descs'[Running] = [Descs EXCEPT ![fd] = Taken(Descs[fd])]
        /\ calls'[Running] = [at |-> "opening", fd |-> fd, entry |-> DentryByName(name)]
        /\ OwnRowOnly
    BY <1>3, <1>4, Zenon DEF Tabular, OwnRowOnly
  <1>6. /\ f_descs'[Running][fd].flags = FLAG_ACTIVE
        /\ \A x \in FileFds : x # fd => f_descs'[Running][x] = Descs[x]
    <2>1. Taken(Descs[fd]).flags = FLAG_ACTIVE
      BY <1>3 DEF Taken, Desc
    <2>2. QED
      BY <1>3, <1>5, <2>1 DEF Descs, FileFds
  <1>7. ActiveIn(f_descs'[Running]) = ActiveIn(Descs) \cup {fd}
    BY <1>2, <1>6 DEF ActiveIn
  <1>8. opened[Running][fd] = <<>>
    BY <1>2, <1>3 DEF GoodDesc, ActiveIn
  <1>9. QED
    BY <1>1, <1>2, <1>4, <1>5, <1>6, <1>7, <1>8 DEF OtherFdsSame, fd

LEMMA OpenEntersEffect ==
    ASSUME IInv, OpenEnters
    PROVE  LET fd == calls[Running].fd
           IN  /\ OwnRowOnly /\ OtherFdsSame(fd)
               /\ calls[Running].at = "opening"
               /\ fd \in FileFds /\ calls[Running].entry \in Entries
               /\ calls'[Running].at = "user"
               /\ opened'[Running][fd] = <<calls[Running].entry>> /\ got'[Running][fd] = <<>>
               /\ opened[Running][fd] = <<>>
               /\ f_descs'[Running][fd].file_pos = 0
               /\ ActiveIn(f_descs'[Running]) = ActiveIn(Descs)
  <1> DEFINE fd == calls[Running].fd
             entry == calls[Running].entry
             d == Entered(Descs[fd], entry)
  <1>1. calls[Running] \in Call /\ calls[Running].at = "opening"
    BY RunningFacts DEF RunningOK, GoodRow, OpenEnters
  <1>2. fd \in FileFds /\ entry \in Entries
    BY <1>1 DEF Call
  <1>3. /\ f_descs' = [f_descs EXCEPT ![Running] = [Descs EXCEPT ![fd] = d]]
        /\ calls' = [calls EXCEPT ![Running] = InProgram]
        /\ opened' = [opened EXCEPT ![Running] =
                        [opened[Running] EXCEPT ![fd] = <<entry>>]]
        /\ got' = [got EXCEPT ![Running] = [got[Running] EXCEPT ![fd] = <<>>]]
        /\ UNCHANGED active_proc_num
    BY DEF OpenEnters, Descs
  <1> HIDE DEF fd, entry
  <1>4. /\ Running \in ProcIds /\ Tabular /\ fd \in Fds
        /\ Descs[fd] \in Desc
        /\ f_descs[Running] = [x \in Fds |-> f_descs[Running][x]]
        /\ opened[Running] = [x \in FileFds |-> opened[Running][x]]
        /\ got[Running] = [x \in FileFds |-> got[Running][x]]
        /\ GoodDesc(fd, Descs[fd], calls[Running], opened[Running][fd], got[Running][fd], TRUE)
    BY <1>2, DescFacts
  <1>5. /\ opened[Running][fd] = <<>> /\ Descs[fd].file_pos = 0
        /\ Descs[fd].flags = FLAG_ACTIVE
    BY <1>1, <1>4 DEF GoodDesc, fd
  <1>6. d.file_pos = 0 /\ d.flags = FLAG_ACTIVE
    BY <1>4, <1>5 DEF Entered, Desc
  <1> HIDE DEF d
  <1>7. /\ f_descs'[Running] = [Descs EXCEPT ![fd] = d]
        /\ calls'[Running] = InProgram
        /\ opened'[Running] = [opened[Running] EXCEPT ![fd] = <<entry>>]
        /\ got'[Running] = [got[Running] EXCEPT ![fd] = <<>>]
        /\ OwnRowOnly
    BY <1>3, <1>4, Zenon DEF Tabular, OwnRowOnly
  <1>8. /\ f_descs'[Running][fd] = d
        /\ opened'[Running][fd] = <<entry>> /\ got'[Running][fd] = <<>>
        /\ OtherFdsSame(fd)
    BY <1>2, <1>4, <1>7 DEF Descs, FileFds, OtherFdsSame
  <1>9. ActiveIn(f_descs'[Running]) = ActiveIn(Descs)
    BY <1>2, <1>5, <1>6, <1>8 DEF ActiveIn, OtherFdsSame
  <1>10. QED
    BY <1>1, <1>2, <1>5, <1>6, <1>7, <1>8, <1>9 DEF fd, entry, InProgram

\* One read of a descriptor: where its position and its history get.
LEMMA ReadEffect ==
    ASSUME IInv, NEW fd, NEW nbytes, Reads(fd, nbytes)
    PROVE  /\ OwnRowOnly /\ OtherFdsSame(fd)
           /\ calls[Running].at = "user" /\ calls'[Running] = calls[Running]
           /\ fd \in FileFds
           /\ opened'[Running] = opened[Running]
           /\ ActiveIn(f_descs'[Running]) = ActiveIn(Descs)
  <1>1. fd \in Active(Running) /\ fd \in FileFds /\ InUser
    BY DEF Reads, FileRead, DirRead, DirReadEnds, Active
  <1>2. PICK pos, g : /\ f_descs' = [f_descs EXCEPT ![Running] =
                                       [Descs EXCEPT ![fd] = [@ EXCEPT !.file_pos = pos]]]
                      /\ got' = [got EXCEPT ![Running] = [got[Running] EXCEPT ![fd] = g]]
                      /\ UNCHANGED <<active_proc_num, calls, opened>>
    <2>1. CASE FileRead(fd, nbytes)
      BY <2>1 DEF FileRead, Descs
    <2>2. CASE DirRead(fd)
      BY <2>2 DEF DirRead, Descs
    <2>3. CASE DirReadEnds(fd)
      BY <2>3 DEF DirReadEnds, Descs
    <2>4. QED
      BY <2>1, <2>2, <2>3 DEF Reads
  <1>3. /\ Running \in ProcIds /\ Tabular /\ fd \in Fds
        /\ Descs[fd] \in Desc
        /\ f_descs[Running] = [x \in Fds |-> f_descs[Running][x]]
        /\ got[Running] = [x \in FileFds |-> got[Running][x]]
    BY <1>1, DescFacts
  <1> DEFINE d == [Descs[fd] EXCEPT !.file_pos = pos]
  <1>4. d.flags = Descs[fd].flags
    BY <1>3 DEF Desc
  <1>5. f_descs' = [f_descs EXCEPT ![Running] = [Descs EXCEPT ![fd] = d]]
    BY <1>2, <1>3 DEF Descs
  <1> HIDE DEF d
  <1>6. /\ f_descs'[Running] = [Descs EXCEPT ![fd] = d]
        /\ got'[Running] = [got[Running] EXCEPT ![fd] = g]
        /\ OwnRowOnly
    BY <1>2, <1>3, <1>5, Zenon DEF Tabular, OwnRowOnly
  <1>7. f_descs'[Running][fd] = d /\ OtherFdsSame(fd)
    BY <1>1, <1>2, <1>3, <1>6 DEF Descs, FileFds, OtherFdsSame
  <1>8. ActiveIn(f_descs'[Running]) = ActiveIn(Descs)
    BY <1>1, <1>4, <1>7 DEF ActiveIn, OtherFdsSame
  <1>9. QED
    BY <1>1, <1>2, <1>6, <1>7, <1>8 DEF InUser

LEMMA CloseEffect ==
    ASSUME IInv, NEW fd, Close(fd)
    PROVE  /\ OwnRowOnly /\ OtherFdsSame(fd)
           /\ calls[Running].at = "user" /\ calls'[Running] = calls[Running]
           /\ fd \in FileFds
           /\ ActiveIn(f_descs'[Running]) = ActiveIn(Descs) \ {fd}
  <1>1. fd \in FileFds /\ InUser
    BY DEF Close, Active
  <1>2. /\ Running \in ProcIds /\ Tabular /\ fd \in Fds
        /\ Descs[fd] \in Desc
        /\ f_descs[Running] = [x \in Fds |-> f_descs[Running][x]]
        /\ opened[Running] = [x \in FileFds |-> opened[Running][x]]
        /\ got[Running] = [x \in FileFds |-> got[Running][x]]
    BY <1>1, DescFacts
  <1> DEFINE d == [Descs[fd] EXCEPT !.flags = FLAG_INACTIVE]
  <1>3. d.flags # FLAG_ACTIVE
    BY <1>2 DEF Desc, FLAG_ACTIVE, FLAG_INACTIVE
  <1>4. /\ f_descs' = [f_descs EXCEPT ![Running] = [Descs EXCEPT ![fd] = d]]
        /\ opened' = [opened EXCEPT ![Running] = [opened[Running] EXCEPT ![fd] = <<>>]]
        /\ got' = [got EXCEPT ![Running] = [got[Running] EXCEPT ![fd] = <<>>]]
        /\ UNCHANGED <<active_proc_num, calls>>
    BY DEF Close, Descs
  <1> HIDE DEF d
  <1>5. /\ f_descs'[Running] = [Descs EXCEPT ![fd] = d]
        /\ opened'[Running] = [opened[Running] EXCEPT ![fd] = <<>>]
        /\ got'[Running] = [got[Running] EXCEPT ![fd] = <<>>]
        /\ OwnRowOnly
    BY <1>2, <1>4, Zenon DEF Tabular, OwnRowOnly
  <1>6. f_descs'[Running][fd] = d /\ OtherFdsSame(fd)
    BY <1>1, <1>2, <1>5 DEF Descs, FileFds, OtherFdsSame
  <1>7. ActiveIn(f_descs'[Running]) = ActiveIn(Descs) \ {fd}
    BY <1>1, <1>3, <1>6 DEF ActiveIn, OtherFdsSame
  <1>8. QED
    BY <1>1, <1>4, <1>5, <1>6, <1>7 DEF InUser

-----------------------------------------------------------------------------
(* What reads deliver.                                                       *)

LEMMA DirectoryFacts ==
    /\ Len(dir_entries) \in Nat
    /\ \A i \in 1..Len(dir_entries) :
          dir_entries[i].name \in STRING /\ dir_entries[i] \in Entries
    /\ FileNames = NamesUpTo(Len(dir_entries))
  <1>1. /\ Len(dir_entries) \in Nat /\ DOMAIN dir_entries = 1..Len(dir_entries)
        /\ \A i \in 1..Len(dir_entries) :
              dir_entries[i] \in [name : STRING, type : {"rtc", "dir", "file"}, inode : Nat]
    BY ImageAssumption, LenProperties, ElementOfSeq
  <1>2. QED
    BY <1>1 DEF Entries, FileNames, NamesUpTo

LEMMA NamesArePrintable ==
    ASSUME NEW n \in 0..Len(dir_entries)
    PROVE  NamesUpTo(n) \in Seq(Printable) /\ Len(NamesUpTo(n)) = n
  <1>1. n \in Nat /\ \A i \in 1..n : dir_entries[i].name \in Printable
    BY DirectoryFacts DEF Printable
  <1>2. NamesUpTo(n) \in [1..n -> Printable]
    BY <1>1 DEF NamesUpTo
  <1>3. QED
    BY <1>1, <1>2

LEMMA BytesArePrintable ==
    ASSUME NEW inode \in DOMAIN inodes, NEW n \in Nat
    PROVE  BytesUpTo(inode, n) \in Seq(Printable) /\ Len(BytesUpTo(inode, n)) = n
  <1>1. \A k \in 1..n : k - 1 \in Nat /\ ByteOfFile(inode, k - 1) \in Printable
    BY DEF Printable
  <1>2. BytesUpTo(inode, n) \in [1..n -> Printable]
    BY <1>1 DEF BytesUpTo
  <1>3. QED
    BY <1>2

\* The end of a file, or of the directory.
AtEnd(entry, g) ==
    \/ entry.type = "dir" /\ g = NamesUpTo(Len(dir_entries))
    \/ /\ entry.type = "file"
       /\ \E n \in {inodes[entry.inode].length, inodes[entry.inode].length + 1} :
             g = BytesUpTo(entry.inode, n)

\* A read appends what it delivers to what was read, and delivers nothing at the end
\* only.
LEMMA ReadDelivers ==
    ASSUME IInv, NEW fd, NEW nbytes \in 1..BUFSIZE, Reads(fd, nbytes)
    PROVE  LET entry == opened[Running][fd][1]
               bytes == Delivered(fd, nbytes)
           IN  /\ opened[Running][fd] = <<entry>> /\ entry \in Entries
               /\ bytes # <<>> => /\ got'[Running][fd] = got[Running][fd] \o bytes
                                  /\ got'[Running][fd] \in Seq(Printable)
               /\ bytes = <<>> => AtEnd(entry, got[Running][fd])
  <1> DEFINE d == Descs[fd]
             entry == opened[Running][fd][1]
             g == got[Running][fd]
             bytes == Delivered(fd, nbytes)
  <1>1. fd \in Active(Running) /\ InUser /\ nbytes \in ReadSizes /\ nbytes \in Nat
    <2>1. nbytes \in ReadSizes /\ nbytes \in Nat
      BY CommandsAssumption
    <2>2. QED
      BY <2>1 DEF Reads, FileRead, DirRead, DirReadEnds
  <1>2. /\ d \in Desc /\ fd \in FileFds
        /\ opened[Running][fd] \in HistoryOf /\ opened[Running][fd] # <<>>
        /\ entry \in Entries /\ entry.type = d.table
        /\ GoodDesc(fd, d, calls[Running], opened[Running][fd], g, TRUE)
    BY <1>1, ActiveFacts
  <1>3. opened[Running][fd] = <<entry>>
    BY <1>2 DEF HistoryOf
  <1>4. /\ Running \in ProcIds /\ Tabular
        /\ got[Running] = [x \in FileFds |-> got[Running][x]]
    BY <1>2, DescFacts
  <1> HIDE DEF d, entry, g, bytes
  <1>5. CASE FileRead(fd, nbytes)
    <2> DEFINE data == ReadData(d.inode, d.file_pos, nbytes)
    <2>1. /\ d.table = "file" /\ entry.type = "file"
          /\ d.inode = entry.inode /\ d.file_pos \in Nat
          /\ d.file_pos <= inodes[d.inode].length + 1
          /\ g = BytesUpTo(d.inode, d.file_pos)
          /\ d.inode \in DOMAIN inodes /\ inodes[d.inode].length \in Nat
      BY <1>2, <1>5, EntryFacts DEF GoodDesc, Desc, FileRead, entry, d
    <2>2. /\ Len(data) = BytesCopied(d.inode, d.file_pos, nbytes) /\ Len(data) \in Nat
          /\ g \o data = BytesUpTo(d.inode, d.file_pos + Len(data))
      BY <1>1, <2>1, ReadDataFacts, Zenon
    <2>3. bytes = data
      BY <2>1 DEF bytes, Delivered, d
    <2>4. got'[Running][fd] = g \o data
      <3>1. got' = [got EXCEPT ![Running][fd] = @ \o data]
        BY <1>5 DEF FileRead, d
      <3> HIDE DEF data
      <3>2. QED
        BY <1>2, <1>4, <3>1 DEF Tabular, g
    <2>5. got'[Running][fd] \in Seq(Printable)
      <3>1. d.file_pos + Len(data) \in Nat
        BY <2>1, <2>2
      <3>2. QED
        BY <2>1, <2>2, <2>4, <3>1, BytesArePrintable
    <2>6. bytes = <<>> => AtEnd(entry, g)
      <3> SUFFICES ASSUME data = <<>> PROVE AtEnd(entry, g)
        BY <2>3
      <3> DEFINE length == inodes[d.inode].length
                 room == length - d.file_pos + 1
                 S == {Unsigned(nbytes), room}
      <3>1. BytesCopied(d.inode, d.file_pos, nbytes) = 0
        BY <2>2
      <3>2. d.file_pos >= length
        <4> SUFFICES ASSUME ~(d.file_pos >= length) PROVE FALSE
          OBVIOUS
        <4>1. Unsigned(nbytes) = nbytes
          BY <1>1, SizesAssumption, CommandsAssumption DEF Unsigned
        <4>2. S \subseteq Nat \ {0} /\ S # {}
          BY <1>1, <2>1, <4>1, CommandsAssumption
        <4>3. Min(S) \in S
          BY <4>2, MinFacts
        <4>4. BytesCopied(d.inode, d.file_pos, nbytes) = Min(S)
          BY DEF BytesCopied
        <4>5. QED
          BY <3>1, <4>2, <4>3, <4>4
      <3>3. d.file_pos \in {length, length + 1}
        BY <2>1, <3>2
      <3>4. QED
        BY <2>1, <3>3 DEF AtEnd
    <2>7. QED
      BY <1>2, <1>3, <2>3, <2>4, <2>5, <2>6 DEF entry, g, bytes
  <1>6. CASE DirRead(fd)
    <2> DEFINE n == d.file_pos
               name == dir_entries[n + 1].name
    <2>1. /\ d.table = "dir" /\ entry.type = "dir" /\ n \in Nat
          /\ n < Len(dir_entries) /\ n + 1 \in 0..Len(dir_entries) /\ n \in 0..Len(dir_entries)
          /\ g = NamesUpTo(n)
      BY <1>2, <1>6, DirectoryFacts DEF GoodDesc, Desc, DirRead, entry, d
    <2>2. bytes = <<name>>
      BY <2>1 DEF bytes, Delivered, d
    <2>3. /\ name \in Printable /\ g \in Seq(Printable)
          /\ Append(g, name) = NamesUpTo(n + 1) /\ NamesUpTo(n + 1) \in Seq(Printable)
      <3>1. name \in Printable
        BY <2>1, DirectoryFacts DEF Printable
      <3>2. NamesUpTo(n) \in Seq(Printable) /\ NamesUpTo(n + 1) \in Seq(Printable)
        BY <2>1, NamesArePrintable, Zenon
      <3>3. Append(NamesUpTo(n), name) = NamesUpTo(n + 1)
        BY <2>1, NextName, Zenon
      <3>4. QED
        BY <2>1, <3>1, <3>2, <3>3
    <2>4. got'[Running][fd] = Append(g, name)
      <3>1. got' = [got EXCEPT ![Running][fd] = Append(@, name)]
        BY <1>6 DEF DirRead, d
      <3> HIDE DEF name
      <3>2. QED
        BY <1>2, <1>4, <3>1 DEF Tabular, g
    <2>5. Append(g, name) = g \o bytes
      <3> HIDE DEF name
      <3>1. QED
        BY <2>2, <2>3, AppendIsConcat
    <2>6. got'[Running][fd] \in Seq(Printable) /\ bytes # <<>>
      BY <2>2, <2>3, <2>4
    <2> HIDE DEF n, name
    <2>7. QED
      BY <1>2, <1>3, <2>4, <2>5, <2>6 DEF entry, g, bytes
  <1>7. CASE DirReadEnds(fd)
    <2>1. /\ d.table = "dir" /\ entry.type = "dir" /\ d.file_pos \in Nat
          /\ d.file_pos >= Len(dir_entries) /\ d.file_pos <= Len(dir_entries)
          /\ g = NamesUpTo(d.file_pos)
      BY <1>2, <1>7 DEF GoodDesc, Desc, DirReadEnds, entry, d
    <2>2. d.file_pos = Len(dir_entries) /\ ~(d.file_pos < Len(dir_entries))
      BY <2>1, DirectoryFacts
    <2>3. bytes = <<>>
      BY <2>1, <2>2 DEF bytes, Delivered, d
    <2>4. QED
      BY <1>2, <1>3, <2>1, <2>2, <2>3 DEF AtEnd, entry, g, bytes
  <1>8. QED
    BY <1>5, <1>6, <1>7 DEF Reads

\* The directory's position counts the names delivered.
LEMMA DirReadMoves ==
    ASSUME IInv, NEW fd \in FileFds, DirRead(fd)
    PROVE  /\ Descs[fd].file_pos \in 0..(Len(dir_entries) - 1)
           /\ f_descs'[Running][fd].file_pos = Descs[fd].file_pos + 1
           /\ Delivered(fd, BUFSIZE) = <<dir_entries[Descs[fd].file_pos + 1].name>>
  <1>1. /\ Running \in ProcIds /\ Tabular /\ fd \in Fds /\ Descs[fd] \in Desc
        /\ f_descs[Running] = [x \in Fds |-> f_descs[Running][x]]
    BY DescFacts
  <1>2. /\ f_descs' = [f_descs EXCEPT ![Running][fd].file_pos = @ + 1]
        /\ Descs[fd].table = "dir" /\ Descs[fd].file_pos < Len(dir_entries)
    BY DEF DirRead
  <1>3. f_descs'[Running][fd] = [Descs[fd] EXCEPT !.file_pos = @ + 1]
    BY <1>1, <1>2 DEF Tabular, Descs
  <1>4. QED
    BY <1>1, <1>2, <1>3, DirectoryFacts DEF Desc, Delivered

-----------------------------------------------------------------------------
(* Steps that keep the invariant if they keep the running process's row.     *)

LEMMA OwnStep ==
    ASSUME IInv, ProgramsInv, OwnRowOnly, TasksTabular', UNCHANGED arg_buff,
           task'[Running].by = T.by,
           \A q \in ProcIds : q # Running => task'[q] = task[q] /\ ended'[q] = ended[q],
           GoodTask(task'[Running], calls'[Running], f_descs'[Running], opened'[Running],
                    got'[Running], arg_buff[Running]),
           GoodAnswer(task'[Running], ended'[Running])
    PROVE  ProgramsInv'
  <1>1. Running \in ProcIds /\ Running = active_proc_num /\ active_proc_num' = active_proc_num
    BY DEF IInv, Running, OwnRowOnly
  <1>2. ASSUME NEW q \in ProcIds PROVE TaskRow(q)' /\ GoodAnswer(task[q], ended[q])'
    <2>1. CASE q = Running
      BY <2>1 DEF TaskRow
    <2>2. CASE q # Running
      <3>1. TaskRow(q) /\ GoodAnswer(task[q], ended[q])
        BY DEF ProgramsInv
      <3>2. /\ task'[q] = task[q] /\ ended'[q] = ended[q] /\ arg_buff'[q] = arg_buff[q]
            /\ f_descs'[q] = f_descs[q] /\ calls'[q] = calls[q]
            /\ opened'[q] = opened[q] /\ got'[q] = got[q]
        BY <2>2 DEF OwnRowOnly
      <3>3. QED
        BY <3>1, <3>2, Zenon DEF TaskRow
    <2>3. QED
      BY <2>1, <2>2
  <1>3. ASSUME NEW q \in ProcIds PROVE ShellWaits(q)'
    <2> SUFFICES ASSUME q > 0, q <= active_proc_num, task'[q].by = "shell"
                 PROVE  task'[q - 1].prog = "shell" /\ task'[q - 1].at = "waiting"
      BY <1>1 DEF ShellWaits
    <2>1. q - 1 \in ProcIds /\ q - 1 # Running
      BY <1>1, SizesAssumption DEF ProcIds
    <2>2. task[q].by = "shell" /\ ShellWaits(q)
      BY DEF ProgramsInv, T
    <2>3. QED
      BY <2>1, <2>2 DEF ShellWaits
  <1>4. QED
    BY <1>2, <1>3 DEF ProgramsInv

\* The running program goes on as t.
LEMMA GoesStep ==
    ASSUME IInv, ProgramsInv, OwnRowOnly, NEW t \in Task, Goes(t), t.by = T.by,
           t.prog = "shell" => t.at # "answer",
           GoodTask(t, calls'[Running], f_descs'[Running], opened'[Running], got'[Running],
                    arg_buff[Running])
    PROVE  ProgramsInv'
  <1>1. Running \in ProcIds /\ TasksTabular
    BY DEF IInv, Running, ProgramsInv
  <1>2. task' = [task EXCEPT ![Running] = t] /\ UNCHANGED <<arg_buff, ended>>
    BY DEF Goes
  <1>3. /\ task'[Running] = t /\ task' \in [ProcIds -> Task]
        /\ \A q \in ProcIds : q # Running => task'[q] = task[q] /\ ended'[q] = ended[q]
    BY <1>1, <1>2 DEF TasksTabular
  <1>4. TasksTabular'
    BY <1>1, <1>2, <1>3 DEF TasksTabular
  <1>5. GoodAnswer(task'[Running], ended'[Running])
    BY <1>3 DEF GoodAnswer
  <1>6. QED
    BY <1>2, <1>3, <1>4, <1>5, OwnStep

LEMMA BegunFacts ==
    ASSUME NEW prog \in Executables \cup {"none"}, NEW by \in {"none", "boot", "shell", "key"}
    PROVE  Begun(prog, by) \in Task
  <1>1. <<>> \in Seq(Printable)
    OBVIOUS
  <1>2. QED
    BY <1>1 DEF Begun, Task

\* A program begins with its first step, without a descriptor.
LEMMA BegunRow ==
    ASSUME NEW prog, NEW by, NEW c, NEW descs, NEW o, NEW g, NEW arg, c.at = "user",
           \A fd \in FileFds : descs[fd].flags = FLAG_INACTIVE
    PROVE  GoodTask(Begun(prog, by), c, descs, o, g, arg)
  <1> DEFINE t == Begun(prog, by)
  <1>1. /\ t.prog = prog /\ t.at = "start" /\ t.printed = <<>> /\ t.fails = 0 /\ t.fail = 0
        /\ t.test = 1 /\ t.last = 1 /\ t.step = 1 /\ t.cnt = 0
    BY DEF Begun
  <1> HIDE DEF t
  <1>2. ActiveIn(descs) = {}
    BY DEF ActiveIn, FLAG_ACTIVE, FLAG_INACTIVE
  <1>3. Len(Tests[1]) = 3
    BY DEF Tests, err_neg_fd
  <1>4. GoodShell(t, c) /\ GoodCopier(t, c, o, g, arg) /\ GoodGrep(t, c, descs, o, arg)
    BY <1>1 DEF GoodShell, GoodCopier, GoodGrep
  <1>5. GoodSyserr(t, c, descs)
    BY <1>1, <1>2, <1>3 DEF GoodSyserr
  <1>6. QED
    BY <1>1, <1>4, <1>5 DEF GoodTask, t

\* A slot above the running process is ready for a program.
LEMMA FreeSlot ==
    ASSUME IInv, NEW p \in ProcIds, p > active_proc_num
    PROVE  /\ f_descs[p] \in [Fds -> Desc] /\ calls[p].at = "user"
           /\ \A fd \in FileFds : f_descs[p][fd].flags = FLAG_INACTIVE
  <1>1. Row(p) /\ (p <= active_proc_num) = FALSE
    BY DEF IInv, ProcIds
  <1>2. GoodRow(f_descs[p], calls[p], opened[p], got[p], FALSE)
    BY <1>1, Zenon DEF Row
  <1>3. /\ f_descs[p] \in [Fds -> Desc] /\ calls[p] \in Call
        /\ \A fd \in FileFds :
              GoodDesc(fd, f_descs[p][fd], calls[p], opened[p][fd], got[p][fd], FALSE)
    BY <1>2 DEF GoodRow
  <1>4. \A fd \in FileFds : /\ f_descs[p][fd].flags = FLAG_INACTIVE
                            /\ ~(calls[p].at = "opening" /\ calls[p].fd = fd)
    BY <1>3 DEF GoodDesc, FLAG_ACTIVE, FLAG_INACTIVE
  <1>5. QED
    BY <1>3, <1>4 DEF Call

LEMMA StartsStep ==
    ASSUME IInv, ProgramsInv, NEW prog \in Executables, NEW arg, NEW by \in {"shell", "key"},
           by = "shell" => T.prog = "shell" /\ T.at = "start",
           Starts(prog, arg, by)
    PROVE  ProgramsInv'
  <1>1. PICK p \in ProcIds : p = Running + 1
    BY DEF Starts, Execute
  <1>2. /\ Running \in ProcIds /\ Running = active_proc_num /\ Running \in Int /\ p \in Int
        /\ TasksTabular /\ f_descs = [q \in ProcIds |-> f_descs[q]]
    BY <1>1 DEF IInv, Running, ProgramsInv, ProcIds, Tabular
  <1> DEFINE left == IF by = "shell" THEN [T EXCEPT !.at = "waiting"] ELSE T
             t == Begun(prog, by)
  <1>3. /\ task' = [[task EXCEPT ![Running] = left] EXCEPT ![p] = t]
        /\ arg_buff' = [arg_buff EXCEPT ![p] = arg]
        /\ ended' = ended
        /\ active_proc_num' = p
        /\ f_descs' = [f_descs EXCEPT ![p] = Started(f_descs[p])]
        /\ UNCHANGED <<calls, opened, got>>
    BY <1>1, <1>2 DEF Starts, Execute, T
  <1>4. left \in Task /\ t \in Task
    <2>1. T \in Task
      BY <1>2 DEF T, TasksTabular
    <2>2. left \in Task
      BY <2>1 DEF Task
    <2>3. QED
      BY <2>2, BegunFacts
  <1>5. /\ left.prog = T.prog /\ left.by = T.by /\ t.by = by /\ t.at = "start"
        /\ TaskRow(Running) /\ GoodAnswer(T, ended[Running])
        /\ by = "shell" => left.at = "waiting"
    BY <1>2, <1>4 DEF ProgramsInv, T, TasksTabular, Begun, Task
  <1>6. GoodTask(left, calls[Running], f_descs[Running], opened[Running], got[Running],
                 arg_buff[Running])
    <2>1. CASE by = "shell"
      <3>1. T \in Task
        BY <1>2 DEF T, TasksTabular
      <3>2. /\ left.prog = "shell" /\ left.at = "waiting" /\ left.fails = T.fails
            /\ GoodShell(T, calls[Running]) /\ T.fails = 0
        BY <1>5, <2>1, <3>1 DEF Task, TaskRow, GoodTask, T
      <3> HIDE DEF left
      <3>3. QED
        BY <3>2 DEF GoodTask, GoodShell
    <2>2. CASE by # "shell"
      BY <1>5, <2>2 DEF TaskRow, T
    <2>3. QED
      BY <2>1, <2>2
  <1>7. GoodTask(t, calls[p], Started(f_descs[p]), opened[p], got[p], arg)
    <2>1. /\ f_descs[p] \in [Fds -> Desc] /\ calls[p].at = "user"
          /\ \A fd \in FileFds : f_descs[p][fd].flags = FLAG_INACTIVE
      BY <1>1, <1>2, FreeSlot
    <2>2. \A fd \in FileFds : Started(f_descs[p])[fd].flags = FLAG_INACTIVE
      BY <2>1, StartedFacts
    <2>3. QED
      BY <2>1, <2>2, BegunRow
  <1>8. GoodAnswer(left, ended[Running]) /\ GoodAnswer(t, ended[p])
    BY <1>5 DEF GoodAnswer
  <1> HIDE DEF left, t
  <1>9. /\ task'[Running] = left /\ task'[p] = t /\ arg_buff'[p] = arg
        /\ f_descs'[p] = Started(f_descs[p])
        /\ \A q \in ProcIds : q # p => arg_buff'[q] = arg_buff[q] /\ f_descs'[q] = f_descs[q]
        /\ \A q \in ProcIds : q # p /\ q # Running => task'[q] = task[q]
    BY <1>1, <1>2, <1>3 DEF TasksTabular
  <1>10. TasksTabular'
    BY <1>2, <1>3, <1>4 DEF TasksTabular
  <1>11. ASSUME NEW q \in ProcIds PROVE TaskRow(q)' /\ GoodAnswer(task[q], ended[q])'
    <2>1. calls'[q] = calls[q] /\ opened'[q] = opened[q] /\ got'[q] = got[q] /\ ended'[q] = ended[q]
      BY <1>3
    <2>2. CASE q = p
      BY <1>7, <1>8, <1>9, <2>1, <2>2 DEF TaskRow
    <2>3. CASE q = Running /\ q # p
      BY <1>6, <1>8, <1>9, <2>1, <2>3 DEF TaskRow
    <2>4. CASE q # p /\ q # Running
      <3>1. TaskRow(q) /\ GoodAnswer(task[q], ended[q])
        BY DEF ProgramsInv
      <3>2. task'[q] = task[q] /\ arg_buff'[q] = arg_buff[q] /\ f_descs'[q] = f_descs[q]
        BY <1>9, <2>4
      <3>3. QED
        BY <2>1, <3>1, <3>2 DEF TaskRow
    <2>5. QED
      BY <2>2, <2>3, <2>4
  <1>12. ASSUME NEW q \in ProcIds PROVE ShellWaits(q)'
    <2> SUFFICES ASSUME q > 0, q <= p, task'[q].by = "shell"
                 PROVE  task'[q - 1].prog = "shell" /\ task'[q - 1].at = "waiting"
      BY <1>3 DEF ShellWaits
    <2>1. CASE q = p
      BY <1>1, <1>2, <1>5, <1>9, <2>1
    <2>2. CASE q # p
      <3>1. q \in Int /\ q <= Running /\ q - 1 \in ProcIds /\ q - 1 # Running /\ q - 1 # p
        BY <1>1, <1>2, <2>2, SizesAssumption DEF ProcIds
      <3>2. task[q].by = "shell"
        BY <1>5, <1>9, <2>2 DEF T
      <3>3. task[q - 1].prog = "shell" /\ task[q - 1].at = "waiting"
        BY <1>2, <3>1, <3>2 DEF ProgramsInv, ShellWaits
      <3>4. QED
        BY <1>9, <3>1, <3>3
    <2>3. QED
      BY <2>1, <2>2
  <1>13. QED
    BY <1>10, <1>11, <1>12 DEF ProgramsInv

\* The shell's words fit the way a program ended.
LEMMA MessageFacts ==
    ASSUME NEW status \in 0..3
    PROVE  /\ ReturnCode(status) \in Int
           /\ Cause(status) \in {"exception", "badly", "well"}
           /\ Message(ReturnCode(status)) =
                CASE Cause(status) = "refused" -> "no such command"
                  [] Cause(status) = "exception" -> "program terminated by exception"
                  [] Cause(status) = "badly" -> "program terminated abnormally"
                  [] Cause(status) = "well" -> "nothing"
  <1>1. status = 0 \/ status = 1 \/ status = 2 \/ status = 3
    OBVIOUS
  <1>2. status % 256 = status
    BY <1>1
  <1>3. ReturnCode(status) = IF status = 1 THEN 256 ELSE status
    BY <1>2 DEF ReturnCode
  <1>4. CASE status = 0
    BY <1>3, <1>4 DEF Message, Cause
  <1>5. CASE status = 1
    BY <1>3, <1>5 DEF Message, Cause
  <1>6. CASE status = 2
    BY <1>3, <1>6 DEF Message, Cause
  <1>7. CASE status = 3
    BY <1>3, <1>7 DEF Message, Cause
  <1>8. QED
    BY <1>1, <1>4, <1>5, <1>6, <1>7

LEMMA EndsStep ==
    ASSUME IInv, ProgramsInv, NEW status \in 0..3, Ends(status)
    PROVE  ProgramsInv'
  <1> DEFINE final == HaltStatus(status)
  <1>0. final \in 0..3
    BY DEF HaltStatus
  <1> HIDE DEF final
  <1> DEFINE p == Running
             told == p > 0 /\ T.by = "shell"
             left == [fd \in Fds |-> Closed(fd, Descs[fd])]
             descs == IF p = 0 THEN Started(left) ELSE left
             t == IF p = 0 THEN Begun("shell", "boot") ELSE NoTask
             answer == [task[p - 1] EXCEPT !.at = "answer", !.rval = ReturnCode(final)]
  <1>1. /\ p \in ProcIds /\ p = active_proc_num /\ p \in Int /\ p >= 0
        /\ TasksTabular /\ Tabular /\ Descs \in [Fds -> Desc]
        /\ p > 0 => p - 1 \in ProcIds
    <2>1. p \in ProcIds /\ p = active_proc_num /\ TasksTabular
      BY DEF IInv, Running, ProgramsInv
    <2>2. Tabular /\ Descs \in [Fds -> Desc]
      BY RunningFacts DEF RunningOK, GoodRow
    <2>3. p \in Int /\ p >= 0 /\ (p > 0 => p - 1 \in ProcIds)
      BY <2>1, SizesAssumption DEF ProcIds
    <2>4. QED
      BY <2>1, <2>2, <2>3
  <1>2. /\ active_proc_num' = IF p = 0 THEN 0 ELSE p - 1
        /\ f_descs' = [f_descs EXCEPT ![p] = descs]
        /\ calls' = [calls EXCEPT ![p] = InProgram]
        /\ opened' = [opened EXCEPT ![p] = NoHistory]
        /\ got' = [got EXCEPT ![p] = NoHistory]
        /\ UNCHANGED arg_buff
        /\ told => /\ task' = [[task EXCEPT ![p] = NoTask] EXCEPT ![p - 1] = answer]
                   /\ ended' = [[ended EXCEPT ![p] = "none"] EXCEPT ![p - 1] = Cause(final)]
        /\ ~told => /\ task' = [task EXCEPT ![p] = t]
                    /\ ended' = [ended EXCEPT ![p] = "none"]
    <2>1. /\ Halt /\ UNCHANGED arg_buff
          /\ told => /\ task' = [task EXCEPT ![Running] = NoTask,
                                             ![Running - 1].at = "answer",
                                             ![Running - 1].rval = ReturnCode(final)]
                     /\ ended' = [Forgotten EXCEPT ![Running - 1] = Cause(final)]
          /\ ~told => task' = [task EXCEPT ![p] = t] /\ ended' = Forgotten
      BY DEF Ends, final
    <2>2. told => task' = [[task EXCEPT ![p] = NoTask] EXCEPT ![p - 1] = answer]
      <3> DEFINE f == [task EXCEPT ![p] = NoTask]
             half == [task[p - 1] EXCEPT !.at = "answer"]
             g == [f EXCEPT ![p - 1] = half]
      <3> SUFFICES ASSUME told PROVE task' = [f EXCEPT ![p - 1] = answer]
        OBVIOUS
      <3>1. /\ p - 1 \in ProcIds /\ f[p - 1] = task[p - 1] /\ task[p - 1] \in Task
            /\ f = [q \in ProcIds |-> f[q]]
        <4>1. p - 1 \in ProcIds /\ p - 1 # p /\ p \in ProcIds
          BY <1>1
        <4>2. task \in [ProcIds -> Task]
          BY <1>1 DEF TasksTabular
        <4> HIDE DEF p
        <4>3. QED
          BY <4>1, <4>2
      <3>2. task' = [[f EXCEPT ![p - 1].at = "answer"] EXCEPT ![p - 1].rval = ReturnCode(final)]
        BY <2>1
      <3> HIDE DEF f
      <3>3. task' = [g EXCEPT ![p - 1].rval = ReturnCode(final)]
        BY <3>1, <3>2
      <3>4. g[p - 1] = half
        BY <3>1
      <3>5. [half EXCEPT !.rval = ReturnCode(final)] = answer
        BY <3>1 DEF Task
      <3>6. task' = [g EXCEPT ![p - 1] = answer]
        BY <3>3, <3>4, <3>5
      <3> HIDE DEF half, answer
      <3>7. QED
        BY <3>1, <3>6
    <2>3. QED
      BY <2>1, <2>2 DEF Halt, Forgotten
  <1>3. \A fd \in FileFds : descs[fd].flags = FLAG_INACTIVE
    <2>1. left \in [Fds -> Desc] /\ \A fd \in FileFds : left[fd].flags = FLAG_INACTIVE
      <3>1. ASSUME NEW fd \in Fds
            PROVE  /\ Closed(fd, Descs[fd]) \in Desc
                   /\ fd \in FileFds => Closed(fd, Descs[fd]).flags = FLAG_INACTIVE
        <4>1. Descs[fd] \in Desc
          BY <1>1
        <4>2. QED
          BY <4>1 DEF Closed, Desc, Tables, FLAG_INACTIVE
      <3>2. QED
        BY <3>1 DEF FileFds
    <2> HIDE DEF left
    <2>2. QED
      BY <2>1, StartedFacts
  <1>4. /\ t \in Task /\ NoTask \in Task /\ t.at = "start" /\ NoTask.prog = "none"
        /\ t.by # "shell" /\ NoTask.by # "shell"
        /\ GoodTask(t, InProgram, descs, NoHistory, NoHistory, arg_buff[p])
        /\ GoodTask(NoTask, InProgram, descs, NoHistory, NoHistory, arg_buff[p])
    <2>1. t \in Task /\ NoTask \in Task
      BY BegunFacts DEF NoTask, Executables
    <2>2. t.at = "start" /\ NoTask.prog = "none" /\ t.by # "shell" /\ NoTask.by # "shell"
      BY DEF Begun, NoTask
    <2> HIDE DEF descs
    <2>3. InProgram.at = "user"
      BY DEF InProgram
    <2>4. QED
      BY <1>3, <2>1, <2>2, <2>3, BegunRow DEF NoTask
  <1>5. ASSUME told
        PROVE  /\ answer \in Task /\ answer.by = task[p - 1].by
               /\ answer.prog = "shell" /\ answer.at = "answer"
               /\ GoodAnswer(answer, Cause(final))
               /\ GoodTask(answer, calls[p - 1], f_descs[p - 1], opened[p - 1], got[p - 1],
                           arg_buff[p - 1])
    <2>1. /\ p - 1 \in ProcIds /\ task[p - 1] \in Task
          /\ task[p - 1].prog = "shell" /\ task[p - 1].at = "waiting" /\ TaskRow(p - 1)
      BY <1>1, <1>5 DEF TasksTabular, ProgramsInv, ShellWaits, T
    <2>2. /\ answer \in Task /\ answer.by = task[p - 1].by
          /\ answer.prog = "shell" /\ answer.at = "answer" /\ answer.fails = task[p - 1].fails
          /\ answer.rval = ReturnCode(final)
      BY <1>0, <2>1, MessageFacts DEF Task
    <2>3. calls[p - 1].at = "user" /\ task[p - 1].fails = 0
      BY <2>1 DEF TaskRow, GoodTask, GoodShell
    <2> HIDE DEF answer
    <2>4. GoodAnswer(answer, Cause(final))
      BY <1>0, <2>2, MessageFacts DEF GoodAnswer
    <2>5. GoodTask(answer, calls[p - 1], f_descs[p - 1], opened[p - 1], got[p - 1],
                   arg_buff[p - 1])
      BY <2>2, <2>3 DEF GoodTask, GoodShell
    <2>6. QED
      BY <2>2, <2>4, <2>5
  <1> DEFINE mine == IF told THEN NoTask ELSE t
  <1> HIDE DEF left, descs, t, answer
  <1>6. /\ calls'[p] = InProgram /\ f_descs'[p] = descs
        /\ opened'[p] = NoHistory /\ got'[p] = NoHistory
        /\ task'[p] = mine /\ ended'[p] = "none"
        /\ \A q \in ProcIds : q # p =>
              /\ f_descs'[q] = f_descs[q] /\ calls'[q] = calls[q]
              /\ opened'[q] = opened[q] /\ got'[q] = got[q]
              /\ ~(told /\ q = p - 1) => task'[q] = task[q] /\ ended'[q] = ended[q]
        /\ told => task'[p - 1] = answer /\ ended'[p - 1] = Cause(final)
    <2>1. /\ calls'[p] = InProgram /\ f_descs'[p] = descs
          /\ opened'[p] = NoHistory /\ got'[p] = NoHistory
          /\ \A q \in ProcIds : q # p =>
                /\ f_descs'[q] = f_descs[q] /\ calls'[q] = calls[q]
                /\ opened'[q] = opened[q] /\ got'[q] = got[q]
      BY <1>1, <1>2, Zenon DEF Tabular
    <2>2. /\ task'[p] = mine /\ ended'[p] = "none"
          /\ \A q \in ProcIds : q # p /\ ~(told /\ q = p - 1) =>
                task'[q] = task[q] /\ ended'[q] = ended[q]
          /\ told => task'[p - 1] = answer /\ ended'[p - 1] = Cause(final)
      <3>1. task = [q \in ProcIds |-> task[q]] /\ ended = [q \in ProcIds |-> ended[q]]
        BY <1>1 DEF TasksTabular
      <3>2. CASE told
        BY <1>1, <1>2, <3>1, <3>2
      <3>3. CASE ~told
        BY <1>1, <1>2, <3>1, <3>3
      <3>4. QED
        BY <3>2, <3>3
    <2>3. QED
      BY <2>1, <2>2
  <1>7. TasksTabular'
    BY <1>1, <1>2, <1>4, <1>5 DEF TasksTabular
  <1>8. ASSUME NEW q \in ProcIds PROVE TaskRow(q)' /\ GoodAnswer(task[q], ended[q])'
    <2>1. arg_buff'[q] = arg_buff[q]
      BY <1>2
    <2>2. CASE q = p
      <3>1. GoodTask(mine, InProgram, descs, NoHistory, NoHistory, arg_buff[p])
        BY <1>4
      <3>2. GoodAnswer(mine, "none")
        BY <1>4 DEF GoodAnswer
      <3> HIDE DEF mine
      <3>3. QED
        BY <1>6, <2>1, <2>2, <3>1, <3>2 DEF TaskRow
    <2>3. CASE told /\ q = p - 1
      <3>1. /\ task'[q] = answer /\ ended'[q] = Cause(final)
            /\ f_descs'[q] = f_descs[p - 1] /\ calls'[q] = calls[p - 1]
            /\ opened'[q] = opened[p - 1] /\ got'[q] = got[p - 1]
            /\ arg_buff'[q] = arg_buff[p - 1]
        BY <1>1, <1>6, <2>1, <2>3
      <3>2. QED
        BY <1>5, <2>3, <3>1 DEF TaskRow
    <2>4. CASE q # p /\ ~(told /\ q = p - 1)
      <3>1. TaskRow(q) /\ GoodAnswer(task[q], ended[q])
        BY DEF ProgramsInv
      <3> HIDE DEF told
      <3>2. QED
        BY <1>6, <2>1, <2>4, <3>1 DEF TaskRow
    <2>5. QED
      BY <2>2, <2>3, <2>4
  <1>9. ASSUME NEW q \in ProcIds PROVE ShellWaits(q)'
    <2> SUFFICES ASSUME q > 0, q <= active_proc_num', task'[q].by = "shell"
                 PROVE  task'[q - 1].prog = "shell" /\ task'[q - 1].at = "waiting"
      BY DEF ShellWaits
    <2>1. q \in Int /\ q <= p - 1 /\ q - 1 \in ProcIds /\ q - 1 # p /\ q - 1 # p - 1 /\ q # p
      BY <1>1, <1>2, SizesAssumption DEF ProcIds
    <2>2. task[q].by = "shell"
      BY <1>5, <1>6, <2>1
    <2>3. task[q - 1].prog = "shell" /\ task[q - 1].at = "waiting"
      BY <1>1, <2>1, <2>2 DEF ProgramsInv, ShellWaits
    <2> HIDE DEF told
    <2>4. QED
      BY <1>6, <2>1, <2>3
  <1>10. QED
    BY <1>7, <1>8, <1>9 DEF ProgramsInv

-----------------------------------------------------------------------------
(* Shells, keys and programs that end.                                       *)

LEMMA ShellExecutesStep ==
    ASSUME IInv, ProgramsInv, NEW command \in Commands, ShellExecutes(command)
    PROVE  ProgramsInv'
  BY StartsStep DEF ShellExecutes, At

LEMMA KeyLaunchesStep == ASSUME IInv, ProgramsInv, KeyLaunches PROVE ProgramsInv'
  <1>1. "shell" \in Executables
    BY DEF Executables
  <1>2. QED
    BY <1>1, StartsStep DEF KeyLaunches

\* A step of a shell that changes nothing but where it is.
LEMMA ShellStep ==
    ASSUME IInv, ProgramsInv, NEW t \in Task, NEW e,
           At("shell", "start") \/ At("shell", "answer"),
           t.prog = "shell", t.by = T.by, t.at \in {"start", "answer"}, t.fails = 0,
           GoodAnswer(t, e),
           task' = [task EXCEPT ![Running] = t],
           ended' = [ended EXCEPT ![Running] = e],
           UNCHANGED <<vars, arg_buff>>
    PROVE  ProgramsInv'
  <1>1. Running \in ProcIds /\ TasksTabular /\ calls[Running].at = "user"
    BY DEF IInv, Running, ProgramsInv, At, InUser
  <1>2. /\ task'[Running] = t /\ ended'[Running] = e
        /\ \A q \in ProcIds : q # Running => task'[q] = task[q] /\ ended'[q] = ended[q]
    BY <1>1 DEF TasksTabular
  <1>3. TasksTabular'
    BY <1>1 DEF TasksTabular
  <1>4. OwnRowOnly /\ calls' = calls
    BY UnchangedEffect
  <1>5. GoodTask(t, calls'[Running], f_descs'[Running], opened'[Running], got'[Running],
                 arg_buff[Running])
    BY <1>1, <1>4 DEF GoodTask, GoodShell
  <1>6. QED
    BY <1>2, <1>3, <1>4, <1>5, OwnStep

LEMMA ShellRefusedStep ==
    ASSUME IInv, ProgramsInv, NEW command \in Commands, ShellRefused(command)
    PROVE  ProgramsInv'
  <1> DEFINE t == [T EXCEPT !.at = "answer", !.rval = -1]
  <1>1. /\ Running \in ProcIds /\ T \in Task /\ TaskRow(Running) /\ T.prog = "shell"
        /\ task = [q \in ProcIds |-> task[q]]
    BY DEF IInv, Running, ProgramsInv, TasksTabular, T, ShellRefused, At
  <1>2. /\ t \in Task /\ t.prog = "shell" /\ t.by = T.by /\ t.at = "answer" /\ t.rval = -1
        /\ t.fails = T.fails
    <2>1. -1 \in Int /\ T.prog = "shell" /\ T \in Task
      BY <1>1
    <2>2. t \in Task
      BY <2>1 DEF Task
    <2>3. QED
      BY <2>1, <2>2 DEF Task
  <1>3. t.fails = 0
    BY <1>1, <1>2 DEF TaskRow, GoodTask, T
  <1>4. task' = [task EXCEPT ![Running] = t]
    <2> DEFINE half == [T EXCEPT !.at = "answer"]
    <2>1. task' = [[task EXCEPT ![Running] = half] EXCEPT ![Running].rval = -1]
      BY <1>1 DEF ShellRefused, T
    <2>2. [half EXCEPT !.rval = -1] = t
      BY <1>1 DEF Task
    <2> HIDE DEF half, t
    <2>3. QED
      BY <1>1, <2>1, <2>2
  <1> HIDE DEF t
  <1>5. GoodAnswer(t, "refused")
    BY <1>2 DEF GoodAnswer, Message
  <1>6. QED
    BY <1>2, <1>3, <1>4, <1>5, ShellStep DEF ShellRefused

LEMMA ShellAnswersStep == ASSUME IInv, ProgramsInv, ShellAnswers PROVE ProgramsInv'
  <1> DEFINE t == Begun("shell", T.by)
  <1>1. T \in Task
    BY DEF IInv, Running, ProgramsInv, TasksTabular, T
  <1>2. T.by \in {"none", "boot", "shell", "key"}
    BY <1>1 DEF Task
  <1>3. t \in Task /\ t.prog = "shell" /\ t.by = T.by /\ t.at = "start" /\ t.fails = 0
    BY <1>2, BegunFacts DEF Executables, Begun
  <1> HIDE DEF t
  <1>4. GoodAnswer(t, "none")
    BY <1>3 DEF GoodAnswer
  <1>5. QED
    BY <1>3, <1>4, ShellStep DEF ShellAnswers, t

LEMMA FileNotFoundStep == ASSUME IInv, ProgramsInv, FileNotFound PROVE ProgramsInv'
  <1>1. Wants(T).status \in 0..3
    BY DEF FileNotFound, Opener, Wants
  <1>2. QED
    BY <1>1, EndsStep DEF FileNotFound

LEMMA SyserrEndsStep == ASSUME IInv, ProgramsInv, SyserrEnds PROVE ProgramsInv'
  <1>1. T.fails = 0
    BY DEF IInv, Running, ProgramsInv, TaskRow, GoodTask, T
  <1>2. QED
    BY <1>1, EndsStep DEF SyserrEnds

LEMMA EndStep == ASSUME IInv, ProgramsInv, ShellExits \/ CopyEnds \/ KeyKills \/ Faults
                 PROVE  ProgramsInv'
  BY EndsStep DEF ShellExits, CopyEnds, KeyKills, Faults

-----------------------------------------------------------------------------
(* cat, ls and grep.                                                         *)

\* Which of the first names grep does not skip.
FilesUpTo(n) == {j \in 1..n : dir_entries[j].name \notin DotNames}

LEMMA FilesAmongFacts ==
    ASSUME NEW n \in Nat
    PROVE  /\ FilesAmong(0) = 0
           /\ FilesAmong(n) \in Nat
           /\ FilesAmong(n + 1) = IF dir_entries[n + 1].name \in DotNames
                                    THEN FilesAmong(n) ELSE FilesAmong(n) + 1
           /\ \A i \in 1..n : dir_entries[i].name \notin DotNames => FilesAmong(i) \in 1..FilesAmong(n)
  <1>1. \A m \in Nat : IsFiniteSet(FilesUpTo(m)) /\ FilesAmong(m) \in Nat
    <2> SUFFICES ASSUME NEW m \in Nat PROVE IsFiniteSet(FilesUpTo(m)) /\ FilesAmong(m) \in Nat
      OBVIOUS
    <2>1. IsFiniteSet(1..m)
      BY FS_Interval
    <2>2. FilesUpTo(m) \subseteq 1..m /\ FilesAmong(m) = Cardinality(FilesUpTo(m))
      BY DEF FilesUpTo, FilesAmong
    <2>3. QED
      BY <2>1, <2>2, FS_Subset, FS_CardinalityType
  <1>2. FilesAmong(0) = 0
    <2>1. {j \in 1..0 : dir_entries[j].name \notin DotNames} = {}
      OBVIOUS
    <2>2. QED
      BY <2>1, FS_EmptySet DEF FilesAmong
  <1>3. FilesAmong(n + 1) = IF dir_entries[n + 1].name \in DotNames
                             THEN FilesAmong(n) ELSE FilesAmong(n) + 1
    <2>1. CASE dir_entries[n + 1].name \in DotNames
      <3>1. FilesUpTo(n + 1) = FilesUpTo(n)
        BY <2>1 DEF FilesUpTo
      <3>2. QED
        BY <2>1, <3>1 DEF FilesAmong, FilesUpTo
    <2>2. CASE dir_entries[n + 1].name \notin DotNames
      <3>1. FilesUpTo(n + 1) = FilesUpTo(n) \cup {n + 1} /\ n + 1 \notin FilesUpTo(n)
        BY <2>2 DEF FilesUpTo
      <3>2. Cardinality(FilesUpTo(n) \cup {n + 1}) = Cardinality(FilesUpTo(n)) + 1
        BY <1>1, <3>1, FS_AddElement
      <3>3. QED
        BY <2>2, <3>1, <3>2 DEF FilesAmong, FilesUpTo
    <2>3. QED
      BY <2>1, <2>2
  <1>4. ASSUME NEW i \in 1..n, dir_entries[i].name \notin DotNames
        PROVE  FilesAmong(i) \in 1..FilesAmong(n)
    <2>1. i \in Nat /\ FilesUpTo(i) \subseteq FilesUpTo(n) /\ {i} \subseteq FilesUpTo(i)
      BY <1>4 DEF FilesUpTo
    <2>2. Cardinality(FilesUpTo(i)) <= Cardinality(FilesUpTo(n))
      BY <1>1, <2>1, FS_Subset
    <2>3. 1 <= Cardinality(FilesUpTo(i))
      <3>1. Cardinality({i}) = 1
        BY FS_Singleton
      <3>2. QED
        BY <1>1, <2>1, <3>1, FS_Subset
    <2>4. FilesAmong(i) = Cardinality(FilesUpTo(i)) /\ FilesAmong(n) = Cardinality(FilesUpTo(n))
      BY DEF FilesAmong, FilesUpTo
    <2>5. QED
      BY <1>1, <2>1, <2>2, <2>3, <2>4
  <1>5. QED
    BY <1>1, <1>2, <1>3, <1>4

LEMMA TaskFacts ==
    ASSUME IInv, ProgramsInv
    PROVE  /\ Running \in ProcIds /\ T \in Task /\ T.fails = 0
           /\ task = [q \in ProcIds |-> task[q]]
           /\ GoodTask(T, calls[Running], Descs, opened[Running], got[Running],
                       arg_buff[Running])
  <1>1. Running \in ProcIds /\ TasksTabular /\ TaskRow(Running)
    BY DEF IInv, Running, ProgramsInv
  <1>2. T \in Task /\ task = [q \in ProcIds |-> task[q]]
    BY <1>1 DEF TasksTabular, T
  <1>3. GoodTask(T, calls[Running], Descs, opened[Running], got[Running], arg_buff[Running])
    BY <1>1 DEF TaskRow, T, Descs
  <1>4. T.fails = 0
    BY <1>3 DEF GoodTask
  <1>5. QED
    BY <1>1, <1>2, <1>3, <1>4

\* A program that is in open stays where it is.
LEMMA SameTaskGoes ==
    ASSUME IInv, ProgramsInv, UNCHANGED <<task, arg_buff, ended>>
    PROVE  Goes(T)
  <1>1. task = [task EXCEPT ![Running] = T]
    BY TaskFacts DEF T
  <1>2. QED
    BY <1>1 DEF Goes

LEMMA FileOpensStep == ASSUME IInv, ProgramsInv, FileOpens PROVE ProgramsInv'
  <1> DEFINE name == Wants(T).name
             fd == Min(Free)
             c == calls'[Running]
             arg == arg_buff[Running]
  <1>1. /\ T \in Task /\ T.fails = 0
        /\ GoodTask(T, calls[Running], Descs, opened[Running], got[Running], arg)
    BY TaskFacts
  <1>2. /\ OwnRowOnly /\ OtherFdsSame(fd)
        /\ c.at = "opening" /\ c.entry = DentryByName(name)
        /\ opened'[Running] = opened[Running] /\ opened[Running][fd] = <<>>
    <2>1. OpenTakes(name)
      BY DEF FileOpens, Opens
    <2> HIDE DEF name
    <2>2. /\ OwnRowOnly /\ OtherFdsSame(fd)
          /\ c = [at |-> "opening", fd |-> fd, entry |-> DentryByName(name)]
          /\ opened'[Running] = opened[Running] /\ opened[Running][fd] = <<>>
      BY <2>1, OpenTakesEffect
    <2> HIDE DEF fd, c
    <2>3. QED
      BY <2>2
  <1>3. Goes(T)
    BY SameTaskGoes DEF FileOpens
  <1> HIDE DEF fd, c
  <1>4. GoodTask(T, c, f_descs'[Running], opened'[Running], got'[Running], arg)
    <2>1. CASE T.prog \in {"cat", "ls"} /\ T.at = "start"
      <3>1. name = IF T.prog = "cat" THEN arg ELSE "."
        BY <2>1 DEF Wants, Running
      <3>2. GoodCopier(T, calls[Running], opened[Running], got[Running], arg)
        BY <1>1, <2>1 DEF GoodTask
      <3>3. GoodCopier(T, c, opened'[Running], got'[Running], arg)
        BY <1>2, <2>1, <3>1, <3>2 DEF GoodCopier, Copied
      <3>4. QED
        BY <1>1, <2>1, <3>3 DEF GoodTask
    <2>2. CASE T.prog = "grep" /\ T.at = "start"
      <3>1. name = "."
        BY <2>2 DEF Wants
      <3>2. GoodGrep(T, calls[Running], Descs, opened[Running], arg)
        BY <1>1, <2>2 DEF GoodTask
      <3>3. GoodGrep(T, c, f_descs'[Running], opened'[Running], arg)
        BY <1>2, <2>2, <3>1, <3>2 DEF GoodGrep, Self
      <3>4. QED
        BY <1>1, <2>2, <3>3 DEF GoodTask
    <2>3. CASE T.prog = "grep" /\ T.at = "file"
      <3>1. /\ T.fd \in FileFds /\ opened[Running][T.fd] = <<Self>>
            /\ LookedUpTo(T, Descs[T.fd].file_pos)
        BY <1>1, <2>3 DEF GoodTask, GoodGrep
      <3>2. f_descs'[Running][T.fd] = Descs[T.fd]
        <4>1. <<Self>> # <<>>
          OBVIOUS
        <4>2. T.fd # fd
          BY <1>2, <3>1, <4>1
        <4>3. QED
          BY <1>2, <3>1, <4>2 DEF OtherFdsSame
      <3>3. GoodGrep(T, c, f_descs'[Running], opened'[Running], arg)
        BY <1>2, <2>3, <3>1, <3>2 DEF GoodGrep
      <3>4. QED
        BY <1>1, <2>3, <3>3 DEF GoodTask
    <2>4. QED
      BY <2>1, <2>2, <2>3 DEF FileOpens, Opener
  <1>5. T.prog # "shell"
    BY DEF FileOpens, Opener
  <1>6. QED
    BY <1>1, <1>2, <1>3, <1>4, <1>5, GoesStep DEF c

\* cat and ls are given their descriptor.
LEMMA CopierReceives ==
    ASSUME IInv, ProgramsInv, OpenReturns, T.prog \in {"cat", "ls"}
    PROVE  ProgramsInv'
  <1> DEFINE fd == calls[Running].fd
             t == [T EXCEPT !.at = "read", !.fd = fd]
             arg == arg_buff[Running]
  <1>1. /\ T \in Task
        /\ GoodTask(T, calls[Running], Descs, opened[Running], got[Running], arg)
    BY TaskFacts
  <1>2. /\ OwnRowOnly /\ calls[Running].at = "opening" /\ fd \in FileFds
        /\ calls'[Running].at = "user"
        /\ opened'[Running][fd] = <<calls[Running].entry>> /\ got'[Running][fd] = <<>>
    BY OpenEntersEffect DEF OpenReturns
  <1>3. /\ t \in Task /\ t.at = "read" /\ t.fd = fd /\ t.prog = T.prog /\ t.by = T.by
        /\ t.fails = T.fails /\ t.printed = T.printed
    <2>1. fd \in Int
      BY <1>2 DEF FileFds, Fds
    <2> HIDE DEF fd
    <2>2. QED
      BY <1>1, <2>1 DEF Task
  <1>4. Goes(t)
    BY DEF OpenReturns, Received
  <1>5. T.fails = 0 /\ T.printed = <<>> /\ calls[Running].entry = Copied(T, arg)
    BY <1>1, <1>2 DEF GoodTask, GoodCopier
  <1> HIDE DEF t, fd
  <1>6. GoodTask(t, calls'[Running], f_descs'[Running], opened'[Running], got'[Running], arg)
    <2>1. Copied(t, arg) = Copied(T, arg)
      BY <1>3 DEF Copied
    <2>2. GoodCopier(t, calls'[Running], opened'[Running], got'[Running], arg)
      BY <1>2, <1>3, <1>5, <2>1 DEF GoodCopier
    <2>3. QED
      BY <1>3, <1>5, <2>2 DEF GoodTask
  <1>7. QED
    BY <1>2, <1>3, <1>4, <1>6, GoesStep

\* grep is given the directory's descriptor, or a file's.
LEMMA GrepReceives ==
    ASSUME IInv, ProgramsInv, OpenReturns, T.prog = "grep"
    PROVE  ProgramsInv'
  <1> DEFINE fd == calls[Running].fd
             t == IF T.at = "file" THEN [T EXCEPT !.at = "text", !.file = fd]
                                   ELSE [T EXCEPT !.at = "read", !.fd = fd]
             arg == arg_buff[Running]
  <1>1. /\ T \in Task
        /\ GoodTask(T, calls[Running], Descs, opened[Running], got[Running], arg)
    BY TaskFacts
  <1>2. /\ OwnRowOnly /\ OtherFdsSame(fd)
        /\ calls[Running].at = "opening" /\ fd \in FileFds
        /\ calls'[Running].at = "user"
        /\ opened'[Running][fd] = <<calls[Running].entry>>
        /\ opened[Running][fd] = <<>>
        /\ f_descs'[Running][fd].file_pos = 0
    BY OpenEntersEffect DEF OpenReturns
  <1>3. /\ t \in Task /\ t.prog = T.prog /\ t.by = T.by
        /\ t.fails = T.fails /\ t.printed = T.printed
        /\ IF T.at = "file" THEN t.at = "text" /\ t.file = fd /\ t.fd = T.fd
                            ELSE t.at = "read" /\ t.fd = fd
    <2>1. fd \in Int
      BY <1>2 DEF FileFds, Fds
    <2> HIDE DEF fd
    <2>2. QED
      BY <1>1, <2>1 DEF Task
  <1>4. Goes(t)
    BY DEF OpenReturns, Received
  <1>5. T.fails = 0 /\ GoodGrep(T, calls[Running], Descs, opened[Running], arg)
    BY <1>1 DEF GoodTask
  <1>6. <<calls[Running].entry>> # <<>> /\ <<Self>> # <<>>
    OBVIOUS
  <1> HIDE DEF t, fd
  <1>7. GoodGrep(t, calls'[Running], f_descs'[Running], opened'[Running], arg)
    <2>1. CASE T.at = "start"
      <3>1. T.printed = <<>> /\ calls[Running].entry = Self
        BY <1>2, <1>5, <2>1 DEF GoodGrep
      <3>2. LookedUpTo(t, 0)
        BY <1>3, <3>1, FilesAmongFacts DEF LookedUpTo
      <3>3. QED
        BY <1>2, <1>3, <2>1, <3>1, <3>2 DEF GoodGrep
    <2>2. CASE T.at = "file"
      <3>1. /\ T.fd \in FileFds /\ opened[Running][T.fd] = <<Self>>
            /\ LookedUpTo(T, Descs[T.fd].file_pos)
        BY <1>5, <2>2 DEF GoodGrep
      <3>2. T.fd # fd
        BY <1>2, <1>6, <3>1
      <3>3. f_descs'[Running][T.fd] = Descs[T.fd] /\ opened'[Running][T.fd] = <<Self>>
        BY <1>2, <3>1, <3>2 DEF OtherFdsSame
      <3>4. LookedUpTo(t, Descs[T.fd].file_pos)
        BY <1>3, <3>1 DEF LookedUpTo
      <3>5. opened'[Running][t.file] # <<>>
        BY <1>2, <1>3, <1>6, <2>2
      <3>6. QED
        BY <1>2, <1>3, <2>2, <3>1, <3>2, <3>3, <3>4, <3>5 DEF GoodGrep
    <2>3. QED
      BY <1>2, <1>5, <2>1, <2>2 DEF GoodGrep
  <1>8. GoodTask(t, calls'[Running], f_descs'[Running], opened'[Running], got'[Running], arg)
    BY <1>3, <1>5, <1>7 DEF GoodTask
  <1>9. QED
    BY <1>2, <1>3, <1>4, <1>8, GoesStep

LEMMA CopiesStep == ASSUME IInv, ProgramsInv, Copies PROVE ProgramsInv'
  <1> DEFINE bytes == Delivered(T.fd, BUFSIZE)
             t == [T EXCEPT !.printed = T.printed \o bytes]
             arg == arg_buff[Running]
  <1>1. /\ T \in Task /\ T.fails = 0
        /\ GoodTask(T, calls[Running], Descs, opened[Running], got[Running], arg)
    BY TaskFacts
  <1>2. T.prog \in {"cat", "ls"} /\ T.at = "read" /\ bytes # <<>> /\ Reads(T.fd, BUFSIZE)
    BY DEF Copies, At
  <1>3. Goes(t)
    BY DEF Copies
  <1>4. /\ T.fd \in FileFds /\ opened[Running][T.fd] = <<Copied(T, arg)>>
        /\ T.printed = got[Running][T.fd]
    BY <1>1, <1>2 DEF GoodTask, GoodCopier
  <1>5. /\ OwnRowOnly /\ calls[Running].at = "user" /\ calls'[Running] = calls[Running]
        /\ opened'[Running] = opened[Running]
    BY <1>2, ReadEffect
  <1>6. /\ got'[Running][T.fd] = got[Running][T.fd] \o bytes
        /\ got'[Running][T.fd] \in Seq(Printable)
    <2>1. BUFSIZE \in 1..BUFSIZE
      BY CommandsAssumption
    <2>2. QED
      BY <1>2, <2>1, ReadDelivers
  <1> HIDE DEF bytes
  <1>7. /\ t \in Task /\ t.prog = T.prog /\ t.by = T.by /\ t.at = T.at /\ t.fd = T.fd
        /\ t.fails = T.fails /\ t.printed = got'[Running][T.fd]
    BY <1>1, <1>4, <1>6 DEF Task
  <1> HIDE DEF t
  <1>8. GoodCopier(t, calls'[Running], opened'[Running], got'[Running], arg)
    BY <1>2, <1>4, <1>5, <1>7 DEF GoodCopier, Copied
  <1>9. GoodTask(t, calls'[Running], f_descs'[Running], opened'[Running], got'[Running], arg)
    BY <1>1, <1>2, <1>7, <1>8 DEF GoodTask
  <1>10. QED
    BY <1>2, <1>3, <1>5, <1>7, <1>9, GoesStep

\* A reader that is given nothing is at the end.
LEMMA CopiedAllStep == ASSUME IInv, ProgramsInv, CopiedAll PROVE ProgramsInv'
  <1> DEFINE t == [T EXCEPT !.at = "end"]
             arg == arg_buff[Running]
             g == got[Running][T.fd]
             entry == opened[Running][T.fd][1]
  <1>1. /\ T \in Task /\ T.fails = 0
        /\ GoodTask(T, calls[Running], Descs, opened[Running], got[Running], arg)
    BY TaskFacts
  <1>2. /\ T.prog \in {"cat", "ls", "grep"} /\ T.at = "read"
        /\ Delivered(T.fd, BUFSIZE) = <<>> /\ Reads(T.fd, BUFSIZE)
    BY DEF CopiedAll, At
  <1>3. Goes(t)
    BY DEF CopiedAll, GoesTo
  <1>4. /\ OwnRowOnly /\ calls[Running].at = "user" /\ calls'[Running] = calls[Running]
    BY <1>2, ReadEffect
  <1>5. AtEnd(entry, g) /\ entry \in Entries
    <2>1. BUFSIZE \in 1..BUFSIZE
      BY CommandsAssumption
    <2>2. QED
      BY <1>2, <2>1, ReadDelivers
  <1>6. /\ t \in Task /\ t.prog = T.prog /\ t.by = T.by /\ t.at = "end"
        /\ t.fails = T.fails /\ t.printed = T.printed
    BY <1>1 DEF Task
  <1>7. InFull(t, arg)
    <2>1. CASE T.prog \in {"cat", "ls"}
      <3>1. T.fd \in FileFds /\ opened[Running][T.fd] = <<Copied(T, arg)>> /\ T.printed = g
        BY <1>1, <1>2, <2>1 DEF GoodTask, GoodCopier
      <3>2. entry = Copied(t, arg)
        BY <1>6, <3>1 DEF Copied
      <3>3. entry \in Entries
        BY <1>5
      <3> HIDE DEF entry, t, g
      <3>4. t.printed = g /\ t.prog # "grep"
        BY <1>6, <2>1, <3>1
      <3>5. CASE entry.type = "dir"
        BY <1>5, <3>2, <3>4, <3>5, DirectoryFacts DEF InFull, Copied, AtEnd
      <3>6. CASE entry.type = "file"
        <4> DEFINE length == inodes[entry.inode].length
        <4>1. length \in Nat /\ entry.inode \in DOMAIN inodes
          BY <3>3, EntryFacts
        <4>2. PICK n \in {length, length + 1} : g = BytesUpTo(entry.inode, n)
          BY <1>5, <3>6 DEF AtEnd
        <4>3. n \in Nat /\ Len(g) = n
          BY <4>1, <4>2, BytesArePrintable
        <4>4. \A k \in 1..length : g[k] = ByteOfFile(entry.inode, k - 1)
          BY <4>1, <4>2 DEF BytesUpTo
        <4>5. QED
          BY <3>2, <3>4, <3>6, <4>2, <4>3, <4>4 DEF InFull, Copied
      <3>7. QED
        BY <1>5, <3>5, <3>6 DEF AtEnd
    <2>2. CASE T.prog = "grep"
      <3> DEFINE n == Descs[T.fd].file_pos
      <3>1. /\ T.fd \in FileFds /\ opened[Running][T.fd] = <<Self>> /\ LookedUpTo(T, n)
        BY <1>1, <1>2, <2>2 DEF GoodTask, GoodGrep
      <3>2. /\ Descs[T.fd] \in Desc
            /\ GoodDesc(T.fd, Descs[T.fd], calls[Running], opened[Running][T.fd], g, TRUE)
        BY <3>1, DescFacts
      <3>3. entry = Self /\ Self.type = "dir" /\ opened[Running][T.fd] # <<>>
        <4>1. <<Self>> # <<>> /\ <<Self>>[1] = Self
          OBVIOUS
        <4>2. QED
          BY <3>1, <4>1, SelfFacts
      <3>4. n \in Nat /\ n <= Len(dir_entries) /\ g = NamesUpTo(n)
        BY <3>2, <3>3 DEF GoodDesc, Desc
      <3>5. g = NamesUpTo(Len(dir_entries))
        BY <1>5, <3>3 DEF AtEnd
      <3> HIDE DEF n, g
      <3>6. n = Len(dir_entries)
        <4>1. n \in 0..Len(dir_entries) /\ Len(dir_entries) \in 0..Len(dir_entries)
          BY <3>4, DirectoryFacts
        <4>2. Len(NamesUpTo(n)) = n /\ Len(NamesUpTo(Len(dir_entries))) = Len(dir_entries)
          BY <4>1, NamesArePrintable
        <4>3. QED
          BY <3>4, <3>5, <4>2
      <3>7. QED
        BY <1>6, <2>2, <3>1, <3>6 DEF InFull, LookedUpTo
    <2>3. QED
      BY <1>2, <2>1, <2>2
  <1> HIDE DEF t
  <1>8. GoodTask(t, calls'[Running], f_descs'[Running], opened'[Running], got'[Running], arg)
    BY <1>1, <1>2, <1>4, <1>6, <1>7 DEF GoodTask, GoodCopier, GoodGrep
  <1>9. QED
    BY <1>2, <1>3, <1>4, <1>6, <1>8, GoesStep

\* One more name of the directory is looked at.
LEMMA LookedUpToNext ==
    ASSUME NEW t \in Task, NEW u \in Task, NEW n \in 0..(Len(dir_entries) - 1),
           LookedUpTo(t, n),
           u.printed = IF dir_entries[n + 1].name \in DotNames
                         THEN t.printed ELSE t.printed \o <<dir_entries[n + 1].name>>
    PROVE  LookedUpTo(u, n + 1)
  <1> DEFINE name == dir_entries[n + 1].name
  <1>1. n \in Nat /\ n + 1 \in 1..Len(dir_entries) /\ name \in Printable
    BY DirectoryFacts DEF Printable
  <1>2. t.printed \in Seq(Printable) /\ Len(t.printed) = FilesAmong(n) /\ FilesAmong(n) \in Nat
    BY <1>1, FilesAmongFacts DEF Task, LookedUpTo
  <1>3. FilesAmong(n + 1) = IF name \in DotNames THEN FilesAmong(n) ELSE FilesAmong(n) + 1
    BY <1>1, FilesAmongFacts
  <1>4. ASSUME NEW i \in 1..n, dir_entries[i].name \notin DotNames
        PROVE  FilesAmong(i) \in 1..FilesAmong(n) /\ t.printed[FilesAmong(i)] = dir_entries[i].name
    BY <1>1, <1>4, FilesAmongFacts DEF LookedUpTo
  <1> HIDE DEF name
  <1>5. CASE name \in DotNames
    <2>1. \A i \in 1..(n + 1) : dir_entries[i].name \notin DotNames => i \in 1..n
      BY <1>1, <1>5 DEF name
    <2>2. u.printed = t.printed
      BY <1>5 DEF name
    <2>3. QED
      BY <1>2, <1>3, <1>4, <1>5, <2>1, <2>2 DEF LookedUpTo
  <1>6. CASE name \notin DotNames
    <2>1. u.printed = t.printed \o <<name>>
      BY <1>6 DEF name
    <2>2. t.printed \o <<name>> = Append(t.printed, name)
      BY <1>1, <1>2, AppendIsConcat
    <2>3. /\ Len(u.printed) = FilesAmong(n) + 1
          /\ \A k \in 1..FilesAmong(n) : u.printed[k] = t.printed[k]
          /\ u.printed[FilesAmong(n) + 1] = name
      <3> DEFINE s == t.printed
      <3>1. s \in Seq(Printable) /\ Len(s) = FilesAmong(n) /\ name \in Printable
        BY <1>1, <1>2
      <3>2. u.printed = Append(s, name)
        BY <2>1, <2>2
      <3> HIDE DEF s
      <3>3. /\ Len(Append(s, name)) = Len(s) + 1
            /\ \A k \in 1..Len(s) : Append(s, name)[k] = s[k]
            /\ Append(s, name)[Len(s) + 1] = name
        BY <3>1, AppendProperties
      <3>4. QED
        BY <3>1, <3>2, <3>3 DEF s
    <2>4. ASSUME NEW i \in 1..(n + 1), dir_entries[i].name \notin DotNames
          PROVE  u.printed[FilesAmong(i)] = dir_entries[i].name
      <3>1. CASE i = n + 1
        BY <1>3, <1>6, <2>3, <3>1 DEF name
      <3>2. CASE i # n + 1
        <4>1. i \in 1..n
          BY <1>1, <3>2
        <4>2. QED
          BY <1>4, <2>3, <2>4, <4>1
      <3>3. QED
        BY <3>1, <3>2
    <2>5. QED
      BY <1>3, <1>6, <2>3, <2>4 DEF LookedUpTo
  <1>7. QED
    BY <1>5, <1>6

LEMMA GrepNextNameStep == ASSUME IInv, ProgramsInv, GrepNextName PROVE ProgramsInv'
  <1> DEFINE n == Descs[T.fd].file_pos
             name == dir_entries[n + 1].name
             t == IF name \in DotNames
                    THEN [T EXCEPT !.at = "read"]
                    ELSE [T EXCEPT !.at = "file", !.printed = T.printed \o <<name>>]
             arg == arg_buff[Running]
  <1>1. /\ T \in Task /\ T.fails = 0
        /\ GoodTask(T, calls[Running], Descs, opened[Running], got[Running], arg)
    BY TaskFacts
  <1>2. T.prog = "grep" /\ T.at = "read" /\ DirRead(T.fd)
    BY DEF GrepNextName, At
  <1>3. T.fd \in FileFds /\ opened[Running][T.fd] = <<Self>> /\ LookedUpTo(T, n)
    BY <1>1, <1>2 DEF GoodTask, GoodGrep
  <1>4. /\ n \in 0..(Len(dir_entries) - 1) /\ Delivered(T.fd, BUFSIZE) = <<name>>
        /\ f_descs'[Running][T.fd].file_pos = n + 1
    BY <1>2, <1>3, DirReadMoves
  <1>5. Goes(t)
    <2>1. <<name>>[1] = name
      OBVIOUS
    <2>2. IF <<name>>[1] \in DotNames
            THEN GoesTo("read")
            ELSE Goes([T EXCEPT !.at = "file", !.printed = @ \o <<name>>])
      BY <1>4, Zenon DEF GrepNextName
    <2> HIDE DEF name
    <2>3. QED
      BY <2>1, <2>2 DEF GoesTo
  <1>6. /\ OwnRowOnly /\ calls[Running].at = "user" /\ calls'[Running] = calls[Running]
        /\ opened'[Running] = opened[Running]
    <2>1. Reads(T.fd, BUFSIZE)
      BY <1>2 DEF Reads
    <2>2. QED
      BY <2>1, ReadEffect
  <1>7. /\ t \in Task /\ t.prog = T.prog /\ t.by = T.by /\ t.at \in {"read", "file"}
        /\ t.fd = T.fd /\ t.fails = T.fails
        /\ t.printed = IF name \in DotNames THEN T.printed ELSE T.printed \o <<name>>
    <2>1. name \in Printable
      BY <1>4, DirectoryFacts DEF Printable
    <2> HIDE DEF name
    <2>2. T.printed \in Seq(Printable)
      BY <1>1 DEF Task
    <2>3. T.printed \o <<name>> \in Seq(Printable)
      BY <2>1, <2>2
    <2>4. QED
      BY <1>1, <2>3 DEF Task
  <1>8. LookedUpTo(t, n + 1)
    <2> HIDE DEF t, n
    <2>1. QED
      BY <1>1, <1>3, <1>4, <1>7, LookedUpToNext
  <1> HIDE DEF t, n
  <1>9. GoodGrep(t, calls'[Running], f_descs'[Running], opened'[Running], arg)
    BY <1>3, <1>4, <1>6, <1>7, <1>8 DEF GoodGrep
  <1>10. GoodTask(t, calls'[Running], f_descs'[Running], opened'[Running], got'[Running], arg)
    BY <1>1, <1>2, <1>7, <1>9 DEF GoodTask
  <1>11. QED
    BY <1>2, <1>5, <1>6, <1>7, <1>10, GoesStep

\* What grep does with a file leaves the directory's descriptor where it is.
LEMMA GrepFileStep ==
    ASSUME IInv, ProgramsInv, NEW place \in {"text", "close", "read"},
           At("grep", "text") \/ At("grep", "close"), GoesTo(place),
           \/ \E nbytes : Reads(T.file, nbytes)
           \/ place = "read" /\ Close(T.file)
    PROVE  ProgramsInv'
  <1> DEFINE t == [T EXCEPT !.at = place]
             arg == arg_buff[Running]
  <1>1. /\ T \in Task /\ T.fails = 0
        /\ GoodTask(T, calls[Running], Descs, opened[Running], got[Running], arg)
    BY TaskFacts
  <1>2. T.prog = "grep" /\ T.at \in {"text", "close"} /\ Goes(t)
    BY DEF At, GoesTo
  <1>3. /\ T.fd \in FileFds /\ opened[Running][T.fd] = <<Self>>
        /\ LookedUpTo(T, Descs[T.fd].file_pos)
        /\ T.file \in FileFds /\ T.file # T.fd /\ opened[Running][T.file] # <<>>
    BY <1>1, <1>2 DEF GoodTask, GoodGrep
  <1>4. /\ OwnRowOnly /\ OtherFdsSame(T.file)
        /\ calls[Running].at = "user" /\ calls'[Running] = calls[Running]
        /\ place # "read" => opened'[Running] = opened[Running]
    BY ReadEffect, CloseEffect
  <1>5. f_descs'[Running][T.fd] = Descs[T.fd] /\ opened'[Running][T.fd] = <<Self>>
    BY <1>3, <1>4 DEF OtherFdsSame
  <1>6. /\ t \in Task /\ t.prog = T.prog /\ t.by = T.by /\ t.at = place /\ t.fd = T.fd
        /\ t.file = T.file /\ t.fails = T.fails /\ t.printed = T.printed
    BY <1>1 DEF Task
  <1> HIDE DEF t
  <1>7. LookedUpTo(t, Descs[T.fd].file_pos)
    BY <1>3, <1>6 DEF LookedUpTo
  <1>8. GoodGrep(t, calls'[Running], f_descs'[Running], opened'[Running], arg)
    BY <1>3, <1>4, <1>5, <1>6, <1>7 DEF GoodGrep
  <1>9. GoodTask(t, calls'[Running], f_descs'[Running], opened'[Running], got'[Running], arg)
    BY <1>1, <1>2, <1>6, <1>8 DEF GoodTask
  <1>10. QED
    BY <1>2, <1>4, <1>6, <1>9, GoesStep

LEMMA GrepReadsStep ==
    ASSUME IInv, ProgramsInv, NEW nbytes, GrepReads(nbytes)
    PROVE  ProgramsInv'
  <1>1. PICK place : place = AfterPiece(Delivered(T.file, nbytes))
    OBVIOUS
  <1>2. place \in {"text", "close"}
    BY <1>1 DEF AfterPiece
  <1>3. At("grep", "text") /\ GoesTo(place) /\ Reads(T.file, nbytes)
    BY <1>1 DEF GrepReads
  <1>4. QED
    BY <1>2, <1>3, GrepFileStep

LEMMA GrepClosesStep == ASSUME IInv, ProgramsInv, GrepCloses PROVE ProgramsInv'
  BY GrepFileStep DEF GrepCloses

-----------------------------------------------------------------------------
(* syserr.                                                                   *)

Calls == [op : {"open", "read", "write", "close", "vidmap", "number"}, n : Int,
          name : {".", "helloo", "shel", NoName}, lots : BOOLEAN]

\* A call that is refused to a program without descriptors of its own.
Harmless(try) ==
    /\ try \in Calls /\ ~try.lots
    /\ \/ try.op \in {"read", "write", "close"} /\ try.n \notin {0, 1}
       \/ try.op = "close" /\ try.n \in {0, 1}
       \/ try.op = "read" /\ try.n = 1
       \/ try.op = "write" /\ try.n = 0
       \/ try.op = "open" /\ try.name \notin Names
       \/ try.op = "vidmap" /\ BadAddress(try.n)
       \/ try.op = "number" /\ BadNumber(try.n)

HarmlessCalls == {try \in Calls : Harmless(try)}

LEMMA HarmlessRefused ==
    ASSUME NEW try, Harmless(try), ActiveIn(Descs) = {}
    PROVE  Refuses(try)
  <1>1. try.n \in Int /\ ~(InUse(try.n) /\ try.n \notin {0, 1})
    BY DEF Harmless, Calls, InUse, ActiveIn, FileFds
  <1>2. QED
    BY <1>1 DEF Harmless, Refuses, CannotOpen

LEMMA TryFacts ==
    /\ \A n \in Int, op \in {"read", "write", "close", "vidmap", "number"} :
          LET try == Try(op, n)
          IN  try \in Calls /\ try.op = op /\ try.n = n /\ ~try.lots
    /\ \A name \in {".", "helloo", "shel", NoName} :
          LET try == TryOpen(name)
          IN  try \in Calls /\ try.op = "open" /\ try.name = name /\ ~try.lots
  <1>1. ASSUME NEW n \in Int,
               NEW op \in {"open", "read", "write", "close", "vidmap", "number"}
        PROVE  LET try == Try(op, n)
               IN  try \in Calls /\ try.op = op /\ try.n = n /\ ~try.lots
    <2>1. PICK try : try = [op |-> op, n |-> n, name |-> NoName, lots |-> FALSE]
      OBVIOUS
    <2>2. try \in Calls /\ try.op = op /\ try.n = n /\ ~try.lots
      BY <2>1 DEF Calls
    <2>3. QED
      BY <2>1, <2>2 DEF Try
  <1>2. ASSUME NEW name \in {".", "helloo", "shel", NoName}
        PROVE  LET try == TryOpen(name)
               IN  try \in Calls /\ try.op = "open" /\ try.name = name /\ ~try.lots
    <2> DEFINE try == Try("open", 0)
    <2>1. try \in Calls /\ try.op = "open" /\ ~try.lots
      BY <1>1
    <2>2. TryOpen(name) = [try EXCEPT !.name = name]
      BY DEF TryOpen
    <2> HIDE DEF try
    <2>3. QED
      BY <2>1, <2>2 DEF Calls
  <1>3. QED
    BY <1>1, <1>2

LEMMA EachFdFacts ==
    ASSUME NEW op \in {"read", "write", "close"}, NEW first \in {0, 2}, first = 2 \/ op = "close"
    PROVE  /\ EachFd(op, first) \in Seq(HarmlessCalls)
           /\ Len(EachFd(op, first)) = MAX_OPEN_FILE - first
  <1>1. MAX_OPEN_FILE - first \in Nat
    BY SizesAssumption
  <1>2. ASSUME NEW i \in 1..(MAX_OPEN_FILE - first) PROVE Try(op, first + i - 1) \in HarmlessCalls
    <2>1. first + i - 1 \in Int /\ (first = 2 => first + i - 1 \notin {0, 1})
      BY <1>1
    <2>2. QED
      BY <2>1, TryFacts DEF HarmlessCalls, Harmless
  <1>3. QED
    BY <1>1, <1>2 DEF EachFd

LEMMA ShortList ==
    ASSUME NEW S, NEW a \in S, NEW b \in S, NEW c \in S,
           NEW list, list = <<a, b>> \/ list = <<a, b, c>>
    PROVE  Len(list) \in Nat \ {0} /\ \A s \in 1..Len(list) : list[s] \in S
  OBVIOUS

\* The tests without err_open_lots.
LEMMA TestsFacts ==
    ASSUME NEW k \in (1..8) \ {3}
    PROVE  /\ Len(Tests[k]) \in Nat \ {0}
           /\ \A s \in 1..Len(Tests[k]) : Harmless(Tests[k][s])
  <1> DEFINE S == HarmlessCalls
  <1>1. /\ \A n \in {NEG_FD, BIG_FD}, op \in {"read", "write", "close"} : Try(op, n) \in S
        /\ \A n \in {BIG_NUM, NEG_NUM, 0} : Try("number", n) \in S
        /\ \A n \in {0, 4194304} : Try("vidmap", n) \in S
        /\ Try("write", 0) \in S /\ Try("read", 1) \in S
    <2>1. /\ \A n \in {NEG_FD, BIG_FD} : n \in Int /\ n \notin {0, 1}
          /\ \A n \in {BIG_NUM, NEG_NUM, 0} : n \in Int /\ BadNumber(n)
          /\ \A n \in {0, 4194304} : n \in Int /\ BadAddress(n)
      BY OutOfRangeAssumption, SizesAssumption DEF BadNumber, BadAddress, USER_IMG_START
    <2>2. QED
      BY <2>1, TryFacts DEF HarmlessCalls, Harmless
  <1>2. \A name \in {"helloo", "shel", NoName} : TryOpen(name) \in S
    BY SelfFacts, TryFacts DEF HarmlessCalls, Harmless
  <1>3. CASE k = 5
    <2> DEFINE a == EachFd("close", 0)
               b == EachFd("read", 2)
               c == EachFd("write", 2)
    <2>1. /\ a \in Seq(S) /\ b \in Seq(S) /\ c \in Seq(S)
          /\ Len(a) \in Nat \ {0} /\ Len(b) \in Nat /\ Len(c) \in Nat
      BY EachFdFacts, SizesAssumption
    <2> HIDE DEF a, b, c, S
    <2>2. a \o b \in Seq(S) /\ Len(a \o b) = Len(a) + Len(b)
      BY <2>1, ConcatProperties
    <2>3. (a \o b) \o c \in Seq(S) /\ Len((a \o b) \o c) = Len(a \o b) + Len(c)
      BY <2>1, <2>2, ConcatProperties
    <2>4. Tests[k] = (a \o b) \o c
      BY <1>3 DEF Tests, err_unopened, a, b, c
    <2>5. Len(Tests[k]) \in Nat \ {0} /\ Tests[k] \in Seq(S)
      BY <2>1, <2>2, <2>3, <2>4
    <2>6. QED
      BY <2>5, ElementOfSeq DEF S, HarmlessCalls
  <1>4. CASE k # 5
    <2> HIDE DEF S
    <2>1. /\ Tests[1] = err_neg_fd /\ Tests[2] = err_big_fd /\ Tests[4] = err_open
          /\ Tests[6] = err_vidmap /\ Tests[7] = err_stdin_out /\ Tests[8] = err_syscall_num
      BY DEF Tests
    <2>2. Len(Tests[k]) \in Nat \ {0} /\ \A s \in 1..Len(Tests[k]) : Tests[k][s] \in S
      <3>1. CASE k = 1
        <4>1. Try("read", NEG_FD) \in S /\ Try("write", NEG_FD) \in S /\ Try("close", NEG_FD) \in S
          BY <1>1
        <4>2. Tests[k] = << Try("read", NEG_FD), Try("write", NEG_FD), Try("close", NEG_FD) >>
          BY <2>1, <3>1 DEF err_neg_fd
        <4>3. QED
          BY <4>1, <4>2, ShortList
      <3>2. CASE k = 2
        <4>1. Try("read", BIG_FD) \in S /\ Try("write", BIG_FD) \in S /\ Try("close", BIG_FD) \in S
          BY <1>1
        <4>2. Tests[k] = << Try("read", BIG_FD), Try("write", BIG_FD), Try("close", BIG_FD) >>
          BY <2>1, <3>2 DEF err_big_fd
        <4>3. QED
          BY <4>1, <4>2, ShortList
      <3>3. CASE k = 4
        <4>1. Tests[k] = << TryOpen("helloo"), TryOpen("shel"), TryOpen(NoName) >>
          BY <2>1, <3>3 DEF err_open
        <4>2. QED
          BY <1>2, <4>1, ShortList
      <3>4. CASE k = 6
        <4>1. Tests[k] = << Try("vidmap", 0), Try("vidmap", 4194304) >>
          BY <2>1, <3>4 DEF err_vidmap
        <4>2. QED
          BY <1>1, <4>1, ShortList
      <3>5. CASE k = 7
        <4>1. Tests[k] = << Try("write", 0), Try("read", 1) >>
          BY <2>1, <3>5 DEF err_stdin_out
        <4>2. QED
          BY <1>1, <4>1, ShortList
      <3>6. CASE k = 8
        <4>1. Tests[k] = << Try("number", BIG_NUM), Try("number", NEG_NUM), Try("number", 0) >>
          BY <2>1, <3>6 DEF err_syscall_num
        <4>2. QED
          BY <1>1, <4>1, ShortList
      <3>7. QED
        BY <1>4, <3>1, <3>2, <3>3, <3>4, <3>5, <3>6
    <2>3. QED
      BY <2>2 DEF S, HarmlessCalls
  <1>5. QED
    BY <1>3, <1>4

\* err_open_lots opens the directory for every descriptor and once more, and closes
\* the descriptors in their order.
LEMMA LotsFacts ==
    /\ Len(Tests[3]) = 2 * MAX_OPEN_FILE - 3
    /\ \A s \in 1..(MAX_OPEN_FILE - 1) :
          Tests[3][s].op = "open" /\ Tests[3][s].name = "." /\ Tests[3][s].lots
    /\ \A s \in MAX_OPEN_FILE..(2 * MAX_OPEN_FILE - 3) :
          Tests[3][s].op = "close" /\ Tests[3][s].n = s - MAX_OPEN_FILE + 2 /\ Tests[3][s].lots
  <1> DEFINE m == MAX_OPEN_FILE
             a == [i \in 1..(m - 1) |-> Lots(TryOpen("."))]
             b == [i \in 1..(m - 2) |-> Lots(EachFd("close", 2)[i])]
  <1>1. m \in Nat /\ m > 2 /\ m - 1 \in Nat /\ m - 2 \in Nat
    BY SizesAssumption
  <1>2. LET try == Lots(TryOpen("."))
        IN  try \in Calls /\ try.op = "open" /\ try.name = "." /\ try.lots
    <2>1. PICK try : try = TryOpen(".")
      OBVIOUS
    <2>2. try \in Calls /\ try.op = "open" /\ try.name = "." /\ ~try.lots
      BY <2>1, TryFacts
    <2>3. QED
      BY <2>1, <2>2 DEF Lots, Calls
  <1>3. ASSUME NEW i \in 1..(m - 2)
        PROVE  LET try == Lots(EachFd("close", 2)[i])
               IN  try \in Calls /\ try.op = "close" /\ try.n = i + 1 /\ try.lots
    <2>1. EachFd("close", 2)[i] = Try("close", i + 1) /\ i + 1 \in Int
      BY <1>1 DEF EachFd
    <2>2. LET try == Try("close", i + 1) IN try \in Calls /\ try.op = "close" /\ try.n = i + 1
      BY <2>1, TryFacts
    <2>3. QED
      BY <2>1, <2>2 DEF Lots, Calls
  <1>4. a \in Seq(Calls) /\ Len(a) = m - 1 /\ b \in Seq(Calls) /\ Len(b) = m - 2
    BY <1>1, <1>2, <1>3
  <1>5. Tests[3] = a \o b
    BY DEF Tests, err_open_lots
  <1>6. /\ \A i \in 1..(m - 1) : a[i] = Lots(TryOpen("."))
        /\ \A i \in 1..(m - 2) : b[i] = Lots(EachFd("close", 2)[i])
    OBVIOUS
  <1> HIDE DEF a, b
  <1>7. /\ Len(a \o b) = Len(a) + Len(b)
        /\ \A s \in 1..(Len(a) + Len(b)) :
              (a \o b)[s] = IF s <= Len(a) THEN a[s] ELSE b[s - Len(a)]
    BY <1>4, ConcatProperties
  <1> HIDE DEF m
  <1>8. ASSUME NEW s \in 1..(m - 1)
        PROVE  Tests[3][s].op = "open" /\ Tests[3][s].name = "." /\ Tests[3][s].lots
    <2>1. Tests[3][s] = a[s]
      BY <1>1, <1>4, <1>5, <1>7
    <2>2. QED
      BY <1>2, <1>6, <2>1
  <1>9. ASSUME NEW s \in m..(2 * m - 3)
        PROVE  Tests[3][s].op = "close" /\ Tests[3][s].n = s - m + 2 /\ Tests[3][s].lots
    <2>1. s - (m - 1) \in 1..(m - 2) /\ s - (m - 1) + 1 = s - m + 2
      BY <1>1
    <2>2. Tests[3][s] = b[s - (m - 1)]
      BY <1>1, <1>4, <1>5, <1>7
    <2>3. QED
      BY <1>3, <1>6, <2>1, <2>2
  <1>10. QED
    BY <1>1, <1>4, <1>5, <1>7, <1>8, <1>9 DEF m

LEMMA JudgedFacts ==
    ASSUME NEW t \in Task, NEW try, NEW refused \in BOOLEAN
    PROVE  LET u == Judged(t, try, refused)
               over == t.step = Len(Tests[t.test])
               cnt == IF try.lots /\ try.op = "open" /\ refused THEN t.cnt + 1 ELSE t.cnt
               fail == IF try.lots THEN IF cnt = 1 THEN 0 ELSE 2
                                   ELSE IF refused THEN t.fail ELSE 2
           IN  /\ u \in Task /\ u.prog = t.prog /\ u.by = t.by /\ u.at = t.at
               /\ u.last = t.last /\ u.cnt = cnt
               /\ u.test = IF over THEN t.test + 1 ELSE t.test
               /\ u.step = IF over THEN 1 ELSE t.step + 1
               /\ u.fail = IF over THEN 0 ELSE fail
               /\ u.fails = IF over THEN t.fails + fail ELSE t.fails
  <1> DEFINE over == t.step = Len(Tests[t.test])
             cnt == IF try.lots /\ try.op = "open" /\ refused THEN t.cnt + 1 ELSE t.cnt
             fail == IF try.lots THEN IF cnt = 1 THEN 0 ELSE 2
                                 ELSE IF refused THEN t.fail ELSE 2
             test2 == IF over THEN t.test + 1 ELSE t.test
             step2 == IF over THEN 1 ELSE t.step + 1
             fail2 == IF over THEN 0 ELSE fail
             fails2 == IF over THEN t.fails + fail ELSE t.fails
             u == [t EXCEPT !.test = test2, !.step = step2, !.cnt = cnt, !.fail = fail2,
                            !.fails = fails2]
  <1>1. Judged(t, try, refused) = u
    BY DEF Judged
  <1>2. t.test \in Nat /\ t.step \in Nat /\ t.cnt \in Nat /\ t.fail \in Nat /\ t.fails \in Nat
    BY DEF Task
  <1>3. cnt \in Nat
    BY <1>2
  <1>4. fail \in Nat
    <2> HIDE DEF cnt
    <2>1. QED
      BY <1>2
  <1> HIDE DEF cnt, fail, over
  <1>5. test2 \in Nat /\ step2 \in Nat /\ fail2 \in Nat /\ fails2 \in Nat
    BY <1>2, <1>4
  <1> HIDE DEF test2, step2, fail2, fails2
  <1>6. /\ u \in Task /\ u.prog = t.prog /\ u.by = t.by /\ u.at = t.at
        /\ u.last = t.last /\ u.cnt = cnt
        /\ u.test = test2 /\ u.step = step2 /\ u.fail = fail2 /\ u.fails = fails2
    BY <1>3, <1>5 DEF Task
  <1> HIDE DEF u
  <1>7. QED
    BY <1>1, <1>6 DEF over, cnt, fail, test2, step2, fail2, fails2

\* Every test has a first step.
LEMMA FirstSteps == \A k \in 1..8 : Len(Tests[k]) \in Nat \ {0}
  <1>1. Len(Tests[3]) \in Nat \ {0}
    BY LotsFacts, SizesAssumption
  <1>2. QED
    BY <1>1, TestsFacts

LEMMA TryingFacts ==
    ASSUME IInv, ProgramsInv, T.prog = "syserr", T.at = "tests"
    PROVE  /\ T \in Task /\ T.fails = 0
           /\ GoodSyserr(T, calls[Running], Descs)
           /\ T.test \in 1..9 /\ T.last \in 1..8
           /\ T.test <= 8 => T.step \in 1..Len(Tests[T.test])
           /\ ~Finished(T) => T.test \in 1..8 /\ T.step \in 1..Len(Tests[T.test])
  <1>1. /\ T \in Task /\ T.fails = 0
        /\ GoodTask(T, calls[Running], Descs, opened[Running], got[Running],
                    arg_buff[Running])
    BY TaskFacts
  <1>2. GoodSyserr(T, calls[Running], Descs)
    BY <1>1 DEF GoodTask
  <1>3. /\ T.test \in 1..9 /\ T.last \in 1..8
        /\ T.test <= 8 => T.step \in 1..Len(Tests[T.test])
    BY <1>2 DEF GoodSyserr
  <1>4. ~Finished(T) => T.test <= 8
    BY <1>3 DEF Finished
  <1>5. QED
    BY <1>1, <1>2, <1>3, <1>4

\* syserr goes on with row u.
LEMMA SyserrGoes ==
    ASSUME IInv, ProgramsInv, OwnRowOnly, NEW u \in Task, Goes(u), T.prog = "syserr",
           u.prog = T.prog, u.by = T.by, u.fails = 0,
           GoodSyserr(u, calls'[Running], f_descs'[Running])
    PROVE  ProgramsInv'
  <1>1. GoodTask(u, calls'[Running], f_descs'[Running], opened'[Running], got'[Running],
                 arg_buff[Running])
    BY DEF GoodTask
  <1>2. QED
    BY <1>1, GoesStep

\* A test whose calls must be refused goes on when one is.
LEMMA HarmlessStep ==
    ASSUME IInv, ProgramsInv, At("syserr", "tests"), ~Finished(T), T.test # 3,
           Goes(Judged(T, TestCall, TRUE)), UNCHANGED vars
    PROVE  ProgramsInv'
  <1> DEFINE u == Judged(T, TestCall, TRUE)
             over == T.step = Len(Tests[T.test])
             c == calls[Running]
  <1>1. /\ T.prog = "syserr" /\ T.at = "tests" /\ T \in Task /\ T.fails = 0
        /\ GoodSyserr(T, c, Descs)
        /\ T.test \in 1..8 /\ T.last \in 1..8 /\ T.step \in 1..Len(Tests[T.test])
    BY TryingFacts DEF At
  <1>2. /\ c.at = "user" /\ ActiveIn(Descs) = {} /\ T.fail = 0 /\ (T.test < 3 => T.cnt = 0)
    BY <1>1 DEF GoodSyserr
  <1>3. ~TestCall.lots
    <2>1. T.test \in (1..8) \ {3}
      BY <1>1
    <2>2. QED
      BY <1>1, <2>1, TestsFacts DEF TestCall, Harmless
  <1>4. /\ u \in Task /\ u.prog = T.prog /\ u.by = T.by /\ u.at = "tests"
        /\ u.last = T.last /\ u.cnt = T.cnt
        /\ u.test = IF over THEN T.test + 1 ELSE T.test
        /\ u.step = IF over THEN 1 ELSE T.step + 1
        /\ u.fail = 0 /\ u.fails = 0
    <2> DEFINE cnt == IF TestCall.lots /\ TestCall.op = "open" /\ TRUE THEN T.cnt + 1 ELSE T.cnt
               fail == IF TestCall.lots THEN IF cnt = 1 THEN 0 ELSE 2
                                        ELSE IF TRUE THEN T.fail ELSE 2
    <2>1. TRUE \in BOOLEAN
      OBVIOUS
    <2>2. /\ u \in Task /\ u.prog = T.prog /\ u.by = T.by /\ u.at = T.at
          /\ u.last = T.last /\ u.cnt = cnt
          /\ u.test = IF over THEN T.test + 1 ELSE T.test
          /\ u.step = IF over THEN 1 ELSE T.step + 1
          /\ u.fail = IF over THEN 0 ELSE fail
          /\ u.fails = IF over THEN T.fails + fail ELSE T.fails
      BY <1>1, <2>1, JudgedFacts, Zenon
    <2>3. cnt = T.cnt /\ fail = 0
      BY <1>2, <1>3
    <2> HIDE DEF cnt, fail, u
    <2>4. QED
      BY <1>1, <2>2, <2>3
  <1>5. OwnRowOnly /\ calls' = calls /\ f_descs' = f_descs
    BY UnchangedEffect
  <1>6. /\ \A k \in 1..8 : Len(Tests[k]) \in Nat \ {0}
        /\ 2..1 = {} /\ 1 < MAX_OPEN_FILE
    BY FirstSteps, SizesAssumption
  <1> HIDE DEF u
  <1>7. GoodSyserr(u, c, Descs)
    <2>1. u.last \in 1..8 /\ u.test \in 1..9 /\ (u.test < 3 => u.cnt = 0)
      BY <1>1, <1>2, <1>4
    <2>2. u.test <= 8 => u.step \in 1..Len(Tests[u.test])
      <3>1. CASE over
        <4>1. u.test <= 8 => u.test \in 1..8 /\ u.step = 1
          BY <1>1, <1>4, <3>1
        <4> SUFFICES ASSUME u.test <= 8 PROVE 1 \in 1..Len(Tests[u.test])
          BY <4>1
        <4>2. Len(Tests[u.test]) \in Nat \ {0}
          BY <4>1, FirstSteps
        <4> DEFINE length == Len(Tests[u.test])
        <4> HIDE DEF length
        <4>3. length \in Nat \ {0}
          BY <4>2 DEF length
        <4>4. 1 \in 1..length
          BY <4>3
        <4>5. QED
          BY <4>4 DEF length
      <3>2. CASE ~over
        <4>1. u.test = T.test /\ u.step = T.step + 1 /\ Len(Tests[T.test]) \in Nat
          BY <1>1, <1>4, <1>6, <3>2
        <4>2. T.step \in 1..Len(Tests[T.test]) /\ T.step # Len(Tests[T.test])
          BY <1>1, <3>2
        <4>3. QED
          BY <4>1, <4>2
      <3>3. QED
        BY <3>1, <3>2
    <2>3. u.test = 3 => u.step = 1 /\ u.cnt = 0
      BY <1>1, <1>2, <1>4
    <2>4. u.test = 3 => GoodLots(u.step, u.cnt, c, Descs)
      BY <1>2, <1>6, <2>3 DEF GoodLots
    <2>5. QED
      BY <1>2, <1>4, <2>1, <2>2, <2>4 DEF GoodSyserr
  <1>8. QED
    BY <1>1, <1>4, <1>5, <1>7, SyserrGoes DEF u, Descs

LEMMA SyserrChoosesStep == ASSUME IInv, ProgramsInv, SyserrChooses PROVE ProgramsInv'
  <1>1. /\ T.prog = "syserr" /\ T.at = "start" /\ T \in Task /\ T.fails = 0
        /\ GoodSyserr(T, calls[Running], Descs)
    BY TaskFacts DEF SyserrChooses, At, GoodTask
  <1>2. Len(Tests) = 8
    BY DEF Tests
  <1>3. PICK first \in 1..9, last \in 1..8 :
           /\ first \in 1..8 \/ (first = 9 /\ last = 8)
           /\ Goes([T EXCEPT !.at = "tests", !.test = first, !.last = last])
    <2>1. PICK chosen \in TestChoices :
             Goes([T EXCEPT !.at = "tests", !.test = chosen[1], !.last = chosen[2]])
      BY DEF SyserrChooses
    <2>2. /\ chosen[1] \in 1..9 /\ chosen[2] \in 1..8
          /\ chosen[1] \in 1..8 \/ (chosen[1] = 9 /\ chosen[2] = 8)
      BY <1>2 DEF TestChoices
    <2>3. QED
      BY <2>1, <2>2
  <1> DEFINE u == [T EXCEPT !.at = "tests", !.test = first, !.last = last]
  <1>4. /\ calls[Running].at = "user" /\ ActiveIn(Descs) = {} /\ T.fail = 0
        /\ T.step = 1 /\ T.cnt = 0
    BY <1>1 DEF GoodSyserr
  <1>5. /\ u \in Task /\ u.prog = T.prog /\ u.by = T.by /\ u.at = "tests" /\ u.test = first
        /\ u.last = last /\ u.step = 1 /\ u.cnt = 0 /\ u.fail = 0 /\ u.fails = 0
    <2>1. first \in Nat /\ last \in Nat
      OBVIOUS
    <2>2. QED
      BY <1>1, <1>4, <2>1 DEF Task
  <1>6. OwnRowOnly /\ calls' = calls /\ f_descs' = f_descs
    BY UnchangedEffect DEF SyserrChooses
  <1> HIDE DEF u
  <1>7. GoodSyserr(u, calls[Running], Descs)
    <2>1. u.test <= 8 => u.step \in 1..Len(Tests[u.test])
      <3> SUFFICES ASSUME u.test <= 8 PROVE 1 \in 1..Len(Tests[u.test])
        BY <1>5
      <3> DEFINE length == Len(Tests[u.test])
      <3>1. length \in Nat \ {0}
        <4>1. u.test \in 1..8
          BY <1>5
        <4>2. QED
          BY <4>1, FirstSteps
      <3> HIDE DEF length
      <3>2. 1 \in 1..length
        BY <3>1
      <3>3. QED
        BY <3>2 DEF length
    <2>2. GoodLots(1, 0, calls[Running], Descs)
      BY <1>4, SizesAssumption DEF GoodLots
    <2>3. QED
      BY <1>4, <1>5, <2>1, <2>2 DEF GoodSyserr
  <1>8. QED
    BY <1>1, <1>3, <1>5, <1>6, <1>7, SyserrGoes DEF u, Descs

\* err_open_lots after one of its calls.
LEMMA LotsJudged ==
    ASSUME IInv, ProgramsInv, T.prog = "syserr", T.at = "tests", T.test = 3,
           NEW refused \in BOOLEAN, NEW cnt \in {0, 1},
           cnt = IF TestCall.op = "open" /\ refused THEN T.cnt + 1 ELSE T.cnt,
           T.step = 2 * MAX_OPEN_FILE - 3 => cnt = 1
    PROVE  LET u == Judged(T, TestCall, refused)
           IN  /\ u \in Task /\ u.prog = T.prog /\ u.by = T.by /\ u.at = "tests"
               /\ u.last = T.last /\ u.cnt = cnt /\ u.fails = 0
               /\ IF T.step = 2 * MAX_OPEN_FILE - 3
                    THEN u.test = 4 /\ u.step = 1 /\ u.fail = 0
                    ELSE u.test = 3 /\ u.step = T.step + 1
  <1> DEFINE u == Judged(T, TestCall, refused)
             over == T.step = Len(Tests[T.test])
             cnt2 == IF TestCall.lots /\ TestCall.op = "open" /\ refused THEN T.cnt + 1 ELSE T.cnt
             fail == IF TestCall.lots THEN IF cnt2 = 1 THEN 0 ELSE 2
                                      ELSE IF refused THEN T.fail ELSE 2
  <1>1. T \in Task /\ T.fails = 0 /\ T.step \in 1..Len(Tests[3])
    BY TryingFacts
  <1>2. over <=> T.step = 2 * MAX_OPEN_FILE - 3
    BY LotsFacts
  <1>3. TestCall.lots
    <2>1. T.step \in 1..(2 * MAX_OPEN_FILE - 3)
      BY <1>1, LotsFacts
    <2>2. \/ T.step \in 1..(MAX_OPEN_FILE - 1)
          \/ T.step \in MAX_OPEN_FILE..(2 * MAX_OPEN_FILE - 3)
      BY <2>1, SizesAssumption
    <2>3. QED
      BY <2>2, LotsFacts DEF TestCall
  <1>4. cnt2 = cnt
    <2>1. cnt2 = IF TestCall.op = "open" /\ refused THEN T.cnt + 1 ELSE T.cnt
      BY <1>3
    <2>2. QED
      BY <2>1
  <1>5. /\ u \in Task /\ u.prog = T.prog /\ u.by = T.by /\ u.at = T.at
        /\ u.last = T.last /\ u.cnt = cnt2
        /\ u.test = IF over THEN T.test + 1 ELSE T.test
        /\ u.step = IF over THEN 1 ELSE T.step + 1
        /\ u.fail = IF over THEN 0 ELSE fail
        /\ u.fails = IF over THEN T.fails + fail ELSE T.fails
    <2>1. T \in Task
      BY <1>1
    <2>2. QED
      BY <2>1, JudgedFacts
  <1>6. over => fail = 0
    BY <1>2, <1>3, <1>4
  <1> HIDE DEF u, over, cnt2, fail
  <1>7. QED
    BY <1>1, <1>2, <1>4, <1>5, <1>6 DEF u

\* Where err_open_lots is.
LEMMA LotsPlace ==
    ASSUME IInv, ProgramsInv, T.prog = "syserr", T.at = "tests", T.test = 3
    PROVE  /\ T.step \in 1..(2 * MAX_OPEN_FILE - 3)
           /\ GoodLots(T.step, T.cnt, calls[Running], Descs)
           /\ IF T.step < MAX_OPEN_FILE
                THEN TestCall.op = "open" /\ TestCall.name = "."
                ELSE TestCall.op = "close" /\ TestCall.n = T.step - MAX_OPEN_FILE + 2
  <1>1. T.step \in 1..(2 * MAX_OPEN_FILE - 3) /\ GoodSyserr(T, calls[Running], Descs)
    BY TryingFacts, LotsFacts
  <1>2. IF T.step < MAX_OPEN_FILE THEN T.step \in 1..(MAX_OPEN_FILE - 1)
                                  ELSE T.step \in MAX_OPEN_FILE..(2 * MAX_OPEN_FILE - 3)
    BY <1>1, SizesAssumption
  <1>3. TestCall = Tests[3][T.step]
    BY DEF TestCall
  <1>4. IF T.step < MAX_OPEN_FILE
          THEN TestCall.op = "open" /\ TestCall.name = "."
          ELSE TestCall.op = "close" /\ TestCall.n = T.step - MAX_OPEN_FILE + 2
    BY <1>2, <1>3, LotsFacts
  <1>5. QED
    BY <1>1, <1>4 DEF GoodSyserr

\* Outside err_open_lots the call is refused.
LEMMA OthersRefused ==
    ASSUME IInv, ProgramsInv, T.prog = "syserr", T.at = "tests", ~Finished(T), T.test # 3
    PROVE  /\ calls[Running].at = "user" /\ Refuses(TestCall) = TRUE
           /\ TestCall.op = "open" => CannotOpen(TestCall.name)
  <1>1. /\ T.test \in (1..8) \ {3} /\ T.step \in 1..Len(Tests[T.test])
        /\ calls[Running].at = "user" /\ ActiveIn(Descs) = {}
    BY TryingFacts DEF GoodSyserr
  <1>2. Harmless(TestCall)
    BY <1>1, TestsFacts DEF TestCall
  <1>3. Refuses(TestCall)
    BY <1>1, <1>2, HarmlessRefused
  <1>4. Refuses(TestCall) = TRUE
    BY <1>3 DEF Refuses
  <1>5. TestCall.op = "open" => CannotOpen(TestCall.name)
    BY <1>3 DEF Refuses
  <1>6. QED
    BY <1>1, <1>4, <1>5

LEMMA SyserrTriesStep == ASSUME IInv, ProgramsInv, SyserrTries PROVE ProgramsInv'
  <1>1. /\ At("syserr", "tests") /\ T.prog = "syserr" /\ T.at = "tests" /\ ~Finished(T)
        /\ TestCall.op \notin {"open", "close"}
    BY DEF SyserrTries, Trying, At
  <1>2. T.test # 3
    BY <1>1, LotsPlace
  <1>3. Refuses(TestCall) = TRUE
    BY <1>1, <1>2, OthersRefused
  <1>4. Goes(Judged(T, TestCall, TRUE)) /\ UNCHANGED vars
    BY <1>3 DEF SyserrTries
  <1>5. QED
    BY <1>1, <1>2, <1>4, HarmlessStep

LEMMA SyserrCannotOpenStep == ASSUME IInv, ProgramsInv, SyserrCannotOpen PROVE ProgramsInv'
  <1>1. /\ At("syserr", "tests") /\ T.prog = "syserr" /\ T.at = "tests" /\ ~Finished(T)
        /\ TestCall.op = "open" /\ CannotOpen(TestCall.name) /\ InUser
        /\ Goes(Judged(T, TestCall, TRUE)) /\ UNCHANGED vars
    BY DEF SyserrCannotOpen, Trying, At
  <1>2. CASE T.test # 3
    BY <1>1, <1>2, HarmlessStep
  <1>3. CASE T.test = 3
    <2> DEFINE u == Judged(T, TestCall, TRUE)
               s == T.step
               m == MAX_OPEN_FILE
    <2>1. /\ s \in 1..(2 * m - 3) /\ s < m /\ TestCall.name = "."
          /\ T.cnt = 0 /\ ActiveIn(Descs) = 2..s /\ T.last \in 1..8
          /\ calls[Running].at = "user"
      BY <1>1, <1>3, LotsPlace, TryingFacts DEF GoodLots, InUser
    <2>2. m \in Nat /\ m > 2 /\ s \in Int
      BY <2>1, SizesAssumption
    <2>3. s = m - 1
      <3>1. Free = {}
        BY <1>1, <2>1, SelfFacts DEF CannotOpen
      <3>2. \A fd \in 2..(m - 1) : fd \in FileFds /\ fd \in 2..s
        BY <2>1, <2>2, <3>1
           DEF Free, Candidates, Active, ActiveIn, Descs, FileFds, Fds
      <3>3. m - 1 \in 2..(m - 1)
        BY <2>2
      <3>4. QED
        BY <2>1, <2>2, <3>2, <3>3
    <2>4. TRUE \in BOOLEAN /\ 1 \in {0, 1}
      OBVIOUS
    <2>5. 1 = IF TestCall.op = "open" /\ TRUE THEN T.cnt + 1 ELSE T.cnt
      BY <1>1, <2>1
    <2>6. s # 2 * m - 3
      BY <2>2, <2>3
    <2>7. /\ u \in Task /\ u.prog = T.prog /\ u.by = T.by /\ u.at = "tests"
          /\ u.last = T.last /\ u.cnt = 1 /\ u.fails = 0
          /\ u.test = 3 /\ u.step = s + 1
      BY <1>1, <1>3, <2>4, <2>5, <2>6, LotsJudged
    <2>8. OwnRowOnly /\ calls' = calls /\ f_descs' = f_descs
      BY <1>1, UnchangedEffect
    <2> HIDE DEF u, s, m
    <2>9. u.step = m /\ m \in 1..(2 * m - 3) /\ 2..s = (m - m + 2)..(m - 1)
      BY <2>2, <2>3, <2>7
    <2>10. GoodSyserr(u, calls[Running], Descs)
      BY <2>1, <2>7, <2>9, LotsFacts DEF GoodSyserr, GoodLots, m
    <2>11. QED
      BY <1>1, <2>7, <2>8, <2>10, SyserrGoes DEF u, Descs
  <1>4. QED
    BY <1>2, <1>3

LEMMA SyserrClosesStep == ASSUME IInv, ProgramsInv, SyserrCloses PROVE ProgramsInv'
  <1>1. /\ At("syserr", "tests") /\ T.prog = "syserr" /\ T.at = "tests" /\ ~Finished(T)
        /\ TestCall.op = "close" /\ InUser
        /\ Goes(Judged(T, TestCall, Refuses(TestCall)))
        /\ IF Refuses(TestCall) THEN UNCHANGED vars ELSE Close(TestCall.n)
    BY DEF SyserrCloses, Trying, At
  <1>2. CASE T.test # 3
    <2>1. Refuses(TestCall) = TRUE
      BY <1>1, <1>2, OthersRefused
    <2>2. Goes(Judged(T, TestCall, TRUE)) /\ UNCHANGED vars
      BY <1>1, <2>1
    <2>3. QED
      BY <1>1, <1>2, <2>2, HarmlessStep
  <1>3. CASE T.test = 3
    <2> DEFINE u == Judged(T, TestCall, FALSE)
               s == T.step
               m == MAX_OPEN_FILE
               n == s - m + 2
    <2>1. /\ s \in 1..(2 * m - 3) /\ s >= m /\ TestCall.n = n
          /\ T.cnt = 1 /\ ActiveIn(Descs) = n..(m - 1) /\ T.last \in 1..8
          /\ calls[Running].at = "user"
      <3>1. /\ s \in 1..(2 * m - 3) /\ GoodLots(s, T.cnt, calls[Running], Descs)
            /\ ~(s < m) /\ TestCall.n = n /\ T.last \in 1..8
        BY <1>1, <1>3, LotsPlace, TryingFacts
      <3>2. s >= m
        BY <3>1, SizesAssumption
      <3>3. QED
        BY <3>1, <3>2 DEF GoodLots
    <2>2. m \in Nat /\ m > 2 /\ s \in Int /\ n \in 2..(m - 1)
      BY <2>1, SizesAssumption
    <2>3. n \in FileFds /\ Descs[n].flags = FLAG_ACTIVE /\ n \notin {0, 1}
      BY <2>1, <2>2 DEF ActiveIn, FileFds
    <2>4. Refuses(TestCall) = FALSE
      <3>1. InUse(n)
        BY <2>3 DEF InUse, FileFds
      <3>2. ~Refuses(TestCall)
        BY <1>1, <2>1, <2>3, <3>1 DEF Refuses
      <3>3. QED
        BY <3>2 DEF Refuses
    <2>5. Close(n) /\ Goes(u)
      BY <1>1, <2>1, <2>4
    <2> HIDE DEF n
    <2>6. /\ OwnRowOnly /\ calls'[Running].at = "user"
          /\ ActiveIn(f_descs'[Running]) = ActiveIn(Descs) \ {n}
      BY <2>1, <2>5, CloseEffect
    <2>7. FALSE \in BOOLEAN /\ 1 \in {0, 1}
          /\ 1 = IF TestCall.op = "open" /\ FALSE THEN T.cnt + 1 ELSE T.cnt
      BY <2>1
    <2>8. /\ u \in Task /\ u.prog = T.prog /\ u.by = T.by /\ u.at = "tests"
          /\ u.last = T.last /\ u.cnt = 1 /\ u.fails = 0
          /\ IF s = 2 * m - 3 THEN u.test = 4 /\ u.step = 1 /\ u.fail = 0
                              ELSE u.test = 3 /\ u.step = s + 1
      BY <1>1, <1>3, <2>7, LotsJudged
    <2>9. ActiveIn(f_descs'[Running]) = (n + 1)..(m - 1)
      BY <2>1, <2>2, <2>6
    <2> HIDE DEF u, s, m
    <2>10. GoodSyserr(u, calls'[Running], f_descs'[Running])
      <3>1. CASE s = 2 * m - 3
        <4>1. ActiveIn(f_descs'[Running]) = {}
          BY <2>2, <2>9, <3>1 DEF n
        <4>2. u.step \in 1..Len(Tests[4])
          <5> DEFINE length == Len(Tests[4])
          <5>1. length \in Nat \ {0}
            BY FirstSteps
          <5> HIDE DEF length
          <5>2. 1 \in 1..length
            BY <5>1
          <5>3. QED
            BY <2>8, <3>1, <5>2 DEF length
        <4>3. QED
          BY <2>1, <2>6, <2>8, <3>1, <4>1, <4>2 DEF GoodSyserr
      <3>2. CASE s # 2 * m - 3
        <4>1. s + 1 \in 1..(2 * m - 3) /\ ~(s + 1 < m) /\ n + 1 = (s + 1) - m + 2
          BY <2>1, <2>2, <3>2 DEF n
        <4>2. GoodLots(s + 1, 1, calls'[Running], f_descs'[Running])
          BY <2>6, <2>9, <4>1 DEF GoodLots, m
        <4>3. u.step \in 1..Len(Tests[3])
          BY <2>8, <3>2, <4>1, LotsFacts DEF m
        <4>4. QED
          BY <2>1, <2>8, <3>2, <4>2, <4>3 DEF GoodSyserr
      <3>3. QED
        BY <3>1, <3>2
    <2>11. QED
      BY <1>1, <2>5, <2>6, <2>8, <2>10, SyserrGoes
  <1>4. QED
    BY <1>2, <1>3

LEMMA SyserrOpensStep == ASSUME IInv, ProgramsInv, SyserrOpens PROVE ProgramsInv'
  <1>1. /\ T.prog = "syserr" /\ T.at = "tests" /\ ~Finished(T)
        /\ TestCall.op = "open" /\ Opens(TestCall.name) /\ InUser
        /\ UNCHANGED <<task, arg_buff, ended>>
    BY DEF SyserrOpens, Trying, At
  <1>2. T.test = 3
    BY <1>1, OthersRefused DEF Opens
  <1> DEFINE s == T.step
             m == MAX_OPEN_FILE
             fd == Min(Free)
  <1>3. /\ s \in 1..(2 * m - 3) /\ s < m /\ TestCall.name = "."
        /\ T.cnt = 0 /\ ActiveIn(Descs) = 2..s
    BY <1>1, <1>2, LotsPlace DEF GoodLots, InUser
  <1>4. /\ T \in Task /\ T.fails = 0 /\ GoodSyserr(T, calls[Running], Descs)
    BY <1>1, TryingFacts
  <1>5. /\ OwnRowOnly
        /\ fd \in FileFds /\ fd \notin ActiveIn(Descs)
        /\ \A x \in FileFds : x \notin ActiveIn(Descs) => fd <= x
        /\ calls'[Running] = [at |-> "opening", fd |-> fd, entry |-> Self]
        /\ ActiveIn(f_descs'[Running]) = ActiveIn(Descs) \cup {fd}
    <2>1. OpenTakes(".")
      BY <1>1, <1>3 DEF Opens
    <2>2. QED
      BY <2>1, OpenTakesEffect DEF Self
  <1> HIDE DEF fd
  <1>6. fd = s + 1 /\ ActiveIn(f_descs'[Running]) = 2..(s + 1)
    <2>1. m \in Nat /\ m > 2 /\ s \in Int /\ FileFds = 2..(m - 1)
      BY <1>3, SizesAssumption DEF FileFds, Fds
    <2>2. fd \in 2..(m - 1) /\ fd \notin 2..s
      BY <1>3, <1>5, <2>1
    <2>3. s + 1 \in FileFds /\ s + 1 \notin ActiveIn(Descs)
      BY <1>3, <2>1, <2>2
    <2>4. fd = s + 1
      BY <1>5, <2>1, <2>2, <2>3
    <2>5. QED
      BY <1>3, <1>5, <2>1, <2>4
  <1>7. Goes(T)
    BY <1>1, SameTaskGoes
  <1>8. GoodSyserr(T, calls'[Running], f_descs'[Running])
    <2>1. GoodLots(s, T.cnt, calls'[Running], f_descs'[Running])
      BY <1>3, <1>5, <1>6 DEF GoodLots
    <2>2. QED
      BY <1>2, <1>4, <2>1 DEF GoodSyserr
  <1>9. QED
    BY <1>1, <1>4, <1>5, <1>7, <1>8, SyserrGoes

\* err_open_lots is given its next descriptor.
LEMMA SyserrReceives ==
    ASSUME IInv, ProgramsInv, OpenReturns, T.prog = "syserr"
    PROVE  ProgramsInv'
  <1> DEFINE u == Judged(T, TestCall, FALSE)
             s == T.step
             m == MAX_OPEN_FILE
  <1>1. /\ OwnRowOnly /\ calls[Running].at = "opening" /\ calls[Running].fd \in FileFds
        /\ calls'[Running].at = "user"
        /\ ActiveIn(f_descs'[Running]) = ActiveIn(Descs)
    BY OpenEntersEffect DEF OpenReturns
  <1>2. GoodSyserr(T, calls[Running], Descs)
    BY TaskFacts DEF GoodTask
  <1>3. T.test = 3 /\ T.at = "tests" /\ T.last \in 1..8
    BY <1>1, <1>2 DEF GoodSyserr
  <1>4. /\ s \in 1..(2 * m - 3) /\ s < m
        /\ T.cnt = 0 /\ calls[Running].fd = s + 1 /\ ActiveIn(Descs) = 2..(s + 1)
    BY <1>1, <1>3, LotsPlace DEF GoodLots
  <1>5. m \in Nat /\ m > 2 /\ s \in Int /\ s + 1 < m
    BY <1>1, <1>4, SizesAssumption DEF FileFds, Fds
  <1>6. FALSE \in BOOLEAN /\ 0 \in {0, 1}
        /\ 0 = IF TestCall.op = "open" /\ FALSE THEN T.cnt + 1 ELSE T.cnt
    BY <1>4
  <1>7. s # 2 * m - 3 /\ s + 1 \in 1..(2 * m - 3)
    BY <1>4, <1>5
  <1>8. /\ u \in Task /\ u.prog = T.prog /\ u.by = T.by /\ u.at = "tests"
        /\ u.last = T.last /\ u.cnt = 0 /\ u.fails = 0
        /\ u.test = 3 /\ u.step = s + 1
    BY <1>3, <1>6, <1>7, LotsJudged
  <1>9. Goes(u)
    BY DEF OpenReturns, Received
  <1> HIDE DEF u, s, m
  <1>10. GoodSyserr(u, calls'[Running], f_descs'[Running])
    <2>1. GoodLots(s + 1, 0, calls'[Running], f_descs'[Running])
      BY <1>1, <1>4, <1>5 DEF GoodLots, m
    <2>2. u.step \in 1..Len(Tests[3])
      BY <1>7, <1>8, LotsFacts DEF m
    <2>3. QED
      BY <1>3, <1>8, <2>1, <2>2 DEF GoodSyserr
  <1>11. QED
    BY <1>1, <1>8, <1>9, <1>10, SyserrGoes

LEMMA OpenReturnsStep == ASSUME IInv, ProgramsInv, OpenReturns PROVE ProgramsInv'
  <1>1. T.prog \in {"cat", "ls", "grep", "syserr"}
    <2>1. calls[Running].at = "opening"
      BY DEF OpenReturns, OpenEnters
    <2>2. /\ T.prog \in Executables \cup {"none"}
          /\ T.prog = "none" => calls[Running].at = "user"
          /\ T.prog = "shell" => calls[Running].at = "user"
      BY TaskFacts DEF Task, GoodTask, GoodShell
    <2>3. QED
      BY <2>1, <2>2 DEF Executables
  <1>2. QED
    BY <1>1, CopierReceives, GrepReceives, SyserrReceives

-----------------------------------------------------------------------------
(* The invariant, and the theorems.                                          *)

LEMMA StartsAllInv == StartsAll => ProgramsInv
  <1> SUFFICES ASSUME StartsAll PROVE ProgramsInv
    OBVIOUS
  <1>1. IInv /\ active_proc_num = 0
    BY InitIInv DEF StartsAll, Init
  <1>2. ASSUME NEW p \in ProcIds
        PROVE  /\ calls[p].at = "user"
               /\ \A fd \in FileFds : f_descs[p][fd].flags = FLAG_INACTIVE
    <2>1. CASE p = 0
      <3>1. [fd \in Fds |-> Blank] \in [Fds -> Desc]
        BY DEF Blank, Desc, Tables, FLAG_INACTIVE
      <3>2. f_descs[p] = Started([fd \in Fds |-> Blank]) /\ calls[p] = InProgram
        BY <2>1 DEF StartsAll, Init
      <3>3. \A fd \in FileFds : f_descs[p][fd] = Blank
        BY <3>1, <3>2, StartedFacts DEF FileFds
      <3>4. QED
        BY <3>2, <3>3 DEF Blank, InProgram
    <2>2. CASE p # 0
      <3>1. p > active_proc_num
        BY <1>1, <2>2 DEF ProcIds
      <3>2. QED
        BY <1>1, <3>1, FreeSlot
    <2>3. QED
      BY <2>1, <2>2
  <1>3. ASSUME NEW p \in ProcIds
        PROVE  \E prog \in {"shell", "none"}, by \in {"boot", "none"} : task[p] = Begun(prog, by)
    BY DEF StartsAll, NoTask
  <1>4. ASSUME NEW p \in ProcIds
        PROVE  /\ task[p] \in Task
               /\ GoodTask(task[p], calls[p], f_descs[p], opened[p], got[p], arg_buff[p])
               /\ task[p].at = "start"
    <2>1. PICK prog \in {"shell", "none"}, by \in {"boot", "none"} : task[p] = Begun(prog, by)
      BY <1>3
    <2>2. task[p].at = "start"
      BY <2>1 DEF Begun
    <2>3. QED
      BY <1>2, <2>1, <2>2, BegunFacts, BegunRow DEF Executables
  <1>5. TasksTabular
    <2>1. task = [p \in ProcIds |-> task[p]] /\ \A p \in ProcIds : task[p] \in Task
      BY <1>4 DEF StartsAll
    <2>2. QED
      BY <2>1 DEF StartsAll, TasksTabular
  <1>6. ASSUME NEW p \in ProcIds PROVE GoodAnswer(task[p], ended[p]) /\ ShellWaits(p)
    <2>1. task[p].at # "answer"
      BY <1>4
    <2>2. GoodAnswer(task[p], ended[p])
      BY <2>1, Zenon DEF GoodAnswer
    <2>3. ShellWaits(p)
      BY <1>1 DEF ShellWaits, ProcIds
    <2>4. QED
      BY <2>2, <2>3
  <1>7. QED
    BY <1>4, <1>5, <1>6 DEF ProgramsInv, TaskRow

LEMMA SameRows == ASSUME ProgramsInv, UNCHANGED allVars PROVE ProgramsInv'
  <1>1. /\ task' = task /\ arg_buff' = arg_buff /\ ended' = ended
        /\ f_descs' = f_descs /\ calls' = calls /\ opened' = opened /\ got' = got
        /\ active_proc_num' = active_proc_num
    BY DEF allVars, vars
  <1>2. \A p \in ProcIds : TaskRow(p)' /\ GoodAnswer(task[p], ended[p])' /\ ShellWaits(p)'
    <2> SUFFICES ASSUME NEW p \in ProcIds
                 PROVE  TaskRow(p)' /\ GoodAnswer(task[p], ended[p])' /\ ShellWaits(p)'
      OBVIOUS
    <2>1. TaskRow(p) /\ GoodAnswer(task[p], ended[p]) /\ ShellWaits(p)
      BY DEF ProgramsInv
    <2>2. QED
      BY <1>1, <2>1, Zenon DEF TaskRow, GoodAnswer, ShellWaits
  <1>3. TasksTabular'
    BY <1>1 DEF ProgramsInv, TasksTabular
  <1>4. QED
    BY <1>2, <1>3 DEF ProgramsInv

LEMMA ProgramsNextKeeps == IInv /\ ProgramsInv /\ [ProgramsNext]_allVars => ProgramsInv'
  <1> SUFFICES ASSUME IInv, ProgramsInv, [ProgramsNext]_allVars PROVE ProgramsInv'
    OBVIOUS
  <1>1. CASE ProgramStep
    <2>1. CASE OpenReturns
      BY <2>1, OpenReturnsStep
    <2>2. CASE ShellAnswers
      BY <2>2, ShellAnswersStep
    <2>3. CASE FileOpens
      BY <2>3, FileOpensStep
    <2>4. CASE FileNotFound
      BY <2>4, FileNotFoundStep
    <2>5. CASE Copies
      BY <2>5, CopiesStep
    <2>6. CASE CopiedAll
      BY <2>6, CopiedAllStep
    <2>7. CASE CopyEnds
      BY <2>7, EndStep
    <2>8. CASE GrepNextName
      BY <2>8, GrepNextNameStep
    <2>9. CASE \E nbytes \in 1..BUFSIZE : GrepReads(nbytes)
      BY <2>9, GrepReadsStep
    <2>10. CASE GrepCloses
      BY <2>10, GrepClosesStep
    <2>11. CASE SyserrTries
      BY <2>11, SyserrTriesStep
    <2>12. CASE SyserrCloses
      BY <2>12, SyserrClosesStep
    <2>13. CASE SyserrOpens
      BY <2>13, SyserrOpensStep
    <2>14. CASE SyserrCannotOpen
      BY <2>14, SyserrCannotOpenStep
    <2>15. CASE SyserrEnds
      BY <2>15, SyserrEndsStep
    <2>16. QED
      BY <1>1, <2>1, <2>2, <2>3, <2>4, <2>5, <2>6, <2>7, <2>8, <2>9, <2>10, <2>11, <2>12,
         <2>13, <2>14, <2>15 DEF ProgramStep
  <1>2. CASE LineTyped
    BY <1>2, ShellExecutesStep, ShellRefusedStep, EndStep, SyserrChoosesStep DEF LineTyped
  <1>3. CASE KeyLaunches
    BY <1>3, KeyLaunchesStep
  <1>4. CASE KeyKills \/ Faults
    BY <1>4, EndStep
  <1>5. CASE UNCHANGED allVars
    BY <1>5, SameRows
  <1>6. QED
    BY <1>1, <1>2, <1>3, <1>4, <1>5 DEF ProgramsNext

\* Both invariants hold in every reachable state of the programs.
THEOREM ProgramsInvariance == ProgramsSpec => [](IInv /\ ProgramsInv)
  <1>1. StartsAll => ProgramsInv
    BY StartsAllInv
  <1>2. IInv /\ ProgramsInv /\ [ProgramsNext]_allVars => ProgramsInv'
    BY ProgramsNextKeeps
  <1>3. QED
    BY <1>1, <1>2, FilesInvariance, PTL DEF ProgramsSpec

\* syserr's tests pass, whatever ran in its slot before and whatever runs on top of it
\* meanwhile: each test's calls are refused, and err_open_lots finds every descriptor
\* free once.  (ece391syserr.c, open, close, execute, halt)
THEOREM TestsPassCorrect == ProgramsSpec => []TestsPass
  <1>1. ProgramsInv => TestsPass
    BY DEF ProgramsInv, TaskRow, GoodTask, TestsPass
  <1>2. QED
    BY <1>1, ProgramsInvariance, PTL

\* What the shell says of a command is what became of it.
\* (ece391shell.c, execute, halt)
THEOREM ShellTellsCauseCorrect == ProgramsSpec => ShellTellsCause
  <1> DEFINE Told == ShellAnswers =>
         Message(T.rval) =
           CASE ended[Running] = "refused" -> "no such command"
             [] ended[Running] = "exception" -> "program terminated by exception"
             [] ended[Running] = "badly" -> "program terminated abnormally"
             [] ended[Running] = "well" -> "nothing"
  <1>1. IInv /\ ProgramsInv => Told
    <2> SUFFICES ASSUME IInv, ProgramsInv, ShellAnswers PROVE Told
      OBVIOUS
    <2>1. Running \in ProcIds /\ T.prog = "shell" /\ T.at = "answer"
      BY DEF IInv, Running, ShellAnswers, At
    <2>2. GoodAnswer(T, ended[Running])
      BY <2>1 DEF ProgramsInv, T
    <2>3. QED
      BY <2>1, <2>2 DEF GoodAnswer
  <1>2. IInv /\ ProgramsInv => [Told]_allVars
    BY <1>1
  <1>3. QED
    BY <1>2, ProgramsInvariance, PTL DEF ShellTellsCause

\* A program that ends with status 0 has printed its file or the directory in full,
\* each part once and in its place, and grep has looked at every file.
\* (ece391cat.c, ece391ls.c, ece391grep.c, file_read, dir_read)
THEOREM PrintedInFullCorrect == ProgramsSpec => PrintedInFull
  <1> DEFINE Printed == CopyEnds => InFull(T, arg_buff[Running])
  <1>1. IInv /\ ProgramsInv => Printed
    <2> SUFFICES ASSUME IInv, ProgramsInv, CopyEnds PROVE InFull(T, arg_buff[Running])
      OBVIOUS
    <2>1. T.at = "end" /\ T.prog \in {"cat", "ls", "grep"}
      BY DEF CopyEnds, At
    <2>2. GoodTask(T, calls[Running], Descs, opened[Running], got[Running],
                   arg_buff[Running])
      BY TaskFacts
    <2>3. \/ GoodCopier(T, calls[Running], opened[Running], got[Running], arg_buff[Running])
          \/ GoodGrep(T, calls[Running], Descs, opened[Running], arg_buff[Running])
      BY <2>1, <2>2 DEF GoodTask
    <2>4. QED
      BY <2>1, <2>3 DEF GoodCopier, GoodGrep
  <1>2. IInv /\ ProgramsInv => [Printed]_allVars
    BY <1>1
  <1>3. QED
    BY <1>2, ProgramsInvariance, PTL DEF PrintedInFull
=============================================================================
