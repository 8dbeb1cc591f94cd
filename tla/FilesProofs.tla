---------------------------- MODULE FilesProofs -----------------------------
(***************************************************************************)
(* Proofs about module Files.  Every step changes the row of one process,  *)
(* so the inductive invariant is stated of a row.                          *)
(***************************************************************************)
EXTENDS Files, TLAPS, SequenceTheorems, WellFoundedInduction

\* The first n names of the directory.
NamesUpTo(n) == [i \in 1..n |-> dir_entries[i].name]

\* The first n bytes of a file.
BytesUpTo(inode, n) == [k \in 1..n |-> ByteOfFile(inode, k - 1)]

\* A descriptor d of a process in call c, through which entries o have been opened
\* and g has been read; live tells whether the process exists.
GoodDesc(fd, d, c, o, g, live) ==
    /\ d.flags = FLAG_ACTIVE <=> o # <<>> \/ (c.at = "opening" /\ c.fd = fd)
    /\ c.at = "opening" /\ c.fd = fd => o = <<>> /\ d.file_pos = 0
    /\ o # <<>> => /\ d.table = o[1].type
                   /\ o[1].type = "file" => d.inode = o[1].inode
                   /\ o[1].type = "dir" => /\ d.file_pos <= Len(dir_entries)
                                           /\ g = NamesUpTo(d.file_pos)
                   /\ o[1].type = "file" => /\ d.file_pos <= inodes[d.inode].length + 1
                                            /\ g = BytesUpTo(d.inode, d.file_pos)
    /\ ~live => d.flags = FLAG_INACTIVE

HistoryOf == {<<>>} \cup {<<entry>> : entry \in Entries}

\* A row of the variables.
GoodRow(descs, c, o, g, live) ==
    /\ descs \in [Fds -> Desc]
    /\ c \in Call
    /\ o \in [FileFds -> HistoryOf]
    /\ g = [fd \in FileFds |-> g[fd]]
    /\ \A fd \in FileFds : GoodDesc(fd, descs[fd], c, o[fd], g[fd], live)

Tabular ==
    /\ f_descs = [p \in ProcIds |-> f_descs[p]]
    /\ calls = [p \in ProcIds |-> calls[p]]
    /\ opened = [p \in ProcIds |-> opened[p]]
    /\ got = [p \in ProcIds |-> got[p]]

Row(p) == GoodRow(f_descs[p], calls[p], opened[p], got[p], p <= active_proc_num)

\* The inductive invariant.
IInv ==
    /\ active_proc_num \in ProcIds
    /\ Tabular
    /\ \A p \in ProcIds : Row(p)

-----------------------------------------------------------------------------
(* Facts about the operators.                                               *)

\* A set of natural numbers that is not empty has a minimum.
LEMMA MinFacts == ASSUME NEW S, S \subseteq Nat, S # {}
                  PROVE  Min(S) \in S /\ \A x \in S : Min(S) <= x
  <1> DEFINE less == {ss \in Nat \X Nat : ss[1] < ss[2]}
  <1>1. less = OpToRel(<, Nat)
    BY Zenon DEF OpToRel
  <1>2. IsWellFoundedOn(less, Nat)
    BY <1>1, NatLessThanWellFounded, Zenon
  <1>3. \E x \in S : \A y \in S : ~ (<<y, x>> \in less)
    <2> HIDE DEF less
    <2>1. QED
      BY <1>2, WFMin
  <1>4. \A x, y \in Nat : y < x => <<y, x>> \in less
    OBVIOUS
  <1> HIDE DEF less
  <1>5. \E x \in S : \A y \in S : x <= y
    <2>1. PICK x \in S : \A y \in S : ~ (<<y, x>> \in less)
      BY <1>3
    <2>2. \A y \in S : y \in Nat /\ ~ (y < x)
      BY <1>4, <2>1
    <2>3. QED
      BY <2>1, <2>2
  <1>6. QED
    BY <1>5 DEF Min

\* A set of natural numbers with 0 that with each number has the next is all of them.
LEMMA Induction == ASSUME NEW S, S \subseteq Nat, 0 \in S, \A n \in S : n + 1 \in S
                   PROVE  S = Nat
  <1> DEFINE rest == Nat \ S
  <1> SUFFICES ASSUME rest # {} PROVE FALSE
    OBVIOUS
  <1>1. Min(rest) \in rest /\ \A x \in rest : Min(rest) <= x
    <2>1. rest \subseteq Nat
      OBVIOUS
    <2> HIDE DEF rest
    <2>2. QED
      BY <2>1, MinFacts
  <1>2. PICK m \in Nat : m \notin S /\ \A x \in Nat : x \notin S => m <= x
    BY <1>1
  <1>3. m # 0 /\ m - 1 \in Nat
    BY <1>2
  <1>4. m - 1 \in S
    BY <1>2, <1>3
  <1>5. m - 1 + 1 \in S
    BY <1>4
  <1>6. QED
    BY <1>2, <1>3, <1>5

\* The quotient and the remainder of a number, and of one more.
LEMMA DivFacts ==
    ASSUME NEW d \in Nat \ {0}, NEW k \in Nat
    PROVE  /\ k \div d \in Nat /\ k % d \in 0..(d - 1) /\ k = d * (k \div d) + (k % d)
  OBVIOUS

LEMMA DivUnique ==
    ASSUME NEW d \in Nat \ {0}, NEW k \in Nat, NEW q \in Nat, NEW r \in 0..(d - 1), k = d * q + r
    PROVE  k \div d = q /\ k % d = r
  OBVIOUS

LEMMA DivNext ==
    ASSUME NEW d \in Nat \ {0}, NEW k \in Nat
    PROVE  IF (k % d) + 1 = d THEN (k + 1) \div d = k \div d + 1 /\ (k + 1) % d = 0
                            ELSE (k + 1) \div d = k \div d /\ (k + 1) % d = (k % d) + 1
  <1> DEFINE q == k \div d
             r == k % d
  <1>1. q \in Nat /\ r \in 0..(d - 1) /\ k = d * q + r
    BY DivFacts
  <1> HIDE DEF q, r
  <1>2. CASE r + 1 = d
    <2>1. k + 1 = d * (q + 1) + 0
      BY <1>1, <1>2
    <2>2. (k + 1) \div d = q + 1 /\ (k + 1) % d = 0
      <3>1. k + 1 \in Nat /\ q + 1 \in Nat /\ 0 \in 0..(d - 1)
        BY <1>1
      <3>2. QED
        BY <2>1, <3>1, DivUnique
    <2>3. QED
      BY <1>2, <2>2 DEF q, r
  <1>3. CASE r + 1 # d
    <2>1. k + 1 = d * q + (r + 1)
      BY <1>1
    <2>2. (k + 1) \div d = q /\ (k + 1) % d = r + 1
      <3>1. k + 1 \in Nat /\ r + 1 \in 0..(d - 1)
        BY <1>1, <1>3
      <3>2. QED
        BY <1>1, <2>1, <3>1, DivUnique
    <2>3. QED
      BY <1>3, <2>2 DEF q, r
  <1>4. QED
    BY <1>2, <1>3 DEF r

\* Where the cursor is after i bytes, in closed form.
Place(k) == [block |-> k \div DATA_BLOCK_SIZE, loc |-> k % DATA_BLOCK_SIZE]

LEMMA NextPlace == ASSUME NEW k \in Nat PROVE NextCursor(Place(k)) = Place(k + 1)
  <1>1. DATA_BLOCK_SIZE \in Nat \ {0}
    BY SizesAssumption
  <1>2. QED
    BY <1>1, DivNext DEF Place, NextCursor

LEMMA CursorFacts == ASSUME NEW offset \in Nat
                     PROVE  \A i \in Nat : Cursor(offset)[i] = Place(offset + i)
  <1> DEFINE After(f, i) == IF i = 0 THEN [block |-> offset \div DATA_BLOCK_SIZE,
                                           loc |-> offset % DATA_BLOCK_SIZE]
                                     ELSE NextCursor(f[i - 1])
             Follows(f) == f = [i \in Nat |-> After(f, i)]
             places == [i \in Nat |-> Place(offset + i)]
  <1>1. Follows(places)
    <2>1. ASSUME NEW i \in Nat PROVE places[i] = After(places, i)
      <3>1. CASE i = 0
        BY <3>1 DEF Place
      <3>2. CASE i # 0
        <4>1. i - 1 \in Nat /\ offset + (i - 1) \in Nat /\ offset + (i - 1) + 1 = offset + i
          BY <3>2
        <4>2. NextCursor(Place(offset + (i - 1))) = Place(offset + i)
          BY <4>1, NextPlace
        <4>3. QED
          BY <3>2, <4>1, <4>2
      <3>3. QED
        BY <3>1, <3>2
    <2>2. QED
      BY <2>1
  <1>2. Cursor(offset) = CHOOSE f : Follows(f)
    BY Zenon DEF Cursor
  <1>3. Follows(Cursor(offset))
    <2> HIDE DEF places, Follows
    <2>1. QED
      BY <1>1, <1>2, Zenon
  <1> DEFINE cursor == Cursor(offset)
             S == {i \in Nat : cursor[i] = Place(offset + i)}
  <1>4. 0 \in S
    BY <1>3 DEF Place
  <1>5. ASSUME NEW i \in S PROVE i + 1 \in S
    <2>1. cursor[i] = Place(offset + i) /\ i \in Nat
      OBVIOUS
    <2>2. cursor[i + 1] = NextCursor(cursor[i])
      BY <1>3, <2>1
    <2>3. QED
      BY <2>1, <2>2, NextPlace
  <1>6. S = Nat
    <2> HIDE DEF S
    <2>1. S \subseteq Nat
      BY DEF S
    <2>2. QED
      BY <2>1, <1>4, <1>5, Induction
  <1>7. QED
    BY <1>6
\* The lookup by name finds an entry of that name.
LEMMA DentryFacts == ASSUME NEW entry \in Entries
                     PROVE  /\ DentryByName(entry.name) \in Entries
                            /\ DentryByName(entry.name).name = entry.name
  <1> DEFINE S == {i \in 1..Len(dir_entries) : dir_entries[i].name = entry.name}
  <1>1. S \subseteq Nat /\ S # {}
    BY DEF Entries
  <1>2. Min(S) \in S
    BY <1>1, MinFacts, Zenon
  <1>3. QED
    BY <1>2, Zenon DEF Entries, DentryByName

\* An entry of the directory leads to an inode.
LEMMA EntryFacts == ASSUME NEW entry \in Entries
                    PROVE  /\ entry.inode \in Nat
                           /\ entry.inode \in DOMAIN inodes
                           /\ inodes[entry.inode].length \in Nat
                           /\ entry.type \in {"rtc", "dir", "file"}
  <1>1. PICK i \in 1..Len(dir_entries) : entry = dir_entries[i]
    BY DEF Entries
  <1>2. dir_entries[i] \in [name : STRING, type : {"rtc", "dir", "file"}, inode : Nat]
    BY <1>1, ImageAssumption, ElementOfSeq
  <1>3. QED
    BY <1>1, <1>2, ImageAssumption

\* read_data copies a number of bytes, and none beyond the one behind the file.
LEMMA BytesCopiedFacts ==
    ASSUME NEW inode \in DOMAIN inodes, NEW offset \in Nat, NEW nbytes \in ReadSizes,
           offset <= inodes[inode].length + 1
    PROVE  /\ BytesCopied(inode, offset, nbytes) \in Nat
           /\ offset + BytesCopied(inode, offset, nbytes) <= inodes[inode].length + 1
  <1>1. inodes[inode].length \in Nat
    BY ImageAssumption
  <1>2. Unsigned(nbytes) \in Nat
    BY SizesAssumption DEF Unsigned
  <1>3. CASE offset >= inodes[inode].length
    BY <1>1, <1>3 DEF BytesCopied
  <1>4. CASE ~(offset >= inodes[inode].length)
    <2> DEFINE room == inodes[inode].length - offset + 1
               S == {Unsigned(nbytes), room}
    <2>1. S \subseteq Nat /\ S # {} /\ room \in S
      BY <1>1, <1>2, <1>4
    <2>2. Min(S) \in S /\ Min(S) <= room
      BY <2>1, MinFacts, Zenon
    <2>3. BytesCopied(inode, offset, nbytes) = Min(S)
      BY <1>4 DEF BytesCopied
    <2>4. QED
      BY <1>1, <2>1, <2>2, <2>3
  <1>5. QED
    BY <1>1, <1>3, <1>4

\* A read at the end of the first bytes goes on with the next ones.
LEMMA ReadDataFacts ==
    ASSUME NEW inode \in DOMAIN inodes, NEW offset \in Nat, NEW nbytes \in ReadSizes,
           offset <= inodes[inode].length + 1
    PROVE  LET bytes == ReadData(inode, offset, nbytes)
           IN  /\ Len(bytes) = BytesCopied(inode, offset, nbytes)
               /\ Len(bytes) \in Nat
               /\ offset + Len(bytes) <= inodes[inode].length + 1
               /\ BytesUpTo(inode, offset) \o bytes = BytesUpTo(inode, offset + Len(bytes))
  <1> DEFINE bytes == ReadData(inode, offset, nbytes)
             m == BytesCopied(inode, offset, nbytes)
             S == {ByteOfFile(inode, k) : k \in Nat}
  <1>1. m \in Nat /\ offset + m <= inodes[inode].length + 1
    BY BytesCopiedFacts
  <1>2. \A i \in 1..m : bytes[i] = ByteOfFile(inode, offset + (i - 1))
    <2> SUFFICES ASSUME NEW i \in 1..m
                 PROVE  bytes[i] = ByteOfFile(inode, offset + (i - 1))
      OBVIOUS
    <2>1. Cursor(offset)[i - 1] = Place(offset + (i - 1))
      BY <1>1, CursorFacts
    <2>2. QED
      BY <2>1 DEF ReadData, Place, ByteOfFile
  <1>3. bytes = [i \in 1..m |-> ByteOfFile(inode, offset + (i - 1))]
    BY <1>2 DEF ReadData
  <1> HIDE DEF m, bytes
  <1>4. \A n \in Nat : /\ BytesUpTo(inode, n) \in Seq(S) /\ Len(BytesUpTo(inode, n)) = n
                       /\ \A k \in 1..n : BytesUpTo(inode, n)[k] = ByteOfFile(inode, k - 1)
    <2> SUFFICES ASSUME NEW n \in Nat
                 PROVE  /\ BytesUpTo(inode, n) \in Seq(S) /\ Len(BytesUpTo(inode, n)) = n
                        /\ \A k \in 1..n : BytesUpTo(inode, n)[k] = ByteOfFile(inode, k - 1)
      OBVIOUS
    <2>1. BytesUpTo(inode, n) \in [1..n -> S]
      BY DEF BytesUpTo
    <2>2. QED
      BY <2>1 DEF BytesUpTo
  <1>5. bytes \in Seq(S) /\ Len(bytes) = m
    <2>1. bytes \in [1..m -> S]
      BY <1>1, <1>3
    <2>2. QED
      BY <1>1, <2>1
  <1> DEFINE read == BytesUpTo(inode, offset)
             all == BytesUpTo(inode, offset + m)
  <1>6. /\ read \o bytes \in Seq(S) /\ Len(read \o bytes) = offset + m
        /\ \A k \in 1..(offset + m) :
              (read \o bytes)[k] = IF k <= offset THEN read[k] ELSE bytes[k - offset]
    <2>1. read \in Seq(S) /\ Len(read) = offset
      BY <1>4
    <2> HIDE DEF read, S
    <2>2. QED
      BY <1>5, <2>1, ConcatProperties
  <1>7. \A k \in 1..(offset + m) : (read \o bytes)[k] = all[k]
    <2> SUFFICES ASSUME NEW k \in 1..(offset + m) PROVE (read \o bytes)[k] = all[k]
      OBVIOUS
    <2>1. all[k] = ByteOfFile(inode, k - 1)
      BY <1>1 DEF BytesUpTo
    <2>2. CASE k <= offset
      <3>1. read[k] = ByteOfFile(inode, k - 1)
        BY <1>1, <2>2 DEF BytesUpTo
      <3> HIDE DEF read, all
      <3>2. QED
        BY <1>6, <2>1, <2>2, <3>1
    <2>3. CASE ~(k <= offset)
      <3>1. k - offset \in 1..m /\ offset + (k - offset - 1) = k - 1
        BY <1>1, <2>3
      <3>2. bytes[k - offset] = ByteOfFile(inode, k - 1)
        BY <1>2, <3>1
      <3> HIDE DEF read, all
      <3>3. QED
        BY <1>6, <2>1, <2>3, <3>2
    <2>4. QED
      BY <2>2, <2>3
  <1>8. all \in Seq(S) /\ Len(all) = offset + m
    BY <1>1, <1>4
  <1>9. read \o bytes = all
    <2> HIDE DEF read, all, S
    <2>1. QED
      BY <1>6, <1>7, <1>8, SeqEqual
  <1>10. QED
    BY <1>1, <1>5, <1>9 DEF bytes, m

\* One more name.
LEMMA NextName ==
    ASSUME NEW n \in Nat, n < Len(dir_entries)
    PROVE  Append(NamesUpTo(n), dir_entries[n + 1].name) = NamesUpTo(n + 1)
  <1>1. Len(dir_entries) \in Nat
    BY ImageAssumption, LenProperties
  <1>2. \A i \in 1..(n + 1) : dir_entries[i].name \in STRING
    <2> SUFFICES ASSUME NEW i \in 1..(n + 1) PROVE dir_entries[i].name \in STRING
      OBVIOUS
    <2>1. i \in 1..Len(dir_entries)
      BY <1>1
    <2>2. dir_entries[i] \in [name : STRING, type : {"rtc", "dir", "file"}, inode : Nat]
      BY <2>1, ImageAssumption, ElementOfSeq
    <2>3. QED
      BY <2>2
  <1>3. /\ NamesUpTo(n) \in Seq(STRING) /\ Len(NamesUpTo(n)) = n
        /\ \A i \in 1..n : NamesUpTo(n)[i] = dir_entries[i].name
    BY <1>2, SeqDef, LenProperties DEF NamesUpTo
  <1>4. /\ NamesUpTo(n + 1) \in Seq(STRING) /\ Len(NamesUpTo(n + 1)) = n + 1
        /\ \A i \in 1..(n + 1) : NamesUpTo(n + 1)[i] = dir_entries[i].name
    BY <1>2, SeqDef, LenProperties DEF NamesUpTo
  <1> DEFINE s == Append(NamesUpTo(n), dir_entries[n + 1].name)
  <1>5. /\ s \in Seq(STRING) /\ Len(s) = n + 1
        /\ \A i \in 1..n : s[i] = NamesUpTo(n)[i]
        /\ s[n + 1] = dir_entries[n + 1].name
    <2>1. dir_entries[n + 1].name \in STRING
      BY <1>2
    <2>2. QED
      BY <1>3, <2>1, AppendProperties
  <1> HIDE DEF s
  <1>6. \A i \in 1..(n + 1) : s[i] = NamesUpTo(n + 1)[i]
    BY <1>3, <1>4, <1>5
  <1>7. QED
    BY <1>4, <1>5, <1>6, SeqEqual DEF s

\* execute's set-up leaves the descriptors of files alone.
LEMMA StartedFacts ==
    ASSUME NEW descs \in [Fds -> Desc]
    PROVE  /\ Started(descs) \in [Fds -> Desc]
           /\ \A fd \in FileFds : Started(descs)[fd] = descs[fd]
  <1> DEFINE in == [descs[0] EXCEPT !.flags = FLAG_ACTIVE, !.table = "stdin"]
             out == [descs[1] EXCEPT !.flags = FLAG_ACTIVE, !.table = "stdout"]
  <1>1. 0 \in Fds /\ 1 \in Fds
    BY SizesAssumption DEF Fds
  <1>2. descs[0] \in Desc /\ descs[1] \in Desc
    BY <1>1
  <1>3. in \in Desc /\ out \in Desc
    BY <1>2 DEF Desc, Tables, FLAG_ACTIVE
  <1>4. Started(descs) = [[descs EXCEPT ![0] = in] EXCEPT ![1] = out]
    BY <1>1 DEF Started
  <1> HIDE DEF in, out
  <1>5. QED
    BY <1>1, <1>3, <1>4 DEF FileFds

\* A component of a table of tables stays if its own value is put there.
LEMMA SameExcept ==
    ASSUME NEW S, NEW T, NEW f, f = [q \in S |-> f[q]], NEW p \in S, NEW x \in T,
           f[p] = [y \in T |-> f[p][y]]
    PROVE  f = [f EXCEPT ![p] = [f[p] EXCEPT ![x] = f[p][x]]]
  OBVIOUS

-----------------------------------------------------------------------------
(* The invariant.                                                           *)

\* A step that changes one row keeps the invariant if it keeps that row's.
LEMMA RowKeepsIInv ==
    ASSUME IInv, NEW p \in ProcIds, active_proc_num' \in ProcIds, Tabular', Row(p)',
           \A q \in ProcIds : q # p =>
              /\ f_descs'[q] = f_descs[q] /\ calls'[q] = calls[q]
              /\ opened'[q] = opened[q] /\ got'[q] = got[q]
              /\ q <= active_proc_num' <=> q <= active_proc_num
    PROVE  IInv'
  <1>1. ASSUME NEW q \in ProcIds, q # p
        PROVE  Row(q)'
    <2>1. Row(q)
      BY DEF IInv
    <2>2. /\ f_descs'[q] = f_descs[q] /\ calls'[q] = calls[q]
          /\ opened'[q] = opened[q] /\ got'[q] = got[q]
          /\ (q <= active_proc_num') = (q <= active_proc_num)
      BY <1>1
    <2>3. QED
      BY <2>1, <2>2, Zenon DEF Row
  <1>2. QED
    BY <1>1 DEF IInv

\* The running process's row.
RunningOK ==
    /\ Running \in ProcIds
    /\ Tabular
    /\ GoodRow(Descs, calls[Running], opened[Running], got[Running], TRUE)

LEMMA RunningFacts == IInv => RunningOK
  <1> SUFFICES ASSUME IInv PROVE RunningOK
    OBVIOUS
  <1>1. Running \in ProcIds /\ Tabular /\ Row(Running)
    BY DEF IInv, Running
  <1>2. (Running <= active_proc_num) = TRUE
    BY <1>1 DEF Running, ProcIds
  <1>3. QED
    BY <1>1, <1>2, Zenon DEF Row, RunningOK, Descs, Running

\* A step of the running process that changes one descriptor, and of its call at
\* most whether it is opening that one.
LEMMA DescKeepsIInv ==
    ASSUME IInv, UNCHANGED active_proc_num, Tabular',
           NEW fd \in FileFds, NEW d \in Desc, NEW c \in Call, NEW o \in HistoryOf, NEW g,
           f_descs' = [f_descs EXCEPT ![Running] = [Descs EXCEPT ![fd] = d]],
           calls' = [calls EXCEPT ![Running] = c],
           opened' = [opened EXCEPT ![Running] = [opened[Running] EXCEPT ![fd] = o]],
           got' = [got EXCEPT ![Running] = [got[Running] EXCEPT ![fd] = g]],
           \A x \in FileFds : x # fd =>
              (c.at = "opening" /\ c.fd = x
                 <=> calls[Running].at = "opening" /\ calls[Running].fd = x),
           GoodDesc(fd, d, c, o, g, TRUE)
    PROVE  IInv'
  <1> DEFINE p == active_proc_num
  <1>1. /\ p \in ProcIds /\ Tabular
        /\ GoodRow(Descs, calls[p], opened[p], got[p], TRUE)
    BY RunningFacts DEF RunningOK, Running
  <1>2. /\ f_descs'[p] = [Descs EXCEPT ![fd] = d]
        /\ calls'[p] = c
        /\ opened'[p] = [opened[p] EXCEPT ![fd] = o]
        /\ got'[p] = [got[p] EXCEPT ![fd] = g]
        /\ \A q \in ProcIds : q # p =>
              /\ f_descs'[q] = f_descs[q] /\ calls'[q] = calls[q]
              /\ opened'[q] = opened[q] /\ got'[q] = got[q]
    BY <1>1, Zenon DEF Tabular, Running
  <1>3. GoodRow(f_descs'[p], c, opened'[p], got'[p], TRUE)
    <2>1. /\ fd \in Fds
          /\ Descs \in [Fds -> Desc]
          /\ opened[p] \in [FileFds -> HistoryOf]
          /\ got[p] = [x \in FileFds |-> got[p][x]]
      BY <1>1 DEF FileFds, GoodRow
    <2>2. /\ f_descs'[p] \in [Fds -> Desc]
          /\ f_descs'[p][fd] = d
          /\ \A x \in Fds : x # fd => f_descs'[p][x] = Descs[x]
      <3>1. Descs = [x \in Fds |-> Descs[x]]
        BY <2>1
      <3>2. QED
        BY <1>2, <2>1, <3>1
    <2>3. /\ opened'[p] \in [FileFds -> HistoryOf]
          /\ opened'[p][fd] = o
          /\ \A x \in FileFds : x # fd => opened'[p][x] = opened[p][x]
      BY <1>2, <2>1
    <2>4. /\ got'[p] = [x \in FileFds |-> got'[p][x]]
          /\ got'[p][fd] = g
          /\ \A x \in FileFds : x # fd => got'[p][x] = got[p][x]
      BY <1>2, <2>1
    <2>5. ASSUME NEW x \in FileFds
          PROVE  GoodDesc(x, f_descs'[p][x], c, opened'[p][x], got'[p][x], TRUE)
      <3>1. CASE x = fd
        BY <2>2, <2>3, <2>4, <3>1, Zenon
      <3>2. CASE x # fd
        <4>1. x \in Fds
          BY DEF FileFds
        <4>2. /\ f_descs'[p][x] = Descs[x] /\ opened'[p][x] = opened[p][x]
              /\ got'[p][x] = got[p][x]
          BY <2>2, <2>3, <2>4, <3>2, <4>1
        <4>3. GoodDesc(x, Descs[x], calls[p], opened[p][x], got[p][x], TRUE)
          BY <1>1 DEF GoodRow
        <4>4. GoodDesc(x, Descs[x], c, opened[p][x], got[p][x], TRUE)
          BY <3>2, <4>3 DEF GoodDesc, Running
        <4>5. QED
          BY <4>2, <4>4, Zenon
      <3>3. QED
        BY <3>1, <3>2
    <2>6. QED
      BY <2>2, <2>3, <2>4, <2>5 DEF GoodRow
  <1>4. Row(p)'
    <2>1. (p <= active_proc_num') = TRUE
      BY <1>1 DEF ProcIds
    <2>2. QED
      BY <1>2, <1>3, <2>1, Zenon DEF Row
  <1>5. QED
    BY <1>1, <1>2, <1>4, RowKeepsIInv, Zenon

\* The initial state.
LEMMA InitIInv == Init => IInv
  <1> SUFFICES ASSUME Init PROVE IInv
    OBVIOUS
  <1>1. active_proc_num \in ProcIds /\ 0 \in Fds /\ 1 \in Fds
    BY SizesAssumption DEF Init, ProcIds, Fds
  <1>2. Blank \in Desc
    BY DEF Blank, Desc, Tables, FLAG_ACTIVE, FLAG_INACTIVE
  <1>3. Started([fd \in Fds |-> Blank]) \in [Fds -> Desc]
    BY <1>1, <1>2 DEF Started, Desc, Tables, FLAG_ACTIVE, FLAG_INACTIVE
  <1>4. \A fd \in FileFds : Started([x \in Fds |-> Blank])[fd] = Blank
    BY <1>1 DEF Started, FileFds
  <1>5. Tabular
    BY DEF Init, Tabular
  <1>6. ASSUME NEW p \in ProcIds
        PROVE  Row(p)
    <2>1. f_descs[p] \in [Fds -> Desc] /\ \A fd \in FileFds : f_descs[p][fd] = Blank
      <3>1. CASE p = 0
        BY <1>3, <1>4, <3>1 DEF Init
      <3>2. CASE p # 0
        BY <1>2, <3>2 DEF Init, FileFds
      <3>3. QED
        BY <3>1, <3>2
    <2>2. /\ calls[p] = InProgram /\ InProgram \in Call
          /\ opened[p] = [fd \in FileFds |-> <<>>] /\ got[p] = [fd \in FileFds |-> <<>>]
      BY DEF Init, NoHistory, Call, InProgram
    <2>3. \A fd \in FileFds :
             GoodDesc(fd, f_descs[p][fd], calls[p], opened[p][fd], got[p][fd],
                      p <= active_proc_num)
      BY <2>1, <2>2 DEF GoodDesc, Blank, InProgram, FLAG_ACTIVE, FLAG_INACTIVE
    <2>4. QED
      BY <2>1, <2>2, <2>3 DEF Row, GoodRow, HistoryOf
  <1>7. QED
    BY <1>1, <1>5, <1>6 DEF IInv

\* What the row says of a descriptor of the running process.
LEMMA DescFacts ==
    ASSUME IInv, NEW fd \in FileFds
    PROVE  /\ Running \in ProcIds
           /\ Tabular
           /\ fd \in Fds
           /\ Descs[fd] \in Desc
           /\ calls[Running] \in Call
           /\ opened[Running][fd] \in HistoryOf
           /\ f_descs[Running] = [x \in Fds |-> f_descs[Running][x]]
           /\ opened[Running] = [x \in FileFds |-> opened[Running][x]]
           /\ got[Running] = [x \in FileFds |-> got[Running][x]]
           /\ GoodDesc(fd, Descs[fd], calls[Running], opened[Running][fd],
                       got[Running][fd], TRUE)
  BY RunningFacts DEF RunningOK, GoodRow, FileFds, Descs

LEMMA OpenTakesKeepsIInv == ASSUME IInv, NEW entry \in Entries, OpenTakes(entry.name)
                            PROVE  IInv'
  <1> DEFINE fd == Min(Free)
             d == Taken(Descs[fd])
             c == [at |-> "opening", fd |-> fd, entry |-> DentryByName(entry.name)]
  <1>1. fd \in Free
    <2>1. Free \subseteq Nat
      BY SizesAssumption DEF Free, Candidates
    <2>2. QED
      BY <2>1, MinFacts DEF OpenTakes
  <1>2. fd \in FileFds /\ f_descs[Running][fd].flags # FLAG_ACTIVE
    BY <1>1, SizesAssumption DEF Free, Candidates, Active, FileFds, Fds
  <1>3. c \in Call /\ c.at = "opening" /\ c.fd = fd
    BY <1>2, DentryFacts DEF Call
  <1>4. calls[Running].at = "user"
    BY DEF OpenTakes, InUser
  <1>5. /\ f_descs' = [f_descs EXCEPT ![Running] = [Descs EXCEPT ![fd] = d]]
        /\ calls' = [calls EXCEPT ![Running] = c]
        /\ UNCHANGED <<active_proc_num, opened, got>>
    BY DEF OpenTakes, Descs
  <1> HIDE DEF fd, c
  <1>6. /\ Running \in ProcIds /\ Tabular
        /\ Descs[fd] \in Desc /\ opened[Running][fd] \in HistoryOf
        /\ opened[Running] = [x \in FileFds |-> opened[Running][x]]
        /\ got[Running] = [x \in FileFds |-> got[Running][x]]
        /\ GoodDesc(fd, Descs[fd], calls[Running], opened[Running][fd],
                    got[Running][fd], TRUE)
    BY <1>2, DescFacts
  <1>7. d \in Desc /\ d.flags = FLAG_ACTIVE /\ d.file_pos = 0
    BY <1>6 DEF Taken, Desc, FLAG_ACTIVE
  <1>8. opened[Running][fd] = <<>>
    BY <1>2, <1>6 DEF GoodDesc, Descs
  <1>9. GoodDesc(fd, d, c, opened[Running][fd], got[Running][fd], TRUE)
    BY <1>3, <1>7, <1>8 DEF GoodDesc
  <1>10. Tabular'
    BY <1>5, <1>6 DEF Tabular
  <1>11. /\ opened' = [opened EXCEPT ![Running] =
                         [opened[Running] EXCEPT ![fd] = opened[Running][fd]]]
         /\ got' = [got EXCEPT ![Running] =
                         [got[Running] EXCEPT ![fd] = got[Running][fd]]]
    BY <1>2, <1>5, <1>6, SameExcept DEF Tabular
  <1>12. \A x \in FileFds : x # fd =>
            (c.at = "opening" /\ c.fd = x
               <=> calls[Running].at = "opening" /\ calls[Running].fd = x)
    BY <1>3, <1>4
  <1> HIDE DEF d
  <1>13. QED
    BY <1>2, <1>3, <1>5, <1>6, <1>7, <1>9, <1>10, <1>11, <1>12, DescKeepsIInv

LEMMA OpenEntersKeepsIInv == ASSUME IInv, OpenEnters PROVE IInv'
  <1> DEFINE fd == calls[Running].fd
             entry == calls[Running].entry
             d == Entered(Descs[fd], entry)
  <1>1. calls[Running] \in Call /\ calls[Running].at = "opening"
    BY RunningFacts DEF RunningOK, GoodRow, OpenEnters
  <1>2. fd \in FileFds /\ entry \in Entries
    BY <1>1 DEF Call
  <1>3. /\ f_descs' = [f_descs EXCEPT ![Running] = [Descs EXCEPT ![fd] = d]]
        /\ calls' = [calls EXCEPT ![Running] = InProgram]
        /\ opened' = [opened EXCEPT ![Running] =
                        [opened[Running] EXCEPT ![fd] = <<entry>>]]
        /\ got' = [got EXCEPT ![Running] = [got[Running] EXCEPT ![fd] = <<>>]]
        /\ UNCHANGED active_proc_num
    BY DEF OpenEnters, Descs
  <1> HIDE DEF fd, entry
  <1>4. /\ Running \in ProcIds /\ Tabular /\ Descs[fd] \in Desc
        /\ GoodDesc(fd, Descs[fd], calls[Running], opened[Running][fd],
                    got[Running][fd], TRUE)
    BY <1>2, DescFacts
  <1>5. /\ Descs[fd].flags = FLAG_ACTIVE
        /\ Descs[fd].file_pos = 0
    BY <1>1, <1>4 DEF GoodDesc, fd
  <1>6. /\ d \in Desc
        /\ d.flags = FLAG_ACTIVE /\ d.file_pos = 0 /\ d.table = entry.type
        /\ entry.type = "file" => d.inode = entry.inode
    BY <1>2, <1>4, <1>5, EntryFacts DEF Entered, Desc, Tables
  <1>7. InProgram \in Call /\ InProgram.at = "user"
    BY DEF InProgram, Call
  <1>8. <<entry>> \in HistoryOf /\ <<entry>> # <<>> /\ <<entry>>[1] = entry
    BY <1>2 DEF HistoryOf
  <1>9. /\ NamesUpTo(0) = <<>> /\ 0 <= Len(dir_entries)
        /\ \A inode : BytesUpTo(inode, 0) = <<>>
        /\ 0 <= inodes[entry.inode].length + 1
    BY <1>2, EntryFacts, ImageAssumption, LenProperties DEF NamesUpTo, BytesUpTo
  <1>10. GoodDesc(fd, d, InProgram, <<entry>>, <<>>, TRUE)
    BY <1>6, <1>7, <1>8, <1>9 DEF GoodDesc
  <1>11. Tabular'
    BY <1>3, <1>4 DEF Tabular
  <1>12. \A x \in FileFds : x # fd =>
            (InProgram.at = "opening" /\ InProgram.fd = x
               <=> calls[Running].at = "opening" /\ calls[Running].fd = x)
    BY <1>7 DEF fd
  <1> HIDE DEF d
  <1>13. QED
    BY <1>2, <1>3, <1>6, <1>7, <1>8, <1>10, <1>11, <1>12, DescKeepsIInv

\* A step that moves the position of an open descriptor, or frees it.
LEMMA CallKeepsIInv ==
    ASSUME IInv, UNCHANGED <<active_proc_num, calls>>,
           NEW fd \in FileFds, NEW d \in Desc, NEW o \in HistoryOf, NEW g,
           f_descs' = [f_descs EXCEPT ![Running] = [Descs EXCEPT ![fd] = d]],
           opened' = [opened EXCEPT ![Running] = [opened[Running] EXCEPT ![fd] = o]],
           got' = [got EXCEPT ![Running] = [got[Running] EXCEPT ![fd] = g]],
           GoodDesc(fd, d, calls[Running], o, g, TRUE)
    PROVE  IInv'
  <1>1. Running \in ProcIds /\ Tabular /\ calls[Running] \in Call
    BY DescFacts
  <1>2. calls' = [calls EXCEPT ![Running] = calls[Running]]
    BY <1>1 DEF Tabular
  <1>3. Tabular'
    BY <1>1 DEF Tabular
  <1>4. QED
    BY <1>1, <1>2, <1>3, DescKeepsIInv

\* A descriptor in use outside open is one that was opened.
LEMMA ActiveFacts ==
    ASSUME IInv, InUser, NEW fd \in Active(Running)
    PROVE  /\ fd \in FileFds
           /\ Descs[fd] \in Desc
           /\ calls[Running].at = "user"
           /\ GoodDesc(fd, Descs[fd], calls[Running], opened[Running][fd],
                       got[Running][fd], TRUE)
           /\ opened[Running][fd] \in HistoryOf
           /\ opened[Running][fd] # <<>>
           /\ opened[Running][fd][1] \in Entries
           /\ opened[Running][fd][1].type = Descs[fd].table
  <1>1. fd \in FileFds /\ Descs[fd].flags = FLAG_ACTIVE /\ calls[Running].at = "user"
    BY DEF Active, InUser, Descs
  <1>2. /\ Descs[fd] \in Desc
        /\ opened[Running][fd] \in HistoryOf
        /\ GoodDesc(fd, Descs[fd], calls[Running], opened[Running][fd],
                    got[Running][fd], TRUE)
    BY <1>1, DescFacts
  <1>3. opened[Running][fd] # <<>>
    BY <1>1, <1>2 DEF GoodDesc
  <1>4. opened[Running][fd][1] \in Entries
    BY <1>2, <1>3 DEF HistoryOf
  <1>5. opened[Running][fd][1].type = Descs[fd].table
    BY <1>2, <1>3 DEF GoodDesc
  <1>6. QED
    BY <1>1, <1>2, <1>3, <1>4, <1>5

LEMMA FileReadKeepsIInv ==
    ASSUME IInv, NEW fd \in FileFds, NEW nbytes \in ReadSizes, FileRead(fd, nbytes)
    PROVE  IInv'
  <1> DEFINE bytes == ReadData(Descs[fd].inode, Descs[fd].file_pos, nbytes)
             d == [Descs[fd] EXCEPT !.file_pos = @ + Len(bytes)]
             o == opened[Running][fd]
             g == got[Running][fd] \o bytes
  <1>1. /\ Descs[fd] \in Desc /\ Descs[fd].table = "file"
        /\ GoodDesc(fd, Descs[fd], calls[Running], o, got[Running][fd], TRUE)
        /\ o \in HistoryOf /\ o # <<>> /\ o[1] \in Entries /\ o[1].type = "file"
    BY ActiveFacts DEF FileRead
  <1>2. Descs[fd].inode = o[1].inode /\ Descs[fd].inode \in DOMAIN inodes
    BY <1>1, EntryFacts DEF GoodDesc
  <1>3. /\ Len(bytes) \in Nat
        /\ Descs[fd].file_pos + Len(bytes) <= inodes[Descs[fd].inode].length + 1
        /\ g = BytesUpTo(Descs[fd].inode, Descs[fd].file_pos + Len(bytes))
    <2>1. /\ Descs[fd].file_pos \in Nat
          /\ Descs[fd].file_pos <= inodes[Descs[fd].inode].length + 1
          /\ got[Running][fd] = BytesUpTo(Descs[fd].inode, Descs[fd].file_pos)
      BY <1>1 DEF GoodDesc, Desc
    <2>2. QED
      BY <1>2, <2>1, ReadDataFacts, Zenon
  <1>4. /\ f_descs' = [f_descs EXCEPT ![Running] = [Descs EXCEPT ![fd] = d]]
        /\ got' = [got EXCEPT ![Running] = [got[Running] EXCEPT ![fd] = g]]
        /\ UNCHANGED <<active_proc_num, calls, opened>>
    BY DEF FileRead, Descs
  <1> HIDE DEF bytes, g
  <1>5. /\ d \in Desc
        /\ d.flags = Descs[fd].flags /\ d.table = "file" /\ d.inode = Descs[fd].inode
        /\ d.file_pos = Descs[fd].file_pos + Len(bytes)
    BY <1>1, <1>3 DEF Desc
  <1>6. GoodDesc(fd, d, calls[Running], o, g, TRUE)
    <2>1. d.file_pos <= inodes[d.inode].length + 1 /\ g = BytesUpTo(d.inode, d.file_pos)
      BY <1>3, <1>5
    <2> HIDE DEF d, o
    <2>2. QED
      BY <1>1, <1>2, <1>5, <2>1 DEF GoodDesc
  <1>7. opened' = [opened EXCEPT ![Running] = [opened[Running] EXCEPT ![fd] = o]]
    BY <1>4, DescFacts, SameExcept DEF Tabular
  <1> HIDE DEF d, o
  <1>8. QED
    BY <1>1, <1>4, <1>5, <1>6, <1>7, CallKeepsIInv

LEMMA DirReadKeepsIInv == ASSUME IInv, NEW fd \in FileFds, DirRead(fd) PROVE IInv'
  <1> DEFINE n == Descs[fd].file_pos
             d == [Descs[fd] EXCEPT !.file_pos = @ + 1]
             o == opened[Running][fd]
             g == Append(got[Running][fd], dir_entries[n + 1].name)
  <1>1. /\ Descs[fd] \in Desc /\ Descs[fd].table = "dir"
        /\ GoodDesc(fd, Descs[fd], calls[Running], o, got[Running][fd], TRUE)
        /\ o \in HistoryOf /\ o # <<>> /\ o[1].type = "dir"
        /\ calls[Running].at = "user"
        /\ n < Len(dir_entries)
    BY ActiveFacts DEF DirRead
  <1>2. n \in Nat /\ Len(dir_entries) \in Nat
    BY <1>1, ImageAssumption, LenProperties DEF Desc
  <1>3. /\ f_descs' = [f_descs EXCEPT ![Running] = [Descs EXCEPT ![fd] = d]]
        /\ got' = [got EXCEPT ![Running] = [got[Running] EXCEPT ![fd] = g]]
        /\ UNCHANGED <<active_proc_num, calls, opened>>
    BY DEF DirRead, Descs
  <1>4. g = NamesUpTo(n + 1)
    BY <1>1, <1>2, NextName DEF GoodDesc
  <1>5. /\ d \in Desc
        /\ d.flags = Descs[fd].flags /\ d.table = "dir" /\ d.file_pos = n + 1
    BY <1>1, <1>2 DEF Desc
  <1> HIDE DEF d, g, n
  <1>6. n + 1 <= Len(dir_entries)
    BY <1>1, <1>2
  <1>7. GoodDesc(fd, d, calls[Running], o, g, TRUE)
    BY <1>1, <1>4, <1>5, <1>6 DEF GoodDesc
  <1>8. opened' = [opened EXCEPT ![Running] = [opened[Running] EXCEPT ![fd] = o]]
    BY <1>3, DescFacts, SameExcept DEF Tabular
  <1> HIDE DEF o
  <1>9. QED
    BY <1>1, <1>3, <1>5, <1>7, <1>8, CallKeepsIInv

LEMMA DirReadEndsKeepsIInv == ASSUME IInv, NEW fd \in FileFds, DirReadEnds(fd) PROVE IInv'
  <1> DEFINE d == [Descs[fd] EXCEPT !.file_pos = FirstName]
             o == opened[Running][fd]
  <1>1. /\ Descs[fd] \in Desc /\ Descs[fd].table = "dir"
        /\ GoodDesc(fd, Descs[fd], calls[Running], o, got[Running][fd], TRUE)
        /\ o \in HistoryOf /\ o # <<>> /\ o[1].type = "dir"
        /\ calls[Running].at = "user"
    BY ActiveFacts DEF DirReadEnds
  <1>2. /\ f_descs' = [f_descs EXCEPT ![Running] = [Descs EXCEPT ![fd] = d]]
        /\ got' = [got EXCEPT ![Running] = [got[Running] EXCEPT ![fd] = <<>>]]
        /\ UNCHANGED <<active_proc_num, calls, opened>>
    BY DEF DirReadEnds, Descs
  <1>3. NamesUpTo(0) = <<>> /\ 0 <= Len(dir_entries)
    BY ImageAssumption, LenProperties DEF NamesUpTo
  <1>4. d \in Desc /\ d.flags = Descs[fd].flags /\ d.table = "dir" /\ d.file_pos = 0
    BY <1>1 DEF Desc, FirstName
  <1>5. GoodDesc(fd, d, calls[Running], o, <<>>, TRUE)
    BY <1>1, <1>3, <1>4 DEF GoodDesc
  <1>6. opened' = [opened EXCEPT ![Running] = [opened[Running] EXCEPT ![fd] = o]]
    BY <1>2, DescFacts, SameExcept DEF Tabular
  <1> HIDE DEF d, o
  <1>7. QED
    BY <1>1, <1>2, <1>4, <1>5, <1>6, CallKeepsIInv

LEMMA CloseKeepsIInv == ASSUME IInv, NEW fd \in FileFds, Close(fd) PROVE IInv'
  <1> DEFINE d == [Descs[fd] EXCEPT !.flags = FLAG_INACTIVE]
  <1>1. Descs[fd] \in Desc /\ calls[Running].at = "user"
    BY ActiveFacts DEF Close
  <1>2. /\ f_descs' = [f_descs EXCEPT ![Running] = [Descs EXCEPT ![fd] = d]]
        /\ opened' = [opened EXCEPT ![Running] = [opened[Running] EXCEPT ![fd] = <<>>]]
        /\ got' = [got EXCEPT ![Running] = [got[Running] EXCEPT ![fd] = <<>>]]
        /\ UNCHANGED <<active_proc_num, calls>>
    BY DEF Close, Descs
  <1>3. d \in Desc /\ d.flags # FLAG_ACTIVE
    BY <1>1 DEF Desc, FLAG_ACTIVE, FLAG_INACTIVE
  <1>4. GoodDesc(fd, d, calls[Running], <<>>, <<>>, TRUE)
    BY <1>1, <1>3 DEF GoodDesc
  <1>5. <<>> \in HistoryOf
    BY DEF HistoryOf
  <1> HIDE DEF d
  <1>6. QED
    BY <1>2, <1>3, <1>4, <1>5, CallKeepsIInv

\* execute finds the next slot without a descriptor in use.
LEMMA ExecuteKeepsIInv == ASSUME IInv, Execute PROVE IInv'
  <1>1. PICK p \in ProcIds : p = active_proc_num + 1
    BY DEF Execute, Running
  <1>2. /\ Tabular /\ Row(p)
        /\ active_proc_num \in Int /\ p \in Int
        /\ active_proc_num' = p /\ f_descs' = [f_descs EXCEPT ![p] = Started(@)]
        /\ UNCHANGED <<calls, opened, got>>
    BY <1>1 DEF IInv, Execute, Running, ProcIds
  <1>3. /\ GoodRow(f_descs[p], calls[p], opened[p], got[p], FALSE)
        /\ 0 \in Fds /\ 1 \in Fds
    <2>1. (p <= active_proc_num) = FALSE
      BY <1>1, <1>2
    <2>2. 0 \in Fds /\ 1 \in Fds
      BY SizesAssumption DEF Fds
    <2>3. QED
      BY <1>2, <2>1, <2>2, Zenon DEF Row
  <1>4. /\ f_descs'[p] = Started(f_descs[p])
        /\ \A q \in ProcIds : q # p => f_descs'[q] = f_descs[q]
    BY <1>2, Zenon DEF Tabular
  <1>5. /\ f_descs'[p] \in [Fds -> Desc]
        /\ \A fd \in FileFds : f_descs'[p][fd] = f_descs[p][fd]
    <2>1. f_descs[p] \in [Fds -> Desc]
      BY <1>3 DEF GoodRow
    <2>2. QED
      BY <1>4, <2>1, StartedFacts
  <1>6. \A fd \in FileFds :
           GoodDesc(fd, f_descs'[p][fd], calls[p], opened[p][fd], got[p][fd], TRUE)
    BY <1>3, <1>5 DEF GoodRow, GoodDesc
  <1>7. Row(p)'
    <2>1. (p <= active_proc_num') = TRUE
      BY <1>2
    <2>2. GoodRow(f_descs'[p], calls[p], opened[p], got[p], TRUE)
      BY <1>3, <1>5, <1>6 DEF GoodRow
    <2>3. GoodRow(f_descs'[p], calls'[p], opened'[p], got'[p], TRUE)
      BY <1>2, <2>2
    <2>4. QED
      BY <2>1, <2>3, Zenon DEF Row
  <1>8. Tabular'
    BY <1>2 DEF Tabular
  <1>9. \A q \in ProcIds : q # p => (q <= active_proc_num' <=> q <= active_proc_num)
    BY <1>1, <1>2 DEF ProcIds
  <1>10. QED
    BY <1>2, <1>4, <1>7, <1>8, <1>9, RowKeepsIInv

\* halt leaves none of its descriptors in use.
LEMMA HaltKeepsIInv == ASSUME IInv, Halt PROVE IInv'
  <1> DEFINE left == [fd \in Fds |-> Closed(fd, Descs[fd])]
  <1>1. PICK p \in ProcIds : p = active_proc_num
    BY DEF IInv
  <1>2. /\ Tabular
        /\ GoodRow(Descs, calls[p], opened[p], got[p], TRUE)
        /\ p \in Int
    <2>1. p = Running /\ p \in Int
      BY <1>1 DEF Running, ProcIds
    <2>2. QED
      BY <2>1, RunningFacts, Zenon DEF RunningOK
  <1>3. left \in [Fds -> Desc] /\ \A fd \in FileFds : left[fd].flags = FLAG_INACTIVE
    <2>1. Descs \in [Fds -> Desc]
      BY <1>2 DEF GoodRow
    <2>2. ASSUME NEW fd \in Fds
          PROVE  /\ Closed(fd, Descs[fd]) \in Desc
                 /\ fd \in FileFds => Closed(fd, Descs[fd]).flags = FLAG_INACTIVE
      <3>1. Descs[fd] \in Desc
        BY <2>1
      <3>2. QED
        BY <3>1 DEF Closed, Desc, Tables, FLAG_INACTIVE
    <2>3. QED
      BY <2>2 DEF FileFds
  <1>4. /\ f_descs' = [f_descs EXCEPT ![p] = IF p = 0 THEN Started(left) ELSE left]
        /\ active_proc_num' = IF p = 0 THEN 0 ELSE p - 1
        /\ calls' = [calls EXCEPT ![p] = InProgram]
        /\ opened' = [opened EXCEPT ![p] = NoHistory]
        /\ got' = [got EXCEPT ![p] = NoHistory]
    BY <1>1 DEF Halt, Running
  <1> HIDE DEF left
  <1>5. /\ calls'[p] = InProgram /\ opened'[p] = NoHistory /\ got'[p] = NoHistory
        /\ f_descs'[p] = IF p = 0 THEN Started(left) ELSE left
        /\ \A q \in ProcIds : q # p => /\ f_descs'[q] = f_descs[q]
                                       /\ calls'[q] = calls[q]
                                       /\ opened'[q] = opened[q]
                                       /\ got'[q] = got[q]
    BY <1>2, <1>4, Zenon DEF Tabular
  <1>6. /\ f_descs'[p] \in [Fds -> Desc]
        /\ \A fd \in FileFds : f_descs'[p][fd].flags = FLAG_INACTIVE
    <2>1. /\ Started(left) \in [Fds -> Desc]
          /\ \A fd \in FileFds : Started(left)[fd] = left[fd]
      BY <1>3, StartedFacts
    <2>2. QED
      BY <1>3, <1>5, <2>1
  <1>7. \A live \in BOOLEAN : GoodRow(f_descs'[p], InProgram, NoHistory, NoHistory, live)
    <2>1. InProgram \in Call /\ NoHistory \in [FileFds -> HistoryOf]
      BY DEF InProgram, Call, NoHistory, HistoryOf
    <2>2. \A live \in BOOLEAN, fd \in FileFds :
             GoodDesc(fd, f_descs'[p][fd], InProgram, NoHistory[fd], NoHistory[fd], live)
      BY <1>6 DEF GoodDesc, InProgram, NoHistory, FLAG_ACTIVE, FLAG_INACTIVE
    <2>3. NoHistory = [fd \in FileFds |-> NoHistory[fd]]
      BY DEF NoHistory
    <2>4. QED
      BY <1>6, <2>1, <2>2, <2>3 DEF GoodRow
  <1>8. Row(p)'
    <2>1. (p <= active_proc_num') \in BOOLEAN
      OBVIOUS
    <2>2. QED
      BY <1>5, <1>7, <2>1, Zenon DEF Row
  <1>9. Tabular'
    BY <1>2, <1>4 DEF Tabular
  <1>10. \A q \in ProcIds : q # p => (q <= active_proc_num' <=> q <= active_proc_num)
    BY <1>1, <1>2, <1>4 DEF ProcIds
  <1>11. active_proc_num' \in ProcIds
    BY <1>1, <1>4, SizesAssumption DEF ProcIds
  <1>12. QED
    BY <1>5, <1>8, <1>9, <1>10, <1>11, RowKeepsIInv

\* Every step keeps the invariant.
LEMMA NextKeepsIInv == IInv /\ [Next]_vars => IInv'
  <1> SUFFICES ASSUME IInv, [Next]_vars PROVE IInv'
    OBVIOUS
  <1>1. CASE UNCHANGED vars
    <2>1. UNCHANGED <<f_descs, active_proc_num, calls, opened, got>>
      BY <1>1 DEF vars
    <2>2. Tabular'
      BY <2>1 DEF IInv, Tabular
    <2>3. \A p \in ProcIds : Row(p)'
      BY <2>1 DEF IInv, Row
    <2>4. QED
      BY <2>1, <2>2, <2>3 DEF IInv
  <1>2. CASE Next
    BY <1>2, OpenTakesKeepsIInv, OpenEntersKeepsIInv, FileReadKeepsIInv, DirReadKeepsIInv,
       DirReadEndsKeepsIInv, CloseKeepsIInv, ExecuteKeepsIInv, HaltKeepsIInv DEF Next
  <1>3. QED
    BY <1>1, <1>2

\* The invariant holds in every reachable state.
THEOREM Invariance == Spec => []IInv
  BY InitIInv, NextKeepsIInv, PTL DEF Spec

-----------------------------------------------------------------------------
(* The theorems.                                                            *)

\* Every variable stays in its type.
THEOREM TypeCorrect == Spec => []TypeOK
  <1>1. IInv => TypeOK
    BY DEF IInv, Tabular, Row, GoodRow, TypeOK
  <1>2. QED
    BY <1>1, Invariance, PTL

\* A descriptor is in use exactly if its process has opened it and not closed it.
\* (open, close, halt, execute)
THEOREM InUseIsOpenedCorrect == Spec => []InUseIsOpened
  <1>1. IInv => InUseIsOpened
    <2> SUFFICES ASSUME IInv, NEW p \in ProcIds
                 PROVE  /\ Active(p) \ Opening(p) = {fd \in FileFds : opened[p][fd] # <<>>}
                        /\ p > active_proc_num => Active(p) = {}
      BY DEF InUseIsOpened
    <2>1. \A fd \in FileFds : GoodDesc(fd, f_descs[p][fd], calls[p], opened[p][fd],
                                          got[p][fd], p <= active_proc_num)
      <3>1. Row(p) /\ active_proc_num \in ProcIds
        BY DEF IInv
      <3>2. QED
        BY <3>1, Zenon DEF Row, GoodRow, ProcIds
    <2>2. \A fd \in FileFds : fd \in Active(p) \ Opening(p) <=> opened[p][fd] # <<>>
      BY <2>1 DEF GoodDesc, Active, Opening
    <2>3. p > active_proc_num => \A fd \in FileFds : fd \notin Active(p)
      <3>1. p \in Int /\ active_proc_num \in Int
        BY DEF IInv, ProcIds
      <3>2. QED
        BY <2>1, <3>1 DEF GoodDesc, Active, FLAG_ACTIVE, FLAG_INACTIVE
    <2>4. QED
      BY <2>2, <2>3 DEF Active
  <1>2. QED
    BY <1>1, Invariance, PTL

\* A descriptor leads to the file it was opened for, whatever its slot was used for
\* before.  (open)
THEOREM LeadsToItsFileCorrect == Spec => []LeadsToItsFile
  <1>1. IInv => LeadsToItsFile
    BY DEF IInv, Row, GoodRow, GoodDesc, LeadsToItsFile
  <1>2. QED
    BY <1>1, Invariance, PTL

\* However the reads of a file are cut and whatever else is opened, read and closed
\* in between, they deliver its bytes once each and in order, and at most one thing
\* more.  (read_data, file_read)
THEOREM FileReadInOrderCorrect == Spec => []FileReadInOrder
  <1>1. IInv => FileReadInOrder
    <2> SUFFICES ASSUME IInv, NEW p \in ProcIds, NEW fd \in FileFds, opened[p][fd] # <<>>,
                        f_descs[p][fd].table = "file"
                 PROVE  LET inode == f_descs[p][fd].inode
                            bytes == got[p][fd]
                        IN  /\ Len(bytes) = f_descs[p][fd].file_pos
                            /\ Len(bytes) <= inodes[inode].length + 1
                            /\ \A k \in 1..Min({Len(bytes), inodes[inode].length}) :
                                  bytes[k] = ByteOfFile(inode, k - 1)
      BY DEF FileReadInOrder
    <2> DEFINE d == f_descs[p][fd]
               n == d.file_pos
               length == inodes[d.inode].length
    <2>1. /\ d \in Desc /\ n \in Nat
          /\ opened[p][fd] \in HistoryOf
          /\ opened[p][fd][1].type = "file" /\ d.inode = opened[p][fd][1].inode
          /\ n <= length + 1 /\ got[p][fd] = BytesUpTo(d.inode, n)
      <3>1. /\ Row(p) /\ fd \in Fds
        BY DEF IInv, FileFds
      <3>2. /\ d \in Desc /\ opened[p][fd] \in HistoryOf
            /\ GoodDesc(fd, d, calls[p], opened[p][fd], got[p][fd], p <= active_proc_num)
        BY <3>1 DEF Row, GoodRow
      <3>3. QED
        BY <3>2 DEF GoodDesc, Desc
    <2>2. length \in Nat
      BY <2>1, EntryFacts DEF HistoryOf
    <2> HIDE DEF d, n, length
    <2>3. Len(BytesUpTo(d.inode, n)) = n
      BY <2>1 DEF BytesUpTo
    <2>4. ASSUME NEW k \in 1..Min({n, length})
          PROVE  k \in 1..n
      <3> DEFINE S == {n, length}
      <3>1. S \subseteq Nat /\ S # {} /\ n \in S
        BY <2>1, <2>2
      <3>2. Min(S) \in S /\ Min(S) <= n
        BY <3>1, MinFacts, Zenon
      <3>3. QED
        BY <2>1, <2>2, <3>2
    <2>5. QED
      BY <2>1, <2>3, <2>4 DEF BytesUpTo, d, n, length
  <1>2. QED
    BY <1>1, Invariance, PTL

\* Between two ends a directory's reader is given every name once, in order.
\* (dir_read, read_dentry_by_index)
THEOREM DirReadListsAllCorrect == Spec => DirReadListsAll
  <1> DEFINE All == \A fd \in FileFds : DirReadEnds(fd) =>
                       got[Running][fd] = [i \in 1..Len(dir_entries) |-> dir_entries[i].name]
  <1>1. IInv /\ [Next]_vars => [All]_vars
    <2> SUFFICES ASSUME IInv, NEW fd \in FileFds, DirReadEnds(fd)
                 PROVE  got[Running][fd] = NamesUpTo(Len(dir_entries))
      BY DEF NamesUpTo
    <2>1. /\ Descs[fd] \in Desc
          /\ Descs[fd].file_pos <= Len(dir_entries)
          /\ got[Running][fd] = NamesUpTo(Descs[fd].file_pos)
      BY ActiveFacts DEF DirReadEnds, GoodDesc
    <2>2. Descs[fd].file_pos = Len(dir_entries)
      BY <2>1, ImageAssumption, LenProperties DEF DirReadEnds, Desc
    <2>3. QED
      BY <2>1, <2>2
  <1>2. QED
    BY <1>1, Invariance, PTL DEF Spec, DirReadListsAll
=============================================================================
