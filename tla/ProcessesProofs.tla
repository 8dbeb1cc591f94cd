-------------------------- MODULE ProcessesProofs ---------------------------
(***************************************************************************)
(* Proofs about Processes, for every number of process slots, terminals,   *)
(* programs and status values.                                             *)
(***************************************************************************)
EXTENDS Processes, TLAPS, SequenceTheorems

-----------------------------------------------------------------------------
(* Kernel stacks as sequences of frames.                                    *)

\* A stack after an entry: one more frame, those below as they were.
LEMMA PushFacts ==
    ASSUME NEW s \in Seq(Frame), NEW frame \in Frame
    PROVE  LET t == Append(s, frame)
           IN  /\ t \in Seq(Frame)
               /\ t # <<>>
               /\ Len(t) = Len(s) + 1
               /\ \A i \in 1..Len(s) : t[i] = s[i]
               /\ t[Len(t)] = frame
  BY AppendProperties

\* A stack whose last frame moves on.
LEMMA WithTopFacts ==
    ASSUME NEW s \in Seq(Frame), s # <<>>, NEW frame \in Frame
    PROVE  LET t == WithTop(s, frame)
           IN  /\ t \in Seq(Frame)
               /\ t # <<>>
               /\ Len(t) = Len(s)
               /\ \A i \in 1..Len(s) : i # Len(s) => t[i] = s[i]
               /\ t[Len(s)] = frame
  BY ExceptSeq, EmptySeq DEF WithTop, ReplaceAt

\* A stack whose last frame ends.
LEMMA PopFacts ==
    ASSUME NEW s \in Seq(Frame), s # <<>>
    PROVE  LET t == Front(s)
           IN  /\ t \in Seq(Frame)
               /\ Len(t) = Len(s) - 1
               /\ \A i \in 1..Len(t) : t[i] = s[i]
  <1> DEFINE n == Len(s) - 1
  <1>1. n \in Nat
    BY EmptySeq
  <1>2. \A i \in 1..n : s[i] \in Frame
    BY <1>1, ElementOfSeq
  <1>3. /\ SubSeq(s, 1, n) \in Seq(Frame)
        /\ Len(SubSeq(s, 1, n)) = IF 1 <= n THEN n - 1 + 1 ELSE 0
        /\ \A i \in 1..(n - 1 + 1) : SubSeq(s, 1, n)[i] = s[1 + i - 1]
    <2> HIDE DEF n
    <2>1. QED
      BY <1>1, <1>2, SubSeqProperties
  <1>4. Len(SubSeq(s, 1, n)) = n
    <2> HIDE DEF n
    <2>1. QED
      BY <1>1, <1>3
  <1>5. \A i \in 1..n : SubSeq(s, 1, n)[i] = s[i]
    <2> HIDE DEF n
    <2>1. QED
      BY <1>1, <1>3
  <1>6. QED
    BY <1>3, <1>4, <1>5 DEF Front

\* The resumed stack is the suspended one with its last frame moved on, when
\* the saved depth is its length.
LEMMA ContinuedFacts ==
    ASSUME NEW s \in Seq(Frame), s # <<>>, NEW status
    PROVE  Continued(s, Len(s), status) = WithTop(s, ReturnedFrame(s[Len(s)], status))
  <1>1. SubSeq(s, 1, Len(s)) = s
    BY SubSeqFull
  <1>2. QED
    BY <1>1 DEF Continued, WithTop

\* The last frame of a stack in use.
LEMMA LastFacts ==
    ASSUME NEW s \in Seq(Frame), s # <<>>
    PROVE  /\ Len(s) \in Nat \ {0}
           /\ Last(s) = s[Len(s)]
           /\ Last(s) \in Frame
  BY EmptySeq, ElementOfSeq DEF Last

-----------------------------------------------------------------------------
(* The process table.                                                       *)

\* With the processes 0..a active, gen_new_proc_id gives slot a + 1 when the
\* table has room.
LEMMA NextSlot ==
    ASSUME TypeOK, TableIsStack, FreeSlots(proc_id_flags) # {}
    PROVE  /\ active_proc_num + 1 \in ProcIds
           /\ NewProcId(proc_id_flags) = active_proc_num + 1
  <1> DEFINE free == FreeSlots(proc_id_flags)
             next == active_proc_num + 1
  <1>1. \A p \in ProcIds : p \in free <=> p > active_proc_num
    BY DEF TypeOK, TableIsStack, FreeSlots, ProcIds, FLAG_ACTIVE, FLAG_INACTIVE
  <1>2. PICK q \in ProcIds : q \in free
    BY DEF FreeSlots
  <1>3. next \in ProcIds /\ next \in free
    BY <1>1, <1>2, SizesAssumption DEF TypeOK, ProcIds
  <1>4. \A p \in free : p \in ProcIds /\ next <= p
    BY <1>1, SizesAssumption DEF FreeSlots, TypeOK, ProcIds
  <1>5. \A p \in free : (\A r \in free : p <= r) => p = next
    BY <1>3, <1>4, SizesAssumption DEF ProcIds
  <1>6. (CHOOSE p \in free : \A r \in free : p <= r) = next
    <2> HIDE DEF free, next
    <2>1. QED
      BY <1>3, <1>4, <1>5
  <1>7. QED
    BY <1>3, <1>6 DEF NewProcId, LowestFree

\* When process 0 halts, its own slot is the one its replacement gets.
LEMMA FirstSlot ==
    ASSUME TypeOK, active_proc_num = 0
    PROVE  NewProcId(FlagsCleared) = 0
  <1> DEFINE free == FreeSlots(FlagsCleared)
  <1>1. 0 \in ProcIds
    BY SizesAssumption DEF ProcIds
  <1>2. 0 \in free
    BY <1>1 DEF FreeSlots, FlagsCleared, TypeOK
  <1>3. \A p \in free : p \in Nat
    BY DEF FreeSlots, ProcIds
  <1>4. \A p \in free : (\A r \in free : p <= r) => p = 0
    BY <1>2, <1>3
  <1>5. (CHOOSE p \in free : \A r \in free : p <= r) = 0
    <2> HIDE DEF free
    <2>1. QED
      BY <1>2, <1>3, <1>4
  <1>6. QED
    BY <1>5 DEF NewProcId, LowestFree

-----------------------------------------------------------------------------
(* The inductive invariant.  ParentIsCaller is not inductive alone: that a   *)
(* suspended stack is still as long as when esp was saved depends on the     *)
(* processor never being on it, and the slot below being the caller's        *)
(* depends on the table being a stack.                                       *)

IInv ==
    /\ TypeOK
    /\ TableIsStack
    /\ OneCurrentProcess
    /\ ParentIsCaller
    /\ FramesInOrder

\* Frames that an entry into the kernel pushes.
EntryFrame(frame) ==
    /\ frame \in Frame
    /\ frame.at \notin Waiting \cup {"answer"}
    /\ frame.at = "execute" => InUser
    /\ frame.at = "halt" => frame.val \in Statuses
    /\ frame.at = "exception" => frame.val = EXCEPT_RETVAL

\* The initial state satisfies the invariant.
LEMMA InitIInv == Init => IInv
  <1> SUFFICES ASSUME Init PROVE IInv
    OBVIOUS
  <1>1. 0 \in ProcIds /\ 0 \in Terminals
    BY SizesAssumption DEF ProcIds, Terminals
  <1>2. TypeOK
    <2>1. pcb \in [ProcIds -> PCB]
      BY <1>1 DEF Init, PCB, Context
    <2>2. QED
      BY <1>1, <2>1, ProgramsAssumption, EmptySeq
      DEF Init, TypeOK, FLAG_ACTIVE, FLAG_INACTIVE
  <1>3. TableIsStack
    BY DEF Init, TableIsStack, FLAG_ACTIVE, FLAG_INACTIVE, ProcIds
  <1>4. OneCurrentProcess
    BY <1>1 DEF Init, OneCurrentProcess, ProcIds
  <1>5. ParentIsCaller
    BY DEF Init, ParentIsCaller, ProcIds
  <1>6. FramesInOrder
    BY EmptySeq DEF Init, FramesInOrder
  <1>7. QED
    BY <1>2, <1>3, <1>4, <1>5, <1>6 DEF IInv

\* What happens on the running process's own stack leaves every suspended
\* process to its caller.
LEMMA OwnStackKeepsParents ==
    ASSUME IInv, UNCHANGED <<active_proc_num, pcb>>,
           \A p \in ProcIds : p # active_proc_num => kstack'[p] = kstack[p]
    PROVE  ParentIsCaller'
  <1>1. \A p \in ProcIds : 0 < p /\ p <= active_proc_num
           => p - 1 \in ProcIds /\ p - 1 # active_proc_num
    BY SizesAssumption DEF IInv, TypeOK, ProcIds
  <1>2. \A p \in ProcIds : 0 < p /\ p <= active_proc_num => kstack'[p - 1] = kstack[p - 1]
    BY <1>1
  <1>3. QED
    BY <1>2 DEF IInv, ParentIsCaller

\* An entry into the kernel keeps the invariant.
LEMMA EnterKeepsIInv ==
    ASSUME IInv, NEW frame, EntryFrame(frame), Enter(frame),
           is_in_use_flag' \in [Terminals -> BOOLEAN], cur_term_id' \in Terminals
    PROVE  IInv'
  <1> DEFINE a == active_proc_num
             s == kstack[a]
             t == Append(s, frame)
  <1>1. /\ a \in ProcIds /\ esp = a
        /\ s \in Seq(Frame) /\ frame \in Frame
    BY DEF IInv, TypeOK, OneCurrentProcess, EntryFrame
  <1>2. /\ t \in Seq(Frame)
        /\ Len(t) = Len(s) + 1
        /\ \A i \in 1..Len(s) : t[i] = s[i]
        /\ t[Len(s) + 1] = frame
    BY <1>1, PushFacts
  <1>3. /\ kstack' \in [ProcIds -> Seq(Frame)]
        /\ kstack'[a] = t
        /\ \A p \in ProcIds : p # a => kstack'[p] = kstack[p]
    BY <1>1, <1>2 DEF Enter, IInv, TypeOK
  <1>4. TypeOK'
    BY <1>3 DEF IInv, TypeOK, Enter
  <1>5. TableIsStack' /\ OneCurrentProcess'
    BY DEF IInv, TableIsStack, OneCurrentProcess, Enter
  <1>6. ParentIsCaller'
    BY <1>3, OwnStackKeepsParents DEF Enter
  <1>7. FramesInOrder'
    <2> SUFFICES ASSUME NEW p \in ProcIds, NEW i \in 1..Len(kstack'[p])
                 PROVE  /\ p > a => kstack'[p] = <<>>
                        /\ LET f == kstack'[p][i]
                           IN  /\ f.at \in Waiting => p < a /\ i = Len(kstack'[p])
                               /\ f.at \in {"execute", "answer"} => i = 1
                               /\ f.at = "wait_syscall" => i = 1
                               /\ f.at = "halt" => f.val \in Statuses
                               /\ f.at = "exception" => f.val = EXCEPT_RETVAL
      BY <1>1, <1>3 DEF FramesInOrder, Enter, IInv, ProcIds
    <2>1. CASE p # a
      BY <1>3, <2>1 DEF IInv, FramesInOrder
    <2>2. CASE p = a /\ i \in 1..Len(s)
      BY <1>1, <1>2, <1>3, <2>2 DEF IInv, FramesInOrder, ProcIds
    <2>3. CASE p = a /\ i = Len(s) + 1
      BY <1>1, <1>2, <1>3, <2>3, EmptySeq
      DEF EntryFrame, Waiting, InUser, ProcIds
    <2>4. QED
      BY <1>1, <1>2, <1>3, <2>1, <2>2, <2>3, LenProperties
  <1>8. QED
    BY <1>4, <1>5, <1>6, <1>7 DEF IInv

\* The top frame of the running process's stack moves on without a switch.
LEMMA TopMovesKeepsIInv ==
    ASSUME IInv, ~InUser, NEW frame \in Frame,
           frame.at \in {"answer", "launched"},
           frame.at = "answer" => Len(kstack[esp]) = 1,
           kstack' = [kstack EXCEPT ![esp] = WithTop(@, frame)],
           UNCHANGED <<proc_id_flags, active_proc_num, pcb, esp, esp0, user_img, page,
                       is_in_use_flag, cur_term_id>>
    PROVE  IInv'
  <1> DEFINE a == active_proc_num
             s == kstack[a]
             t == WithTop(s, frame)
  <1>1. a \in ProcIds /\ esp = a /\ s \in Seq(Frame) /\ s # <<>>
    BY DEF IInv, TypeOK, OneCurrentProcess, InUser
  <1>2. /\ t \in Seq(Frame)
        /\ Len(t) = Len(s)
        /\ \A i \in 1..Len(s) : i # Len(s) => t[i] = s[i]
        /\ t[Len(s)] = frame
    BY <1>1, WithTopFacts, Zenon
  <1>3. /\ kstack' \in [ProcIds -> Seq(Frame)]
        /\ kstack'[a] = t
        /\ \A p \in ProcIds : p # a => kstack'[p] = kstack[p]
    BY <1>1, <1>2 DEF IInv, TypeOK
  <1>4. TypeOK'
    BY <1>3 DEF IInv, TypeOK
  <1>5. TableIsStack' /\ OneCurrentProcess'
    BY DEF IInv, TableIsStack, OneCurrentProcess
  <1>6. ParentIsCaller'
    BY <1>3, OwnStackKeepsParents
  <1>7. FramesInOrder'
    <2> SUFFICES ASSUME NEW p \in ProcIds, NEW i \in 1..Len(kstack'[p])
                 PROVE  /\ p > a => kstack'[p] = <<>>
                        /\ LET f == kstack'[p][i]
                           IN  /\ f.at \in Waiting => p < a /\ i = Len(kstack'[p])
                               /\ f.at \in {"execute", "answer"} => i = 1
                               /\ f.at = "wait_syscall" => i = 1
                               /\ f.at = "halt" => f.val \in Statuses
                               /\ f.at = "exception" => f.val = EXCEPT_RETVAL
      BY <1>1, <1>3 DEF FramesInOrder, IInv, ProcIds
    <2>1. CASE p # a
      BY <1>3, <2>1 DEF IInv, FramesInOrder
    <2>2. CASE p = a /\ i # Len(s)
      BY <1>1, <1>2, <1>3, <2>2 DEF IInv, FramesInOrder, ProcIds
    <2>3. CASE p = a /\ i = Len(s)
      BY <1>1, <1>2, <1>3, <2>3 DEF Waiting, ProcIds
    <2>4. QED
      BY <2>1, <2>2, <2>3
  <1>8. QED
    BY <1>4, <1>5, <1>6, <1>7 DEF IInv

\* A system call or a handler that ends keeps the invariant.
LEMMA LeaveKeepsIInv ==
    ASSUME IInv, ~InUser, Leave
    PROVE  IInv'
  <1> DEFINE a == active_proc_num
             s == kstack[a]
             t == Front(s)
  <1>1. /\ a \in ProcIds /\ esp = a /\ esp0 = a
        /\ s \in Seq(Frame) /\ s # <<>>
    BY DEF IInv, TypeOK, OneCurrentProcess, InUser
  <1>2. /\ t \in Seq(Frame)
        /\ Len(t) = Len(s) - 1
        /\ \A i \in 1..Len(t) : t[i] = s[i]
    <2> HIDE DEF s
    <2>1. QED
      BY <1>1, PopFacts
  <1>3. /\ kstack' = [kstack EXCEPT ![a] = t]
        /\ esp' = a
    BY <1>1 DEF Leave, IInv, TypeOK
  <1>4. /\ kstack' \in [ProcIds -> Seq(Frame)]
        /\ kstack'[a] = t
        /\ \A p \in ProcIds : p # a => kstack'[p] = kstack[p]
    BY <1>1, <1>2, <1>3 DEF IInv, TypeOK
  <1>5. TypeOK'
    BY <1>1, <1>3, <1>4 DEF IInv, TypeOK, Leave
  <1>6. TableIsStack' /\ OneCurrentProcess'
    BY <1>1, <1>3 DEF IInv, TableIsStack, OneCurrentProcess, Leave
  <1>7. ParentIsCaller'
    <2>1. UNCHANGED <<active_proc_num, pcb>>
      BY DEF Leave
    <2>2. QED
      BY <1>4, <2>1, OwnStackKeepsParents
  <1>8. FramesInOrder'
    <2> SUFFICES ASSUME NEW p \in ProcIds, NEW i \in 1..Len(kstack'[p])
                 PROVE  /\ p > a => kstack'[p] = <<>>
                        /\ LET f == kstack'[p][i]
                           IN  /\ f.at \in Waiting => p < a /\ i = Len(kstack'[p])
                               /\ f.at \in {"execute", "answer"} => i = 1
                               /\ f.at = "wait_syscall" => i = 1
                               /\ f.at = "halt" => f.val \in Statuses
                               /\ f.at = "exception" => f.val = EXCEPT_RETVAL
      BY <1>1, <1>4 DEF FramesInOrder, IInv, ProcIds, Leave
    <2>1. CASE p # a
      BY <1>4, <2>1 DEF IInv, FramesInOrder
    <2>2. CASE p = a
      <3>1. i \in 1..Len(s) /\ i # Len(s) /\ kstack'[p][i] = s[i]
        BY <1>1, <1>2, <1>4, <2>2, LenProperties
      <3>2. QED
        BY <1>1, <1>4, <2>2, <3>1 DEF IInv, FramesInOrder, ProcIds
    <2>3. QED
      BY <2>1, <2>2
  <1>9. QED
    BY <1>5, <1>6, <1>7, <1>8 DEF IInv

\* execute pushes a process: the new slot is the next one, and the caller's
\* stack, whose last frame now waits, is where its saved esp points.
LEMMA ExecuteKeepsIInv ==
    ASSUME IInv, ~InUser, FreeSlots(proc_id_flags) # {}, NEW prog \in Programs,
           TopFrame.at \in {"execute", "launch"}, ExecuteStarts(prog),
           UNCHANGED <<is_in_use_flag, cur_term_id>>
    PROVE  IInv'
  <1> DEFINE a == active_proc_num
             n == a + 1
             s == kstack[a]
             frame == WaitingFrame(TopFrame.at)
             t == WithTop(s, frame)
  <1>1. /\ a \in ProcIds /\ esp = a /\ esp0 = a
        /\ s \in Seq(Frame) /\ s # <<>>
        /\ pcb[a].proc_num = a
    BY DEF IInv, TypeOK, OneCurrentProcess, InUser, ProcIds
  <1>2. n \in ProcIds /\ NewProcId(proc_id_flags) = n /\ n # a /\ n > a /\ n # 0 /\ n - 1 = a
    BY <1>1, NextSlot, SizesAssumption DEF IInv, ProcIds
  <1>3. /\ frame \in Frame
        /\ frame.at \in Waiting
        /\ frame.at = "wait_syscall" <=> TopFrame.at = "execute"
    BY DEF WaitingFrame, Closed, Frame, Places, Waiting
  <1>4. /\ t \in Seq(Frame)
        /\ Len(t) = Len(s)
        /\ Len(s) \in Nat \ {0}
        /\ \A i \in 1..Len(s) : i # Len(s) => t[i] = s[i]
        /\ t[Len(s)] = frame
    BY <1>1, <1>3, WithTopFacts, LastFacts, Zenon
  <1>5. /\ proc_id_flags' = [proc_id_flags EXCEPT ![n] = FLAG_ACTIVE]
        /\ active_proc_num' = n /\ user_img' = n /\ esp0' = n /\ esp' = n
        /\ page' = [page EXCEPT ![n] = prog]
        /\ pcb' = [pcb EXCEPT ![n] =
                     [proc_num |-> n, parent_proc_num |-> a,
                      ksp |-> [slot |-> a, depth |-> Len(s)]]]
        /\ kstack' = [[kstack EXCEPT ![a] = t] EXCEPT ![n] = <<>>]
    <2>1. ParentNumber(n) = a
      BY <1>1, <1>2 DEF ParentNumber
    <2>2. Len([kstack EXCEPT ![a] = t][a]) = Len(s)
      BY <1>1, <1>4 DEF IInv, TypeOK
    <2>3. QED
      BY <1>1, <1>2, <2>1, <2>2 DEF ExecuteStarts, Start, ImagePage, StackOf
  <1>6. /\ kstack' \in [ProcIds -> Seq(Frame)]
        /\ kstack'[a] = t
        /\ kstack'[n] = <<>>
        /\ \A p \in ProcIds : p # a /\ p # n => kstack'[p] = kstack[p]
    BY <1>1, <1>2, <1>4, <1>5, EmptySeq DEF IInv, TypeOK
  <1>7. TypeOK'
    <2>1. pcb' \in [ProcIds -> PCB]
      BY <1>1, <1>2, <1>4, <1>5 DEF IInv, TypeOK, PCB, Context
    <2>2. QED
      BY <1>2, <1>5, <1>6, <2>1 DEF IInv, TypeOK
  <1>8. TableIsStack'
    BY <1>1, <1>2, <1>5 DEF IInv, TypeOK, TableIsStack, ProcIds, FLAG_ACTIVE, FLAG_INACTIVE
  <1>9. OneCurrentProcess'
    <2>1. \A p \in ProcIds : p <= n /\ p # n => p <= a
      BY <1>1, SizesAssumption DEF ProcIds
    <2>2. QED
      BY <1>2, <1>5, <2>1 DEF IInv, TypeOK, OneCurrentProcess
  <1>10. ParentIsCaller'
    <2> SUFFICES ASSUME NEW p \in ProcIds, 0 < p, p <= n
                 PROVE  LET sp == pcb'[p].ksp
                        IN  /\ pcb'[p].parent_proc_num = p - 1
                            /\ sp.slot = p - 1
                            /\ sp.depth = Len(kstack'[p - 1])
                            /\ sp.depth > 0
                            /\ kstack'[p - 1][sp.depth].at \in Waiting
      BY <1>5 DEF ParentIsCaller
    <2>1. CASE p = n
      BY <1>1, <1>2, <1>3, <1>4, <1>5, <1>6, <2>1 DEF IInv, TypeOK
    <2>2. CASE p # n
      <3>1. p - 1 \in ProcIds /\ p - 1 # a /\ p - 1 # n /\ p <= a
        BY <1>1, <2>2, SizesAssumption DEF ProcIds
      <3>2. pcb'[p] = pcb[p] /\ kstack'[p - 1] = kstack[p - 1]
        BY <1>5, <1>6, <2>2, <3>1 DEF IInv, TypeOK
      <3>3. QED
        BY <3>1, <3>2 DEF IInv, ParentIsCaller
    <2>3. QED
      BY <2>1, <2>2
  <1>11. FramesInOrder'
    <2> SUFFICES ASSUME NEW p \in ProcIds
                 PROVE  /\ p > n => kstack'[p] = <<>>
                        /\ \A i \in 1..Len(kstack'[p]) :
                             LET f == kstack'[p][i]
                             IN  /\ f.at \in Waiting => p < n /\ i = Len(kstack'[p])
                                 /\ f.at \in {"execute", "answer"} => i = 1
                                 /\ f.at = "wait_syscall" => i = 1
                                 /\ f.at = "halt" => f.val \in Statuses
                                 /\ f.at = "exception" => f.val = EXCEPT_RETVAL
      BY <1>5 DEF FramesInOrder
    <2>1. CASE p # a /\ p # n
      <3>1. (p > n => p > a) /\ (p < a => p < n)
        BY <1>1 DEF ProcIds
      <3>2. kstack'[p] = kstack[p]
        BY <1>6, <2>1
      <3>3. QED
        BY <3>1, <3>2 DEF IInv, FramesInOrder
    <2>2. CASE p = n
      BY <1>2, <1>6, <2>2, EmptySeq DEF ProcIds
    <2>3. CASE p = a
      <3> SUFFICES ASSUME NEW i \in 1..Len(t)
                   PROVE  LET f == t[i]
                          IN  /\ f.at \in Waiting => i = Len(t)
                              /\ f.at \in {"execute", "answer"} => i = 1
                              /\ f.at = "wait_syscall" => i = 1
                              /\ f.at = "halt" => f.val \in Statuses
                              /\ f.at = "exception" => f.val = EXCEPT_RETVAL
        BY <1>1, <1>2, <1>6, <2>3 DEF ProcIds
      <3>1. CASE i # Len(s)
        BY <1>1, <1>4, <3>1 DEF IInv, FramesInOrder, ProcIds
      <3>2. CASE i = Len(s)
        <4>1. TopFrame = s[Len(s)]
          BY <1>1, LastFacts DEF TopFrame
        <4>2. TopFrame.at = "execute" => Len(s) = 1
          <5>1. Len(s) \in 1..Len(s)
            BY <1>4
          <5>2. QED
            BY <1>1, <4>1, <5>1 DEF IInv, FramesInOrder
        <4>3. QED
          BY <1>3, <1>4, <3>2, <4>2 DEF Waiting
      <3>3. QED
        BY <3>1, <3>2
    <2>4. QED
      BY <2>1, <2>2, <2>3
  <1>12. QED
    BY <1>7, <1>8, <1>9, <1>10, <1>11 DEF IInv

\* The value given back to a caller is a frame of that caller: an answer for a
\* program, nothing for the keyboard handler.
LEMMA ReturnedFrameFacts ==
    ASSUME NEW frame \in Frame, NEW status \in Int
    PROVE  LET next == ReturnedFrame(frame, status)
           IN  /\ next \in Frame
               /\ next.at \in {"answer", "launched"}
               /\ next.at = "answer" <=> frame.at = "wait_syscall"
  <1>1. ReturnCode(status) \in Int
    BY DEF ReturnCode
  <1>2. QED
    BY <1>1 DEF ReturnedFrame, Open, Frame, Places

\* halt pops a process: its parent, the caller of the execute that started it,
\* goes on on its own stack with its own page.
LEMMA HaltToParentKeepsIInv ==
    ASSUME IInv, active_proc_num # 0, NEW status \in Int, HaltToParent(status),
           UNCHANGED <<is_in_use_flag, cur_term_id>>
    PROVE  IInv'
  <1> DEFINE a == active_proc_num
             b == a - 1
             s == kstack[b]
             next == ReturnedFrame(s[Len(s)], status)
             t == WithTop(s, next)
  <1>1. /\ a \in ProcIds /\ esp = a
        /\ b \in ProcIds /\ a # b /\ b < a
    BY SizesAssumption DEF IInv, TypeOK, OneCurrentProcess, ProcIds
  <1>2. /\ pcb[a].parent_proc_num = b
        /\ pcb[a].ksp.slot = b
        /\ pcb[a].ksp.depth = Len(s)
        /\ Len(s) > 0
        /\ s[Len(s)].at \in Waiting
    BY <1>1 DEF IInv, ParentIsCaller, ProcIds
  <1>3. /\ s \in Seq(Frame) /\ s # <<>>
        /\ Len(s) \in 1..Len(s)
        /\ s[Len(s)] \in Frame
    <2>1. s \in Seq(Frame)
      BY <1>1 DEF IInv, TypeOK
    <2>2. s # <<>> /\ Len(s) \in 1..Len(s)
      BY <1>2, <2>1, EmptySeq
    <2>3. QED
      BY <2>1, <2>2, ElementOfSeq
  <1>4. /\ next \in Frame
        /\ next.at \in {"answer", "launched"}
        /\ next.at = "answer" <=> s[Len(s)].at = "wait_syscall"
    BY <1>3, ReturnedFrameFacts
  <1>5. /\ t \in Seq(Frame)
        /\ Len(t) = Len(s)
        /\ \A i \in 1..Len(s) : i # Len(s) => t[i] = s[i]
        /\ t[Len(s)] = next
    BY <1>3, <1>4, WithTopFacts, Zenon
  <1>6. /\ proc_id_flags' = [proc_id_flags EXCEPT ![a] = FLAG_INACTIVE]
        /\ active_proc_num' = b /\ user_img' = b /\ esp0' = b /\ esp' = b
        /\ UNCHANGED <<pcb, page>>
    BY <1>1, <1>2 DEF HaltToParent, CurPcb, FlagsCleared, RestoredImage, ImagePage, StackOf
  <1>7. kstack' = [[kstack EXCEPT ![a] = <<>>] EXCEPT ![b] = t]
    <2>1. [kstack EXCEPT ![a] = <<>>][b] = s
      BY <1>1 DEF IInv, TypeOK
    <2>2. kstack' = [[kstack EXCEPT ![a] = <<>>] EXCEPT
                        ![b] = Continued(s, Len(s), status)]
      BY <1>1, <1>2, <2>1 DEF HaltToParent, CurPcb
    <2>3. QED
      BY <1>3, <2>2, ContinuedFacts
  <1>8. /\ kstack' \in [ProcIds -> Seq(Frame)]
        /\ kstack'[a] = <<>>
        /\ kstack'[b] = t
        /\ \A p \in ProcIds : p # a /\ p # b => kstack'[p] = kstack[p]
    BY <1>1, <1>5, <1>7, EmptySeq DEF IInv, TypeOK
  <1>9. TypeOK'
    BY <1>1, <1>6, <1>8 DEF IInv, TypeOK
  <1>10. TableIsStack'
    BY <1>1, <1>6 DEF IInv, TypeOK, TableIsStack, ProcIds, FLAG_ACTIVE, FLAG_INACTIVE
  <1>11. OneCurrentProcess'
    <2>1. \A p \in ProcIds : p <= b => p <= a
      BY <1>1, SizesAssumption DEF ProcIds
    <2>2. QED
      BY <1>6, <2>1 DEF IInv, OneCurrentProcess
  <1>12. ParentIsCaller'
    <2> SUFFICES ASSUME NEW p \in ProcIds, 0 < p, p <= b
                 PROVE  LET sp == pcb[p].ksp
                        IN  /\ pcb[p].parent_proc_num = p - 1
                            /\ sp.slot = p - 1
                            /\ sp.depth = Len(kstack'[p - 1])
                            /\ sp.depth > 0
                            /\ kstack'[p - 1][sp.depth].at \in Waiting
      BY <1>6 DEF ParentIsCaller
    <2>1. p - 1 \in ProcIds /\ p - 1 # a /\ p - 1 # b /\ p <= a
      BY <1>1, SizesAssumption DEF ProcIds
    <2>2. QED
      BY <1>8, <2>1 DEF IInv, ParentIsCaller
  <1>13. FramesInOrder'
    <2> SUFFICES ASSUME NEW p \in ProcIds
                 PROVE  /\ p > b => kstack'[p] = <<>>
                        /\ \A i \in 1..Len(kstack'[p]) :
                             LET f == kstack'[p][i]
                             IN  /\ f.at \in Waiting => p < b /\ i = Len(kstack'[p])
                                 /\ f.at \in {"execute", "answer"} => i = 1
                                 /\ f.at = "wait_syscall" => i = 1
                                 /\ f.at = "halt" => f.val \in Statuses
                                 /\ f.at = "exception" => f.val = EXCEPT_RETVAL
      BY <1>6 DEF FramesInOrder
    <2>1. CASE p # a /\ p # b
      <3>1. (p > b => p > a) /\ (p < a => p < b)
        BY <1>1, <2>1 DEF ProcIds
      <3>2. kstack'[p] = kstack[p]
        BY <1>8, <2>1
      <3>3. QED
        BY <3>1, <3>2 DEF IInv, FramesInOrder
    <2>2. CASE p = a
      BY <1>8, <2>2, EmptySeq
    <2>3. CASE p = b
      <3> SUFFICES ASSUME NEW i \in 1..Len(t)
                   PROVE  LET f == t[i]
                          IN  /\ f.at \notin Waiting
                              /\ f.at \in {"execute", "answer"} => i = 1
                              /\ f.at = "wait_syscall" => i = 1
                              /\ f.at = "halt" => f.val \in Statuses
                              /\ f.at = "exception" => f.val = EXCEPT_RETVAL
        BY <1>1, <1>8, <2>3 DEF ProcIds
      <3>1. CASE i # Len(s)
        BY <1>1, <1>5, <3>1 DEF IInv, FramesInOrder
      <3>2. CASE i = Len(s)
        <4>1. s[Len(s)].at = "wait_syscall" => Len(s) = 1
          BY <1>1, <1>3 DEF IInv, FramesInOrder
        <4>2. QED
          BY <1>4, <1>5, <3>2, <4>1 DEF Waiting
      <3>3. QED
        BY <3>1, <3>2
    <2>4. QED
      BY <2>1, <2>2, <2>3
  <1>14. QED
    BY <1>9, <1>10, <1>11, <1>12, <1>13 DEF IInv

\* When process 0 halts, a new shell takes its slot, its page and its stack.
LEMMA RestartKeepsIInv ==
    ASSUME IInv, active_proc_num = 0, Start(Shell, FlagsCleared, kstack),
           UNCHANGED <<is_in_use_flag, cur_term_id>>
    PROVE  IInv'
  <1>1. /\ 0 \in ProcIds /\ esp = 0
        /\ kstack[0] \in Seq(Frame) /\ Len(kstack[0]) \in Nat
    BY EmptySeq, LenProperties, SizesAssumption DEF IInv, TypeOK, OneCurrentProcess, ProcIds
  <1>2. NewProcId(FlagsCleared) = 0
    BY FirstSlot DEF IInv
  <1>3. /\ proc_id_flags' = [[proc_id_flags EXCEPT ![0] = FLAG_INACTIVE]
                                EXCEPT ![0] = FLAG_ACTIVE]
        /\ active_proc_num' = 0 /\ user_img' = 0 /\ esp0' = 0 /\ esp' = 0
        /\ page' = [page EXCEPT ![0] = Shell]
        /\ pcb' = [pcb EXCEPT ![0] =
                     [proc_num |-> 0, parent_proc_num |-> 0,
                      ksp |-> [slot |-> 0, depth |-> Len(kstack[0])]]]
        /\ kstack' = [kstack EXCEPT ![0] = <<>>]
    BY <1>1, <1>2 DEF Start, FlagsCleared, ImagePage, StackOf, ParentNumber
  <1>4. TypeOK'
    <2>1. pcb' \in [ProcIds -> PCB]
      BY <1>1, <1>3 DEF IInv, TypeOK, PCB, Context
    <2>2. QED
      BY <1>1, <1>3, <2>1, ProgramsAssumption, EmptySeq DEF IInv, TypeOK
  <1>5. TableIsStack'
    BY <1>1, <1>3 DEF IInv, TypeOK, TableIsStack, ProcIds, FLAG_ACTIVE, FLAG_INACTIVE
  <1>6. OneCurrentProcess'
    BY <1>1, <1>3 DEF IInv, TypeOK, OneCurrentProcess, ProcIds
  <1>7. ParentIsCaller'
    BY <1>3 DEF ParentIsCaller, ProcIds
  <1>8. FramesInOrder'
    <2>1. \A p \in ProcIds : kstack'[p] = <<>>
      BY <1>1, <1>3 DEF IInv, TypeOK, FramesInOrder, ProcIds
    <2>2. QED
      BY <2>1, EmptySeq DEF FramesInOrder
  <1>9. QED
    BY <1>4, <1>5, <1>6, <1>7, <1>8 DEF IInv

\* The body of halt, whichever of its two ways it goes.
LEMMA HaltBodyKeepsIInv ==
    ASSUME IInv, NEW status \in Int, HaltBody(status)
    PROVE  IInv'
  <1>1. CASE active_proc_num = 0
    BY <1>1, RestartKeepsIInv DEF HaltBody
  <1>2. CASE active_proc_num # 0
    BY <1>2, HaltToParentKeepsIInv DEF HaltBody
  <1>3. QED
    BY <1>1, <1>2

\* An execute that fails answers its caller.
LEMMA ExecuteFailsKeepsIInv ==
    ASSUME IInv, ~InUser, TopFrame.at \in {"execute", "launch"}, ExecuteFails,
           UNCHANGED <<is_in_use_flag, cur_term_id>>
    PROVE  IInv'
  <1> DEFINE s == kstack[esp]
             next == FailedFrame(TopFrame.at)
  <1>1. /\ esp \in ProcIds
        /\ s \in Seq(Frame) /\ s # <<>>
    BY DEF IInv, TypeOK, InUser
  <1>2. /\ next \in Frame
        /\ next.at \in {"answer", "launched"}
        /\ next.at = "answer" => TopFrame.at = "execute"
    BY DEF FailedFrame, Closed, Frame, Places
  <1>3. /\ TopFrame = s[Len(s)]
        /\ Len(s) \in 1..Len(s)
    BY <1>1, LastFacts DEF TopFrame
  <1>4. TopFrame.at = "execute" => Len(s) = 1
    BY <1>1, <1>3 DEF IInv, FramesInOrder
  <1>5. /\ kstack' = [kstack EXCEPT ![esp] = WithTop(@, next)]
        /\ UNCHANGED <<proc_id_flags, active_proc_num, pcb, esp, esp0, user_img, page>>
    BY DEF ExecuteFails
  <1>6. QED
    BY <1>2, <1>4, <1>5, TopMovesKeepsIInv

\* Every step keeps the invariant.
LEMMA NextKeepsIInv == IInv /\ [Next]_vars => IInv'
  <1> SUFFICES ASSUME IInv, [Next]_vars
               PROVE  IInv'
    OBVIOUS
  <1> USE DEF EntryFrame, Open, Frame, Places, Waiting
  <1>1. /\ is_in_use_flag \in [Terminals -> BOOLEAN] /\ cur_term_id \in Terminals
        /\ EXCEPT_RETVAL \in Int
        /\ Statuses \subseteq Int
    BY StatusesAssumption DEF IInv, TypeOK, EXCEPT_RETVAL
  <1>2. ASSUME NEW status \in Statuses, SyscallHalt(status)
        PROVE  IInv'
    <2>1. EntryFrame(Open("halt", status))
      BY <1>1
    <2>2. QED
      BY <1>1, <1>2, <2>1, EnterKeepsIInv DEF SyscallHalt
  <1>3. CASE SyscallExecute
    <2>1. EntryFrame(Open("execute", 0))
      BY <1>3 DEF SyscallExecute
    <2>2. QED
      BY <1>1, <1>3, <2>1, EnterKeepsIInv DEF SyscallExecute
  <1>4. CASE SyscallOther
    <2>1. EntryFrame(Open("other", 0))
      OBVIOUS
    <2>2. QED
      BY <1>1, <1>4, <2>1, EnterKeepsIInv DEF SyscallOther
  <1>5. CASE Fault
    <2>1. EntryFrame(ExceptionFrame)
      BY <1>1 DEF ExceptionFrame
    <2>2. QED
      BY <1>1, <1>5, <2>1, EnterKeepsIInv DEF Fault
  <1>6. ASSUME NEW t \in Terminals, LaunchTerminal(t)
        PROVE  IInv'
    <2>1. EntryFrame(Open("launch", 0))
      OBVIOUS
    <2>2. is_in_use_flag' \in [Terminals -> BOOLEAN] /\ cur_term_id' \in Terminals
      BY <1>1, <1>6 DEF LaunchTerminal
    <2>3. QED
      BY <1>6, <2>1, <2>2, EnterKeepsIInv DEF LaunchTerminal
  <1>7. ASSUME NEW t \in Terminals, ChangeTerminal(t)
        PROVE  IInv'
    BY <1>7 DEF ChangeTerminal, IInv, TypeOK, TableIsStack, OneCurrentProcess,
                ParentIsCaller, FramesInOrder
  <1>8. CASE CtrlC
    BY <1>8, HaltBodyKeepsIInv DEF CtrlC
  <1>9. CASE Halt
    <2>1. TopFrame.val \in Int
      BY <1>9, LastFacts DEF Halt, TopIs, TopFrame, InUser, IInv, TypeOK
    <2>2. QED
      BY <1>9, <2>1, HaltBodyKeepsIInv DEF Halt
  <1>10. ASSUME NEW prog \in Programs, Execute(prog)
         PROVE  IInv'
    BY <1>10, ExecuteKeepsIInv DEF Execute, TopIs
  <1>11. CASE ExecuteNotFound
    BY <1>11, ExecuteFailsKeepsIInv DEF ExecuteNotFound, TopIs
  <1>12. CASE ExecuteTooMany
    BY <1>12, ExecuteFailsKeepsIInv DEF ExecuteTooMany, TopIs
  <1>13. CASE SyscallReturn
    BY <1>13, LeaveKeepsIInv DEF SyscallReturn, TopIs
  <1>14. CASE HandlerReturn
    BY <1>14, LeaveKeepsIInv DEF HandlerReturn, TopIs
  <1>15. CASE UNCHANGED vars
    BY <1>15 DEF vars, IInv, TypeOK, TableIsStack, OneCurrentProcess,
                 ParentIsCaller, FramesInOrder
  <1>16. QED
    BY <1>2, <1>3, <1>4, <1>5, <1>6, <1>7, <1>8, <1>9, <1>10, <1>11, <1>12,
       <1>13, <1>14, <1>15 DEF Next

-----------------------------------------------------------------------------
(* The safety theorems.                                                     *)

\* The invariant holds in every reachable state.
THEOREM Invariance == Spec => []IInv
  BY InitIInv, NextKeepsIInv, PTL DEF Spec

\* Every variable stays in its type.
THEOREM TypeCorrect == Spec => []TypeOK
  <1>1. IInv => TypeOK
    BY DEF IInv
  <1>2. QED
    BY <1>1, Invariance, PTL

\* The process table is always the processes up to the running one.
THEOREM TableCorrect == Spec => []TableIsStack
  <1>1. IInv => TableIsStack
    BY DEF IInv
  <1>2. QED
    BY <1>1, Invariance, PTL

\* The kernel's notions of the running process never disagree.
THEOREM CurrentCorrect == Spec => []OneCurrentProcess
  <1>1. IInv => OneCurrentProcess
    BY DEF IInv
  <1>2. QED
    BY <1>1, Invariance, PTL

\* Every process will return to the caller of the execute that started it.
THEOREM ParentCorrect == Spec => []ParentIsCaller
  <1>1. IInv => ParentIsCaller
    BY DEF IInv
  <1>2. QED
    BY <1>1, Invariance, PTL

\* The frames on the kernel stacks always tell one story.
THEOREM FramesCorrect == Spec => []FramesInOrder
  <1>1. IInv => FramesInOrder
    BY DEF IInv
  <1>2. QED
    BY <1>1, Invariance, PTL

-----------------------------------------------------------------------------
(* Suspended processes.                                                     *)

\* The processes under the running one keep stack, control block and memory.
BelowUntouched ==
    \A p \in ProcIds : p < active_proc_num /\ p < active_proc_num' =>
        UNCHANGED <<kstack[p], pcb[p], page[p]>>

\* A step that changes no stack but the running process's.
LEMMA OwnStackOnly ==
    ASSUME IInv, UNCHANGED <<pcb, page>>,
           \A p \in ProcIds : p # active_proc_num => kstack'[p] = kstack[p]
    PROVE  BelowUntouched
  <1>1. \A p \in ProcIds : p < active_proc_num => p # active_proc_num
    BY DEF IInv, TypeOK, ProcIds
  <1>2. QED
    BY <1>1 DEF BelowUntouched

\* An entry, an answer to a failed execute and the end of a handler.
LEMMA KernelFramesBelowUntouched ==
    ASSUME IInv, ~InUser,
           ExecuteFails \/ Leave
    PROVE  BelowUntouched
  <1>1. /\ UNCHANGED <<pcb, page>>
        /\ \A p \in ProcIds : p # active_proc_num => kstack'[p] = kstack[p]
    BY DEF ExecuteFails, Leave, IInv, TypeOK, OneCurrentProcess
  <1>2. QED
    BY <1>1, OwnStackOnly

\* An entry into the kernel.
LEMMA EnterBelowUntouched ==
    ASSUME IInv, NEW frame, Enter(frame)
    PROVE  BelowUntouched
  <1>1. /\ UNCHANGED <<pcb, page>>
        /\ \A p \in ProcIds : p # active_proc_num => kstack'[p] = kstack[p]
    BY DEF Enter, IInv, TypeOK, OneCurrentProcess
  <1>2. QED
    BY <1>1, OwnStackOnly

\* The start of a child writes only the caller's stack and the new slot.
LEMMA ExecuteBelowUntouched ==
    ASSUME IInv, FreeSlots(proc_id_flags) # {}, NEW prog, ExecuteStarts(prog)
    PROVE  BelowUntouched
  <1> DEFINE a == active_proc_num
             n == a + 1
  <1>1. /\ a \in ProcIds /\ esp = a
        /\ n \in ProcIds /\ NewProcId(proc_id_flags) = n
    BY NextSlot DEF IInv, TypeOK, OneCurrentProcess
  <1>2. \A p \in ProcIds : p < a => p # a /\ p # n
    BY <1>1 DEF ProcIds
  <1>3. \A p \in ProcIds : p # a /\ p # n => UNCHANGED <<kstack[p], pcb[p], page[p]>>
    <2> HIDE DEF n
    <2>1. QED
      BY <1>1 DEF ExecuteStarts, Start, ImagePage, StackOf, IInv, TypeOK
  <1>4. QED
    BY <1>2, <1>3 DEF BelowUntouched

\* The end of a process writes only its stack and its parent's.
LEMMA HaltBelowUntouched ==
    ASSUME IInv, NEW status \in Int, HaltBody(status)
    PROVE  BelowUntouched
  <1> DEFINE a == active_proc_num
             b == a - 1
  <1>1. a \in ProcIds /\ esp = a /\ a \in Nat
    BY DEF IInv, TypeOK, OneCurrentProcess, ProcIds
  <1>2. CASE a = 0
    <2>1. \A p \in ProcIds : ~(p < a)
      BY <1>2 DEF ProcIds
    <2>2. QED
      BY <2>1 DEF BelowUntouched
  <1>3. CASE a # 0
    <2>1. pcb[a].parent_proc_num = b /\ pcb[a].ksp.slot = b
      BY <1>1, <1>3 DEF IInv, ParentIsCaller
    <2>2. HaltToParent(status)
      BY <1>3 DEF HaltBody
    <2>3. /\ active_proc_num' = b
          /\ UNCHANGED <<pcb, page>>
          /\ \A p \in ProcIds : p # a /\ p # b => kstack'[p] = kstack[p]
      <3> HIDE DEF b
      <3>1. QED
        BY <1>1, <2>1, <2>2 DEF HaltToParent, CurPcb, IInv, TypeOK
    <2>4. \A p \in ProcIds : p < b => p # a /\ p # b
      BY <1>1 DEF ProcIds
    <2>5. QED
      BY <2>3, <2>4 DEF BelowUntouched
  <1>4. QED
    BY <1>2, <1>3

\* No step reaches a process that is suspended before and after it.
LEMMA NextBelowUntouched == IInv /\ [Next]_vars => BelowUntouched
  <1> SUFFICES ASSUME IInv, [Next]_vars
               PROVE  BelowUntouched
    OBVIOUS
  <1>1. ASSUME NEW status \in Statuses, SyscallHalt(status)
        PROVE  BelowUntouched
    BY <1>1, EnterBelowUntouched DEF SyscallHalt
  <1>2. CASE SyscallExecute
    BY <1>2, EnterBelowUntouched DEF SyscallExecute
  <1>3. CASE SyscallOther
    BY <1>3, EnterBelowUntouched DEF SyscallOther
  <1>4. CASE Fault
    BY <1>4, EnterBelowUntouched DEF Fault
  <1>5. ASSUME NEW t \in Terminals, LaunchTerminal(t)
        PROVE  BelowUntouched
    BY <1>5, EnterBelowUntouched DEF LaunchTerminal
  <1>6. ASSUME NEW t \in Terminals, ChangeTerminal(t)
        PROVE  BelowUntouched
    BY <1>6, OwnStackOnly DEF ChangeTerminal
  <1>7. CASE CtrlC
    BY <1>7, HaltBelowUntouched DEF CtrlC
  <1>8. CASE Halt
    <2>1. TopFrame.val \in Int
      BY <1>8, LastFacts DEF Halt, TopIs, TopFrame, InUser, IInv, TypeOK, Frame
    <2>2. QED
      BY <1>8, <2>1, HaltBelowUntouched DEF Halt
  <1>9. ASSUME NEW prog \in Programs, Execute(prog)
        PROVE  BelowUntouched
    BY <1>9, ExecuteBelowUntouched DEF Execute
  <1>10. CASE ExecuteNotFound
    BY <1>10, KernelFramesBelowUntouched DEF ExecuteNotFound, TopIs
  <1>11. CASE ExecuteTooMany
    BY <1>11, KernelFramesBelowUntouched DEF ExecuteTooMany, TopIs
  <1>12. CASE SyscallReturn
    BY <1>12, KernelFramesBelowUntouched DEF SyscallReturn, TopIs
  <1>13. CASE HandlerReturn
    BY <1>13, KernelFramesBelowUntouched DEF HandlerReturn, TopIs
  <1>14. CASE UNCHANGED vars
    BY <1>14 DEF vars, BelowUntouched
  <1>15. QED
    BY <1>1, <1>2, <1>3, <1>4, <1>5, <1>6, <1>7, <1>8, <1>9, <1>10, <1>11,
       <1>12, <1>13, <1>14 DEF Next

\* Until every process above it has halted, nothing reaches a suspended one.
THEOREM SuspendedCorrect == Spec => SuspendedUntouched
  <1>1. IInv /\ [Next]_vars => [BelowUntouched]_vars
    BY NextBelowUntouched
  <1>2. QED
    BY <1>1, Invariance, PTL DEF Spec, SuspendedUntouched, BelowUntouched

-----------------------------------------------------------------------------
(***************************************************************************)
(* Processes implements ProcessStack, for every number of process slots,   *)
(* terminals, programs and status values: each step of the kernel is one   *)
(* step of the stack of processes, or leaves that stack as it is.          *)
(***************************************************************************)

-----------------------------------------------------------------------------
(* The views as a sequence.                                                 *)

\* A function on 1..n is a sequence of n elements, and appending to it extends
\* the function.
LEMMA FunctionIsSequence ==
    ASSUME NEW n \in Nat, NEW f, f = [i \in 1..n |-> f[i]], NEW e
    PROVE  /\ Len(f) = n
           /\ Append(f, e) = [i \in 1..(n + 1) |-> IF i = n + 1 THEN e ELSE f[i]]
  <1> DEFINE S == {f[i] : i \in 1..n} \cup {e}
  <1>1. f \in [1..n -> S]
    OBVIOUS
  <1>2. f \in Seq(S)
    <2> HIDE DEF S
    <2>1. QED
      BY <1>1, SeqDef
  <1>3. DOMAIN f = 1..n
    BY <1>1
  <1>4. Len(f) = n
    <2> HIDE DEF S
    <2>1. Len(f) \in Nat /\ DOMAIN f = 1..Len(f)
      BY <1>2, LenProperties
    <2>2. QED
      BY <1>3, <2>1
  <1>5. /\ Append(f, e) \in Seq(S)
        /\ Len(Append(f, e)) = n + 1
        /\ \A i \in 1..n : Append(f, e)[i] = f[i]
        /\ Append(f, e)[n + 1] = e
    <2>1. e \in S
      OBVIOUS
    <2> HIDE DEF S
    <2>2. QED
      BY <1>2, <1>4, <2>1, AppendProperties
  <1>6. Append(f, e) = [i \in 1..(n + 1) |-> Append(f, e)[i]]
    <2> HIDE DEF S
    <2>1. DOMAIN Append(f, e) = 1..(n + 1)
      BY <1>5, LenProperties
    <2>2. QED
      BY <1>5, <2>1, SeqDef
  <1>7. \A i \in 1..(n + 1) : Append(f, e)[i] = IF i = n + 1 THEN e ELSE f[i]
    BY <1>5
  <1>8. QED
    BY <1>4, <1>6, <1>7

\* The abstract depth and top are the running process's.
LEMMA AbstractTop ==
    ASSUME IInv
    PROVE  /\ Abstract!Depth = active_proc_num + 1
           /\ Abstract!Top = ProcessView(active_proc_num)
           /\ active_proc_num \in ProcIds /\ active_proc_num \in Nat
           /\ active_proc_num + 1 <= MAX_PROCESSES
  <1>1. active_proc_num \in ProcIds /\ active_proc_num \in Nat
        /\ active_proc_num + 1 <= MAX_PROCESSES
    BY SizesAssumption DEF IInv, TypeOK, ProcIds
  <1>2. PICK n \in Nat : n = active_proc_num + 1
    BY <1>1
  <1>3. ProcessViews = [i \in 1..n |-> ProcessViews[i]]
    BY <1>2 DEF ProcessViews
  <1>4. Len(ProcessViews) = n
    BY <1>3, FunctionIsSequence
  <1>5. ProcessViews[n] = ProcessView(n - 1)
    BY <1>1, <1>2 DEF ProcessViews
  <1>6. n - 1 = active_proc_num
    BY <1>1, <1>2
  <1>7. QED
    BY <1>1, <1>2, <1>4, <1>5, <1>6 DEF Abstract!Depth, Abstract!Top

\* A step that changes no view.
LEMMA SameViews ==
    ASSUME IInv, active_proc_num' = active_proc_num,
           \A p \in ProcIds : p <= active_proc_num => ProcessView(p)' = ProcessView(p)
    PROVE  UNCHANGED ProcessViews
  <1>1. \A i \in 1..(active_proc_num + 1) : i - 1 \in ProcIds /\ i - 1 <= active_proc_num
    BY SizesAssumption DEF IInv, TypeOK, ProcIds
  <1>2. \A i \in 1..(active_proc_num + 1) : ProcessView(i - 1)' = ProcessView(i - 1)
    BY <1>1
  <1>3. QED
    BY <1>2 DEF ProcessViews

\* A step that changes only the running process's view.
LEMMA TopView ==
    ASSUME IInv, active_proc_num' = active_proc_num, NEW v,
           \A p \in ProcIds : p < active_proc_num => ProcessView(p)' = ProcessView(p),
           \A p \in ProcIds : p = active_proc_num => ProcessView(p)' = v
    PROVE  ProcessViews' = Abstract!Upto(active_proc_num + 1, v)
  <1>1. active_proc_num \in Nat
    BY DEF IInv, TypeOK, ProcIds
  <1>2. \A i \in 1..(active_proc_num + 1) :
           /\ i - 1 \in ProcIds
           /\ i # active_proc_num + 1 => i - 1 < active_proc_num
           /\ i = active_proc_num + 1 => i - 1 = active_proc_num
    BY SizesAssumption DEF IInv, TypeOK, ProcIds
  <1>3. \A i \in 1..(active_proc_num + 1) :
           ProcessView(i - 1)' = IF i = active_proc_num + 1 THEN v ELSE ProcessViews[i]
    BY <1>2 DEF ProcessViews
  <1>4. QED
    BY <1>3 DEF ProcessViews, Abstract!Upto

\* A step after which a new process runs, above one whose view may change.
LEMMA PushView ==
    ASSUME IInv, active_proc_num' = active_proc_num + 1, NEW v, NEW w,
           \A p \in ProcIds : p < active_proc_num => ProcessView(p)' = ProcessView(p),
           \A p \in ProcIds : p = active_proc_num => ProcessView(p)' = v,
           \A p \in ProcIds : p = active_proc_num + 1 => ProcessView(p)' = w,
           active_proc_num + 1 \in ProcIds
    PROVE  ProcessViews' = Append(Abstract!Upto(active_proc_num + 1, v), w)
  <1>1. active_proc_num \in Nat
    BY DEF IInv, TypeOK, ProcIds
  <1>2. PICK n \in Nat : n = active_proc_num + 1
    BY <1>1
  <1>3. \A i \in 1..(n + 1) :
           /\ i - 1 \in ProcIds
           /\ i = n + 1 => i - 1 = active_proc_num + 1
           /\ i = n => i - 1 = active_proc_num
           /\ i # n /\ i # n + 1 => i - 1 < active_proc_num
    BY <1>1, <1>2, SizesAssumption DEF ProcIds
  <1>4. \A i \in 1..(n + 1) :
           ProcessView(i - 1)' = IF i = n + 1 THEN w
                                 ELSE IF i = n THEN v ELSE ProcessView(i - 1)
    BY <1>3
  <1>5. PICK f : f = Abstract!Upto(n, v)
    OBVIOUS
  <1>6. f = [i \in 1..n |-> IF i = n THEN v ELSE ProcessView(i - 1)]
    BY <1>2, <1>5 DEF Abstract!Upto, ProcessViews
  <1>7. f = [i \in 1..n |-> f[i]]
    BY <1>6
  <1>8. Append(f, w) = [i \in 1..(n + 1) |-> IF i = n + 1 THEN w ELSE f[i]]
    BY <1>7, FunctionIsSequence
  <1>9. \A i \in 1..(n + 1) : ProcessView(i - 1)' = IF i = n + 1 THEN w ELSE f[i]
    <2> SUFFICES ASSUME NEW i \in 1..(n + 1)
                 PROVE  ProcessView(i - 1)' = IF i = n + 1 THEN w ELSE f[i]
      OBVIOUS
    <2>1. CASE i = n + 1
      BY <1>4, <2>1
    <2>2. CASE i # n + 1
      <3>1. i \in 1..n
        BY <2>2
      <3>2. QED
        BY <1>4, <1>6, <2>2, <3>1
    <2>3. QED
      BY <2>1, <2>2
  <1>10. ProcessViews' = [i \in 1..(n + 1) |-> ProcessView(i - 1)']
    BY <1>2 DEF ProcessViews
  <1>11. QED
    BY <1>2, <1>5, <1>8, <1>9, <1>10

\* A step after which the process below runs.
LEMMA PopView ==
    ASSUME IInv, active_proc_num # 0, active_proc_num' = active_proc_num - 1, NEW v,
           \A p \in ProcIds : p < active_proc_num - 1 => ProcessView(p)' = ProcessView(p),
           \A p \in ProcIds : p = active_proc_num - 1 => ProcessView(p)' = v
    PROVE  ProcessViews' = Abstract!Upto(active_proc_num, v)
  <1>1. active_proc_num \in Nat
    BY DEF IInv, TypeOK, ProcIds
  <1>2. PICK n \in Nat : n = active_proc_num /\ n - 1 + 1 = n
    BY <1>1
  <1>3. \A i \in 1..n :
           /\ i - 1 \in ProcIds
           /\ i \in 1..(n + 1)
           /\ i = n => i - 1 = active_proc_num - 1
           /\ i # n => i - 1 < active_proc_num - 1
    BY <1>1, <1>2, SizesAssumption DEF IInv, TypeOK, ProcIds
  <1>4. \A i \in 1..n :
           ProcessView(i - 1)' = IF i = n THEN v ELSE ProcessViews[i]
    BY <1>2, <1>3 DEF ProcessViews
  <1>5. ProcessViews' = [i \in 1..n |-> ProcessView(i - 1)']
    BY <1>2 DEF ProcessViews
  <1>6. QED
    BY <1>2, <1>4, <1>5 DEF Abstract!Upto

-----------------------------------------------------------------------------
(* What the frames of a stack say of its process.                           *)

\* A process whose stack and memory stay keeps its view.
LEMMA KeptView ==
    ASSUME NEW p, kstack'[p] = kstack[p], page'[p] = page[p]
    PROVE  ProcessView(p)' = ProcessView(p)
  BY DEF ProcessView, Asked, Answers

\* The running process waits for no child.
LEMMA RunningNeverAsks ==
    ASSUME IInv, NEW p \in ProcIds, p = active_proc_num
    PROVE  /\ Asked(p) = FALSE
           /\ kstack[p] \in Seq(Frame)
           /\ \A i \in 1..Len(kstack[p]) :
                 /\ kstack[p][i].at \notin Waiting
                 /\ kstack[p][i].at \in {"execute", "answer"} => i = 1
  <1>1. kstack[p] \in Seq(Frame)
    BY DEF IInv, TypeOK
  <1>2. \A i \in 1..Len(kstack[p]) :
           /\ kstack[p][i].at \notin Waiting
           /\ kstack[p][i].at \in {"execute", "answer"} => i = 1
    BY DEF IInv, FramesInOrder, ProcIds
  <1>3. kstack[p] # <<>> => Last(kstack[p]).at \notin Waiting
    <2> SUFFICES ASSUME kstack[p] # <<>>
                 PROVE  Last(kstack[p]).at \notin Waiting
      OBVIOUS
    <2>1. Len(kstack[p]) \in 1..Len(kstack[p]) /\ Last(kstack[p]) = kstack[p][Len(kstack[p])]
      BY <1>1, LastFacts
    <2>2. QED
      BY <1>2, <2>1
  <1>4. Asked(p) = FALSE
    BY <1>3 DEF Asked, Waiting
  <1>5. QED
    BY <1>1, <1>2, <1>4

\* The view of a process with a given stack after the step.
LEMMA ViewOfStack ==
    ASSUME NEW p, NEW t \in Seq(Frame), t # <<>>, kstack'[p] = t, page'[p] = page[p]
    PROVE  ProcessView(p)' =
             [prog |-> page[p],
              asked |-> t[Len(t)].at = "wait_syscall",
              answer |-> IF t[1].at = "answer" THEN {t[1].val} ELSE {}]
  <1>1. Asked(p)' = (t[Len(t)].at = "wait_syscall")
    BY LastFacts, Zenon DEF Asked
  <1>2. Answers(p)' = IF t[1].at = "answer" THEN {t[1].val} ELSE {}
    BY DEF Answers
  <1>3. QED
    BY <1>1, <1>2 DEF ProcessView

\* A view whose process was given an answer, or asks for a child.
LEMMA AnsweredView ==
    ASSUME NEW prog, NEW f, NEW b, NEW c, NEW r,
           r = [prog |-> prog, asked |-> f, answer |-> b]
    PROVE  [r EXCEPT !.answer = c] = [prog |-> prog, asked |-> f, answer |-> c]
  OBVIOUS

LEMMA AskedView ==
    ASSUME NEW prog, NEW f, NEW g, NEW b, NEW r,
           r = [prog |-> prog, asked |-> f, answer |-> b]
    PROVE  [r EXCEPT !.asked = g] = [prog |-> prog, asked |-> g, answer |-> b]
  OBVIOUS

\* The same of the view of a process that has not asked for a child.
LEMMA RunningAnswered ==
    ASSUME NEW p, Asked(p) = FALSE, NEW c
    PROVE  [ProcessView(p) EXCEPT !.answer = c]
             = [prog |-> page[p], asked |-> FALSE, answer |-> c]
  <1>1. PICK no : no = FALSE
    OBVIOUS
  <1>2. PICK r : r = ProcessView(p)
    OBVIOUS
  <1>3. r = [prog |-> page[p], asked |-> no, answer |-> Answers(p)]
    BY <1>1, <1>2, Zenon DEF ProcessView
  <1>4. [r EXCEPT !.answer = c] = [prog |-> page[p], asked |-> no, answer |-> c]
    BY <1>3, AnsweredView
  <1>5. QED
    BY <1>1, <1>2, <1>4, Zenon

LEMMA RunningAsks ==
    ASSUME NEW p, Asked(p) = FALSE
    PROVE  [ProcessView(p) EXCEPT !.asked = TRUE]
             = [prog |-> page[p], asked |-> TRUE, answer |-> Answers(p)]
  <1>1. PICK no, yes : no = FALSE /\ yes = TRUE
    OBVIOUS
  <1>2. PICK r : r = ProcessView(p)
    OBVIOUS
  <1>3. r = [prog |-> page[p], asked |-> no, answer |-> Answers(p)]
    BY <1>1, <1>2, Zenon DEF ProcessView
  <1>4. [r EXCEPT !.asked = yes] = [prog |-> page[p], asked |-> yes, answer |-> Answers(p)]
    BY <1>3, AskedView
  <1>5. QED
    BY <1>1, <1>2, <1>4, Zenon

\* A process that goes on when the one above it leaves: with an answer if it
\* asked, and otherwise as it was.
LEMMA SuspendedResumes ==
    ASSUME NEW p, NEW status
    PROVE  Abstract!Resumed(ProcessView(p), status)
             = [prog |-> page[p], asked |-> FALSE,
                answer |-> IF Asked(p) THEN {ReturnCode(status)} ELSE Answers(p)]
  <1>1. PICK no : no = FALSE
    OBVIOUS
  <1>2. PICK r : r = ProcessView(p)
    OBVIOUS
  <1>3. PICK f : f = Asked(p)
    OBVIOUS
  <1>4. PICK c : c = {ReturnCode(status)}
    OBVIOUS
  <1>5. Abstract!ReturnValue(status) = ReturnCode(status)
    BY DEF Abstract!ReturnValue, ReturnCode
  <1>6. r = [prog |-> page[p], asked |-> f, answer |-> Answers(p)]
    BY <1>2, <1>3, Zenon DEF ProcessView
  <1>7. [r EXCEPT !.asked = no, !.answer = c] = [prog |-> page[p], asked |-> no, answer |-> c]
    <2>1. PICK q : q = [r EXCEPT !.asked = no]
      OBVIOUS
    <2>2. q = [prog |-> page[p], asked |-> no, answer |-> Answers(p)]
      BY <1>6, <2>1, AskedView
    <2>3. [q EXCEPT !.answer = c] = [prog |-> page[p], asked |-> no, answer |-> c]
      BY <2>2, AnsweredView
    <2>4. [r EXCEPT !.asked = no, !.answer = c] = [q EXCEPT !.answer = c]
      BY <2>1
    <2>5. QED
      BY <2>3, <2>4
  <1>8. CASE Asked(p)
    <2>1. r.asked
      BY <1>3, <1>6, <1>8
    <2>2. Abstract!Resumed(r, status) = [r EXCEPT !.asked = no, !.answer = c]
      BY <1>1, <1>4, <1>5, <2>1, Zenon DEF Abstract!Resumed
    <2>3. QED
      BY <1>1, <1>2, <1>4, <1>7, <1>8, <2>2, Zenon
  <1>9. CASE ~Asked(p)
    <2>1. ~r.asked /\ f = FALSE
      BY <1>3, <1>6, <1>9, Zenon DEF Asked
    <2>2. Abstract!Resumed(r, status) = r
      BY <2>1, Zenon DEF Abstract!Resumed
    <2>3. QED
      BY <1>2, <1>6, <1>9, <2>1, <2>2, Zenon
  <1>10. QED
    BY <1>8, <1>9

-----------------------------------------------------------------------------
(* The steps.                                                               *)

\* An entry into the kernel is no step of the stack of processes.
LEMMA EnterStutters ==
    ASSUME IInv, NEW frame, EntryFrame(frame), Enter(frame)
    PROVE  UNCHANGED ProcessViews
  <1>1. PICK a \in ProcIds : a = active_proc_num /\ a = esp
    BY DEF IInv, TypeOK, OneCurrentProcess
  <1>2. PICK s : s = kstack[a]
    OBVIOUS
  <1>3. PICK t : t = Append(s, frame)
    OBVIOUS
  <1>4. /\ s \in Seq(Frame) /\ ProcessView(a).asked = FALSE
        /\ frame \in Frame /\ frame.at \notin Waiting \cup {"answer"}
    BY <1>1, <1>2, RunningNeverAsks DEF EntryFrame, ProcessView
  <1>5. /\ t \in Seq(Frame) /\ t # <<>>
        /\ Len(t) = Len(s) + 1
        /\ \A i \in 1..Len(s) : t[i] = s[i]
        /\ t[Len(t)] = frame
    BY <1>3, <1>4, PushFacts
  <1>6. /\ kstack'[a] = t
        /\ \A p \in ProcIds : p # a => kstack'[p] = kstack[p]
        /\ page' = page
        /\ active_proc_num' = active_proc_num
    BY <1>1, <1>2, <1>3 DEF Enter, IInv, TypeOK
  <1>7. (IF t[1].at = "answer" THEN {t[1].val} ELSE {}) = Answers(a)
    <2>1. CASE s = <<>>
      <3>1. t[1] = frame
        BY <1>5, <2>1, EmptySeq
      <3>2. QED
        BY <1>2, <1>4, <2>1, <3>1 DEF Answers
    <2>2. CASE s # <<>>
      <3>1. 1 \in 1..Len(s)
        BY <1>4, <2>2, EmptySeq, LenProperties
      <3>2. QED
        BY <1>2, <1>5, <2>2, <3>1 DEF Answers
    <2>3. QED
      BY <2>1, <2>2
  <1>8. ProcessView(a)' = ProcessView(a)
    <2>1. ProcessView(a)' = [prog |-> page[a], asked |-> FALSE, answer |-> Answers(a)]
      BY <1>4, <1>5, <1>6, <1>7, ViewOfStack DEF Waiting
    <2>2. Asked(a) = FALSE
      BY <1>1, RunningNeverAsks
    <2>3. QED
      BY <2>1, <2>2 DEF ProcessView
  <1>9. \A p \in ProcIds : ProcessView(p)' = ProcessView(p)
    BY <1>6, <1>8, KeptView
  <1>10. QED
    BY <1>6, <1>9, SameViews

\* The answer of a failed execute: a program is refused, the keyboard handler
\* goes on as if nothing had been asked.
LEMMA FailedExecuteRefuses ==
    ASSUME IInv, TopIs("execute") \/ TopIs("launch"), ExecuteFails
    PROVE  Abstract!Refuse \/ UNCHANGED ProcessViews
  <1>1. PICK a \in ProcIds : a = active_proc_num /\ a = esp
    BY DEF IInv, TypeOK, OneCurrentProcess
  <1>2. PICK s : s = kstack[a]
    OBVIOUS
  <1>3. PICK next : next = FailedFrame(TopFrame.at)
    OBVIOUS
  <1>4. PICK t : t = WithTop(s, next)
    OBVIOUS
  <1>5. /\ s \in Seq(Frame) /\ s # <<>>
        /\ Asked(a) = FALSE
        /\ \A i \in 1..Len(s) : s[i].at = "execute" => i = 1
    BY <1>1, <1>2, RunningNeverAsks DEF TopIs, InUser
  <1>6. /\ Len(s) \in Nat \ {0}
        /\ TopFrame = s[Len(s)]
    BY <1>1, <1>2, <1>5, LastFacts DEF TopFrame
  <1>7. next \in Frame
    BY <1>3 DEF FailedFrame, Closed, Frame, Places
  <1>8. /\ t \in Seq(Frame) /\ t # <<>>
        /\ Len(t) = Len(s)
        /\ \A i \in 1..Len(s) : i # Len(s) => t[i] = s[i]
        /\ t[Len(s)] = next
    BY <1>4, <1>5, <1>7, WithTopFacts, Zenon
  <1>9. /\ kstack'[a] = t
        /\ \A p \in ProcIds : p # a => kstack'[p] = kstack[p]
        /\ page' = page
        /\ active_proc_num' = active_proc_num
    BY <1>1, <1>2, <1>3, <1>4 DEF ExecuteFails, IInv, TypeOK
  <1>10. \A p \in ProcIds : p # a => ProcessView(p)' = ProcessView(p)
    BY <1>9, KeptView
  <1>11. ProcessView(a) = [prog |-> page[a], asked |-> FALSE, answer |-> Answers(a)]
    BY <1>5 DEF ProcessView
  <1>12. CASE TopFrame.at = "execute"
    <2>1. Len(s) = 1 /\ s[1].at = "execute"
      BY <1>5, <1>6, <1>12
    <2>2. Answers(a) = {}
      BY <1>2, <2>1 DEF Answers
    <2>3. t[1] = [at |-> "answer", val |-> -1, intr |-> FALSE] /\ Len(t) = 1
      BY <1>3, <1>8, <1>12, <2>1 DEF FailedFrame, Closed
    <2>4. ProcessView(a)' = [prog |-> page[a], asked |-> FALSE, answer |-> {-1}]
      <3>1. /\ (t[Len(t)].at = "wait_syscall") = FALSE
            /\ (IF t[1].at = "answer" THEN {t[1].val} ELSE {}) = {-1}
        BY <2>3
      <3>2. QED
        BY <1>8, <1>9, <3>1, ViewOfStack, Zenon
    <2>5. ProcessView(a)' = [ProcessView(a) EXCEPT !.answer = {-1}]
      BY <1>5, <2>4, RunningAnswered, Zenon
    <2>6. \A p \in ProcIds : p < active_proc_num => ProcessView(p)' = ProcessView(p)
      BY <1>1, <1>10 DEF ProcIds
    <2>7. ProcessViews' = Abstract!Upto(active_proc_num + 1, [ProcessView(a) EXCEPT !.answer = {-1}])
      BY <1>1, <1>9, <2>5, <2>6, TopView
    <2>8. ProcessView(a).answer = {}
      BY <1>11, <2>2
    <2>9. QED
      BY <1>1, <2>7, <2>8, AbstractTop DEF Abstract!Refuse
  <1>13. CASE TopFrame.at = "launch"
    <2>1. next = [at |-> "launched", val |-> 0, intr |-> FALSE]
      BY <1>3, <1>13 DEF FailedFrame, Closed
    <2>2. (IF t[1].at = "answer" THEN {t[1].val} ELSE {}) = Answers(a)
      <3>1. CASE Len(s) = 1
        BY <1>2, <1>5, <1>6, <1>8, <1>13, <2>1, <3>1 DEF Answers
      <3>2. CASE Len(s) # 1
        <4>1. 1 \in 1..Len(s)
          BY <1>6
        <4>2. t[1] = s[1]
          BY <1>8, <3>2, <4>1
        <4>3. QED
          BY <1>2, <1>5, <4>2 DEF Answers
      <3>3. QED
        BY <3>1, <3>2
    <2>3. ProcessView(a)' = [prog |-> page[a], asked |-> FALSE, answer |-> Answers(a)]
      <3>1. (t[Len(t)].at = "wait_syscall") = FALSE
        BY <1>8, <2>1
      <3>2. QED
        BY <1>8, <1>9, <2>2, <3>1, ViewOfStack, Zenon
    <2>4. \A p \in ProcIds : ProcessView(p)' = ProcessView(p)
      BY <1>10, <1>11, <2>3
    <2>5. QED
      BY <1>9, <2>4, SameViews
  <1>14. QED
    BY <1>12, <1>13 DEF TopIs

\* A system call or the keyboard handler ends: a program takes its answer, and
\* otherwise nothing changes.
LEMMA LeaveTakes ==
    ASSUME IInv, TopIs("answer") \/ TopIs("other") \/ TopIs("launched"), Leave
    PROVE  Abstract!Take \/ UNCHANGED ProcessViews
  <1>1. PICK a \in ProcIds : a = active_proc_num /\ a = esp /\ a = esp0
    BY DEF IInv, TypeOK, OneCurrentProcess
  <1>2. PICK s : s = kstack[a]
    OBVIOUS
  <1>3. PICK t : t = Front(s)
    OBVIOUS
  <1>4. /\ s \in Seq(Frame) /\ s # <<>>
        /\ Asked(a) = FALSE
        /\ \A i \in 1..Len(s) : s[i].at \notin Waiting /\ (s[i].at = "answer" => i = 1)
    BY <1>1, <1>2, RunningNeverAsks DEF TopIs, InUser
  <1>5. /\ Len(s) \in Nat \ {0}
        /\ TopFrame = s[Len(s)]
    BY <1>1, <1>2, <1>4, LastFacts DEF TopFrame
  <1>6. /\ t \in Seq(Frame)
        /\ Len(t) = Len(s) - 1
        /\ \A i \in 1..Len(t) : t[i] = s[i]
    BY <1>3, <1>4, PopFacts
  <1>7. /\ kstack'[a] = t
        /\ \A p \in ProcIds : p # a => kstack'[p] = kstack[p]
        /\ page' = page
        /\ active_proc_num' = active_proc_num
    BY <1>1, <1>2, <1>3 DEF Leave, IInv, TypeOK
  <1>8. \A p \in ProcIds : p # a => ProcessView(p)' = ProcessView(p)
    BY <1>7, KeptView
  <1>9. CASE Len(s) = 1
    <2>1. t = <<>>
      BY <1>6, <1>9, EmptySeq
    <2>2. ProcessView(a)' = [prog |-> page[a], asked |-> FALSE, answer |-> {}]
      BY <1>7, <2>1 DEF ProcessView, Asked, Answers
    <2>3. CASE s[1].at = "answer"
      <3>1. ProcessView(a)' = [ProcessView(a) EXCEPT !.answer = {}]
        BY <1>4, <2>2, RunningAnswered, Zenon
      <3>2. \A p \in ProcIds : p < active_proc_num => ProcessView(p)' = ProcessView(p)
        BY <1>1, <1>8 DEF ProcIds
      <3>3. ProcessViews' = Abstract!Upto(active_proc_num + 1, [ProcessView(a) EXCEPT !.answer = {}])
        BY <1>1, <1>7, <3>1, <3>2, TopView
      <3>4. ProcessView(a).answer # {}
        BY <1>2, <1>4, <2>3 DEF ProcessView, Answers
      <3>5. QED
        BY <1>1, <3>3, <3>4, AbstractTop DEF Abstract!Take
    <2>4. CASE s[1].at # "answer"
      <3>1. Answers(a) = {}
        BY <1>2, <2>4 DEF Answers
      <3>2. ProcessView(a)' = ProcessView(a)
        BY <1>4, <2>2, <3>1, Zenon DEF ProcessView
      <3>3. \A p \in ProcIds : ProcessView(p)' = ProcessView(p)
        BY <1>8, <3>2
      <3>4. QED
        BY <1>7, <3>3, SameViews
    <2>5. QED
      BY <2>3, <2>4
  <1>10. CASE Len(s) # 1
    <2>1. t # <<>> /\ Len(t) \in 1..Len(t) /\ Len(t) \in 1..Len(s) /\ 1 \in 1..Len(t)
      BY <1>5, <1>6, <1>10, EmptySeq
    <2>2. (t[Len(t)].at = "wait_syscall") = FALSE
      BY <1>4, <1>6, <2>1 DEF Waiting
    <2>3. (IF t[1].at = "answer" THEN {t[1].val} ELSE {}) = Answers(a)
      BY <1>2, <1>4, <1>6, <2>1 DEF Answers
    <2>4. ProcessView(a)' = [prog |-> page[a], asked |-> FALSE, answer |-> Answers(a)]
      BY <1>6, <1>7, <2>1, <2>2, <2>3, ViewOfStack, Zenon
    <2>5. ProcessView(a)' = ProcessView(a)
      BY <1>4, <2>4, Zenon DEF ProcessView
    <2>6. \A p \in ProcIds : ProcessView(p)' = ProcessView(p)
      BY <1>8, <2>5
    <2>7. QED
      BY <1>7, <2>6, SameViews
  <1>11. QED
    BY <1>9, <1>10

\* execute runs a program on top of its caller: a child the program asked for,
\* or the shell of a terminal the user opened.
LEMMA ExecutePushes ==
    ASSUME IInv, NEW prog \in Programs, FreeSlots(proc_id_flags) # {},
           TopIs("execute") \/ (TopIs("launch") /\ prog = Shell), ExecuteStarts(prog)
    PROVE  Abstract!Execute(prog) \/ Abstract!OpenTerminal
  <1>1. PICK a \in ProcIds : a = active_proc_num /\ a = esp
    BY DEF IInv, TypeOK, OneCurrentProcess
  <1>2. PICK n \in ProcIds : n = a + 1 /\ n = NewProcId(proc_id_flags) /\ n # a
    BY <1>1, NextSlot, SizesAssumption DEF IInv, ProcIds
  <1>3. PICK s : s = kstack[a]
    OBVIOUS
  <1>4. PICK frame : frame = WaitingFrame(TopFrame.at)
    OBVIOUS
  <1>5. PICK t : t = WithTop(s, frame)
    OBVIOUS
  <1>6. /\ s \in Seq(Frame) /\ s # <<>>
        /\ Asked(a) = FALSE
        /\ \A i \in 1..Len(s) : s[i].at = "execute" => i = 1
    BY <1>1, <1>3, RunningNeverAsks DEF TopIs, InUser
  <1>7. /\ Len(s) \in Nat \ {0}
        /\ TopFrame = s[Len(s)]
    BY <1>1, <1>3, <1>6, LastFacts DEF TopFrame
  <1>8. frame \in Frame
    BY <1>4 DEF WaitingFrame, Closed, Frame, Places, Waiting
  <1>9. /\ t \in Seq(Frame) /\ t # <<>>
        /\ Len(t) = Len(s)
        /\ \A i \in 1..Len(s) : i # Len(s) => t[i] = s[i]
        /\ t[Len(s)] = frame
    BY <1>5, <1>6, <1>8, WithTopFacts, Zenon
  <1>10. /\ active_proc_num' = n
         /\ page' = [page EXCEPT ![n] = prog]
         /\ kstack' = [[kstack EXCEPT ![a] = t] EXCEPT ![n] = <<>>]
    BY <1>1, <1>2, <1>3, <1>4, <1>5 DEF ExecuteStarts, Start, ImagePage, StackOf
  <1>11. /\ kstack'[a] = t /\ page'[a] = page[a]
         /\ kstack'[n] = <<>> /\ page'[n] = prog
         /\ \A p \in ProcIds : p # a /\ p # n => kstack'[p] = kstack[p] /\ page'[p] = page[p]
    BY <1>2, <1>10 DEF IInv, TypeOK
  <1>12. \A p \in ProcIds : p < a => ProcessView(p)' = ProcessView(p)
    <2>1. \A p \in ProcIds : p < a => p # a /\ p # n
      BY <1>2 DEF ProcIds
    <2>2. QED
      BY <1>11, <2>1, KeptView
  <1>13. ProcessView(n)' = Abstract!Fresh(prog)
    BY <1>11 DEF ProcessView, Asked, Answers, Abstract!Fresh
  <1>14. Abstract!Depth < MAX_PROCESSES
    BY <1>1, <1>2, AbstractTop, SizesAssumption DEF ProcIds
  <1>15. ASSUME NEW v, ProcessView(a)' = v
         PROVE  ProcessViews' = Append(Abstract!Upto(active_proc_num + 1, v), Abstract!Fresh(prog))
    <2>1. active_proc_num' = active_proc_num + 1 /\ active_proc_num + 1 \in ProcIds
      BY <1>1, <1>2, <1>10
    <2>2. /\ \A p \in ProcIds : p < active_proc_num => ProcessView(p)' = ProcessView(p)
          /\ \A p \in ProcIds : p = active_proc_num => ProcessView(p)' = v
          /\ \A p \in ProcIds : p = active_proc_num + 1 => ProcessView(p)' = Abstract!Fresh(prog)
      BY <1>1, <1>2, <1>12, <1>13, <1>15
    <2>3. QED
      BY <2>1, <2>2, PushView
  <1>16. CASE TopIs("execute")
    <2>1. TopFrame.at = "execute" /\ Len(s) = 1 /\ s[1].at = "execute"
      <3>1. Len(s) \in 1..Len(s) /\ s[Len(s)].at = "execute"
        BY <1>7, <1>16 DEF TopIs
      <3>2. QED
        BY <1>6, <1>7, <3>1
    <2>2. Answers(a) = {}
      BY <1>3, <2>1 DEF Answers
    <2>3. t[1] = [at |-> "wait_syscall", val |-> 0, intr |-> FALSE] /\ Len(t) = 1
      BY <1>4, <1>9, <2>1 DEF WaitingFrame, Closed
    <2>4. ProcessView(a)' = [prog |-> page[a], asked |-> TRUE, answer |-> Answers(a)]
      <3>1. Asked(a)' = TRUE
        <4>1. Last(t) = t[Len(t)]
          BY <1>9, LastFacts
        <4>2. QED
          BY <1>9, <1>11, <2>3, <4>1 DEF Asked
      <3>2. Answers(a)' = Answers(a)
        <4>1. t[1].at # "answer"
          BY <2>3
        <4>2. kstack'[a][1].at # "answer"
          BY <1>11, <4>1
        <4>3. QED
          BY <2>2, <4>2 DEF Answers
      <3>3. QED
        BY <1>11, <3>1, <3>2, Zenon DEF ProcessView
    <2>5. ProcessView(a)' = [ProcessView(a) EXCEPT !.asked = TRUE]
      BY <1>6, <2>4, RunningAsks, Zenon
    <2>6. ProcessView(a).answer = {}
      BY <2>2 DEF ProcessView
    <2>7. ProcessViews' = Append(Abstract!Upto(active_proc_num + 1, [ProcessView(a) EXCEPT !.asked = TRUE]),
                                 Abstract!Fresh(prog))
      BY <1>15, <2>5
    <2>8. QED
      BY <1>1, <1>14, <2>6, <2>7, AbstractTop DEF Abstract!Execute
  <1>17. CASE TopIs("launch") /\ prog = Shell
    <2>1. frame = [at |-> "wait_launch", val |-> 0, intr |-> FALSE] /\ TopFrame.at = "launch"
      BY <1>4, <1>17 DEF WaitingFrame, Closed, TopIs
    <2>2. (IF t[1].at = "answer" THEN {t[1].val} ELSE {}) = Answers(a)
      <3>1. CASE Len(s) = 1
        BY <1>3, <1>6, <1>7, <1>9, <2>1, <3>1 DEF Answers
      <3>2. CASE Len(s) # 1
        <4>1. 1 \in 1..Len(s)
          BY <1>7
        <4>2. t[1] = s[1]
          BY <1>9, <3>2, <4>1
        <4>3. QED
          BY <1>3, <1>6, <4>2 DEF Answers
      <3>3. QED
        BY <3>1, <3>2
    <2>3. ProcessView(a)' = [prog |-> page[a], asked |-> FALSE, answer |-> Answers(a)]
      <3>1. (t[Len(t)].at = "wait_syscall") = FALSE
        BY <1>9, <2>1
      <3>2. QED
        BY <1>9, <1>11, <2>2, <3>1, ViewOfStack, Zenon
    <2>4. ProcessView(a)' = ProcessView(a)
      BY <1>6, <2>3, Zenon DEF ProcessView
    <2>5. ProcessViews' = Append(Abstract!Upto(active_proc_num + 1, ProcessView(a)), Abstract!Fresh(Shell))
      BY <1>15, <1>17, <2>4
    <2>6. Abstract!Upto(active_proc_num + 1, ProcessView(a)) = ProcessViews
      <3>1. PICK k \in Nat : k = active_proc_num + 1 /\ k - 1 = a
        BY <1>1 DEF ProcIds
      <3>2. \A i \in 1..k : (IF i = k THEN ProcessView(a) ELSE ProcessViews[i]) = ProcessView(i - 1)
        BY <3>1 DEF ProcessViews
      <3>3. QED
        BY <3>1, <3>2 DEF ProcessViews, Abstract!Upto
    <2>7. QED
      BY <1>14, <2>5, <2>6 DEF Abstract!OpenTerminal
  <1>18. QED
    BY <1>16, <1>17

\* halt of a process above another: that one goes on, with the status if it
\* asked for the child.
LEMMA HaltPops ==
    ASSUME IInv, active_proc_num # 0, NEW status \in Int, HaltToParent(status)
    PROVE  Abstract!Halt(status)
  <1>1. PICK a \in ProcIds : a = active_proc_num /\ a = esp
    BY DEF IInv, TypeOK, OneCurrentProcess
  <1>2. PICK b \in ProcIds : b = a - 1 /\ a # b /\ b < a
    BY <1>1, SizesAssumption DEF ProcIds
  <1>3. PICK s : s = kstack[b]
    OBVIOUS
  <1>4. /\ pcb[a].parent_proc_num = b
        /\ pcb[a].ksp.slot = b
        /\ pcb[a].ksp.depth = Len(s)
        /\ Len(s) > 0
        /\ s[Len(s)].at \in Waiting
    BY <1>1, <1>2, <1>3 DEF IInv, ParentIsCaller, ProcIds
  <1>5. s \in Seq(Frame) /\ s # <<>>
    BY <1>2, <1>3, <1>4, EmptySeq DEF IInv, TypeOK
  <1>6. /\ Len(s) \in Nat \ {0} /\ Len(s) \in 1..Len(s)
        /\ s[Len(s)] \in Frame
        /\ Last(s) = s[Len(s)]
    BY <1>5, LastFacts
  <1>7. s[Len(s)].at = "wait_syscall" => Len(s) = 1
    BY <1>2, <1>3, <1>6 DEF IInv, FramesInOrder
  <1>8. PICK next : next = ReturnedFrame(s[Len(s)], status)
    OBVIOUS
  <1>9. PICK t : t = WithTop(s, next)
    OBVIOUS
  <1>10. /\ next \in Frame
         /\ next.at \in {"answer", "launched"}
         /\ next.at = "answer" <=> s[Len(s)].at = "wait_syscall"
    BY <1>6, <1>8, ReturnedFrameFacts
  <1>11. /\ t \in Seq(Frame) /\ t # <<>>
         /\ Len(t) = Len(s)
         /\ \A i \in 1..Len(s) : i # Len(s) => t[i] = s[i]
         /\ t[Len(s)] = next
    BY <1>5, <1>9, <1>10, WithTopFacts, Zenon
  <1>12. active_proc_num' = b /\ page' = page
    BY <1>1, <1>4 DEF HaltToParent, CurPcb
  <1>13. kstack' = [[kstack EXCEPT ![a] = <<>>] EXCEPT ![b] = t]
    <2>1. [kstack EXCEPT ![a] = <<>>][b] = s
      BY <1>1, <1>2, <1>3 DEF IInv, TypeOK
    <2>2. kstack' = [[kstack EXCEPT ![a] = <<>>] EXCEPT ![b] = Continued(s, Len(s), status)]
      BY <1>1, <1>2, <1>4, <2>1 DEF HaltToParent, CurPcb
    <2>3. QED
      BY <1>5, <1>8, <1>9, <2>2, ContinuedFacts
  <1>14. /\ kstack'[b] = t
         /\ \A p \in ProcIds : p # a /\ p # b => kstack'[p] = kstack[p]
    BY <1>1, <1>2, <1>13 DEF IInv, TypeOK
  <1>15. Asked(b) = (s[Len(s)].at = "wait_syscall")
    BY <1>3, <1>5, <1>6, Zenon DEF Asked
  <1>16. (t[Len(t)].at = "wait_syscall") = FALSE
    BY <1>10, <1>11
  <1>17. (IF t[1].at = "answer" THEN {t[1].val} ELSE {})
           = IF Asked(b) THEN {ReturnCode(status)} ELSE Answers(b)
    <2>1. CASE s[Len(s)].at = "wait_syscall"
      <3>1. t[1] = next /\ next = Open("answer", ReturnCode(status))
        BY <1>7, <1>8, <1>11, <2>1 DEF ReturnedFrame
      <3>2. t[1].at = "answer" /\ t[1].val = ReturnCode(status)
        BY <3>1 DEF Open
      <3>3. Asked(b)
        BY <1>15, <2>1, Zenon
      <3>4. QED
        BY <3>2, <3>3, Zenon
    <2>2. CASE s[Len(s)].at # "wait_syscall" /\ Len(s) = 1
      <3>1. t[1] = next /\ next.at # "answer"
        BY <1>10, <1>11, <2>2
      <3>2. Answers(b) = {}
        BY <1>3, <1>4, <2>2 DEF Answers, Waiting
      <3>3. QED
        BY <1>15, <2>2, <3>1, <3>2
    <2>3. CASE s[Len(s)].at # "wait_syscall" /\ Len(s) # 1
      <3>1. t[1] = s[1]
        BY <1>6, <1>11, <2>3
      <3>2. QED
        BY <1>3, <1>5, <1>15, <2>3, <3>1, Zenon DEF Answers
    <2>4. QED
      BY <2>1, <2>2, <2>3
  <1>18. PICK v : v = Abstract!Resumed(ProcessView(b), status)
    OBVIOUS
  <1>19. ProcessView(b)' = v
    <2>1. ProcessView(b)' = [prog |-> page[b], asked |-> FALSE,
                             answer |-> IF Asked(b) THEN {ReturnCode(status)} ELSE Answers(b)]
      BY <1>11, <1>12, <1>14, <1>16, <1>17, ViewOfStack, Zenon
    <2>2. QED
      BY <1>18, <2>1, SuspendedResumes, Zenon
  <1>20. \A p \in ProcIds : p < b => ProcessView(p)' = ProcessView(p)
    <2>1. \A p \in ProcIds : p < b => p # a /\ p # b
      BY <1>2 DEF ProcIds
    <2>2. QED
      BY <1>12, <1>14, <2>1, KeptView
  <1>21. ProcessViews' = Abstract!Upto(active_proc_num, v)
    <2>1. active_proc_num' = active_proc_num - 1
      BY <1>1, <1>2, <1>12
    <2>2. /\ \A p \in ProcIds : p < active_proc_num - 1 => ProcessView(p)' = ProcessView(p)
          /\ \A p \in ProcIds : p = active_proc_num - 1 => ProcessView(p)' = v
      BY <1>1, <1>2, <1>19, <1>20
    <2>3. QED
      BY <2>1, <2>2, PopView
  <1>22. ProcessViews[active_proc_num] = ProcessView(b)
    BY <1>1, <1>2, SizesAssumption DEF ProcessViews, ProcIds
  <1>23. Abstract!Depth > 1 /\ Abstract!Depth - 1 = active_proc_num
    BY AbstractTop
  <1>24. QED
    BY <1>18, <1>21, <1>22, <1>23 DEF Abstract!Halt

\* One process alone is a sequence of one view.
LEMMA OneView ==
    ASSUME NEW v
    PROVE  [i \in 1..1 |-> v] = <<v>>
  <1> DEFINE f == [i \in 1..1 |-> v]
  <1>1. f \in Seq({v}) /\ <<v>> \in Seq({v})
    BY SeqDef
  <1>2. Len(<<v>>) = 1 /\ <<v>>[1] = v /\ f[1] = v
    OBVIOUS
  <1>3. Len(f) = 1
    BY FunctionIsSequence
  <1>4. QED
    <2> HIDE DEF f
    <2>1. \A i \in 1..Len(f) : f[i] = <<v>>[i]
      BY <1>2, <1>3
    <2>2. f = <<v>>
      BY <1>1, <1>2, <1>3, <2>1, SeqEqual
    <2>3. QED
      BY <2>2 DEF f

\* halt of the only process: a fresh shell takes its place.
LEMMA HaltRestarts ==
    ASSUME IInv, active_proc_num = 0, Start(Shell, FlagsCleared, kstack)
    PROVE  Abstract!Restart
  <1>1. 0 \in ProcIds
    BY SizesAssumption DEF ProcIds
  <1>2. NewProcId(FlagsCleared) = 0
    BY FirstSlot DEF IInv
  <1>3. active_proc_num' = 0 /\ page'[0] = Shell /\ kstack'[0] = <<>>
    BY <1>1, <1>2 DEF Start, ImagePage, StackOf, IInv, TypeOK
  <1>4. ProcessView(0)' = Abstract!Fresh(Shell)
    BY <1>3 DEF ProcessView, Asked, Answers, Abstract!Fresh
  <1>5. ProcessViews' = [i \in 1..1 |-> Abstract!Fresh(Shell)]
    <2>1. \A i \in 1..1 : ProcessView(i - 1)' = Abstract!Fresh(Shell)
      BY <1>4
    <2>2. QED
      BY <1>3, <2>1 DEF ProcessViews
  <1>6. Abstract!Depth = 1
    BY AbstractTop
  <1>7. QED
    BY <1>5, <1>6, OneView DEF Abstract!Restart

\* The body of halt, for the statuses the keyboard, exceptions and programs give.
LEMMA HaltImplements ==
    ASSUME IInv, NEW status \in Statuses \cup {0, EXCEPT_RETVAL}, HaltBody(status)
    PROVE  Abstract!Next
  <1>1. status \in Int
    BY StatusesAssumption DEF EXCEPT_RETVAL
  <1>2. CASE active_proc_num = 0
    BY <1>2, HaltRestarts DEF HaltBody, Abstract!Next
  <1>3. CASE active_proc_num # 0
    BY <1>1, <1>3, HaltPops DEF HaltBody, Abstract!Next
  <1>4. QED
    BY <1>2, <1>3

\* The initial state is one fresh shell.
LEMMA InitImplements == Init => Abstract!Init
  <1> SUFFICES ASSUME Init PROVE Abstract!Init
    OBVIOUS
  <1>1. 0 \in ProcIds /\ active_proc_num = 0 /\ page[0] = Shell /\ kstack[0] = <<>>
    BY SizesAssumption DEF Init, ProcIds
  <1>2. ProcessView(0) = Abstract!Fresh(Shell)
    BY <1>1 DEF ProcessView, Asked, Answers, Abstract!Fresh
  <1>3. ProcessViews = [i \in 1..1 |-> Abstract!Fresh(Shell)]
    <2>1. \A i \in 1..1 : ProcessView(i - 1) = Abstract!Fresh(Shell)
      BY <1>2
    <2>2. QED
      BY <1>1, <2>1 DEF ProcessViews
  <1>4. QED
    BY <1>3, OneView DEF Abstract!Init

\* Every step is a step of the stack of processes or leaves it as it is.
LEMMA NextImplements == IInv /\ [Next]_vars => [Abstract!Next]_ProcessViews
  <1> SUFFICES ASSUME IInv, [Next]_vars
               PROVE  Abstract!Next \/ UNCHANGED ProcessViews
    OBVIOUS
  <1> USE DEF EntryFrame, Open, Frame, Places, Waiting
  <1>1. EXCEPT_RETVAL \in Int /\ Statuses \subseteq Int
    BY StatusesAssumption DEF EXCEPT_RETVAL
  <1>2. ASSUME NEW status \in Statuses, SyscallHalt(status)
        PROVE  UNCHANGED ProcessViews
    <2>1. EntryFrame(Open("halt", status))
      BY <1>1
    <2>2. QED
      BY <1>2, <2>1, EnterStutters DEF SyscallHalt
  <1>3. CASE SyscallExecute
    <2>1. EntryFrame(Open("execute", 0))
      BY <1>3 DEF SyscallExecute
    <2>2. QED
      BY <1>3, <2>1, EnterStutters DEF SyscallExecute
  <1>4. CASE SyscallOther
    <2>1. EntryFrame(Open("other", 0))
      OBVIOUS
    <2>2. QED
      BY <1>4, <2>1, EnterStutters DEF SyscallOther
  <1>5. CASE Fault
    <2>1. EntryFrame(ExceptionFrame)
      BY <1>1 DEF ExceptionFrame
    <2>2. QED
      BY <1>5, <2>1, EnterStutters DEF Fault
  <1>6. ASSUME NEW t \in Terminals, LaunchTerminal(t)
        PROVE  UNCHANGED ProcessViews
    <2>1. EntryFrame(Open("launch", 0))
      OBVIOUS
    <2>2. QED
      BY <1>6, <2>1, EnterStutters DEF LaunchTerminal
  <1>7. ASSUME NEW t \in Terminals, ChangeTerminal(t)
        PROVE  UNCHANGED ProcessViews
    BY <1>7 DEF ChangeTerminal, ProcessViews, ProcessView, Asked, Answers
  <1>8. CASE CtrlC
    BY <1>8, HaltImplements DEF CtrlC
  <1>9. CASE Halt
    <2>1. PICK a \in ProcIds : a = esp /\ kstack[a] \in Seq(Frame) /\ kstack[a] # <<>>
      BY <1>9 DEF Halt, TopIs, InUser, IInv, TypeOK
    <2>2. /\ Len(kstack[a]) \in 1..Len(kstack[a])
          /\ TopFrame = kstack[a][Len(kstack[a])]
      BY <2>1, LastFacts DEF TopFrame
    <2>3. TopFrame.val \in Statuses \cup {EXCEPT_RETVAL}
      BY <1>9, <2>1, <2>2 DEF Halt, TopIs, IInv, FramesInOrder
    <2>4. QED
      BY <1>9, <2>3, HaltImplements DEF Halt
  <1>10. ASSUME NEW prog \in Programs, Execute(prog)
         PROVE  Abstract!Next
    BY <1>10, ExecutePushes DEF Execute, Abstract!Next
  <1>11. CASE ExecuteNotFound
    BY <1>11, FailedExecuteRefuses DEF ExecuteNotFound, Abstract!Next
  <1>12. CASE ExecuteTooMany
    BY <1>12, FailedExecuteRefuses DEF ExecuteTooMany, Abstract!Next
  <1>13. CASE SyscallReturn
    BY <1>13, LeaveTakes DEF SyscallReturn, Abstract!Next
  <1>14. CASE HandlerReturn
    BY <1>14, LeaveTakes DEF HandlerReturn, Abstract!Next
  <1>15. CASE UNCHANGED vars
    BY <1>15 DEF vars, ProcessViews, ProcessView, Asked, Answers
  <1>16. QED
    BY <1>2, <1>3, <1>4, <1>5, <1>6, <1>7, <1>8, <1>9, <1>10, <1>11, <1>12,
       <1>13, <1>14, <1>15 DEF Next

\* The kernel's processes are the strict stack ProcessStack describes: each is
\* answered once, by the child it asked for, and nothing else reaches it.
THEOREM Refinement == Spec => ImplementsProcessStack
  <1>1. Init => Abstract!Init
    BY InitImplements
  <1>2. IInv /\ [Next]_vars => [Abstract!Next]_ProcessViews
    BY NextImplements
  <1>3. QED
    BY <1>1, <1>2, Invariance, PTL DEF Spec, ImplementsProcessStack, Abstract!Spec
=============================================================================
