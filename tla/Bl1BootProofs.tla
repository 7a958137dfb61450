---------------------------- MODULE Bl1BootProofs ---------------------------
(***************************************************************************)
(* Bl1Boot for any number of resets and any contents of the memory: what   *)
(* the record in the scratch registers is worth at every point of a        *)
(* suspend and of a resume, and that the resume is safe against a reset    *)
(* between any two of its steps.                                           *)
(***************************************************************************)
EXTENDS Bl1Boot, TLAPS

\* The first k words of a kernel record for memory m, and no more.
Cut(regs, k, m) ==
    regs = [r \in Regs |-> IF r < k
                           THEN IF r = 0 THEN SIGNATURE
                                ELSE IF r = 1 THEN ENTRY
                                ELSE IF r = 2 THEN m
                                ELSE IF r = 3 THEN ADDRESS ELSE SIZE
                           ELSE 0]

\* A kernel signature stands before the first words, or all, of a record for
\* the marked memory that no jump has used.
Recorded(regs) ==
    Kernel(regs) => fresh /\ marked # 0 /\ \E k \in 1 .. 5 : Cut(regs, k, marked)

\* The ATF's record and its image.
AtfReady(regs) == Atf(regs) /\ ~Kernel(regs) /\ atf

\* What is in the registers when the suspend is complete.
Ready(regs) == Cut(regs, 5, mem) \/ AtfReady(regs)

\* suspend_mark on its way.
Marking ==
    /\ pc \in {"clear", "set"} => mem # 0
    /\ pc = "clear" => \A r \in Regs : r < step => scratch[r] = 0
    /\ pc = "set" => Cut(scratch, step, mem) /\ (step # 0 => marked = mem)
    /\ pc = "suspend" => Ready(scratch)
    /\ pc = "off" => Ready(scratch) /\ clean

\* The resume on its way.
Resuming ==
    /\ pc \in {"resume", "kernel", "atf"} => is_resume
    /\ pc = "kernel" => scratch = Blank /\ Kernel(read) /\ Recorded(read)
    /\ pc = "atf" => ~Kernel(scratch)
    /\ pc \in {"load", "RomUSBBoot"} /\ is_resume => ~Kernel(scratch) /\ ~Atf(scratch)

\* A suspend that nothing has disturbed.
Undisturbed ==
    clean =>
        /\ pc \in {"off", "main", "memory", "resume", "kernel", "atf"}
        /\ pc \in {"main", "memory", "resume"} => Ready(scratch)
        /\ pc = "main" => wakeup
        /\ pc = "memory" => is_resume
        /\ pc = "kernel" => Cut(read, 5, mem)
        /\ pc = "atf" => atf

IInv == TypeOK /\ Recorded(scratch) /\ Marking /\ Resuming /\ Undisturbed

-----------------------------------------------------------------------------
LEMMA InitIInv == Init => IInv
<1> SUFFICES ASSUME Init
             PROVE  IInv
  OBVIOUS
<1> USE Bl1Assumption
<1>1. Blank \in [Regs -> Words] /\ Blank[0] = 0
  BY DEF Blank, Words, Regs
<1>2. TypeOK
  <2>1. wakeup \in BOOLEAN /\ atf \in BOOLEAN /\ selfref \in BOOLEAN /\ fresh \in BOOLEAN /\ clean \in BOOLEAN /\ is_resume \in BOOLEAN
    BY Zenon DEF Init
  <2> QED
    BY <1>1, <2>1 DEF Init, TypeOK, Regs
<1>3. Recorded(scratch)
  BY <1>1 DEF Init, Recorded, Kernel, SIGNATURE
<1>4. Marking /\ Resuming /\ Undisturbed
  BY DEF Init, Marking, Resuming, Undisturbed
<1> QED
  BY <1>2, <1>3, <1>4 DEF IInv

LEMMA TypeOKStep ==
  ASSUME TypeOK, [Next]_vars
  PROVE  TypeOK'
<1> USE Bl1Assumption DEF TypeOK, Regs
<1>0. /\ Blank \in [Regs -> Words] /\ mem \in Words /\ 0 \in Words
      /\ {SIGNATURE, ENTRY, ADDRESS, SIZE, ATF_SIGNATURE, ATF_HEADER} \subseteq Words
  BY DEF Blank, Words
<1>1. CASE ResumeCheck
  <2>1. is_resume' \in BOOLEAN
    BY <1>1 DEF ResumeCheck, Kernel, Atf
  <2> QED
    BY <1>1, <2>1 DEF ResumeCheck, machine, history
<1>2. ASSUME NEW kept \in BOOLEAN, MemoryInitialize(kept) PROVE TypeOK'
  <2>1. atf' \in BOOLEAN /\ selfref' \in BOOLEAN
    BY <1>2, Zenon DEF MemoryInitialize
  <2>2. mem' \in 0 .. GENERATIONS
    BY <1>2 DEF MemoryInitialize
  <2> QED
    BY <1>2, <2>1, <2>2 DEF MemoryInitialize, history
<1>3. CASE ReadRecord
  BY <1>0, <1>3 DEF ReadRecord, history
<1>4. CASE JumpToKernel \/ KernelLost \/ JumpToAtf
  BY <1>4 DEF JumpToKernel, KernelLost, JumpToAtf, machine, history
<1>5. CASE AtfLost
  BY <1>0, <1>5 DEF AtfLost, history
<1>6. CASE Launch
  BY <1>6 DEF Launch, history
<1>7. CASE Fallback \/ MarkBegins
  BY <1>7 DEF Fallback, MarkBegins, machine, history
<1>8. CASE OsRuns
  <2>1. wakeup' \in BOOLEAN
    BY <1>8 DEF OsRuns
  <2> QED
    BY <1>8, <2>1 DEF OsRuns, history
<1>9. CASE MarkClears
  BY <1>0, <1>9 DEF MarkClears, history
<1>10. CASE MarkSets
  <2>1. Record[step] \in Words
    BY <1>0 DEF Record, CalcCrc, SIZE, SIGNATURE, ENTRY, ADDRESS
  <2> QED
    BY <1>10, <2>1 DEF MarkSets
<1>11. CASE AtfMarks
  BY <1>0, <1>11 DEF AtfMarks, history
<1>12. CASE Suspend \/ SuspendAborted \/ WakeUp
  BY <1>12 DEF Suspend, SuspendAborted, WakeUp, history
<1>13. CASE Reset
  <2>1. atf' \in BOOLEAN /\ clean' \in BOOLEAN
    BY <1>13, Zenon DEF Reset
  <2>2. mem' \in 0 .. GENERATIONS /\ resets' \in 0 .. RESETS
    BY <1>13 DEF Reset
  <2> QED
    BY <1>13, <2>1, <2>2 DEF Reset
<1>14. CASE UNCHANGED vars
  BY <1>14 DEF vars, machine, history
<1> QED
  BY <1>1, <1>2, <1>3, <1>4, <1>5, <1>6, <1>7, <1>8, <1>9, <1>10, <1>11, <1>12, <1>13, <1>14
     DEF Next, Boot, Sleep

-----------------------------------------------------------------------------
\* What a cut record holds.
LEMMA CutFacts ==
  ASSUME NEW regs, NEW k \in 0 .. 5, NEW m, Cut(regs, k, m)
  PROVE  /\ regs \in [Regs -> {regs[r] : r \in Regs}]
         /\ regs[0] = IF k > 0 THEN SIGNATURE ELSE 0
         /\ regs[1] = IF k > 1 THEN ENTRY ELSE 0
         /\ regs[2] = IF k > 2 THEN m ELSE 0
         /\ regs[4] = IF k > 4 THEN SIZE ELSE 0
BY DEF Cut, Regs

\* suspend_mark lengthens it by one word.
LEMMA CutGrows ==
  ASSUME NEW k \in Regs, Cut(scratch, k, mem)
  PROVE  Cut([scratch EXCEPT ![k] = Record[k]], k + 1, mem)
<1> DEFINE new == [scratch EXCEPT ![k] = Record[k]]
<1>1. Record[k] = IF k = 0 THEN SIGNATURE ELSE IF k = 1 THEN ENTRY ELSE IF k = 2 THEN mem
                  ELSE IF k = 3 THEN ADDRESS ELSE SIZE
  BY DEF Record, Regs, CalcCrc, SIZE
<1>2. new = [r \in Regs |-> IF r = k THEN Record[k] ELSE scratch[r]]
  BY DEF Cut, Regs
<1> QED
  BY <1>1, <1>2 DEF Cut, Regs

\* With no signature in place nothing is promised.
LEMMA NothingRecorded == ASSUME NEW regs, ~Kernel(regs) PROVE Recorded(regs)
BY DEF Recorded

\* What the CRC lets through.
LEMMA Matched ==
  ASSUME TypeOK, Recorded(read), Kernel(read), KernelMatches
  PROVE  mem = marked \/ Torn(read)
<1> USE Bl1Assumption
<1>1. PICK k \in 1 .. 5 : Cut(read, k, marked)
  BY DEF Recorded
<1>2. marked \in Nat \ {0} /\ mem \in Nat
  BY DEF Recorded, TypeOK
<1>3. /\ read[1] = IF k > 1 THEN ENTRY ELSE 0
      /\ read[2] = IF k > 2 THEN marked ELSE 0
      /\ read[4] = IF k > 4 THEN SIZE ELSE 0
  BY <1>1, CutFacts
<1> QED
  BY <1>2, <1>3 DEF KernelMatches, CalcCrc, Torn, SIZE, ENTRY

Rest == Recorded(scratch) /\ Marking /\ Resuming /\ Undisturbed

LEMMA BootStep ==
  ASSUME IInv, Boot
  PROVE  Rest'
<1> USE DEF IInv
<1>1. CASE ResumeCheck
  <2>1. Recorded(scratch)' /\ Marking'
    BY <1>1 DEF ResumeCheck, Recorded, Kernel, Marking, machine, history
  <2>2. Resuming'
    BY <1>1 DEF ResumeCheck, Resuming
  <2>3. ASSUME clean' PROVE is_resume' /\ Ready(scratch)'
    <3>1. wakeup /\ Ready(scratch)
      BY <1>1, <2>3 DEF ResumeCheck, Undisturbed, history
    <3>2. Kernel(scratch) \/ Atf(scratch)
      BY <3>1, CutFacts DEF Ready, AtfReady, Kernel
    <3> QED
      BY <1>1, <3>1, <3>2 DEF ResumeCheck, Ready, AtfReady, Kernel, Atf, machine
  <2>4. Undisturbed'
    BY <1>1, <2>3 DEF ResumeCheck, Undisturbed
  <2> QED
    BY <2>1, <2>2, <2>4 DEF Rest
<1>2. ASSUME NEW kept \in BOOLEAN, MemoryInitialize(kept) PROVE Rest'
  <2>1. Recorded(scratch)' /\ Marking'
    BY <1>2 DEF MemoryInitialize, Recorded, Kernel, Marking, history
  <2>2. Resuming'
    BY <1>2 DEF MemoryInitialize, Resuming
  <2>3. ASSUME clean' PROVE Ready(scratch)' /\ is_resume'
    <3>1. clean /\ kept /\ UNCHANGED <<mem, atf, scratch>> /\ Ready(scratch) /\ is_resume'
      BY <1>2, <2>3 DEF MemoryInitialize, Undisturbed, history
    <3> QED
      BY <3>1 DEF Ready, AtfReady, Kernel, Atf
  <2>4. Undisturbed'
    BY <1>2, <2>3 DEF MemoryInitialize, Undisturbed
  <2> QED
    BY <2>1, <2>2, <2>4 DEF Rest
<1>3. CASE ReadRecord
  <2>1. Blank[0] = 0 /\ Blank[4] = 0 /\ ~Kernel(Blank)
    BY DEF Blank, Regs, Kernel, SIGNATURE
  <2>2. CASE Kernel(scratch)
    <3>1. scratch' = Blank /\ read' = scratch /\ pc' = "kernel" /\ is_resume'
      BY <1>3, <2>2 DEF ReadRecord, Resuming
    <3>2. Recorded(scratch)' /\ Marking'
      BY <2>1, <3>1 DEF Recorded, Kernel, Marking
    <3>3. Kernel(read)' /\ Recorded(read)'
      BY <1>3, <2>2, <3>1 DEF ReadRecord, Recorded, Kernel, history
    <3>4. clean' => Cut(read, 5, mem)'
      BY <1>3, <2>2, <3>1 DEF ReadRecord, Undisturbed, Ready, AtfReady, Cut, history
    <3> QED
      BY <3>1, <3>2, <3>3, <3>4 DEF Rest, Resuming, Undisturbed
  <2>3. CASE ~Kernel(scratch) /\ Atf(scratch)
    <3>1. scratch' = scratch /\ pc' = "atf" /\ is_resume'
      BY <1>3, <2>3 DEF ReadRecord, Resuming
    <3>2. clean' => atf'
      BY <1>3, <2>3, CutFacts DEF ReadRecord, Undisturbed, Ready, AtfReady, Kernel, history
    <3> QED
      BY <2>3, <3>1, <3>2 DEF Rest, Recorded, Kernel, Marking, Resuming, Undisturbed
  <2>4. CASE ~Kernel(scratch) /\ ~Atf(scratch)
    <3>1. scratch' = scratch /\ pc' = "load"
      BY <1>3, <2>4 DEF ReadRecord
    <3>2. ~clean'
      BY <1>3, <2>4, CutFacts DEF ReadRecord, Undisturbed, Ready, AtfReady, Kernel, history
    <3> QED
      BY <2>4, <3>1, <3>2 DEF Rest, Recorded, Kernel, Atf, Marking, Resuming, Undisturbed
  <2> QED
    BY <2>2, <2>3, <2>4
<1>4. CASE JumpToKernel
  <2>1. ~Kernel(scratch)'
    BY <1>4 DEF JumpToKernel, Resuming, Kernel, Blank, Regs, SIGNATURE, machine
  <2> QED
    BY <1>4, <2>1 DEF JumpToKernel, Rest, Recorded, Kernel, Marking, Resuming, Undisturbed
<1>5. CASE KernelLost
  <2>1. scratch' = Blank /\ ~Kernel(scratch)' /\ ~Atf(scratch)'
    BY <1>5 DEF KernelLost, Resuming, Kernel, Atf, Blank, Regs, SIGNATURE, ATF_SIGNATURE, machine
  <2>2. ~clean
    <3>1. SUFFICES ASSUME clean PROVE FALSE
      OBVIOUS
    <3>2. Cut(read, 5, mem)
      BY <1>5, <3>1 DEF KernelLost, Undisturbed
    <3>3. KernelMatches
      BY <3>2, CutFacts DEF KernelMatches, CalcCrc, SIZE, ENTRY
    <3> QED
      BY <1>5, <3>3 DEF KernelLost
  <2> QED
    BY <1>5, <2>1, <2>2 DEF KernelLost, Rest, Recorded, Kernel, Atf, Marking, Resuming, Undisturbed, history
<1>6. CASE JumpToAtf
  BY <1>6 DEF JumpToAtf, Rest, Recorded, Kernel, Marking, Resuming, Undisturbed, machine
<1>7. CASE AtfLost
  <2>1. scratch'[0] = scratch[0] /\ scratch'[4] = 0
    BY <1>7 DEF AtfLost, TypeOK, Regs
  <2>2. ~Kernel(scratch)' /\ ~Atf(scratch)'
    BY <1>7, <2>1 DEF AtfLost, Resuming, Kernel, Atf, ATF_SIGNATURE
  <2>3. ~clean
    BY <1>7 DEF AtfLost, Undisturbed
  <2> QED
    BY <1>7, <2>2, <2>3 DEF AtfLost, Rest, Recorded, Kernel, Atf, Marking, Resuming, Undisturbed, history
<1>8. CASE Launch \/ Fallback
  <2>1. ~clean
    BY <1>8 DEF Launch, Fallback, Undisturbed
  <2> QED
    BY <1>8, <2>1 DEF Launch, Fallback, Rest, Recorded, Kernel, Atf, Marking, Resuming, Undisturbed,
                      machine, history
<1> QED
  BY <1>1, <1>2, <1>3, <1>4, <1>5, <1>6, <1>7, <1>8 DEF Boot

LEMMA SleepStep ==
  ASSUME IInv, Sleep
  PROVE  Rest'
<1> USE Bl1Assumption DEF IInv
<1>0. pc \notin {"off", "main", "memory", "resume", "kernel", "atf"} => ~clean
  BY DEF Undisturbed
<1>1. CASE MarkBegins
  <2>1. Recorded(scratch)' /\ Resuming' /\ Undisturbed'
    BY <1>0, <1>1 DEF MarkBegins, Recorded, Kernel, Resuming, Undisturbed, machine, history
  <2>2. Marking'
    <3>1. ~(\E r \in Regs : r < 0)
      BY DEF Regs
    <3> QED
      BY <1>1, <3>1 DEF MarkBegins, Marking, machine
  <2> QED
    BY <2>1, <2>2 DEF Rest
<1>2. CASE MarkClears
  <2>1. \A r \in Regs : r < step + 1 => scratch'[r] = 0
    BY <1>2 DEF MarkClears, Marking, TypeOK, Regs
  <2>2. ~Kernel(scratch)'
    BY <2>1 DEF Kernel, SIGNATURE, TypeOK, Regs
  <2>3. Resuming' /\ Undisturbed'
    BY <1>0, <1>2 DEF MarkClears, Resuming, Undisturbed, history
  <2>4. Marking'
    <3>1. CASE step = 4
      <4>1. scratch' \in [Regs -> Words] /\ \A r \in Regs : scratch'[r] = 0
        BY <1>2, <2>1, <3>1, TypeOKStep DEF TypeOK, Regs, Next, Sleep
      <4>2. Cut(scratch', 0, mem')
        BY <4>1 DEF Cut, Regs
      <4> QED
        BY <1>2, <3>1, <4>2 DEF MarkClears, Marking
    <3>2. CASE step # 4
      BY <1>2, <2>1, <3>2 DEF MarkClears, Marking
    <3> QED
      BY <3>1, <3>2
  <2> QED
    BY <2>2, <2>3, <2>4, NothingRecorded DEF Rest, Recorded, Kernel
<1>3. CASE MarkSets
  <2>1. mem # 0 /\ Cut(scratch, step, mem) /\ step \in Regs
    BY <1>3 DEF MarkSets, Marking, TypeOK
  <2>2. Cut(scratch', step + 1, mem')
    BY <1>3, <2>1, CutGrows DEF MarkSets
  <2>3. Recorded(scratch)'
    <3>1. step + 1 \in 1 .. 5 /\ fresh' /\ marked' = mem /\ mem' = mem
      BY <1>3, <2>1 DEF MarkSets, Regs
    <3> QED
      BY <2>1, <2>2, <3>1 DEF Recorded
  <2>4. Resuming' /\ Undisturbed'
    BY <1>0, <1>3 DEF MarkSets, Resuming, Undisturbed
  <2>5. Marking'
    <3>1. CASE step = 4
      BY <1>3, <2>2, <3>1 DEF MarkSets, Marking, Ready
    <3>2. CASE step # 4
      BY <1>3, <2>1, <2>2, <3>2 DEF MarkSets, Marking
    <3> QED
      BY <3>1, <3>2
  <2> QED
    BY <2>3, <2>4, <2>5 DEF Rest
<1>4. CASE AtfMarks
  <2>1. scratch'[0] = 0 /\ scratch'[4] = ATF_SIGNATURE
    BY <1>4 DEF AtfMarks, Blank, Regs
  <2>2. ~Kernel(scratch)' /\ Atf(scratch)' /\ atf'
    BY <1>4, <2>1 DEF AtfMarks, Kernel, Atf, SIGNATURE
  <2>3. Resuming' /\ Undisturbed'
    BY <1>0, <1>4 DEF AtfMarks, Resuming, Undisturbed, history
  <2>4. Marking'
    BY <1>4, <2>2 DEF AtfMarks, Marking, Ready, AtfReady, Kernel, Atf
  <2> QED
    BY <2>2, <2>3, <2>4, NothingRecorded DEF Rest, Recorded, Kernel
<1>5. CASE Suspend
  BY <1>5 DEF Suspend, Rest, Recorded, Kernel, Marking, Resuming, Undisturbed, Ready, AtfReady, Atf
<1>6. CASE SuspendAborted
  BY <1>6 DEF SuspendAborted, Rest, Recorded, Kernel, Marking, Resuming, Undisturbed
<1>7. CASE WakeUp
  <2>1. Ready(scratch)' /\ wakeup'
    BY <1>7 DEF WakeUp, Marking, Ready, AtfReady, Kernel, Atf
  <2> QED
    BY <1>7, <2>1 DEF WakeUp, Rest, Recorded, Kernel, Marking, Resuming, Undisturbed, history
<1> QED
  BY <1>1, <1>2, <1>3, <1>4, <1>5, <1>6, <1>7 DEF Sleep

LEMMA Inductive ==
  ASSUME IInv, [Next]_vars
  PROVE  IInv'
<1>1. TypeOK'
  BY TypeOKStep DEF IInv
<1>2. Rest'
  <2>1. CASE Boot
    BY <2>1, BootStep
  <2>2. CASE Sleep
    BY <2>2, SleepStep
  <2>3. CASE OsRuns
    <3>1. ~clean
      BY <2>3 DEF OsRuns, IInv, Undisturbed
    <3> QED
      BY <2>3, <3>1 DEF OsRuns, IInv, Rest, Recorded, Kernel, Marking, Resuming, Undisturbed, history
  <2>4. CASE Reset
    BY <2>4 DEF Reset, IInv, Rest, Recorded, Kernel, Marking, Resuming, Undisturbed
  <2>5. CASE UNCHANGED vars
    BY <2>5 DEF vars, machine, history, IInv, Rest, Recorded, Kernel, Atf, Marking, Resuming,
                Undisturbed, Ready, AtfReady
  <2> QED
    BY <2>1, <2>2, <2>3, <2>4, <2>5 DEF Next
<1> QED
  BY <1>1, <1>2 DEF IInv, Rest

\* The inductive invariant holds throughout.
THEOREM Invariance == Spec => []IInv
BY InitIInv, Inductive, PTL DEF Spec

\* The state of the loader is well typed (main.c, plat_pm.c).
THEOREM Typing == Spec => []TypeOK
<1>1. IInv => TypeOK
  BY DEF IInv
<1> QED
  BY <1>1, Invariance, PTL

\* A warm jump to the kernel finds the memory suspend_mark was called for, or
\* used a record cut off after its second word (s5p6818_resume).
THEOREM WarmMemory == Spec => []WarmMemoryTrue
<1>1. IInv => WarmMemoryTrue
  BY Matched DEF IInv, Resuming, WarmMemoryTrue
<1> QED
  BY <1>1, Invariance, PTL

\* A resume that failed leaves no record to be tried again (s5p6818_resume).
THEOREM NoLoop == Spec => []NoResumeLoop
<1>1. IInv => NoResumeLoop
  BY DEF IInv, Resuming, NoResumeLoop
<1> QED
  BY <1>1, Invariance, PTL

\* An undisturbed suspend ends in a resume (main, s5p6818_resume).
THEOREM CleanResumes == Spec => []CleanSuspendResumes
<1>1. IInv => CleanSuspendResumes
  BY DEF IInv, Undisturbed, CleanSuspendResumes
<1> QED
  BY <1>1, Invariance, PTL

\* A kernel record is used by one jump at most (s5p6818_resume).
THEOREM UsedOnce == Spec => RecordUsedOnce
<1>1. IInv /\ JumpToKernel => fresh
  BY DEF IInv, JumpToKernel, Resuming, Recorded
<1>2. IInv /\ [Next]_vars => [JumpToKernel => fresh]_vars
  BY <1>1
<1> QED
  BY <1>2, Invariance, PTL DEF Spec, RecordUsedOnce

=============================================================================
