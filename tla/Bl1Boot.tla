------------------------------- MODULE Bl1Boot ------------------------------
(***************************************************************************)
(* The 2nd boot loader over power cycles: main() with its resume check,    *)
(* the resume, the cold boot of the third loader, and the suspend that     *)
(* leaves a record in the always-on scratch registers                      *)
(* (nexell_riscv/bl1/src/{main.c,plat_pm.c,crc.c}).                        *)
(*                                                                         *)
(* The SoC can be reset between any two register writes of the suspend and *)
(* any two steps of the boot.  The writes that clear a kernel record are   *)
(* one step: the signature goes first, and no rest is a record without it. *)
(* The scratch registers and WAKEUPSTATUS outlive a reset, the DRAM does   *)
(* for certain only in self refresh.  What runs in DRAM is modelled as far *)
(* as it calls the suspend code of this repository or leaves the ATF       *)
(* record that s5p6818_resume looks for; noise runs nothing.  The memory   *)
(* is its generation, and two generations have two CRCs.                   *)
(***************************************************************************)
EXTENDS Integers

CONSTANTS
    GENERATIONS,  \* bound of the checks: contents of the memory
    RESETS        \* bound of the checks: resets without a wake-up

ASSUME Bl1Assumption ==
    /\ GENERATIONS \in Nat \ {0}
    /\ RESETS \in Nat

\* Scratch registers: 0 the signature, 1 the entry, 2 the CRC or the ATF
\* header, 3 the address, 4 the size or the ATF signature.
Regs == 0 .. 4
SIGNATURE == 100  ENTRY == 101  ADDRESS == 103  SIZE == 104
ATF_SIGNATURE == 200  ATF_HEADER == 201
Words == (0 .. GENERATIONS) \cup {SIGNATURE, ENTRY, ADDRESS, SIZE, ATF_SIGNATURE, ATF_HEADER}
Blank == [r \in Regs |-> 0]

VARIABLES
    pc,
    step,       \* the next register suspend_mark writes
    is_resume,  \* of main()
    scratch,
    wakeup,     \* WAKEUPSTATUS is not 0
    mem,        \* the generation of what is in DRAM, 0 for noise
    atf,        \* the ATF image in DRAM is as its header says
    selfref,    \* the DRAM is in self refresh
    read,       \* what s5p6818_resume read from scratch
    fresh,      \* history: no jump has used the last kernel record
    marked,     \* history: the generation that record is for
    clean,      \* history: suspended as the code means it, nothing lost since
    resets

machine == <<scratch, wakeup, mem, atf, selfref>>
history == <<fresh, marked, clean>>
vars == <<pc, step, is_resume, machine, read, history, resets>>

\* Power-on reset.
Init ==
    /\ pc = "main" /\ step = 0 /\ is_resume = FALSE
    /\ scratch = Blank /\ wakeup = FALSE
    /\ mem = 0 /\ atf = FALSE /\ selfref = FALSE
    /\ read = Blank
    /\ fresh = FALSE /\ marked = 0 /\ clean = FALSE
    /\ resets = 0

Kernel(regs) == regs[0] = SIGNATURE
Atf(regs) == regs[4] = ATF_SIGNATURE

\* calc_crc(mem, size): of nothing it is 0.  Two generations differ in a word
\* that it looks at, one in eight.
CalcCrc(size) == IF size = 0 THEN 0 ELSE mem

-----------------------------------------------------------------------------
(* main()                                                                  *)

\* s5p6818_resume_check
ResumeCheck ==
    /\ pc = "main"
    /\ is_resume' = (wakeup /\ (Kernel(scratch) \/ Atf(scratch)))
    /\ pc' = "memory"
    /\ UNCHANGED <<step, machine, read, history, resets>>

\* memory_initialize(is_resume), whose result is not looked at: what the DRAM
\* held may be lost in any case, and is kept if it slept and the code wakes it.
MemoryInitialize(kept) ==
    /\ pc = "memory"
    /\ kept \/ ~clean
    /\ IF kept THEN UNCHANGED <<mem, atf>> ELSE mem' = 0 /\ atf' = FALSE
    /\ selfref' = FALSE
    /\ pc' = IF is_resume THEN "resume" ELSE "load"
    /\ UNCHANGED <<step, is_resume, scratch, wakeup, read, history, resets>>

\* Mutant: the record is left for the kernel to clear.
ReadRecord_Keeps ==
    /\ pc = "resume"
    /\ read' = scratch
    /\ pc' = IF Kernel(scratch) THEN "kernel" ELSE IF Atf(scratch) THEN "atf" ELSE "load"
    /\ UNCHANGED <<step, is_resume, machine, history, resets>>

\* Mutant: the registers are read where they are used.
ReadRecord_ReadsLate ==
    /\ pc = "resume"
    /\ IF Kernel(scratch)
       THEN scratch' = Blank /\ read' = [Blank EXCEPT ![0] = SIGNATURE]
       ELSE read' = scratch /\ UNCHANGED scratch
    /\ pc' = IF Kernel(scratch) THEN "kernel" ELSE IF Atf(scratch) THEN "atf" ELSE "load"
    /\ UNCHANGED <<step, is_resume, wakeup, mem, atf, selfref, history, resets>>

\* s5p6818_resume reads the record; a kernel's is cleared at once.
ReadRecord ==
    /\ pc = "resume"
    /\ read' = scratch
    /\ scratch' = IF Kernel(scratch) THEN Blank ELSE scratch
    /\ pc' = IF Kernel(scratch) THEN "kernel" ELSE IF Atf(scratch) THEN "atf" ELSE "load"
    /\ UNCHANGED <<step, is_resume, wakeup, mem, atf, selfref, history, resets>>

\* Mutant: the CRC is not compared.
KernelMatches_EntryOnly == read[1] # 0

KernelMatches == read[1] # 0 /\ read[2] = CalcCrc(read[4])

\* Warm boot of the kernel.
JumpToKernel ==
    /\ pc = "kernel" /\ KernelMatches
    /\ pc' = "os" /\ fresh' = FALSE /\ clean' = FALSE
    /\ UNCHANGED <<step, is_resume, machine, read, marked, resets>>

\* Its memory is not what it left: cold boot.
KernelLost ==
    /\ pc = "kernel" /\ ~KernelMatches
    /\ pc' = "load"
    /\ UNCHANGED <<step, is_resume, machine, read, history, resets>>

\* Warm boot of the ATF; the record stays.
JumpToAtf ==
    /\ pc = "atf" /\ atf
    /\ pc' = "os" /\ clean' = FALSE
    /\ UNCHANGED <<step, is_resume, machine, read, fresh, marked, resets>>

\* Mutant: nothing is cleared.
AtfLost_Keeps ==
    /\ pc = "atf" /\ ~atf
    /\ pc' = "load"
    /\ UNCHANGED <<step, is_resume, machine, read, history, resets>>

\* Register 4 is cleared, register 2 is not.
AtfLost ==
    /\ pc = "atf" /\ ~atf
    /\ scratch' = [scratch EXCEPT ![4] = 0]
    /\ pc' = "load"
    /\ UNCHANGED <<step, is_resume, wakeup, mem, atf, selfref, read, history, resets>>

\* The third loader is read and launched; a 2nd header with a wrong signature
\* is reported and used.
Launch ==
    /\ pc = "load"
    /\ mem' = IF mem < GENERATIONS THEN mem + 1 ELSE 1
    /\ atf' = TRUE
    /\ pc' = "os"
    /\ UNCHANGED <<step, is_resume, scratch, wakeup, selfref, read, history, resets>>

\* Mutant: tries the device again.
Fallback_TriesAgain ==
    /\ pc = "load"
    /\ pc' = "memory"
    /\ is_resume' = FALSE
    /\ UNCHANGED <<step, machine, read, history, resets>>

\* No image, or a LoadDevice that is not built in: the USB boot of the ROM.
Fallback ==
    /\ pc = "load"
    /\ pc' = "RomUSBBoot"
    /\ UNCHANGED <<step, is_resume, machine, read, history, resets>>

-----------------------------------------------------------------------------
(* Suspend                                                                 *)

\* What runs in DRAM goes on with its work.
OsRuns ==
    /\ pc = "os" /\ mem \in 1 .. GENERATIONS - 1
    /\ mem' = mem + 1
    /\ wakeup' \in {wakeup, FALSE}
    /\ UNCHANGED <<pc, step, is_resume, scratch, atf, selfref, read, history, resets>>

\* suspend_mark is called.
MarkBegins ==
    /\ pc = "os" /\ mem # 0
    /\ pc' = "clear" /\ step' = 0
    /\ UNCHANGED <<is_resume, machine, read, history, resets>>

\* suspend_mark clears its registers, the signature first.
MarkClears ==
    /\ pc = "clear"
    /\ scratch' = [scratch EXCEPT ![step] = 0]
    /\ IF step = 4 THEN pc' = "set" /\ step' = 0 ELSE step' = step + 1 /\ UNCHANGED pc
    /\ UNCHANGED <<is_resume, wakeup, mem, atf, selfref, read, history, resets>>

Record == [r \in Regs |-> <<SIGNATURE, ENTRY, CalcCrc(SIZE), ADDRESS, SIZE>>[r + 1]]

\* ... and sets them, the signature first again.
MarkSets ==
    /\ pc = "set"
    /\ scratch' = [scratch EXCEPT ![step] = Record[step]]
    /\ fresh' = TRUE /\ marked' = mem
    /\ IF step = 4 THEN pc' = "suspend" /\ step' = 0 ELSE step' = step + 1 /\ UNCHANGED pc
    /\ UNCHANGED <<is_resume, wakeup, mem, atf, selfref, read, clean, resets>>

\* The record that the ATF leaves before it suspends.
AtfMarks ==
    /\ pc = "os" /\ atf
    /\ scratch' = [Blank EXCEPT ![2] = ATF_HEADER, ![4] = ATF_SIGNATURE]
    /\ pc' = "suspend"
    /\ UNCHANGED <<step, is_resume, wakeup, mem, atf, selfref, read, history, resets>>

\* s5p6818_suspend: self refresh, then the power goes.
Suspend ==
    /\ pc = "suspend"
    /\ selfref' = TRUE /\ clean' = TRUE
    /\ pc' = "off"
    /\ UNCHANGED <<step, is_resume, scratch, wakeup, mem, atf, read, fresh, marked, resets>>

\* A wake-up was pending: back to the caller, the record in place.
SuspendAborted ==
    /\ pc = "off"
    /\ selfref' = FALSE /\ clean' = FALSE
    /\ pc' = "os"
    /\ UNCHANGED <<step, is_resume, scratch, wakeup, mem, atf, read, fresh, marked, resets>>

WakeUp ==
    /\ pc = "off"
    /\ wakeup' = TRUE
    /\ pc' = "main"
    /\ UNCHANGED <<step, is_resume, scratch, mem, atf, selfref, read, history, resets>>

\* A reset at any other point; the DRAM sleeps on or loses what it holds.
Reset ==
    /\ pc # "off" /\ resets < RESETS
    /\ resets' = resets + 1
    /\ \/ UNCHANGED <<mem, atf>>
       \/ ~selfref /\ mem' = 0 /\ atf' = FALSE
    /\ clean' = FALSE
    /\ pc' = "main"
    /\ UNCHANGED <<step, is_resume, scratch, wakeup, selfref, read, fresh, marked>>

-----------------------------------------------------------------------------
Boot ==
    \/ ResumeCheck \/ (\E kept \in BOOLEAN : MemoryInitialize(kept)) \/ ReadRecord
    \/ JumpToKernel \/ KernelLost \/ JumpToAtf \/ AtfLost
    \/ Launch \/ Fallback

Sleep ==
    \/ MarkBegins \/ MarkClears \/ MarkSets \/ AtfMarks
    \/ Suspend \/ SuspendAborted \/ WakeUp

Next == Boot \/ OsRuns \/ Sleep \/ Reset

Spec == Init /\ [][Next]_vars

\* The loader runs; resets are as many as RESETS bounds.
FairSpec == Spec /\ WF_vars(Boot)

-----------------------------------------------------------------------------
TypeOK ==
    /\ pc \in {"main", "memory", "resume", "kernel", "atf", "load", "os", "RomUSBBoot",
               "clear", "set", "suspend", "off"}
    /\ step \in Regs /\ is_resume \in BOOLEAN
    /\ scratch \in [Regs -> Words] /\ read \in [Regs -> Words]
    /\ wakeup \in BOOLEAN /\ mem \in 0 .. GENERATIONS /\ atf \in BOOLEAN /\ selfref \in BOOLEAN
    /\ fresh \in BOOLEAN /\ marked \in 0 .. GENERATIONS /\ clean \in BOOLEAN
    /\ resets \in 0 .. RESETS

\* The record was cut off after the entry: its CRC and its size are 0.
Torn(regs) == regs[1] = ENTRY /\ regs[2] = 0 /\ regs[4] = 0

\* A warm jump to the kernel finds the memory that suspend_mark was called
\* for, however many resets, lost contents and aborted suspends lie between;
\* only a record cut off after its second word gets past the CRC.
WarmMemoryTrue ==
    pc = "kernel" /\ KernelMatches => mem = marked \/ Torn(read)

\* A kernel record is good for one jump: no reset repeats a resume.
RecordUsedOnce == [][JumpToKernel => fresh]_vars

\* When a resume fails and the cold boot goes on, no record is left that the
\* next reset would try again.
NoResumeLoop ==
    pc \in {"load", "RomUSBBoot"} /\ is_resume => ~Kernel(scratch) /\ ~Atf(scratch)

\* A suspend that went the whole way, with nothing lost and no reset since,
\* is never answered with a cold boot.
CleanSuspendResumes == ~(clean /\ pc \in {"load", "RomUSBBoot"})

\* The loader always hands over, to DRAM or to the ROM's USB boot.
HandsOver == pc = "main" ~> pc \in {"os", "RomUSBBoot"}

=============================================================================
