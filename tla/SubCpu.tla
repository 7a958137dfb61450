------------------------------- MODULE SubCpu -------------------------------
(***************************************************************************)
(* The start of the secondary CPUs in the 2nd boot loader:                 *)
(* s5p6818_subcpu_bringup on CPU 0 against s5p6818_subcpu_on on every      *)
(* other CPU (nexell_riscv/bl1/src/sub_cpu.c, MULTICORE_BRING_UP, aarch64).*)
(*                                                                         *)
(* They share nx_subcpu_bringup_info, three words of SRAM that hold        *)
(* anything at reset.  CPU 0 waits for wakeup_flag a number of polls that  *)
(* nothing relates to the time a CPU needs, which may be too long or       *)
(* without end; the flag does not say whose it is.  A request to a CPU     *)
(* that is on, or on its way, has no effect; one that is withdrawn by      *)
(* another CPU's write to CPUPOWERONREQ is one that is never served.       *)
(***************************************************************************)
EXTENDS Integers, FiniteSets

CONSTANTS
    N,      \* CPUs (8)
    DELAY,  \* polls of wakeup_flag (0x10000)
    RETRY   \* retries of a CPU before the last one (3)

SubCpus == 1 .. N - 1

ASSUME SubCpuAssumption ==
    /\ N \in Nat \ {0}
    /\ DELAY \in Nat \ {0}
    /\ RETRY \in Nat

\* Values of jump_addr: 0xFFFFFFFF, what SRAM held at reset, the kernel's.
Addresses == {"invalid", "reset", "kernel"}

VARIABLES
    \* s5p6818_subcpu_bringup
    pc, cpu_num, retry, delay, result,
    \* nx_subcpu_bringup_info
    jump_addr, cpu_id, wakeup_flag,
    \* s5p6818_subcpu_on
    cpu,      \* where each CPU is
    pLaunch   \* the address it has read

master == <<pc, cpu_num, retry, delay, result>>
info == <<jump_addr, cpu_id, wakeup_flag>>
vars == <<master, info, cpu, pLaunch>>

Init ==
    /\ pc = "begin" /\ cpu_num = 0 /\ retry = 0 /\ delay = 0 /\ result = 0
    /\ jump_addr \in {"invalid", "reset"}
    /\ cpu_id \in SubCpus \cup {0}
    /\ wakeup_flag \in {0, 1}
    /\ cpu = [c \in SubCpus |-> "off"]
    /\ pLaunch = [c \in SubCpus |-> "invalid"]

-----------------------------------------------------------------------------
(* CPU 0                                                                   *)

\* Mutant: leaves jump_addr as it is.
Begin_KeepsAddress ==
    /\ pc = "begin"
    /\ cpu_num' = 1 /\ retry' = 0 /\ result' = 0
    /\ pc' = IF 1 < N THEN "clear" ELSE "returned"
    /\ UNCHANGED <<delay, info, cpu, pLaunch>>

\* Until the loop over the CPUs; CPU 0 was called with cpu_id 0.
Begin ==
    /\ pc = "begin"
    /\ jump_addr' = "invalid"
    /\ cpu_num' = 1 /\ retry' = 0 /\ result' = 0
    /\ pc' = IF 1 < N THEN "clear" ELSE "returned"
    /\ UNCHANGED <<delay, cpu_id, wakeup_flag, cpu, pLaunch>>

\* Mutant: the flag is not cleared for the next CPU.
ClearFlag_KeepsFlag ==
    /\ pc = "clear"
    /\ delay' = DELAY
    /\ pc' = "power"
    /\ UNCHANGED <<cpu_num, retry, result, info, cpu, pLaunch>>

ClearFlag ==
    /\ pc = "clear"
    /\ wakeup_flag' = 0
    /\ delay' = DELAY
    /\ pc' = "power"
    /\ UNCHANGED <<cpu_num, retry, result, jump_addr, cpu_id, cpu, pLaunch>>

\* set_vector_location, bringup_slave_cpu.
PowerOn ==
    /\ pc = "power"
    /\ cpu' = [cpu EXCEPT ![cpu_num] = IF @ = "off" THEN "starting" ELSE @]
    /\ pc' = "wait"
    /\ UNCHANGED <<cpu_num, retry, delay, result, info, pLaunch>>

\* On to CPU c.
GoTo(c) ==
    /\ cpu_num' = c
    /\ pc' = IF c < N THEN "clear" ELSE "returned"

\* while ((wakeup_flag == 0) && (--delay))
PollFlag ==
    /\ pc = "wait"
    /\ \/ wakeup_flag # 0 /\ pc' = "decide" /\ UNCHANGED delay
       \/ /\ wakeup_flag = 0 /\ delay' = delay - 1
          /\ pc' = IF delay' = 0 THEN "decide" ELSE "wait"
    /\ UNCHANGED <<cpu_num, retry, result, info, cpu, pLaunch>>

\* Mutant: retries for ever.
NoAnswer_RetriesOn ==
    /\ pc = "decide" /\ delay = 0
    /\ GoTo(cpu_num) /\ retry' = IF retry > RETRY THEN 0 ELSE retry + 1
    /\ UNCHANGED <<delay, result, info, cpu, pLaunch>>

\* No answer: once more, or give the CPU up and go on.
NoAnswer ==
    /\ pc = "decide" /\ delay = 0
    /\ \/ /\ retry > RETRY
          /\ GoTo(cpu_num + 1) /\ retry' = 0 /\ result' = 0
       \/ /\ retry <= RETRY
          /\ GoTo(cpu_num) /\ retry' = retry + 1 /\ UNCHANGED result
    /\ UNCHANGED <<delay, info, cpu, pLaunch>>

Answered ==
    /\ pc = "decide" /\ delay # 0
    /\ GoTo(cpu_num + 1) /\ retry' = 0 /\ result' = result + 1
    /\ UNCHANGED <<delay, info, cpu, pLaunch>>

Master ==
    \/ Begin \/ ClearFlag \/ PowerOn \/ PollFlag \/ NoAnswer \/ Answered

-----------------------------------------------------------------------------
(* The other CPUs                                                          *)

\* Start-up code, and s5p6818_subcpu_on until its loop.
Announce(c) ==
    /\ cpu[c] = "starting"
    /\ wakeup_flag' = 1
    /\ cpu' = [cpu EXCEPT ![c] = "wfi"]
    /\ UNCHANGED <<master, jump_addr, cpu_id, pLaunch>>

\* wfi may return at any time; jump_addr is read first ...
WakeUp(c) ==
    /\ cpu[c] = "wfi"
    /\ pLaunch' = [pLaunch EXCEPT ![c] = jump_addr]
    /\ cpu' = [cpu EXCEPT ![c] = IF jump_addr = "invalid" THEN "wfi"
                                 ELSE "compare"]
    /\ UNCHANGED <<master, info>>

\* ... and cpu_id after it.
Compare(c) ==
    /\ cpu[c] = "compare"
    /\ cpu' = [cpu EXCEPT ![c] = IF c = cpu_id THEN "launched" ELSE "wfi"]
    /\ UNCHANGED <<master, info, pLaunch>>

SubCpu == \E c \in SubCpus : Announce(c) \/ WakeUp(c) \/ Compare(c)

\* The kernel that is started later writes the two words, one by one.
KernelWrites ==
    /\ pc = "returned"
    /\ \/ jump_addr' = "kernel" /\ UNCHANGED cpu_id
       \/ cpu_id' \in SubCpus /\ UNCHANGED jump_addr
    /\ UNCHANGED <<master, wakeup_flag, cpu, pLaunch>>

Next == Master \/ SubCpu \/ KernelWrites

Spec == Init /\ [][Next]_vars

(* CPU 0 runs.  Nothing is assumed of the others: any may be dead.         *)
FairSpec == Spec /\ WF_vars(Master)

-----------------------------------------------------------------------------
TypeOK ==
    /\ pc \in {"begin", "clear", "power", "wait", "decide", "returned"}
    /\ cpu_num \in 0 .. N
    /\ retry \in 0 .. RETRY + 1
    /\ delay \in 0 .. DELAY
    /\ result \in 0 .. N - 1
    /\ jump_addr \in Addresses
    /\ cpu_id \in 0 .. N - 1
    /\ wakeup_flag \in {0, 1}
    /\ cpu \in [SubCpus -> {"off", "starting", "wfi", "compare", "launched"}]
    /\ pLaunch \in [SubCpus -> Addresses]

Up == {c \in SubCpus : cpu[c] \notin {"off", "starting"}}

(***************************************************************************)
(* s5p6818_subcpu_bringup never counts more CPUs than have come up, though *)
(* a late answer is counted for the wrong CPU, and may come just before or *)
(* after the flag is cleared for the next; so if none was given up, all    *)
(* are in the loop of s5p6818_subcpu_on.                                   *)
(***************************************************************************)
CountsNoGhost == result <= Cardinality(Up)

(***************************************************************************)
(* No CPU jumps to an address that SRAM held at reset, nor anywhere before *)
(* the bring-up is over, whenever it wakes up and whatever cpu_id holds.   *)
(***************************************************************************)
LaunchedByKernel ==
    \A c \in SubCpus :
        cpu[c] = "launched" => pc = "returned" /\ pLaunch[c] = "kernel"

\* The bring-up ends, whichever CPUs are dead.
BringupReturns == <>(pc = "returned")
=============================================================================
