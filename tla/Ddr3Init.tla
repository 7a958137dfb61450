------------------------------ MODULE Ddr3Init ------------------------------
(***************************************************************************)
(* The DRAM start of the 2nd boot loader and the suspend that follows:     *)
(* memory_initialize, ddr3_initialize with its five calibrations,          *)
(* enter_self_refresh and exit_self_refresh                                *)
(* (nexell_riscv/bl1/src/devices/memory/{memory.c,ddr3/ddr3_sdram.c}).     *)
(*                                                                         *)
(* The PHY, the controller and the DRAM answer late, with an error, or not *)
(* at all.  Mode register writes and calibrations reach one rank (chip) or *)
(* all, as the code sends them.  What a rank in self refresh makes of the  *)
(* commands a resume sends it before exit_self_refresh is left open: the   *)
(* NOP, which raises CKE, wakes it or does not (wakes), and it ignores     *)
(* mode register writes or does not (deaf).  The resets of the controller  *)
(* are taken not to reach the DRAM.  Timing and drive values are left out. *)
(***************************************************************************)
EXTENDS Integers, FiniteSets

CONSTANTS
    CS_NUM,    \* ranks (2)
    RTT_NOM,   \* CONFIG_DRAM_MR1_RTT_Nom (3)
    ATTEMPTS,  \* mem_retry (3)
    RESETS,    \* retry of resetgen_sequence (0x10)
    POLLS,     \* polls of a calibration (100)
    CYCLES     \* bound of the checks: suspends

ASSUME Ddr3Assumption ==
    /\ CS_NUM \in Nat \ {0}
    /\ RTT_NOM \in 0 .. 5
    /\ ATTEMPTS \in Nat \ {0}
    /\ RESETS \in Nat
    /\ POLLS \in Nat \ {0}
    /\ CYCLES \in Nat

Chips == 0 .. CS_NUM - 1

\* The calibrations in the order ddr3_initialize runs them (1 .. 5), and the
\* bit of CONFIG_DDR3_LVLTR_EN each one hangs on.
Bits == {"WR_LVL", "GT_LVL", "RD_CAL", "WR_CAL"}
BitOf == <<"WR_LVL", "GT_LVL", "RD_CAL", "WR_LVL", "WR_CAL">>
WriteLeveling == 1  Gate == 2  ReadDq == 3  WriteLatency == 4  WriteDq == 5
Cals == 1 .. 5

VARIABLES
    pc,
    lvltr,      \* CONFIG_DDR3_LVLTR_EN of the build, a set of bits
    deaf,       \* the ranks ignore mode register writes in self refresh
    wakes,      \* a NOP ends self refresh
    is_resume,
    mem_retry, retry, cal, cal_count,  \* the counters of the loops
    ret,        \* of ddr3_initialize
    alive,      \* the PHY shows its reset value
    start,      \* calibrations whose start bit is set in the PHY
    aref_en,    \* CONCONTROL: auto refresh
    wl, mpr,    \* ranks in write leveling mode, in multi purpose register mode
    rtt,        \* MR1.RTT_Nom of each rank
    sr,         \* ranks in self refresh
    trained,    \* cal -> attempt whose result g_WR_lvl, g_GT_code, g_RD_vwmc,
                \* g_WR_vwmc hold, 0 for none
    gt_bad,     \* g_GT_code is 0x08080808
    passed,     \* calibrations that succeeded in this attempt (history)
    cycles

program == <<pc, mem_retry, retry, cal, cal_count, ret>>
fixed == <<lvltr, deaf, wakes, is_resume, cycles>>
dram == <<wl, mpr, rtt, sr>>
results == <<trained, gt_bad, passed>>
vars == <<program, fixed, alive, start, aref_en, dram, results>>

Init ==
    /\ pc = "memory_initialize" /\ ret = 0
    /\ lvltr \in SUBSET Bits /\ deaf \in BOOLEAN /\ wakes \in BOOLEAN
    /\ is_resume = FALSE
    /\ mem_retry = ATTEMPTS /\ retry = RESETS /\ cal = 1 /\ cal_count = 0
    /\ alive = FALSE /\ start = {} /\ aref_en = FALSE
    /\ wl = {} /\ mpr = {} /\ sr = {}
    /\ rtt = [c \in Chips |-> 0]
    /\ trained = [k \in Cals |-> 0] /\ gt_bad = FALSE /\ passed = {}
    /\ cycles = 0

\* The attempt that is running, 1 .. ATTEMPTS.
Attempt == ATTEMPTS - mem_retry

\* The value ddr3_initialize writes to MR1.RTT_Nom: in
\* (RTT_Nom & 0x4 >> 2) the shift binds first, so each bit is bit 0.
RttAsWritten(v) == 7 * (v % 2)

\* The ranks of S that a mode register write reaches.
Awake(S) == IF deaf THEN S \ sr ELSE S

-----------------------------------------------------------------------------
(* memory_initialize and the resets                                        *)

\* Mutant: mem_retry is tested and not decremented.
TryAgain_ForEver ==
    /\ pc = "memory_initialize" /\ mem_retry > 0
    /\ mem_retry' = ATTEMPTS - 1 /\ retry' = RESETS /\ passed' = {}
    /\ pc' = "reset"
    /\ UNCHANGED <<cal, cal_count, ret, fixed, alive, start, aref_en, dram, trained, gt_bad>>

\* while (mem_retry--): one more ddr3_initialize.
TryAgain ==
    /\ pc = "memory_initialize" /\ mem_retry > 0
    /\ mem_retry' = mem_retry - 1 /\ retry' = RESETS /\ passed' = {}
    /\ pc' = "reset"
    /\ UNCHANGED <<cal, cal_count, ret, fixed, alive, start, aref_en, dram, trained, gt_bad>>

\* The DREX and the PHY forget everything; the PHY shows its reset value or
\* it does not.
ResetPhy ==
    /\ alive' \in BOOLEAN
    /\ start' = {} /\ aref_en' = FALSE

\* Mutant: --retry, and a test that fits it no longer.
ResetGen_PreDecrement ==
    /\ pc = "reset"
    /\ ResetPhy
    /\ retry' = IF alive' THEN retry ELSE retry - 1
    /\ \/ /\ ~alive' /\ retry' > 0 /\ UNCHANGED <<pc, ret>>
       \/ /\ alive' \/ retry' <= 0
          /\ IF retry' < 0 THEN pc' = "returned" /\ ret' = -1 ELSE pc' = "zq" /\ UNCHANGED ret
    /\ UNCHANGED <<mem_retry, cal, cal_count, fixed, dram, results>>

\* One round of resetgen_sequence, and its verdict after the last one.
ResetGen ==
    /\ pc = "reset"
    /\ ResetPhy
    /\ retry' = IF alive' THEN retry ELSE retry - 1
    /\ \/ /\ ~alive' /\ retry # 0 /\ UNCHANGED <<pc, ret>>
       \/ /\ alive' \/ retry = 0
          /\ IF retry' <= 0 THEN pc' = "returned" /\ ret' = -1 ELSE pc' = "zq" /\ UNCHANGED ret
    /\ UNCHANGED <<mem_retry, cal, cal_count, fixed, dram, results>>

\* zq_done: the I/O calibration of the PHY is over.
ZqDone ==
    /\ pc = "zq"
    /\ pc' = "dfi"
    /\ UNCHANGED <<mem_retry, retry, cal, cal_count, ret, fixed, alive, start, aref_en, dram, results>>

\* dfi_init_complete; then, in a resume too, a NOP to every rank and the mode
\* registers of every rank.
DfiComplete ==
    LET reached == IF wakes THEN Chips ELSE Awake(Chips)
    IN  /\ pc = "dfi"
        /\ sr' = IF wakes THEN {} ELSE sr
        /\ wl' = wl \ reached /\ mpr' = mpr \ reached
        /\ rtt' = [c \in Chips |-> IF c \in reached THEN RttAsWritten(RTT_NOM) ELSE rtt[c]]
        /\ pc' = "lock"
        /\ UNCHANGED <<mem_retry, retry, cal, cal_count, ret, fixed, alive, start, aref_en, results>>

\* The DLL locks with ctrl_dll_on set.
DllLocked ==
    /\ pc = "lock"
    /\ pc' = "locked"
    /\ UNCHANGED <<mem_retry, retry, cal, cal_count, ret, fixed, alive, start, aref_en, dram, results>>

\* ctrl_dll_on cleared: the lock is still there, or all over again.
DllOff(still) ==
    /\ pc = "locked"
    /\ IF still THEN pc' = "leveling" /\ cal' = 1 ELSE pc' = "lock" /\ UNCHANGED cal
    /\ UNCHANGED <<mem_retry, retry, cal_count, ret, fixed, alive, start, aref_en, dram, results>>

-----------------------------------------------------------------------------
(* Leveling and training                                                   *)

\* The build leaves calibration cal out.
Skip ==
    /\ pc = "leveling" /\ cal \in Cals /\ BitOf[cal] \notin lvltr
    /\ cal' = cal + 1
    /\ UNCHANGED <<pc, mem_retry, retry, cal_count, ret, fixed, alive, start, aref_en, dram, results>>

\* Calibration k starts: rank 0 enters the mode it needs, if any.
Begin(k) ==
    /\ pc = "leveling" /\ cal = k /\ BitOf[k] \in lvltr
    /\ cal_count' = 0
    /\ pc' = "poll"
    /\ UNCHANGED <<mem_retry, retry, cal, ret, fixed, alive, aref_en, sr, results>>

StartWriteLeveling ==
    /\ Begin(WriteLeveling)
    /\ start' = {WriteLeveling}
    /\ wl' = wl \cup Awake({0})
    /\ rtt' = [c \in Chips |-> IF c \in Awake({0}) THEN 3 ELSE rtt[c]]
    /\ UNCHANGED mpr

StartGateLeveling ==
    /\ Begin(Gate)
    /\ start' = {Gate}
    /\ mpr' = mpr \cup Awake({0})
    /\ UNCHANGED <<wl, rtt>>

StartReadDqCalibration ==
    /\ Begin(ReadDq)
    /\ start' = {ReadDq}
    /\ mpr' = mpr \cup Awake({0})
    /\ UNCHANGED <<wl, rtt>>

StartWriteLatencyCalibration ==
    /\ Begin(WriteLatency)
    /\ start' = start \cup {WriteLatency}
    /\ UNCHANGED <<wl, mpr, rtt>>

StartWriteDqCalibration ==
    /\ Begin(WriteDq)
    /\ start' = start \cup {WriteDq}
    /\ UNCHANGED <<wl, mpr, rtt>>

\* for (cal_count = 0; cal_count < 100; cal_count++): the answer, or not yet.
Poll ==
    /\ pc = "poll" /\ cal_count < POLLS
    /\ \/ pc' = "end" /\ UNCHANGED cal_count
       \/ /\ cal_count' = cal_count + 1
          /\ pc' = IF cal_count' = POLLS THEN "end" ELSE "poll"
    /\ UNCHANGED <<mem_retry, retry, cal, ret, fixed, alive, start, aref_en, dram, results>>

TimedOut == cal_count = POLLS

\* Calibration k ends with this verdict: on to the next, or ddr3_initialize
\* returns -1.
End(k, ok) ==
    /\ pc = "end" /\ cal = k
    /\ start' = start \ {k}
    /\ passed' = IF ok THEN passed \cup {k} ELSE passed
    /\ IF ok THEN pc' = "leveling" /\ cal' = k + 1 /\ UNCHANGED ret
             ELSE pc' = "returned" /\ ret' = -1 /\ UNCHANGED cal
    /\ UNCHANGED <<mem_retry, retry, cal_count, fixed, alive, aref_en, sr>>

Trained(k) == trained' = [trained EXCEPT ![k] = Attempt]

EndWriteLeveling ==
    /\ End(WriteLeveling, ~TimedOut)
    /\ Trained(WriteLeveling)
    /\ wl' = wl \ Awake({0})
    /\ UNCHANGED <<mpr, rtt, gt_bad>>

\* Mutant: the error path returns before MR3 is written.
EndGateLeveling_ReturnsAtOnce ==
    \/ /\ TimedOut
       /\ End(Gate, FALSE)
       /\ UNCHANGED <<trained, gt_bad, mpr, wl, rtt>>
    \/ /\ ~TimedOut
       /\ gt_bad' \in BOOLEAN
       /\ End(Gate, ~gt_bad')
       /\ Trained(Gate)
       /\ mpr' = mpr \ Awake({0})
       /\ UNCHANGED <<wl, rtt>>

\* g_GT_code is tested on the error path too, where it is an old one.
EndGateLeveling ==
    /\ \/ TimedOut /\ UNCHANGED <<trained, gt_bad>>
       \/ ~TimedOut /\ gt_bad' \in BOOLEAN /\ Trained(Gate)
    /\ End(Gate, ~TimedOut /\ ~gt_bad')
    /\ mpr' = mpr \ Awake({0})
    /\ UNCHANGED <<wl, rtt>>

\* clean: CAL_FAIL_STAT is 0.
EndReadDqCalibration(clean) ==
    /\ End(ReadDq, ~TimedOut /\ clean)
    /\ IF ~TimedOut /\ clean THEN Trained(ReadDq) ELSE UNCHANGED trained
    /\ mpr' = mpr \ Awake({0})
    /\ UNCHANGED <<wl, rtt, gt_bad>>

\* complete: CAL_WL_STAT is 0xF.
EndWriteLatencyCalibration(complete) ==
    /\ End(WriteLatency, ~TimedOut /\ complete)
    /\ UNCHANGED <<trained, gt_bad, wl, mpr, rtt>>

\* Mutant: the values are read before the status is looked at.
EndWriteDqCalibration_StatusLost(clean) ==
    /\ End(WriteDq, ~TimedOut)
    /\ IF ~TimedOut /\ clean THEN Trained(WriteDq) ELSE UNCHANGED trained
    /\ UNCHANGED <<gt_bad, wl, mpr, rtt>>

EndWriteDqCalibration(clean) ==
    /\ End(WriteDq, ~TimedOut /\ clean)
    /\ IF ~TimedOut /\ clean THEN Trained(WriteDq) ELSE UNCHANGED trained
    /\ UNCHANGED <<gt_bad, wl, mpr, rtt>>

\* The rest of ddr3_initialize; no auto refresh for a DRAM that sleeps.
Finish ==
    /\ pc = "leveling" /\ cal = 6
    /\ aref_en' = ~is_resume
    /\ ret' = 0
    /\ pc' = "returned"
    /\ UNCHANGED <<mem_retry, retry, cal, cal_count, fixed, alive, start, dram, results>>

-----------------------------------------------------------------------------
(* The end of memory_initialize, and self refresh                          *)

\* ddr3_initialize failed: the next attempt, if one is left.
Returned ==
    /\ pc = "returned"
    /\ pc' = IF ret < 0 /\ mem_retry > 0 THEN "memory_initialize" ELSE "exit"
    /\ UNCHANGED <<mem_retry, retry, cal, cal_count, ret, fixed, alive, start, aref_en, dram, results>>

\* MR1 as enter_self_refresh and exit_self_refresh write it, to every rank.
WriteMr1 ==
    /\ rtt' = [c \in Chips |-> IF c \in Awake(Chips) THEN RTT_NOM ELSE rtt[c]]
    /\ wl' = wl \ Awake(Chips)

\* exit_self_refresh: the mode registers first, then the ranks wake up.
ExitSelfRefresh ==
    /\ aref_en' = TRUE
    /\ WriteMr1
    /\ sr' = {}
    /\ UNCHANGED mpr

\* if (is_resume), whatever the result was; main() goes on in any case.
MemoryDone ==
    /\ pc = "exit"
    /\ IF is_resume THEN ExitSelfRefresh ELSE UNCHANGED <<aref_en, dram>>
    /\ pc' = "running"
    /\ UNCHANGED <<mem_retry, retry, cal, cal_count, ret, fixed, alive, start, results>>

\* enter_self_refresh up to its waits.
EnterSelfRefresh ==
    /\ pc = "running" /\ (ret = 0 \/ is_resume) /\ cycles < CYCLES
    /\ WriteMr1
    /\ cycles' = cycles + 1
    /\ pc' = "entering"
    /\ UNCHANGED <<mem_retry, retry, cal, cal_count, ret, lvltr, deaf, wakes, is_resume, alive, start, aref_en, mpr, sr, results>>

\* The DRAM: rank c enters self refresh.
RankSleeps(c) ==
    /\ pc = "entering" /\ c \notin sr
    /\ sr' = sr \cup {c}
    /\ UNCHANGED <<program, fixed, alive, start, aref_en, wl, mpr, rtt, results>>

\* Mutant: waits until any rank sleeps.
Asleep_AnyRank ==
    /\ pc = "entering" /\ sr # {}
    /\ aref_en' = FALSE
    /\ pc' = "asleep"
    /\ UNCHANGED <<mem_retry, retry, cal, cal_count, ret, fixed, alive, start, dram, results>>

\* ... while (nTemp != nChips), and auto refresh off.
Asleep ==
    /\ pc = "entering" /\ sr = Chips
    /\ aref_en' = FALSE
    /\ pc' = "asleep"
    /\ UNCHANGED <<mem_retry, retry, cal, cal_count, ret, fixed, alive, start, dram, results>>

\* A wake-up was pending: suspend_vdd_pwroff returns from its wfi.
WakeBeforePowerOff ==
    /\ pc = "asleep"
    /\ ExitSelfRefresh
    /\ pc' = "running"
    /\ UNCHANGED <<mem_retry, retry, cal, cal_count, ret, fixed, alive, start, results>>

\* The power of the SoC goes and comes back; main() runs from its beginning.
PowerCycle ==
    /\ pc = "asleep"
    /\ pc' = "memory_initialize" /\ is_resume' = TRUE
    /\ mem_retry' = ATTEMPTS /\ ret' = 0 /\ alive' = FALSE
    /\ start' = {} /\ passed' = {}
    /\ trained' = [k \in Cals |-> 0] /\ gt_bad' = FALSE
    /\ UNCHANGED <<retry, cal, cal_count, lvltr, deaf, wakes, cycles, aref_en, dram>>

-----------------------------------------------------------------------------
Calibrate ==
    \/ Skip \/ Poll
    \/ StartWriteLeveling \/ EndWriteLeveling
    \/ StartGateLeveling \/ EndGateLeveling
    \/ StartReadDqCalibration \/ \E clean \in BOOLEAN : EndReadDqCalibration(clean)
    \/ StartWriteLatencyCalibration \/ \E complete \in BOOLEAN : EndWriteLatencyCalibration(complete)
    \/ StartWriteDqCalibration \/ \E clean \in BOOLEAN : EndWriteDqCalibration(clean)

\* The steps of memory_initialize, in the order the code takes them.
Initialize ==
    \/ TryAgain \/ ResetGen \/ ZqDone \/ DfiComplete
    \/ DllLocked \/ \E still \in BOOLEAN : DllOff(still)
    \/ Calibrate \/ Finish \/ Returned \/ MemoryDone

Sleep ==
    \/ EnterSelfRefresh \/ (\E c \in Chips : RankSleeps(c)) \/ Asleep
    \/ WakeBeforePowerOff \/ PowerCycle

Next == Initialize \/ Sleep

Spec == Init /\ [][Next]_vars

\* The program runs; ZQ, DFI and the lock come, and a lock that is tested for
\* ever is at last still there; a rank told to sleep does.
FairSpec ==
    /\ Spec
    /\ WF_vars(Initialize)
    /\ SF_vars(DllOff(TRUE))
    /\ WF_vars((\E c \in Chips : RankSleeps(c)) \/ Asleep)

-----------------------------------------------------------------------------
Calibrating == pc \in {"poll", "end"}

\* Types.  mem_retry ends at -1 in the code; the loop is left at 0 here.
TypeOK ==
    /\ pc \in {"memory_initialize", "reset", "zq", "dfi", "lock", "locked", "leveling", "poll",
               "end", "returned", "exit", "running", "entering", "asleep"}
    /\ lvltr \subseteq Bits /\ deaf \in BOOLEAN /\ wakes \in BOOLEAN /\ is_resume \in BOOLEAN
    /\ mem_retry \in 0 .. ATTEMPTS /\ retry \in -1 .. RESETS
    /\ cal \in 1 .. 6 /\ cal_count \in 0 .. POLLS
    /\ ret \in {-1, 0}
    /\ alive \in BOOLEAN /\ start \subseteq Cals /\ aref_en \in BOOLEAN
    /\ wl \subseteq Chips /\ mpr \subseteq Chips /\ sr \subseteq Chips
    /\ rtt \in [Chips -> 0 .. 7]
    /\ trained \in [Cals -> 0 .. ATTEMPTS] /\ gt_bad \in BOOLEAN /\ passed \subseteq Cals
    /\ cycles \in 0 .. CYCLES

\* The PHY is only programmed after it has shown its reset value, whichever of
\* the resets brought it up.  The converse does not hold: a PHY that comes up
\* at the last reset leaves retry at 0 and is taken for dead.
PhyAlive ==
    pc \in {"zq", "dfi", "lock", "locked", "leveling", "poll", "end"} => alive

\* Between calibrations, and after the last one however it ended, no rank is
\* left in write leveling or MPR mode, where it does not answer reads, and no
\* calibration is left running in the PHY.
NoStrayMode ==
    ~Calibrating => wl = {} /\ mpr = {} /\ start = {}

\* When memory_initialize reports success, every calibration of the build has
\* succeeded in the last attempt, and the values that the suspend code saves
\* for the resume are that attempt's and not those of a failed one.
SuccessIsWhole ==
    pc = "running" /\ ret = 0 =>
        \A k \in Cals : BitOf[k] \in lvltr =>
            /\ k \in passed
            /\ k # WriteLatency => trained[k] = Attempt
            /\ k = Gate => ~gt_bad

Up == pc \in {"running", "entering", "asleep"}

\* memory_initialize of a resume, up to the first NOP it may send.
BeforeFirstNop ==
    \/ Attempt = 0
    \/ Attempt = 1 /\ pc \in {"reset", "zq", "dfi"}

\* From the first success on, through suspend, wake-up, the repeated
\* initialisation and its failures, each rank refreshes itself or is refreshed
\* by the controller.  One gap is left, where a NOP ends self refresh: from the
\* NOP of a resume to exit_self_refresh, with auto refresh off.  It never opens
\* before that NOP and is closed when memory_initialize returns, however many
\* attempts failed; whether the contents outlive it is a matter of time.
Refreshed ==
    is_resume \/ (Up /\ ret = 0) =>
        \/ aref_en \/ sr = Chips
        \/ wakes /\ sr = {} /\ ~Up /\ ~BeforeFirstNop

\* "exit the (sdram) self-refresh" (memory.c:48): the DRAM of a resume is in
\* self refresh until exit_self_refresh ends it.
AsleepUntilExit == is_resume /\ pc = "exit" => sr = Chips

\* The words saved for the suspend and the configuration name the termination
\* that the ranks run with.
TerminationAsConfigured ==
    pc = "running" /\ ret = 0 => \A c \in Chips : rtt[c] = RTT_NOM

\* memory_initialize comes to an end, and so does the way into self refresh.
Terminates ==
    /\ pc = "memory_initialize" ~> pc = "running"
    /\ pc = "entering" ~> pc = "asleep"

=============================================================================
