-------------------------- MODULE BoardInitProofs --------------------------
(***************************************************************************)
(* What the 2nd boot loader sets up on the board.                          *)
(*                                                                         *)
(* Ddr3Init for any number of ranks, attempts, resets and polls, and for   *)
(* every build of the calibrations: what memory_initialize leaves in the   *)
(* DRAM and in the PHY, what its success means, and when in a suspend and  *)
(* a resume the DRAM is refreshed.                                         *)
(*                                                                         *)
(* I2cGpio for bytes of any length, calls of any size and any number of    *)
(* calls, with a target that refuses and stretches as it likes: what a     *)
(* call that returns TRUE has done, and why a call fails.                  *)
(***************************************************************************)
EXTENDS Ddr3Init, I2cGpio, SequenceTheorems, TLAPS


\* resetgen_sequence has not used up its count while it resets.
ResetsLeft == pc = "reset" => retry >= 0

\* Only the calibration that runs holds rank 0 in a mode, or a start bit.
Modes ==
    /\ ~Calibrating => wl = {} /\ mpr = {} /\ start = {}
    /\ Calibrating =>
          /\ start \subseteq {cal}
          /\ wl \subseteq Awake({0}) /\ (wl # {} => cal = WriteLeveling)
          /\ mpr \subseteq Awake({0}) /\ (mpr # {} => cal \in {Gate, ReadDq})

\* The last attempt has been through calibration k and can tell.
Good(k) ==
    /\ k \in passed
    /\ k # WriteLatency => trained[k] = Attempt
    /\ k = Gate => ~gt_bad

\* All of the build's calibrations below n are good.
GoodBelow(n) == \A k \in Cals : k < n /\ BitOf[k] \in lvltr => Good(k)

Whole ==
    /\ pc \in {"leveling", "poll", "end"} => GoodBelow(cal)
    /\ pc \in {"returned", "exit", "running", "entering", "asleep"} /\ ret = 0 => GoodBelow(6)
    /\ Calibrating => cal \in Cals

\* Who refreshes the DRAM at which point; the first line tells the attempts
\* apart.
Kept ==
    /\ pc # "memory_initialize" => mem_retry < ATTEMPTS
    /\ is_resume /\ ~Up =>
          sr = Chips \/ (wakes /\ sr = {} /\ ~BeforeFirstNop)
    /\ pc \in {"returned", "exit"} /\ ret = 0 /\ ~is_resume => aref_en
    /\ pc = "running" /\ (ret = 0 \/ is_resume) => aref_en
    /\ pc = "entering" => aref_en
    /\ pc = "asleep" => sr = Chips

-----------------------------------------------------------------------------
\* Type correctness: the counters of the retries and of the polls stay in
\* their ranges, whatever the hardware answers.
THEOREM Typing == Spec => []TypeOK
<1> DEFINE IInv == TypeOK /\ ResetsLeft
<1> USE Ddr3Assumption DEF TypeOK, Bits, Cals, ResetsLeft
<1>1. Init => IInv
  <2> SUFFICES ASSUME Init
               PROVE  IInv
    OBVIOUS
  <2>1. rtt \in [Chips -> 0 .. 7] /\ trained \in [Cals -> 0 .. ATTEMPTS]
    BY DEF Init
  <2>2. mem_retry \in 0 .. ATTEMPTS /\ retry \in -1 .. RESETS /\ cal_count \in 0 .. POLLS
    BY DEF Init
  <2>3. cycles \in 0 .. CYCLES
    BY DEF Init
  <2>4. cal \in 1 .. 6 /\ ret \in {-1, 0} /\ start \subseteq Cals /\ passed \subseteq Cals
    BY DEF Init
  <2>5. wl \subseteq Chips /\ mpr \subseteq Chips /\ sr \subseteq Chips /\ lvltr \subseteq Bits
    BY DEF Init
  <2>6. /\ alive \in BOOLEAN /\ aref_en \in BOOLEAN /\ gt_bad \in BOOLEAN
        /\ deaf \in BOOLEAN /\ wakes \in BOOLEAN /\ is_resume \in BOOLEAN
    BY Zenon DEF Init
  <2> QED
    BY <2>1, <2>2, <2>3, <2>4, <2>5, <2>6 DEF Init
<1>2. IInv /\ [Next]_vars => IInv'
  <2> SUFFICES ASSUME IInv, [Next]_vars
               PROVE  IInv'
    OBVIOUS
  <2>0. Attempt \in 0 .. ATTEMPTS
    BY DEF Attempt
  <2>1. CASE TryAgain
    BY <2>1 DEF TryAgain, fixed, dram
  <2>2. CASE ResetGen
    <3> USE <2>2 DEF ResetGen, ResetPhy
    <3>1. /\ retry' \in -1 .. RESETS /\ ret' \in {-1, 0}
          /\ pc' = "reset" => retry' >= 0
          /\ pc' \in {"reset", "returned", "zq"}
      <4>1. CASE alive'
        BY <4>1
      <4>2. CASE ~alive'
        BY <4>2
      <4> QED
        BY <4>1, <4>2
    <3>2. alive' \in BOOLEAN /\ aref_en' \in BOOLEAN /\ start' \subseteq Cals
      BY Zenon
    <3> QED
      BY <3>1, <3>2 DEF fixed, dram, results
  <2>3. CASE ZqDone
    BY <2>3 DEF ZqDone, fixed, dram, results
  <2>4. CASE DfiComplete
    <3>1. rtt' \in [Chips -> 0 .. 7]
      BY <2>4 DEF DfiComplete, RttAsWritten
    <3> QED
      BY <2>4, <3>1 DEF DfiComplete, fixed, results
  <2>5. CASE DllLocked
    BY <2>5 DEF DllLocked, fixed, dram, results
  <2>6. ASSUME NEW still \in BOOLEAN, DllOff(still) PROVE IInv'
    BY <2>6 DEF DllOff, fixed, dram, results
  <2>7. CASE Skip
    BY <2>7 DEF Skip, fixed, dram, results
  <2>8. CASE Poll
    BY <2>8 DEF Poll, fixed, dram, results
  <2>9. CASE StartWriteLeveling
    <3>1. wl' \subseteq Chips
      BY <2>9 DEF StartWriteLeveling, Awake, Chips
    <3>2. rtt' \in [Chips -> 0 .. 7]
      BY <2>9 DEF StartWriteLeveling
    <3> QED
      BY <2>9, <3>1, <3>2 DEF StartWriteLeveling, Begin, WriteLeveling, fixed, results
  <2>10. CASE StartGateLeveling
    <3>1. mpr' \subseteq Chips
      BY <2>10 DEF StartGateLeveling, Awake, Chips
    <3> QED
      BY <2>10, <3>1 DEF StartGateLeveling, Begin, Gate, fixed, results
  <2>11. CASE StartReadDqCalibration
    <3>1. mpr' \subseteq Chips
      BY <2>11 DEF StartReadDqCalibration, Awake, Chips
    <3> QED
      BY <2>11, <3>1 DEF StartReadDqCalibration, Begin, ReadDq, fixed, results
  <2>12. CASE StartWriteLatencyCalibration
    BY <2>12 DEF StartWriteLatencyCalibration, Begin, WriteLatency, fixed, results
  <2>13. CASE StartWriteDqCalibration
    BY <2>13 DEF StartWriteDqCalibration, Begin, WriteDq, fixed, results
  <2>14. CASE EndWriteLeveling
    BY <2>0, <2>14 DEF EndWriteLeveling, End, Trained, WriteLeveling, Awake, fixed
  <2>15. CASE EndGateLeveling
    BY <2>0, <2>15 DEF EndGateLeveling, End, Trained, Gate, Awake, fixed
  <2>16. ASSUME NEW clean \in BOOLEAN, EndReadDqCalibration(clean) PROVE IInv'
    BY <2>0, <2>16 DEF EndReadDqCalibration, End, Trained, ReadDq, Awake, fixed
  <2>17. ASSUME NEW complete \in BOOLEAN, EndWriteLatencyCalibration(complete) PROVE IInv'
    BY <2>17 DEF EndWriteLatencyCalibration, End, WriteLatency, fixed
  <2>18. ASSUME NEW clean \in BOOLEAN, EndWriteDqCalibration(clean) PROVE IInv'
    BY <2>0, <2>18 DEF EndWriteDqCalibration, End, Trained, WriteDq, fixed
  <2>19. CASE Finish
    BY <2>19 DEF Finish, fixed, dram, results
  <2>20. CASE Returned
    BY <2>20 DEF Returned, fixed, dram, results
  <2>21. CASE MemoryDone
    <3>1. rtt' \in [Chips -> 0 .. 7]
      BY <2>21 DEF MemoryDone, ExitSelfRefresh, WriteMr1, dram
    <3> QED
      BY <2>21, <3>1 DEF MemoryDone, ExitSelfRefresh, WriteMr1, fixed, dram, results
  <2>22. CASE EnterSelfRefresh
    <3>1. rtt' \in [Chips -> 0 .. 7]
      BY <2>22 DEF EnterSelfRefresh, WriteMr1
    <3> QED
      BY <2>22, <3>1 DEF EnterSelfRefresh, WriteMr1, results
  <2>23. ASSUME NEW c \in Chips, RankSleeps(c) PROVE IInv'
    BY <2>23 DEF RankSleeps, program, fixed, results
  <2>24. CASE Asleep
    BY <2>24 DEF Asleep, fixed, dram, results
  <2>25. CASE WakeBeforePowerOff
    <3>1. rtt' \in [Chips -> 0 .. 7]
      BY <2>25 DEF WakeBeforePowerOff, ExitSelfRefresh, WriteMr1
    <3> QED
      BY <2>25, <3>1 DEF WakeBeforePowerOff, ExitSelfRefresh, WriteMr1, fixed, results
  <2>26. CASE PowerCycle
    <3>1. trained' \in [Cals -> 0 .. ATTEMPTS]
      BY <2>26 DEF PowerCycle
    <3>2. is_resume' \in BOOLEAN /\ gt_bad' \in BOOLEAN /\ alive' \in BOOLEAN
      BY <2>26, Zenon DEF PowerCycle
    <3> QED
      BY <2>26, <3>1, <3>2 DEF PowerCycle, dram
  <2>27. CASE UNCHANGED vars
    BY <2>27 DEF vars, program, fixed, dram, results
  <2> HIDE DEF IInv
  <2> QED
    BY <2>1, <2>2, <2>3, <2>4, <2>5, <2>6, <2>7, <2>8, <2>9, <2>10, <2>11, <2>12, <2>13, <2>14,
       <2>15, <2>16, <2>17, <2>18, <2>19, <2>20, <2>21, <2>22, <2>23, <2>24, <2>25, <2>26, <2>27
       DEF Next, Initialize, Calibrate, Sleep
<1>3. IInv => TypeOK
  OBVIOUS
<1> HIDE DEF IInv
<1> QED
  BY <1>1, <1>2, <1>3, PTL DEF Spec

\* Every step is one of these.
LEMMA Steps ==
  ASSUME [Next]_vars
  PROVE  \/ TryAgain \/ ResetGen \/ ZqDone \/ DfiComplete \/ DllLocked
         \/ \E still \in BOOLEAN : DllOff(still)
         \/ Skip \/ Poll
         \/ StartWriteLeveling \/ EndWriteLeveling
         \/ StartGateLeveling \/ EndGateLeveling
         \/ StartReadDqCalibration \/ \E ok \in BOOLEAN : EndReadDqCalibration(ok)
         \/ StartWriteLatencyCalibration
         \/ \E ok \in BOOLEAN : EndWriteLatencyCalibration(ok)
         \/ StartWriteDqCalibration \/ \E ok \in BOOLEAN : EndWriteDqCalibration(ok)
         \/ Finish \/ Returned \/ MemoryDone
         \/ EnterSelfRefresh \/ \E c \in Chips : RankSleeps(c)
         \/ Asleep \/ WakeBeforePowerOff \/ PowerCycle
         \/ UNCHANGED vars
  BY DEF Next, Initialize, Calibrate, Sleep

\* The PHY is only programmed once it has shown its reset value.
THEOREM ProgramsLivePhy == Spec => []PhyAlive
<1>1. Init => PhyAlive
  BY DEF Init, PhyAlive
<1>2. TypeOK /\ PhyAlive /\ [Next]_vars => PhyAlive'
  <2> SUFFICES ASSUME TypeOK, PhyAlive, [Next]_vars
               PROVE  PhyAlive'
    OBVIOUS
  <2> USE DEF PhyAlive
  <2>1. CASE ResetGen
    <3> USE <2>1 DEF ResetGen, TypeOK
    <3>1. CASE alive'
      BY <3>1
    <3>2. CASE ~alive' /\ retry # 0
      BY <3>2
    <3>3. CASE ~alive' /\ retry = 0
      BY <3>3
    <3> QED
      BY <3>1, <3>2, <3>3
  <2>2. CASE TryAgain \/ ZqDone \/ DfiComplete \/ DllLocked \/ \E still \in BOOLEAN : DllOff(still)
    BY <2>2, Zenon DEF TryAgain, ZqDone, DfiComplete, DllLocked, DllOff
  <2>3. CASE Skip \/ Poll \/ Finish \/ Returned \/ MemoryDone
    BY <2>3 DEF Skip, Poll, Finish, Returned, MemoryDone
  <2>4. CASE \/ StartWriteLeveling \/ StartGateLeveling \/ StartReadDqCalibration
             \/ StartWriteLatencyCalibration \/ StartWriteDqCalibration
    BY <2>4 DEF StartWriteLeveling, StartGateLeveling, StartReadDqCalibration,
                StartWriteLatencyCalibration, StartWriteDqCalibration, Begin
  <2>5. CASE \/ EndWriteLeveling \/ EndGateLeveling
             \/ \E ok \in BOOLEAN : EndReadDqCalibration(ok)
             \/ \E ok \in BOOLEAN : EndWriteLatencyCalibration(ok)
             \/ \E ok \in BOOLEAN : EndWriteDqCalibration(ok)
    BY <2>5 DEF EndWriteLeveling, EndGateLeveling, EndReadDqCalibration,
                EndWriteLatencyCalibration, EndWriteDqCalibration, End
  <2>6. CASE \/ EnterSelfRefresh \/ \E c \in Chips : RankSleeps(c)
             \/ Asleep \/ WakeBeforePowerOff \/ PowerCycle
    BY <2>6 DEF EnterSelfRefresh, RankSleeps, Asleep, WakeBeforePowerOff, PowerCycle, program
  <2>7. CASE UNCHANGED vars
    BY <2>7 DEF vars, program
  <2> QED
    BY <2>1, <2>2, <2>3, <2>4, <2>5, <2>6, <2>7, Steps
<1> QED
  BY <1>1, <1>2, Typing, PTL DEF Spec

-----------------------------------------------------------------------------
\* However a calibration ends, no rank stays in a mode in which it does not
\* answer reads, and nothing runs on in the PHY.
THEOREM ModesLeft == Spec => []NoStrayMode
<1> USE DEF Modes, Calibrating, Awake, WriteLeveling, Gate, ReadDq, WriteLatency, WriteDq
<1>1. Init => Modes
  BY DEF Init
<1>2. TypeOK /\ Modes /\ [Next]_vars => Modes'
  <2> SUFFICES ASSUME TypeOK, Modes, [Next]_vars
               PROVE  Modes'
    OBVIOUS
  <2>1. CASE TryAgain \/ ResetGen
    BY <2>1 DEF TryAgain, ResetGen, ResetPhy, dram, fixed
  <2>2. CASE ZqDone \/ DllLocked \/ \E still \in BOOLEAN : DllOff(still)
    BY <2>2 DEF ZqDone, DllLocked, DllOff, dram, fixed
  <2>3. CASE DfiComplete
    BY <2>3 DEF DfiComplete
  <2>4. CASE Skip \/ Finish \/ Returned
    BY <2>4 DEF Skip, Finish, Returned, dram, fixed
  <2>5. CASE Poll
    BY <2>5 DEF Poll, dram, fixed
  <2>6. CASE StartWriteLeveling
    BY <2>6 DEF StartWriteLeveling, Begin, fixed
  <2>7. CASE StartGateLeveling
    BY <2>7 DEF StartGateLeveling, Begin, fixed
  <2>8. CASE StartReadDqCalibration
    BY <2>8 DEF StartReadDqCalibration, Begin, fixed
  <2>9. CASE StartWriteLatencyCalibration \/ StartWriteDqCalibration
    BY <2>9 DEF StartWriteLatencyCalibration, StartWriteDqCalibration, Begin, fixed
  <2>10. CASE EndWriteLeveling
    BY <2>10 DEF EndWriteLeveling, End, fixed
  <2>11. CASE EndGateLeveling
    BY <2>11 DEF EndGateLeveling, End, fixed
  <2>12. ASSUME NEW ok \in BOOLEAN, EndReadDqCalibration(ok) PROVE Modes'
    BY <2>12 DEF EndReadDqCalibration, End, fixed
  <2>13. ASSUME NEW ok \in BOOLEAN, EndWriteLatencyCalibration(ok) PROVE Modes'
    BY <2>13 DEF EndWriteLatencyCalibration, End, fixed
  <2>14. ASSUME NEW ok \in BOOLEAN, EndWriteDqCalibration(ok) PROVE Modes'
    BY <2>14 DEF EndWriteDqCalibration, End, fixed
  <2>15. CASE MemoryDone \/ WakeBeforePowerOff
    BY <2>15 DEF MemoryDone, WakeBeforePowerOff, ExitSelfRefresh, WriteMr1, dram
  <2>16. CASE EnterSelfRefresh \/ \E c \in Chips : RankSleeps(c)
    BY <2>16 DEF EnterSelfRefresh, RankSleeps, WriteMr1, program
  <2>17. CASE Asleep \/ PowerCycle
    BY <2>17 DEF Asleep, PowerCycle, dram
  <2>18. CASE UNCHANGED vars
    BY <2>18 DEF vars, program, dram, fixed
  <2> QED
    BY <2>1, <2>2, <2>3, <2>4, <2>5, <2>6, <2>7, <2>8, <2>9, <2>10, <2>11, <2>12,
       <2>13, <2>14, <2>15, <2>16, <2>17, <2>18, Steps
<1>3. Modes => NoStrayMode
  BY DEF NoStrayMode
<1> QED
  BY <1>1, <1>2, <1>3, Typing, PTL DEF Spec

-----------------------------------------------------------------------------
\* A step that leaves the results of the calibrations alone leaves what is
\* good as it is.
LEMMA GoodKept ==
  ASSUME UNCHANGED <<mem_retry, trained, gt_bad, passed, lvltr>>, NEW n, GoodBelow(n)
  PROVE  GoodBelow(n)'
  BY DEF GoodBelow, Good, Attempt

\* Calibration k has ended well: those up to it are good.
LEMMA OneMoreGood ==
  ASSUME TypeOK, NEW k \in Cals, GoodBelow(k), Good(k)',
         mem_retry' = mem_retry, lvltr' = lvltr,
         \A j \in Cals \ {k} : (j \in passed => j \in passed') /\ trained'[j] = trained[j],
         k # Gate => gt_bad' = gt_bad
  PROVE  GoodBelow(k + 1)'
<1> USE DEF Cals, Gate, WriteLatency
<1> SUFFICES ASSUME NEW j \in Cals, j < k + 1, BitOf[j] \in lvltr
             PROVE  Good(j)'
  BY DEF GoodBelow
<1>1. CASE j = k
  BY <1>1
<1>2. CASE j # k
  <2>1. Good(j)
    BY <1>2 DEF GoodBelow
  <2>2. j = Gate => k # Gate
    BY <1>2
  <2> QED
    BY <2>1, <2>2, <1>2 DEF Good, Attempt
<1> QED
  BY <1>1, <1>2

\* After the end of calibration k with this verdict Whole holds.
LEMMA EndKeepsWhole ==
  ASSUME TypeOK, Whole, NEW k \in Cals, NEW ok \in BOOLEAN, End(k, ok),
         ok => Good(k)',
         \A j \in Cals \ {k} : trained'[j] = trained[j],
         k # Gate => gt_bad' = gt_bad
  PROVE  Whole'
<1> USE DEF Cals, Calibrating
<1>1. CASE ok
  <2>1. GoodBelow(k)
    BY DEF Whole, End
  <2>2. GoodBelow(k + 1)'
    BY <1>1, <2>1, OneMoreGood DEF End, fixed
  <2> QED
    BY <1>1, <2>2 DEF Whole, End
<1>2. CASE ~ok
  BY <1>2 DEF Whole, End
<1> QED
  BY <1>1, <1>2

\* Success of memory_initialize: every calibration of the build succeeded in
\* the attempt that was the last, and the values kept for the suspend are its.
THEOREM SuccessWhole == Spec => []SuccessIsWhole
<1>1. Init => Whole
  BY DEF Init, Whole, Calibrating
<1>2. TypeOK /\ Whole /\ [Next]_vars => Whole'
  <2> SUFFICES ASSUME TypeOK, Whole, [Next]_vars
               PROVE  Whole'
    OBVIOUS
  <2> USE DEF Calibrating
  <2>1. CASE TryAgain
    BY <2>1 DEF TryAgain, Whole
  <2>2. CASE ResetGen
    <3>1. pc' \in {"reset", "zq"} \/ (pc' = "returned" /\ ret' = -1)
      BY <2>2 DEF ResetGen
    <3> QED
      BY <3>1 DEF Whole
  <2>3. CASE ZqDone \/ DfiComplete \/ DllLocked
    BY <2>3 DEF ZqDone, DfiComplete, DllLocked, Whole
  <2>4. ASSUME NEW still \in BOOLEAN, DllOff(still) PROVE Whole'
    <3>1. pc' = "lock" \/ (pc' = "leveling" /\ cal' = 1)
      BY <2>4 DEF DllOff
    <3>2. GoodBelow(1)'
      BY DEF GoodBelow, Cals
    <3> QED
      BY <3>1, <3>2 DEF Whole
  <2>5. CASE Skip
    <3>1. GoodBelow(cal) /\ cal \in 1 .. 5 /\ BitOf[cal] \notin lvltr
      BY <2>5 DEF Skip, Whole, Cals
    <3>2. PICK n \in 2 .. 6 : n = cal + 1
      BY <3>1
    <3>3. GoodBelow(n)
      BY <3>1, <3>2 DEF GoodBelow, Cals
    <3>4. GoodBelow(n)'
      BY <2>5, <3>3, GoodKept DEF Skip, results, fixed
    <3> QED
      BY <2>5, <3>2, <3>4 DEF Skip, Whole
  <2>6. CASE Poll
    <3>1. GoodBelow(cal)'
      BY <2>6, GoodKept DEF Poll, Whole, results, fixed
    <3> QED
      BY <2>6, <3>1 DEF Poll, Whole
  <2>7. CASE \/ StartWriteLeveling \/ StartGateLeveling \/ StartReadDqCalibration
             \/ StartWriteLatencyCalibration \/ StartWriteDqCalibration
    <3>1. /\ pc = "leveling" /\ pc' = "poll" /\ cal \in Cals
          /\ UNCHANGED <<mem_retry, cal, fixed, results>>
      BY <2>7 DEF StartWriteLeveling, StartGateLeveling, StartReadDqCalibration,
                  StartWriteLatencyCalibration, StartWriteDqCalibration, Begin,
                  WriteLeveling, Gate, ReadDq, WriteLatency, WriteDq, Cals
    <3>2. GoodBelow(cal)'
      BY <3>1, GoodKept DEF Whole, results, fixed
    <3> QED
      BY <3>1, <3>2 DEF Whole
  <2>8. CASE EndWriteLeveling
    <3>1. /\ End(WriteLeveling, ~TimedOut) /\ WriteLeveling \in Cals /\ (~TimedOut) \in BOOLEAN
          /\ gt_bad' = gt_bad
      BY <2>8 DEF EndWriteLeveling, WriteLeveling, Cals
    <3>2. /\ \A j \in Cals \ {WriteLeveling} : trained'[j] = trained[j]
          /\ ~TimedOut => Good(WriteLeveling)'
      BY <2>8 DEF EndWriteLeveling, End, Trained, Good, Attempt, WriteLeveling, Gate, TypeOK, Cals
    <3> QED
      BY <3>1, <3>2, EndKeepsWhole
  <2>9. CASE EndGateLeveling
    <3>1. /\ End(Gate, ~TimedOut /\ ~gt_bad') /\ Gate \in Cals
          /\ (~TimedOut /\ ~gt_bad') \in BOOLEAN
      BY <2>9 DEF EndGateLeveling, Gate, Cals
    <3>2. /\ \A j \in Cals \ {Gate} : trained'[j] = trained[j]
          /\ ~TimedOut /\ ~gt_bad' => Good(Gate)'
      BY <2>9 DEF EndGateLeveling, End, Trained, Good, Attempt, Gate, TypeOK, Cals
    <3> QED
      BY <3>1, <3>2, EndKeepsWhole
  <2>10. ASSUME NEW ok \in BOOLEAN, EndReadDqCalibration(ok) PROVE Whole'
    <3>1. /\ End(ReadDq, ~TimedOut /\ ok) /\ ReadDq \in Cals
          /\ (~TimedOut /\ ok) \in BOOLEAN /\ gt_bad' = gt_bad
      BY <2>10 DEF EndReadDqCalibration, ReadDq, Cals
    <3>2. /\ \A j \in Cals \ {ReadDq} : trained'[j] = trained[j]
          /\ ~TimedOut /\ ok => Good(ReadDq)'
      BY <2>10 DEF EndReadDqCalibration, End, Trained, Good, Attempt, ReadDq, Gate, TypeOK, Cals
    <3> QED
      BY <3>1, <3>2, EndKeepsWhole
  <2>11. ASSUME NEW ok \in BOOLEAN, EndWriteLatencyCalibration(ok) PROVE Whole'
    <3>1. /\ End(WriteLatency, ~TimedOut /\ ok) /\ WriteLatency \in Cals
          /\ (~TimedOut /\ ok) \in BOOLEAN /\ gt_bad' = gt_bad /\ trained' = trained
      BY <2>11 DEF EndWriteLatencyCalibration, WriteLatency, Cals
    <3>2. ~TimedOut /\ ok => Good(WriteLatency)'
      BY <2>11 DEF EndWriteLatencyCalibration, End, Good, WriteLatency, Gate
    <3> QED
      BY <3>1, <3>2, EndKeepsWhole
  <2>12. ASSUME NEW ok \in BOOLEAN, EndWriteDqCalibration(ok) PROVE Whole'
    <3>1. /\ End(WriteDq, ~TimedOut /\ ok) /\ WriteDq \in Cals
          /\ (~TimedOut /\ ok) \in BOOLEAN /\ gt_bad' = gt_bad
      BY <2>12 DEF EndWriteDqCalibration, WriteDq, Cals
    <3>2. /\ \A j \in Cals \ {WriteDq} : trained'[j] = trained[j]
          /\ ~TimedOut /\ ok => Good(WriteDq)'
      BY <2>12 DEF EndWriteDqCalibration, End, Trained, Good, Attempt, WriteDq, Gate, TypeOK, Cals
    <3> QED
      BY <3>1, <3>2, EndKeepsWhole
  <2>13. CASE Finish
    <3>1. GoodBelow(6)'
      BY <2>13, GoodKept DEF Finish, Whole, results, fixed
    <3> QED
      BY <2>13, <3>1 DEF Finish, Whole
  <2>14. CASE Returned \/ MemoryDone
    <3>1. ret = 0 => GoodBelow(6)'
      BY <2>14, GoodKept DEF Returned, MemoryDone, Whole, results, fixed
    <3> QED
      BY <2>14, <3>1 DEF Returned, MemoryDone, Whole
  <2>15. CASE \/ EnterSelfRefresh \/ \E c \in Chips : RankSleeps(c)
              \/ Asleep \/ WakeBeforePowerOff
    <3>1. /\ pc \in {"running", "entering", "asleep"} /\ pc' \in {"running", "entering", "asleep"}
          /\ UNCHANGED <<mem_retry, ret, cal, lvltr, results>>
      BY <2>15 DEF EnterSelfRefresh, RankSleeps, Asleep, WakeBeforePowerOff, fixed, program
    <3>2. ret = 0 => GoodBelow(6)'
      BY <3>1, GoodKept DEF Whole, results
    <3> QED
      BY <3>1, <3>2 DEF Whole
  <2>16. CASE PowerCycle
    BY <2>16 DEF PowerCycle, Whole
  <2>17. CASE UNCHANGED vars
    <3>1. \A n : GoodBelow(n) => GoodBelow(n)'
      BY <2>17, GoodKept DEF vars, program, fixed, results
    <3> QED
      BY <2>17, <3>1 DEF Whole, vars, program
  <2> QED
    BY <2>1, <2>2, <2>3, <2>4, <2>5, <2>6, <2>7, <2>8, <2>9, <2>10, <2>11, <2>12,
       <2>13, <2>14, <2>15, <2>16, <2>17, Steps
<1>3. Whole => SuccessIsWhole
  BY DEF Whole, GoodBelow, Good, SuccessIsWhole, Cals
<1> QED
  BY <1>1, <1>2, <1>3, Typing, PTL DEF Spec

-----------------------------------------------------------------------------
\* Through suspend, wake-up and the initialisation that follows, failures
\* included, every rank is refreshed by itself or by the controller, except
\* between the NOP of a resume and exit_self_refresh where that NOP ends self
\* refresh.  That gap opens with the first NOP sent and not before, and no
\* failed attempt keeps it open beyond memory_initialize.
THEOREM ContentsKept == Spec => []Refreshed
<1>1. Init => Kept
  BY DEF Init, Kept
<1>2. TypeOK /\ Kept /\ [Next]_vars => Kept'
  <2> SUFFICES ASSUME TypeOK, Kept, [Next]_vars
               PROVE  Kept'
    OBVIOUS
  <2> USE Ddr3Assumption DEF Kept, Up, BeforeFirstNop, Attempt
  <2>a. mem_retry \in 0 .. ATTEMPTS
    BY DEF TypeOK
  <2>b. CASE TryAgain
    BY <2>a, <2>b DEF TryAgain, dram, fixed
  <2>c. CASE DfiComplete
    BY <2>a, <2>c DEF DfiComplete, fixed
  <2>1. CASE ZqDone \/ DllLocked \/ \E still \in BOOLEAN : DllOff(still)
    BY <2>1 DEF ZqDone, DllLocked, DllOff, dram, fixed
  <2>2. CASE ResetGen
    <3>1. pc' \in {"reset", "zq"} \/ (pc' = "returned" /\ ret' = -1)
      BY <2>2 DEF ResetGen
    <3> QED
      BY <2>2, <3>1 DEF ResetGen, dram, fixed
  <2>3. CASE \/ StartWriteLeveling \/ StartGateLeveling \/ StartReadDqCalibration
             \/ StartWriteLatencyCalibration \/ StartWriteDqCalibration
    BY <2>3 DEF StartWriteLeveling, StartGateLeveling, StartReadDqCalibration,
                StartWriteLatencyCalibration, StartWriteDqCalibration, Begin, fixed
  <2>4. CASE \/ EndWriteLeveling \/ EndGateLeveling
             \/ \E ok \in BOOLEAN : EndReadDqCalibration(ok)
             \/ \E ok \in BOOLEAN : EndWriteLatencyCalibration(ok)
             \/ \E ok \in BOOLEAN : EndWriteDqCalibration(ok)
    <3>1. /\ pc = "end" /\ (pc' = "leveling" \/ (pc' = "returned" /\ ret' = -1))
          /\ UNCHANGED <<fixed, sr, mem_retry>>
      BY <2>4 DEF EndWriteLeveling, EndGateLeveling, EndReadDqCalibration,
                  EndWriteLatencyCalibration, EndWriteDqCalibration, End
    <3> QED
      BY <3>1 DEF fixed
  <2>5. CASE Skip \/ Poll
    BY <2>5 DEF Skip, Poll, dram, fixed
  <2>6. CASE Finish
    BY <2>6 DEF Finish, dram, fixed
  <2>7. CASE Returned
    BY <2>7 DEF Returned, dram, fixed
  <2>8. CASE MemoryDone
    BY <2>8 DEF MemoryDone, ExitSelfRefresh, fixed
  <2>9. CASE EnterSelfRefresh
    BY <2>9 DEF EnterSelfRefresh
  <2>10. CASE \E c \in Chips : RankSleeps(c)
    BY <2>10 DEF RankSleeps, program, fixed
  <2>11. CASE Asleep
    BY <2>11 DEF Asleep, dram, fixed
  <2>12. CASE WakeBeforePowerOff
    BY <2>12 DEF WakeBeforePowerOff, ExitSelfRefresh, fixed
  <2>13. CASE PowerCycle
    BY <2>13 DEF PowerCycle, dram
  <2>14. CASE UNCHANGED vars
    BY <2>14 DEF vars, program, dram, fixed
  <2> QED
    BY <2>1, <2>2, <2>3, <2>4, <2>5, <2>6, <2>7, <2>8, <2>9, <2>10, <2>11, <2>12,
       <2>13, <2>14, <2>b, <2>c, Steps
<1>3. Kept => Refreshed
  BY DEF Kept, Refreshed, Up
<1> QED
  BY <1>1, <1>2, <1>3, Typing, PTL DEF Spec

-----------------------------------------------------------------------------
(* The bus of the PMIC: the loader and the target are in the same place of *)
(* the same byte.                                                          *)

\* What the byte under way writes, and what the target takes it for.
Byte == IF call.op = "read" THEN i2c_gpio_read(byte) ELSE i2c_gpio_write(byte)
Total == call.length + (IF call.op = "read" THEN 3 ELSE 2)
Receives == IF Starts(byte) THEN "address" ELSE IF byte = 2 THEN "register" ELSE "data"

\* The place in the call.
PlaceOK ==
    byte # 0 =>
        /\ call \in Calls /\ byte \in 1 .. Total /\ result = "none"
        /\ bit = 0 => Starts(byte)
        /\ bit = BITS + 2 => IsLast
        /\ phase = "condition" => bit = 0
        /\ phase = "low" => bit <= BITS + 1
        /\ phase = "free" => bit = BITS + 2

\* The call has not given its first START.
First == byte = 1 /\ bit = 0 /\ phase # "low"

\* What the loader does to the lines, and that it may do it.
LinesOK ==
    /\ ~g_started =>
          /\ SclHigh /\ (~sda \/ (byte # 0 /\ phase = "low"))
          /\ byte # 0 => \/ byte = 1 /\ bit = 0 /\ phase \in {"sda", "sample", "condition", "low"}
                         \/ bit = BITS + 2 /\ phase = "free"
    /\ byte # 0 =>
          /\ phase \in {"sda", "scl"} => scl \/ First
          /\ phase = "poll" => ~scl
          /\ phase \in {"sample", "condition", "low", "free"} => SclHigh
          /\ phase # "sda" =>
                (sda <=> IF bit = 0 THEN phase = "low"
                         ELSE Op \in {<<"write", 0>>, <<"stop", 0>>} /\ phase # "free")

\* From the START on the target is in the same place as the loader.
StartOK ==
    byte # 0 /\ bit = 0 =>
        IF phase = "low"
        THEN target.mode = "address" /\ target.n = -1 /\ target.bits = <<>> /\ ~target.sda
        ELSE target.sda => byte = 1 /\ dirty /\ phase # "condition"

WriteOK ==
    byte # 0 /\ bit \in 1 .. BITS /\ ~Reads =>
        /\ target.mode = Receives /\ target.n = bit - 1 /\ ~target.sda
        /\ target.bits = [i \in 1 .. (IF SclHigh THEN bit ELSE bit - 1) |-> Byte[i]]

AckOK ==
    byte # 0 /\ bit = BITS + 1 /\ ~Reads =>
        /\ \/ target.mode = Receives /\ target.n = BITS /\ target.bits = Byte /\ target.sda
           \/ target.mode = "idle" /\ target.refused /\ ~target.sda
        /\ phase = "low" => nack = IF target.sda THEN 0 ELSE 1

ReadOK ==
    byte # 0 /\ bit \in 1 .. BITS /\ Reads =>
        /\ target.mode = "send" /\ target.n = bit - 1 /\ (target.sda <=> target.bits[bit] = 0)
        /\ target.bits \in BYTES /\ target.gave = Append(pdata, target.bits)
        /\ rbyte = [i \in 1 .. (IF phase = "low" THEN bit ELSE bit - 1) |-> target.bits[i]]

NackOK ==
    byte # 0 /\ bit = BITS + 1 /\ Reads =>
        /\ target.mode = "send" /\ target.n = BITS /\ ~target.sda
        /\ target.gave = pdata /\ rbyte = <<>>
        /\ SclHigh => target.bits = <<IF IsLast THEN 1 ELSE 0>>

StopOK ==
    byte # 0 /\ bit = BITS + 2 => 
        /\ ~target.sda /\ (phase = "free" => target.mode = "idle")
        /\ call.op = "read" => target.gave = pdata

\* What has gone over the bus.
GotOK ==
    byte # 0 =>
        /\ byte = 2 => target.got = <<>>
        /\ byte > 2 =>
              LET m == IF call.op = "read" THEN 0 ELSE IF bit = BITS + 2 THEN byte - 2 ELSE byte - 3
              IN  /\ Len(target.got) = m + 1 /\ target.got[1] = call.reg
                  /\ \A i \in 1 .. m : target.got[i + 1] = call.data[i]

ReadBytesOK ==
    byte # 0 =>
        /\ byte <= 3 => pdata = <<>> /\ rbyte = <<>>
        /\ Reads => Len(pdata) = IF bit > BITS THEN byte - 3 ELSE byte - 4

DoneOK ==
    result = "TRUE" => byte = 0 /\ ~target.scl /\ TransferFaithful

Traffic ==
    /\ StartOK /\ WriteOK /\ AckOK /\ ReadOK /\ NackOK /\ StopOK
    /\ GotOK /\ ReadBytesOK

BusInv == I2cTypeOK /\ PlaceOK /\ LinesOK /\ Traffic /\ DoneOK

-----------------------------------------------------------------------------
(* Sequences of bits                                                       *)

\* A function on 1 .. n is a sequence of length n.
LEMMA FunctionIsSeq ==
  ASSUME NEW S, NEW n \in Nat, NEW f \in [1 .. n -> S]
  PROVE  f \in Seq(S) /\ Len(f) = n
<1>1. f \in Seq(S)
  BY SeqDef
<1> QED
  BY <1>1, LenProperties

LEMMA ByteSeq ==
  ASSUME NEW b \in BYTES
  PROVE  b \in Seq(Levels) /\ Len(b) = BITS /\ b \in [1 .. BITS -> Levels]
<1>1. b \in [1 .. BITS -> Levels] /\ BITS \in Nat
  BY I2cAssumption DEF Levels
<1> QED
  BY <1>1, FunctionIsSeq

\* An address byte: the address and the direction.
LEMMA AddressSeq ==
  ASSUME NEW x \in Levels
  PROVE  /\ DEV \o <<x>> \in [1 .. BITS -> Levels]
         /\ DEV \o <<x>> \in Seq(Levels) /\ Len(DEV \o <<x>>) = BITS
         /\ (DEV \o <<x>>)[BITS] = x
         /\ SubSeq(DEV \o <<x>>, 1, BITS - 1) = DEV
<1> USE I2cAssumption
<1> DEFINE s == DEV \o <<x>>
<1>1. DEV \in Seq(Levels) /\ Len(DEV) = BITS - 1 /\ BITS - 1 \in Nat
  BY FunctionIsSeq DEF Levels
<1>2. <<x>> \in Seq(Levels) /\ Len(<<x>>) = 1 /\ <<x>>[1] = x
  OBVIOUS
<1>3. s \in Seq(Levels) /\ Len(s) = BITS
  BY <1>1, <1>2, ConcatProperties
<1>4. s[BITS] = x /\ \A i \in 1 .. BITS - 1 : s[i] = DEV[i]
  BY <1>1, <1>2, ConcatProperties
<1>5. s \in [1 .. BITS -> Levels]
  BY <1>3, LenProperties
<1>6. SubSeq(s, 1, BITS - 1) = DEV
  <2>1. /\ SubSeq(s, 1, BITS - 1) \in Seq(Levels) /\ Len(SubSeq(s, 1, BITS - 1)) = BITS - 1
        /\ \A i \in 1 .. BITS - 1 : SubSeq(s, 1, BITS - 1)[i] = s[i]
    BY <1>1, <1>3, SubSeqProperties
  <2> HIDE DEF s
  <2> QED
    BY <1>1, <1>4, <2>1, SeqEqual
<1> QED
  BY <1>3, <1>4, <1>5, <1>6

\* One bit more.
LEMMA PrefixNext ==
  ASSUME NEW S, NEW n \in Nat \ {0}, NEW f, \A i \in 1 .. n : f[i] \in S
  PROVE  Append([i \in 1 .. n - 1 |-> f[i]], f[n]) = [i \in 1 .. n |-> f[i]]
<1> DEFINE a == [i \in 1 .. n - 1 |-> f[i]]
           b == [i \in 1 .. n |-> f[i]]
<1>1. a \in Seq(S) /\ Len(a) = n - 1
  <2>1. a \in [1 .. n - 1 -> S] /\ n - 1 \in Nat
    OBVIOUS
  <2> QED
    BY <2>1, FunctionIsSeq
<1>2. b \in Seq(S) /\ Len(b) = n
  <2>1. b \in [1 .. n -> S]
    OBVIOUS
  <2> QED
    BY <2>1, FunctionIsSeq
<1>3. /\ Append(a, f[n]) \in Seq(S) /\ Len(Append(a, f[n])) = n
      /\ \A i \in 1 .. n - 1 : Append(a, f[n])[i] = a[i]
      /\ Append(a, f[n])[n] = f[n]
  BY <1>1, AppendProperties
<1>4. \A i \in 1 .. n : Append(a, f[n])[i] = b[i]
  BY <1>3
<1> HIDE DEF a, b
<1>5. Append(a, f[n]) = b
  BY <1>2, <1>3, <1>4, SeqEqual
<1> QED
  BY <1>5 DEF a, b

-----------------------------------------------------------------------------
(* The target                                                              *)

LEMMA SendsOf ==
  ASSUME NEW t \in Targets, NEW data \in BYTES
  PROVE  /\ Sends(t, data) \in Targets
         /\ Sends(t, data).mode = "send" /\ Sends(t, data).n = 0 /\ Sends(t, data).bits = data
         /\ Sends(t, data).sda <=> data[1] = 0
         /\ Sends(t, data).gave = Append(t.gave, data)
         /\ Sends(t, data).got = t.got /\ Sends(t, data).refused = t.refused
<1>1. data \in Seq(Levels)
  BY ByteSeq
<1>2. Append(t.gave, data) \in Seq(Seq(Levels))
  BY <1>1, AppendProperties DEF Targets
<1> DEFINE zero == data[1] = 0
           g == Append(t.gave, data)
           u == [t EXCEPT !.mode = "send", !.n = 0, !.bits = data, !.sda = zero, !.gave = g]
<1>3. zero \in BOOLEAN
  OBVIOUS
<1>4. Sends(t, data) = u
  BY DEF Sends, Targets
<1>5. g \in Seq(Seq(Levels)) /\ 0 \in -1 .. BITS
  BY <1>2, I2cAssumption
<1> HIDE DEF zero, g
<1>6. /\ u \in Targets /\ u.mode = "send" /\ u.n = 0 /\ u.bits = data
      /\ u.gave = g /\ u.got = t.got /\ u.refused = t.refused
  BY <1>1, <1>3, <1>5 DEF Targets
<1>7. u.sda = zero
  BY DEF Targets
<1> HIDE DEF u
<1>8. Sends(t, data).sda <=> data[1] = 0
  BY <1>4, <1>7, Zenon DEF zero
<1> QED
  BY <1>4, <1>6, <1>8 DEF g

LEMMA RisingOf ==
  ASSUME NEW t \in Targets, NEW level
  PROVE  /\ Rising(t, level) \in Targets
         /\ Rising(t, level).mode = t.mode /\ Rising(t, level).n = t.n
         /\ Rising(t, level).sda = t.sda /\ Rising(t, level).scl = t.scl
         /\ Rising(t, level).got = t.got /\ Rising(t, level).gave = t.gave
         /\ Rising(t, level).refused = t.refused
         /\ Rising(t, level).bits =
               IF t.mode \in {"address", "register", "data"} /\ t.n \in 0 .. BITS - 1
               THEN Append(t.bits, IF level THEN 1 ELSE 0)
               ELSE IF t.mode = "send" /\ t.n = BITS THEN <<IF level THEN 1 ELSE 0>>
               ELSE t.bits
<1> DEFINE sample == IF level THEN 1 ELSE 0
<1>1. sample \in Levels
  BY DEF Levels
<1>2. Append(t.bits, sample) \in Seq(Levels) /\ <<sample>> \in Seq(Levels)
  BY <1>1, AppendProperties DEF Targets
<1>3. Rising(t, level) =
        IF t.mode \in {"address", "register", "data"} /\ t.n \in 0 .. BITS - 1
        THEN [t EXCEPT !.bits = Append(t.bits, sample)]
        ELSE IF t.mode = "send" /\ t.n = BITS THEN [t EXCEPT !.bits = <<sample>>]
        ELSE t
  BY DEF Rising, Targets
<1> HIDE DEF sample
<1>4. ASSUME NEW s \in Seq(Levels)
      PROVE  /\ [t EXCEPT !.bits = s] \in Targets
             /\ [t EXCEPT !.bits = s].mode = t.mode /\ [t EXCEPT !.bits = s].n = t.n
             /\ [t EXCEPT !.bits = s].sda = t.sda /\ [t EXCEPT !.bits = s].scl = t.scl
             /\ [t EXCEPT !.bits = s].got = t.got /\ [t EXCEPT !.bits = s].gave = t.gave
             /\ [t EXCEPT !.bits = s].refused = t.refused /\ [t EXCEPT !.bits = s].bits = s
  BY DEF Targets
<1> DEFINE A == t.mode \in {"address", "register", "data"} /\ t.n \in 0 .. BITS - 1
           B == t.mode = "send" /\ t.n = BITS
           new == IF A THEN Append(t.bits, sample) ELSE IF B THEN <<sample>> ELSE t.bits
<1>5. new \in Seq(Levels)
  BY <1>2 DEF Targets
<1>6. Rising(t, level) = [t EXCEPT !.bits = new]
  <2>1. [t EXCEPT !.bits = t.bits] = t
    BY DEF Targets
  <2>2. Rising(t, level) =
          IF A THEN [t EXCEPT !.bits = Append(t.bits, sample)]
          ELSE IF B THEN [t EXCEPT !.bits = <<sample>>] ELSE t
    BY <1>3
  <2> HIDE DEF A, B
  <2> QED
    BY <2>1, <2>2
<1> HIDE DEF new
<1>7. Rising(t, level).bits = new
  BY <1>4, <1>5, <1>6
<1>8. Rising(t, level).bits =
        IF A THEN Append(t.bits, IF level THEN 1 ELSE 0)
        ELSE IF B THEN <<IF level THEN 1 ELSE 0>> ELSE t.bits
  BY <1>7, Zenon DEF new, sample
<1> QED
  BY <1>4, <1>5, <1>6, <1>8

Receiving == {"address", "register", "data"}

\* What a falling SCL leaves alone.
Leaves(u, t) == u.scl = t.scl /\ u.got = t.got /\ u.gave = t.gave

LEMMA FallingMiddle ==
  ASSUME NEW t \in Targets, t.mode \in Receiving \cup {"send"}, t.n < BITS - 1,
         NEW u \in Falling(t)
  PROVE  /\ u \in Targets /\ Leaves(u, t)
         /\ u.mode = t.mode /\ u.n = t.n + 1 /\ u.bits = t.bits /\ u.refused = t.refused
         /\ u.sda <=> t.mode = "send" /\ t.bits[t.n + 2] = 0
<1> DEFINE low == t.mode = "send" /\ t.bits[t.n + 2] = 0
           v == [t EXCEPT !.n = t.n + 1, !.sda = low]
<1>1. u = v
  <2>1. t.n # BITS /\ t.n # BITS - 1 /\ t.mode # "idle"
    BY I2cAssumption DEF Targets, Receiving
  <2>2. Falling(t) = {v}
    BY <2>1 DEF Falling, Targets
  <2> QED
    BY <2>2
<1>2. low \in BOOLEAN
  OBVIOUS
<1>3. t.n + 1 \in -1 .. BITS
  BY I2cAssumption DEF Targets
<1> HIDE DEF low
<1>4. /\ v \in Targets /\ Leaves(v, t)
      /\ v.mode = t.mode /\ v.n = t.n + 1 /\ v.bits = t.bits /\ v.refused = t.refused
  BY <1>2, <1>3 DEF Targets, Leaves
<1>5. v.sda = low
  BY DEF Targets
<1> HIDE DEF v
<1>6. u.sda <=> t.mode = "send" /\ t.bits[t.n + 2] = 0
  BY <1>1, <1>5, Zenon DEF low
<1> QED
  BY <1>1, <1>4, <1>6

\* The byte is complete.
LEMMA FallingComplete ==
  ASSUME NEW t \in Targets, t.mode \in Receiving, t.n = BITS - 1, NEW u \in Falling(t)
  PROVE  /\ u \in Targets /\ Leaves(u, t) /\ u.bits = t.bits
         /\ \/ u.mode = t.mode /\ u.n = BITS /\ u.sda /\ u.refused = t.refused
            \/ /\ u.mode = "idle" /\ ~u.sda
               /\ u.refused \/ (t.mode = "address" /\ SubSeq(t.bits, 1, BITS - 1) # DEV)
<1> DEFINE v == [t EXCEPT !.n = BITS, !.sda = TRUE]
<1>1. t.n # BITS /\ t.mode # "idle" /\ t.mode # "send" /\ BITS \in -1 .. BITS
  BY I2cAssumption DEF Targets, Receiving
<1>2. Falling(t) = Acknowledges(t)
  BY <1>1 DEF Falling
<1>3. \/ u = Ignores(t) /\ t.mode = "address" /\ SubSeq(t.bits, 1, BITS - 1) # DEV
      \/ u = Refuses(t) \/ u = v
  BY <1>1, <1>2 DEF Acknowledges
<1>4. /\ v \in Targets /\ Leaves(v, t) /\ v.bits = t.bits
      /\ v.mode = t.mode /\ v.n = BITS /\ v.sda /\ v.refused = t.refused
  BY <1>1 DEF Targets, Leaves
<1>5. /\ Ignores(t) \in Targets /\ Leaves(Ignores(t), t) /\ Ignores(t).bits = t.bits
      /\ Ignores(t).mode = "idle" /\ ~Ignores(t).sda
  BY DEF Targets, Leaves, Ignores
<1>6. /\ Refuses(t) \in Targets /\ Leaves(Refuses(t), t) /\ Refuses(t).bits = t.bits
      /\ Refuses(t).mode = "idle" /\ ~Refuses(t).sda /\ Refuses(t).refused
  BY DEF Targets, Leaves, Ignores, Refuses
<1> HIDE DEF v
<1> QED
  BY <1>3, <1>4, <1>5, <1>6

LEMMA FallingSent ==
  ASSUME NEW t \in Targets, t.mode = "send", t.n = BITS - 1, NEW u \in Falling(t)
  PROVE  /\ u \in Targets /\ Leaves(u, t) /\ u.bits = t.bits /\ u.refused = t.refused
         /\ u.mode = "send" /\ u.n = BITS /\ ~u.sda
<1> DEFINE v == [t EXCEPT !.n = BITS, !.sda = FALSE]
<1>1. t.n # BITS /\ BITS \in -1 .. BITS
  BY I2cAssumption
<1>2. Falling(t) = {v}
  BY <1>1 DEF Falling, Acknowledges
<1>3. /\ v \in Targets /\ Leaves(v, t) /\ v.bits = t.bits /\ v.refused = t.refused
      /\ v.mode = t.mode /\ v.n = BITS /\ ~v.sda
  BY <1>1 DEF Targets, Leaves
<1> HIDE DEF v
<1> QED
  BY <1>2, <1>3

\* A byte of a write is acknowledged.
LEMMA FallingTaken ==
  ASSUME NEW t \in Targets, t.mode \in Receiving, t.n = BITS,
         t.mode = "address" => t.bits[BITS] # 1, NEW u \in Falling(t)
  PROVE  /\ u \in Targets /\ u.scl = t.scl /\ u.gave = t.gave /\ u.refused = t.refused
         /\ u.mode = IF t.mode = "address" THEN "register" ELSE "data"
         /\ u.n = 0 /\ u.bits = <<>> /\ ~u.sda
         /\ u.got = IF t.mode = "address" THEN <<>> ELSE Append(t.got, t.bits)
<1> DEFINE m == IF t.mode = "address" THEN "register" ELSE "data"
           g == IF t.mode = "address" THEN <<>> ELSE Append(t.got, t.bits)
           v == [t EXCEPT !.mode = m, !.got = g, !.n = 0, !.bits = <<>>, !.sda = FALSE]
<1>1. t.mode # "send" /\ t.mode # "idle" /\ 0 \in -1 .. BITS
  BY I2cAssumption DEF Receiving
<1>2. u = v
  <2>1. Falling(t) = Goes(t)
    BY <1>1 DEF Falling
  <2>2. [t EXCEPT !.mode = IF t.mode = "address" THEN "register" ELSE "data",
                  !.got = IF t.mode = "address" THEN <<>> ELSE Append(@, t.bits),
                  !.n = 0, !.bits = <<>>, !.sda = FALSE] = v
    BY DEF Targets
  <2> HIDE DEF v
  <2> QED
    BY <1>1, <2>1, <2>2 DEF Goes
<1>3. g \in Seq(Seq(Levels)) /\ m \in {"register", "data"} /\ <<>> \in Seq(Levels)
  BY AppendProperties DEF Targets
<1> HIDE DEF m, g
<1>4. /\ v \in Targets /\ v.scl = t.scl /\ v.gave = t.gave /\ v.refused = t.refused
      /\ v.mode = m /\ v.n = 0 /\ v.bits = <<>> /\ ~v.sda /\ v.got = g
  BY <1>1, <1>3 DEF Targets
<1> HIDE DEF v
<1> QED
  BY <1>2, <1>4 DEF m, g

\* A byte to read follows.
LEMMA FallingReads ==
  ASSUME NEW t \in Targets, t.n = BITS, NEW u \in Falling(t),
         \/ t.mode = "address" /\ t.bits[BITS] = 1
         \/ t.mode = "send" /\ t.bits = << 0 >>
  PROVE  \E data \in BYTES :
             /\ u \in Targets /\ u.scl = t.scl /\ u.got = t.got /\ u.refused = t.refused
             /\ u.mode = "send" /\ u.n = 0 /\ u.bits = data /\ (u.sda <=> data[1] = 0)
             /\ u.gave = IF t.mode = "address" THEN <<data>> ELSE Append(t.gave, data)
<1>1. Falling(t) = Goes(t)
  BY DEF Falling
<1> DEFINE v == IF t.mode = "address" THEN [t EXCEPT !.gave = <<>>] ELSE t
<1>2. PICK data \in BYTES : u = Sends(v, data)
  BY <1>1 DEF Goes
<1>3. /\ v \in Targets /\ v.scl = t.scl /\ v.got = t.got /\ v.refused = t.refused
      /\ t.mode = "address" => v.gave = <<>>
      /\ t.mode # "address" => v.gave = t.gave
  <2> DEFINE w == [t EXCEPT !.gave = <<>>]
  <2>1. w \in Targets /\ w.scl = t.scl /\ w.got = t.got /\ w.refused = t.refused /\ w.gave = <<>>
    <3>1. ASSUME NEW g \in Seq(Seq(Levels))
          PROVE  LET x == [t EXCEPT !.gave = g]
                 IN  x \in Targets /\ x.scl = t.scl /\ x.got = t.got /\ x.refused = t.refused /\ x.gave = g
      BY DEF Targets
    <3>2. <<>> \in Seq(Seq(Levels))
      OBVIOUS
    <3> QED
      BY <3>1, <3>2, Zenon
  <2>2. v = IF t.mode = "address" THEN w ELSE t
    OBVIOUS
  <2> HIDE DEF v, w
  <2> QED
    BY <2>1, <2>2
<1> HIDE DEF v
<1>4. Append(v.gave, data) = IF t.mode = "address" THEN <<data>> ELSE Append(t.gave, data)
  <2>1. Append(<<>>, data) = <<data>>
    OBVIOUS
  <2> QED
    BY <1>3, <2>1, Zenon
<1>5. Sends(v, data).scl = v.scl
  BY <1>3 DEF Sends, Targets
<1> WITNESS data \in BYTES
<1> QED
  BY <1>2, <1>3, <1>4, <1>5, SendsOf

LEMMA FallingNack ==
  ASSUME NEW t \in Targets, t.mode = "send", t.n = BITS, t.bits # << 0 >>, NEW u \in Falling(t)
  PROVE  /\ u \in Targets /\ Leaves(u, t) /\ u.refused = t.refused /\ u.mode = "idle" /\ ~u.sda
<1>1. u = Ignores(t)
  BY DEF Falling, Goes
<1> QED
  BY <1>1 DEF Targets, Leaves, Ignores

-----------------------------------------------------------------------------
(* The bus                                                                 *)

\* All but the hold on SCL.
Same(u, t) ==
    /\ u.mode = t.mode /\ u.n = t.n /\ u.bits = t.bits /\ u.sda = t.sda
    /\ u.got = t.got /\ u.gave = t.gave /\ u.refused = t.refused

LEMMA Holding ==
  ASSUME NEW t \in Targets, NEW h \in BOOLEAN
  PROVE  LET u == [t EXCEPT !.scl = h]
         IN  u \in Targets /\ Same(u, t) /\ u.scl = h
BY DEF Targets, Same

\* SCL stays low.
LEMMA BusLow ==
  ASSUME I2cTypeOK, NEW s \in BOOLEAN, NEW c \in BOOLEAN, NEW h \in BOOLEAN,
         ~SclHigh, c \/ h, Bus(s, c, h)
  PROVE  target' \in Targets /\ Same(target', target) /\ target'.scl = h
<1>1. target \in Targets
  BY DEF I2cTypeOK
<1>2. target' = [target EXCEPT !.scl = h]
  BY DEF Bus
<1> QED
  BY <1>1, <1>2, Holding

\* SCL rises.
LEMMA BusRise ==
  ASSUME I2cTypeOK, NEW s \in BOOLEAN, ~SclHigh, Bus(s, FALSE, FALSE)
  PROVE  /\ target' \in Targets /\ target'.scl = FALSE
         /\ target'.mode = target.mode /\ target'.n = target.n /\ target'.sda = target.sda
         /\ target'.got = target.got /\ target'.gave = target.gave
         /\ target'.refused = target.refused
         /\ target'.bits =
               IF target.mode \in Receiving /\ target.n \in 0 .. BITS - 1
               THEN Append(target.bits, IF ~s /\ ~target.sda THEN 1 ELSE 0)
               ELSE IF target.mode = "send" /\ target.n = BITS
               THEN <<IF ~s /\ ~target.sda THEN 1 ELSE 0>>
               ELSE target.bits
<1> DEFINE t == [target EXCEPT !.scl = FALSE]
           level == ~s /\ ~target.sda
<1>1. target \in Targets
  BY DEF I2cTypeOK
<1>2. target' = Rising(t, level)
  BY DEF Bus
<1>3. t \in Targets /\ Same(t, target) /\ t.scl = FALSE
  BY <1>1, Holding
<1> HIDE DEF t, level
<1>4. target' \in Targets /\ target'.scl = FALSE
  BY <1>2, <1>3, RisingOf, Zenon
<1>5. /\ target'.mode = target.mode /\ target'.n = target.n /\ target'.sda = target.sda
      /\ target'.got = target.got /\ target'.gave = target.gave
      /\ target'.refused = target.refused
  BY <1>2, <1>3, RisingOf, Zenon DEF Same
<1>6. target'.bits =
        IF t.mode \in {"address", "register", "data"} /\ t.n \in 0 .. BITS - 1
        THEN Append(t.bits, IF level THEN 1 ELSE 0)
        ELSE IF t.mode = "send" /\ t.n = BITS THEN <<IF level THEN 1 ELSE 0>>
        ELSE t.bits
  BY <1>2, <1>3, RisingOf, Zenon
<1> QED
  BY <1>3, <1>4, <1>5, <1>6, Zenon DEF Same, Receiving, level

\* Nothing changes while SCL is high.
LEMMA BusHigh ==
  ASSUME I2cTypeOK, NEW s \in BOOLEAN, SclHigh, Bus(s, scl, target.scl), s = sda \/ target.sda
  PROVE  target' = target
<1>1. target \in Targets /\ ~target.scl /\ ~scl
  BY DEF I2cTypeOK, SclHigh
<1>2. [target EXCEPT !.scl = target.scl] = target
  BY <1>1 DEF Targets
<1> QED
  BY <1>1, <1>2 DEF Bus, SclHigh, SdaHigh

\* A START ...
LEMMA BusStart ==
  ASSUME I2cTypeOK, SclHigh, SdaHigh, Bus(TRUE, scl, target.scl)
  PROVE  /\ target' \in Targets /\ target'.scl = FALSE
         /\ target'.mode = "address" /\ target'.n = -1 /\ target'.bits = <<>> /\ ~target'.sda
         /\ target'.got = target.got /\ target'.gave = target.gave
         /\ target'.refused = target.refused
<1>1. target \in Targets /\ ~target.scl /\ ~scl /\ target.scl = FALSE
  BY DEF I2cTypeOK, SclHigh, Targets
<1>2. [target EXCEPT !.scl = target.scl] = target
  BY <1>1 DEF Targets
<1>3. target' = [target EXCEPT !.mode = "address", !.n = -1, !.bits = <<>>, !.sda = FALSE]
  BY <1>1, <1>2 DEF Bus, SclHigh, SdaHigh
<1>4. ASSUME NEW b \in Seq(Levels)
      PROVE  LET u == [target EXCEPT !.mode = "address", !.n = -1, !.bits = b, !.sda = FALSE]
             IN  /\ u \in Targets /\ u.scl = target.scl
                 /\ u.mode = "address" /\ u.n = -1 /\ u.bits = b /\ ~u.sda
                 /\ u.got = target.got /\ u.gave = target.gave /\ u.refused = target.refused
  <2> DEFINE u == [target EXCEPT !.mode = "address", !.n = -1, !.bits = b, !.sda = FALSE]
  <2>1. -1 \in -1 .. BITS /\ FALSE \in BOOLEAN
    BY I2cAssumption
  <2>2. u \in Targets
    BY <1>1, <2>1 DEF Targets
  <2>3. /\ u.scl = target.scl /\ u.mode = "address" /\ u.n = -1 /\ u.bits = b
        /\ u.got = target.got /\ u.gave = target.gave /\ u.refused = target.refused
    BY <1>1, <2>1 DEF Targets
  <2>4. ~u.sda
    BY <1>1 DEF Targets
  <2> HIDE DEF u
  <2>5. /\ u \in Targets /\ u.scl = target.scl
        /\ u.mode = "address" /\ u.n = -1 /\ u.bits = b /\ ~u.sda
        /\ u.got = target.got /\ u.gave = target.gave /\ u.refused = target.refused
    BY <2>2, <2>3, <2>4, Zenon
  <2> QED
    BY <2>5 DEF u
<1>5. <<>> \in Seq(Levels)
  OBVIOUS
<1> QED
  BY <1>1, <1>3, <1>4, <1>5, Zenon

\* ... and a STOP.
LEMMA BusStop ==
  ASSUME I2cTypeOK, SclHigh, sda, ~target.sda, Bus(FALSE, scl, target.scl)
  PROVE  /\ target' \in Targets /\ target'.scl = FALSE /\ target'.mode = "idle" /\ ~target'.sda
         /\ target'.got = target.got /\ target'.gave = target.gave
         /\ target'.refused = target.refused
<1>1. target \in Targets /\ ~target.scl /\ ~scl /\ target.scl = FALSE
  BY DEF I2cTypeOK, SclHigh, Targets
<1>2. [target EXCEPT !.scl = target.scl] = target
  BY <1>1 DEF Targets
<1>3. target' = Ignores(target)
  BY <1>1, <1>2 DEF Bus, SclHigh, SdaHigh
<1> QED
  BY <1>1, <1>3 DEF Targets, Ignores

\* SCL falls.
LEMMA BusFall ==
  ASSUME I2cTypeOK, SclHigh, Bus(sda, TRUE, target.scl)
  PROVE  \E u \in Falling(target) : u \in Targets => target' \in Targets /\ Same(target', u)
<1>1. target \in Targets /\ ~target.scl /\ ~scl
  BY DEF I2cTypeOK, SclHigh
<1>2. [target EXCEPT !.scl = target.scl] = target
  BY <1>1 DEF Targets
<1>3. PICK stretches \in BOOLEAN, u \in Falling(target) :
          target' = [u EXCEPT !.scl = stretches /\ u.mode # "idle"]
  BY <1>1, <1>2 DEF Bus, SclHigh
<1>4. (stretches /\ u.mode # "idle") \in BOOLEAN
  OBVIOUS
<1> QED
  BY <1>3, <1>4, Holding

-----------------------------------------------------------------------------
(* The place in the call                                                   *)

\* SDA is driven in a 0 and in a STOP.
Drives == Op \in {<<"write", 0>>, <<"stop", 0>>}

LEMMA CallOf ==
  ASSUME NEW k, k \in Calls
  PROVE  /\ k.op \in {"read", "write"} /\ k.reg \in BYTES
         /\ k.length \in Nat /\ k.length > 0
         /\ k.op = "write" => k.data \in [1 .. k.length -> BYTES]
<1>1. CASE k \in [op : {"read"}, reg : BYTES, length : LENGTHS]
  <2>1. k.op = "read" /\ k.reg \in BYTES /\ k.length \in LENGTHS
    BY <1>1
  <2>2. k.op # "write"
    BY <2>1
  <2>3. \A n \in LENGTHS : n \in Nat /\ n > 0
    <3>1. LENGTHS \subseteq Nat \ {0}
      BY I2cAssumption, Zenon
    <3> QED
      BY <3>1
  <2> QED
    BY <2>1, <2>2, <2>3, Zenon
<1>2. CASE k \in UNION {[op : {"write"}, reg : BYTES, length : {n}, data : [1 .. n -> BYTES]] : n \in LENGTHS}
  <2>1. PICK n \in LENGTHS : k \in [op : {"write"}, reg : BYTES, length : {n}, data : [1 .. n -> BYTES]]
    BY <1>2
  <2> QED
    BY <2>1, I2cAssumption
<1> QED
  BY <1>1, <1>2 DEF Calls

LEMMA OpOf ==
  ASSUME I2cTypeOK, PlaceOK, byte # 0
  PROVE  /\ bit = 0 => Op[1] = "start" /\ ~Drives /\ ~Reads
         /\ bit \in 1 .. BITS /\ ~Reads => Op[1] = "write" /\ (Drives <=> Byte[bit] = 0)
         /\ bit = BITS + 1 /\ ~Reads => Op[1] = "ack" /\ ~Drives
         /\ bit \in 1 .. BITS /\ Reads => Op[1] = "read" /\ ~Drives
         /\ bit = BITS + 1 /\ Reads => Op[1] = "write" /\ (Drives <=> ~IsLast)
         /\ bit = BITS + 2 => Op[1] = "stop" /\ Drives
<1> USE I2cAssumption
<1>1. bit \in 0 .. BITS + 2 /\ byte \in Nat
  BY DEF I2cTypeOK
<1>2. Op = IF Reads THEN i2c_read_byte(IsLast) ELSE i2c_write_byte(Byte)
  BY DEF Op, Byte
<1>3. ASSUME bit = 0 PROVE Op[1] = "start" /\ ~Drives /\ ~Reads
  <2>1. ~Reads
    BY <1>3 DEF PlaceOK, Starts, Reads
  <2>2. Op = <<"start", 0>>
    BY <1>2, <1>3, <2>1 DEF i2c_write_byte
  <2> QED
    BY <2>1, <2>2 DEF Drives
<1>4. ASSUME bit \in 1 .. BITS, ~Reads PROVE Op[1] = "write" /\ (Drives <=> Byte[bit] = 0)
  <2>1. Op = <<"write", Byte[bit]>>
    BY <1>2, <1>4 DEF i2c_write_byte
  <2> QED
    BY <2>1 DEF Drives
<1>5. ASSUME bit = BITS + 1, ~Reads PROVE Op[1] = "ack" /\ ~Drives
  <2>1. Op = <<"ack", 0>>
    BY <1>2, <1>5 DEF i2c_write_byte
  <2> QED
    BY <2>1 DEF Drives
<1>6. ASSUME bit \in 1 .. BITS, Reads PROVE Op[1] = "read" /\ ~Drives
  <2>1. Op = <<"read", 0>>
    BY <1>2, <1>6 DEF i2c_read_byte
  <2> QED
    BY <2>1 DEF Drives
<1>7. ASSUME bit = BITS + 1, Reads PROVE Op[1] = "write" /\ (Drives <=> ~IsLast)
  <2>1. Op = <<"write", IF IsLast THEN 1 ELSE 0>>
    BY <1>2, <1>7 DEF i2c_read_byte
  <2> QED
    BY <2>1 DEF Drives
<1>8. ASSUME bit = BITS + 2 PROVE Op[1] = "stop" /\ Drives
  <2>1. Op = <<"stop", 0>>
    BY <1>2, <1>8 DEF i2c_read_byte, i2c_write_byte
  <2> QED
    BY <2>1 DEF Drives
<1> QED
  BY <1>3, <1>4, <1>5, <1>6, <1>7, <1>8

\* What an operation is, from its name.
LEMMA OpIs ==
  ASSUME I2cTypeOK, PlaceOK, byte # 0
  PROVE  /\ Op[1] = "start" => bit = 0
         /\ Op[1] = "write" => (bit \in 1 .. BITS /\ ~Reads) \/ (bit = BITS + 1 /\ Reads)
         /\ Op[1] = "ack" => bit = BITS + 1 /\ ~Reads
         /\ Op[1] = "read" => bit \in 1 .. BITS /\ Reads
         /\ Op[1] = "stop" => bit = BITS + 2
<1>1. bit = 0 \/ bit \in 1 .. BITS \/ bit = BITS + 1 \/ bit = BITS + 2
  BY I2cAssumption DEF I2cTypeOK
<1>2. \/ bit = 0 /\ Op[1] = "start"
      \/ bit \in 1 .. BITS /\ ~Reads /\ Op[1] = "write"
      \/ bit \in 1 .. BITS /\ Reads /\ Op[1] = "read"
      \/ bit = BITS + 1 /\ ~Reads /\ Op[1] = "ack"
      \/ bit = BITS + 1 /\ Reads /\ Op[1] = "write"
      \/ bit = BITS + 2 /\ Op[1] = "stop"
  BY <1>1, OpOf, Zenon
<1> DEFINE o == Op[1]
<1> HIDE DEF o
<1>3. \/ bit = 0 /\ o = "start"
      \/ bit \in 1 .. BITS /\ ~Reads /\ o = "write"
      \/ bit \in 1 .. BITS /\ Reads /\ o = "read"
      \/ bit = BITS + 1 /\ ~Reads /\ o = "ack"
      \/ bit = BITS + 1 /\ Reads /\ o = "write"
      \/ bit = BITS + 2 /\ o = "stop"
  BY <1>2, Zenon DEF o
<1>4. /\ o = "start" => bit = 0
      /\ o = "write" => (bit \in 1 .. BITS /\ ~Reads) \/ (bit = BITS + 1 /\ Reads)
      /\ o = "ack" => bit = BITS + 1 /\ ~Reads
      /\ o = "read" => bit \in 1 .. BITS /\ Reads
      /\ o = "stop" => bit = BITS + 2
  BY <1>3
<1> QED
  BY <1>4, Zenon DEF o

\* A byte that is written.
LEMMA ByteOf ==
  ASSUME I2cTypeOK, PlaceOK, byte # 0, ~Reads
  PROVE  /\ Byte \in [1 .. BITS -> Levels] /\ Byte \in Seq(Levels) /\ Len(Byte) = BITS
         /\ Starts(byte) =>
               /\ SubSeq(Byte, 1, BITS - 1) = DEV
               /\ Byte[BITS] = IF byte = 3 THEN 1 ELSE 0
         /\ byte = 2 => Byte = call.reg
         /\ byte > 2 /\ call.op = "write" => Byte = call.data[byte - 2]
<1>1. /\ call.op \in {"read", "write"} /\ call.reg \in BYTES /\ call.length \in Nat
      /\ call.op = "write" => call.data \in [1 .. call.length -> BYTES]
  BY CallOf DEF PlaceOK
<1>2. byte \in Nat /\ byte \in 1 .. Total
  BY DEF PlaceOK, I2cTypeOK
<1>3. 0 \in Levels /\ 1 \in Levels
  BY DEF Levels
<1>4. CASE byte = 1
  <2>1. Byte = DEV \o << 0 >>
    BY <1>4 DEF Byte, i2c_gpio_read, i2c_gpio_write
  <2>2. /\ Byte \in [1 .. BITS -> Levels] /\ Byte \in Seq(Levels) /\ Len(Byte) = BITS
        /\ SubSeq(Byte, 1, BITS - 1) = DEV /\ Byte[BITS] = 0
    BY <1>3, <2>1, AddressSeq, Zenon
  <2> QED
    BY <1>4, <2>2
<1>5. CASE byte = 2
  <2>1. Byte = call.reg
    BY <1>5 DEF Byte, i2c_gpio_read, i2c_gpio_write
  <2>2. ~Starts(byte)
    BY <1>5 DEF Starts
  <2> QED
    BY <1>1, <1>5, <2>1, <2>2, ByteSeq
<1>6. CASE byte > 2 /\ call.op = "read"
  <2>1. byte = 3
    BY <1>2, <1>6 DEF Reads
  <2>2. Byte = DEV \o << 1 >>
    BY <1>6, <2>1 DEF Byte, i2c_gpio_read
  <2>3. /\ Byte \in [1 .. BITS -> Levels] /\ Byte \in Seq(Levels) /\ Len(Byte) = BITS
        /\ SubSeq(Byte, 1, BITS - 1) = DEV /\ Byte[BITS] = 1
    BY <1>3, <2>2, AddressSeq, Zenon
  <2> QED
    BY <1>6, <2>1, <2>3
<1>7. CASE byte > 2 /\ call.op = "write"
  <2>1. Byte = call.data[byte - 2] /\ ~Starts(byte)
    BY <1>2, <1>7 DEF Byte, i2c_gpio_write, Starts
  <2>2. byte - 2 \in 1 .. call.length
    BY <1>1, <1>2, <1>7 DEF Total
  <2>3. call.data[byte - 2] \in BYTES
    BY <1>1, <1>7, <2>2
  <2> QED
    BY <1>2, <1>7, <2>1, <2>3, ByteSeq
<1> QED
  BY <1>1, <1>2, <1>4, <1>5, <1>6, <1>7

\* Nothing moves on.
LEMMA SamePlace ==
  ASSUME UNCHANGED <<call, byte, bit>>
  PROVE  /\ Op' = Op /\ Byte' = Byte /\ (Drives' <=> Drives) /\ (Reads' <=> Reads)
         /\ (IsLast' <=> IsLast) /\ Total' = Total /\ Receives' = Receives
BY DEF Op, Byte, Drives, Reads, IsLast, Total, Receives, Starts,
       i2c_read_byte, i2c_write_byte, i2c_gpio_read, i2c_gpio_write

-----------------------------------------------------------------------------
(* Steps that leave the target where it is                                 *)

LEMMA Over ==
  ASSUME byte' = 0, result' # "TRUE"
  PROVE  PlaceOK' /\ Traffic' /\ DoneOK'
BY DEF PlaceOK, Traffic, StartOK, WriteOK, AckOK, ReadOK, NackOK, StopOK, GotOK, ReadBytesOK, DoneOK

\* Nothing is on the lines.
LEMMA Stays ==
  ASSUME I2cTypeOK, PlaceOK, Traffic, byte # 0,
         UNCHANGED <<call, byte, bit, rbyte, pdata, nack, dirty>>,
         Same(target', target), SclHigh' <=> SclHigh,
         (phase' = "low" <=> phase = "low") \/ Op[1] = "write",
         phase' = "free" <=> phase = "free",
         phase' = "condition" => ~target.sda
  PROVE  Traffic'
<1>1. /\ Byte' = Byte /\ (Reads' <=> Reads) /\ (IsLast' <=> IsLast) /\ Receives' = Receives
  BY SamePlace
<1>2. /\ Op[1] = "start" => bit = 0
      /\ Op[1] = "write" => (bit \in 1 .. BITS /\ ~Reads) \/ (bit = BITS + 1 /\ Reads)
  BY OpIs
<1> USE DEF Same
<1>3. StartOK'
  <2>1. bit = 0 => (phase' = "low" <=> phase = "low")
    <3>1. bit = 0 => Op[1] # "write"
      BY <1>2, I2cAssumption
    <3> QED
      BY <3>1
  <2> QED
    BY <2>1 DEF Traffic, StartOK
<1>4. WriteOK'
  BY <1>1, Zenon DEF Traffic, WriteOK
<1>5. AckOK'
  <2>1. bit = BITS + 1 /\ ~Reads => (phase' = "low" <=> phase = "low")
    <3>1. bit = BITS + 1 /\ ~Reads => Op[1] # "write"
      BY <1>2, I2cAssumption
    <3> QED
      BY <3>1
  <2> QED
    BY <1>1, <2>1, Zenon DEF Traffic, AckOK
<1>6. ReadOK'
  <2>1. bit \in 1 .. BITS /\ Reads => (phase' = "low" <=> phase = "low")
    <3>1. bit \in 1 .. BITS /\ Reads => Op[1] # "write"
      BY <1>2, I2cAssumption
    <3> QED
      BY <3>1
  <2> QED
    BY <1>1, <2>1, Zenon DEF Traffic, ReadOK
<1>7. NackOK'
  BY <1>1, Zenon DEF Traffic, NackOK
<1>8. StopOK'
  BY Zenon DEF Traffic, StopOK
<1>9. GotOK'
  BY Zenon DEF Traffic, GotOK
<1>10. ReadBytesOK'
  BY <1>1, Zenon DEF Traffic, ReadBytesOK
<1> QED
  BY <1>3, <1>4, <1>5, <1>6, <1>7, <1>8, <1>9, <1>10 DEF Traffic

\* SCL rises: a bit goes over the bus.
LEMMA ClockRises ==
  ASSUME I2cTypeOK, PlaceOK, LinesOK, Traffic, byte # 0,
         UNCHANGED <<call, byte, bit, rbyte, pdata, nack, dirty>>,
         ~SclHigh, Bus(sda, FALSE, FALSE),
         phase \in {"scl", "poll"} \/ bit = 0,
         phase # "low", phase # "free", phase' \notin {"low", "free", "condition"}
  PROVE  Traffic'
<1>1. /\ Byte' = Byte /\ (Reads' <=> Reads) /\ (IsLast' <=> IsLast) /\ Receives' = Receives
  BY SamePlace
<1>. sda \in BOOLEAN
  BY DEF I2cTypeOK
<1>2. SclHigh'
  BY BusRise DEF Bus, SclHigh
<1>3. /\ target'.mode = target.mode /\ target'.n = target.n /\ target'.sda = target.sda
      /\ target'.got = target.got /\ target'.gave = target.gave
      /\ target'.refused = target.refused
  BY BusRise
<1>4. target'.bits =
        IF target.mode \in Receiving /\ target.n \in 0 .. BITS - 1
        THEN Append(target.bits, IF ~sda /\ ~target.sda THEN 1 ELSE 0)
        ELSE IF target.mode = "send" /\ target.n = BITS
        THEN <<IF ~sda /\ ~target.sda THEN 1 ELSE 0>>
        ELSE target.bits
  BY BusRise DEF I2cTypeOK
<1>5. bit # 0 => (sda <=> Drives)
  BY DEF LinesOK, Drives
<1>6. StartOK'
  BY <1>3 DEF Traffic, StartOK
<1>7. WriteOK'
  <2> SUFFICES ASSUME bit \in 1 .. BITS, ~Reads
               PROVE  /\ target'.mode = Receives /\ target'.n = bit - 1 /\ ~target'.sda
                      /\ target'.bits = [i \in 1 .. bit |-> Byte[i]]
    BY <1>1, <1>2, Zenon DEF WriteOK
  <2>1. /\ target.mode = Receives /\ target.n = bit - 1 /\ ~target.sda
        /\ target.bits = [i \in 1 .. bit - 1 |-> Byte[i]]
    BY Zenon DEF Traffic, WriteOK
  <2>2. Receives \in Receiving /\ bit - 1 \in 0 .. BITS - 1
    BY I2cAssumption DEF Receives, Receiving
  <2>3. Byte \in [1 .. BITS -> Levels]
    BY ByteOf
  <2>4. (IF ~sda /\ ~target.sda THEN 1 ELSE 0) = Byte[bit]
    <3>1. sda <=> Byte[bit] = 0
      BY <1>5, OpOf, I2cAssumption
    <3>2. Byte[bit] = 0 \/ Byte[bit] = 1
      BY <2>3 DEF Levels
    <3> QED
      BY <2>1, <3>1, <3>2
  <2>5. target'.bits = Append([i \in 1 .. bit - 1 |-> Byte[i]], Byte[bit])
    BY <1>4, <2>1, <2>2, <2>4, Zenon
  <2>6. Append([i \in 1 .. bit - 1 |-> Byte[i]], Byte[bit]) = [i \in 1 .. bit |-> Byte[i]]
    <3>1. bit \in Nat \ {0} /\ \A i \in 1 .. bit : Byte[i] \in Levels
      BY <2>3, I2cAssumption
    <3> QED
      BY <3>1, PrefixNext
  <2> QED
    BY <1>3, <2>1, <2>5, <2>6, Zenon
<1>8. AckOK'
  <2> SUFFICES ASSUME bit = BITS + 1, ~Reads
               PROVE  \/ /\ target'.mode = Receives /\ target'.n = BITS /\ target'.bits = Byte
                         /\ target'.sda
                      \/ target'.mode = "idle" /\ target'.refused /\ ~target'.sda
    BY <1>1, Zenon DEF AckOK
  <2>1. CASE target.mode = Receives /\ target.n = BITS /\ target.bits = Byte /\ target.sda
    <3>1. target.n \notin 0 .. BITS - 1 /\ target.mode # "send"
      BY <2>1, I2cAssumption DEF Receives
    <3>2. target'.bits = target.bits
      BY <1>4, <3>1
    <3> QED
      BY <1>3, <2>1, <3>2, Zenon
  <2>2. CASE target.mode = "idle" /\ target.refused /\ ~target.sda
    BY <1>3, <2>2, Zenon
  <2> QED
    BY <2>1, <2>2, Zenon DEF Traffic, AckOK
<1>9. ReadOK'
  <2> SUFFICES ASSUME bit \in 1 .. BITS, Reads
               PROVE  /\ target'.mode = "send" /\ target'.n = bit - 1
                      /\ (target'.sda <=> target'.bits[bit] = 0)
                      /\ target'.bits \in BYTES /\ target'.gave = Append(pdata, target'.bits)
                      /\ rbyte = [i \in 1 .. bit - 1 |-> target'.bits[i]]
    BY <1>1, Zenon DEF ReadOK
  <2>1. /\ target.mode = "send" /\ target.n = bit - 1
        /\ (target.sda <=> target.bits[bit] = 0)
        /\ target.bits \in BYTES /\ target.gave = Append(pdata, target.bits)
        /\ rbyte = [i \in 1 .. bit - 1 |-> target.bits[i]]
    BY Zenon DEF Traffic, ReadOK
  <2>2. target.n # BITS /\ target.mode \notin Receiving
    BY <2>1, I2cAssumption DEF Receiving
  <2>3. target'.bits = target.bits
    BY <1>4, <2>2, Zenon
  <2> QED
    BY <1>3, <2>1, <2>3, Zenon
<1>10. NackOK'
  <2> SUFFICES ASSUME bit = BITS + 1, Reads
               PROVE  /\ target'.mode = "send" /\ target'.n = BITS /\ ~target'.sda
                      /\ target'.gave = pdata /\ rbyte = <<>>
                      /\ target'.bits = <<IF IsLast THEN 1 ELSE 0>>
    BY <1>1, Zenon DEF NackOK
  <2>1. /\ target.mode = "send" /\ target.n = BITS /\ ~target.sda
        /\ target.gave = pdata /\ rbyte = <<>>
    BY Zenon DEF Traffic, NackOK
  <2>2. target.mode \notin Receiving
    BY <2>1 DEF Receiving
  <2>3. target'.bits = <<IF ~sda THEN 1 ELSE 0>>
    BY <1>4, <2>1, <2>2, Zenon
  <2>4. sda <=> ~IsLast
    BY <1>5, OpOf, I2cAssumption
  <2>5. (IF ~sda THEN 1 ELSE 0) = (IF IsLast THEN 1 ELSE 0)
    BY <2>4
  <2> QED
    BY <1>3, <2>1, <2>3, <2>5, Zenon
<1>11. StopOK'
  BY <1>3, Zenon DEF Traffic, StopOK
<1>12. GotOK'
  BY <1>3, Zenon DEF Traffic, GotOK
<1>13. ReadBytesOK'
  BY <1>1, Zenon DEF Traffic, ReadBytesOK
<1> QED
  BY <1>6, <1>7, <1>8, <1>9, <1>10, <1>11, <1>12, <1>13 DEF Traffic

-----------------------------------------------------------------------------
(* The steps                                                               *)

LEMMA InitKeeps == I2cInit => BusInv
<1> SUFFICES ASSUME I2cInit PROVE BusInv
  OBVIOUS
<1> USE DEF I2cInit
<1>1. Idle \in Targets /\ Idle.scl = FALSE
  <2>1. <<>> \in Seq(Levels) /\ <<>> \in Seq(Seq(Levels)) /\ 0 \in -1 .. BITS
    BY I2cAssumption
  <2> QED
    BY <2>1 DEF Idle, Targets
<1>2. target \in Targets
  BY <1>1, SendsOf
<1>3. target.scl = FALSE
  <2>1. ASSUME NEW data \in BYTES PROVE Sends(Idle, data).scl = FALSE
    BY <1>1 DEF Sends, Targets
  <2> QED
    BY <1>1, <2>1
<1>4. I2cTypeOK
  <2>1. rbyte \in Seq(Levels) /\ pdata \in Seq(Seq(Levels))
    OBVIOUS
  <2>2. call \in Calls \cup {[op |-> "none"]}
    OBVIOUS
  <2>3. byte \in Nat /\ bit \in 0 .. BITS + 2 /\ timeout \in Nat /\ nack \in Levels /\ calls \in Nat
    BY I2cAssumption DEF Levels
  <2>4. sda \in BOOLEAN /\ scl \in BOOLEAN /\ g_started \in BOOLEAN /\ dirty \in BOOLEAN
    OBVIOUS
  <2> QED
    BY <1>2, <2>1, <2>2, <2>3, <2>4, Zenon DEF I2cTypeOK
<1>5. LinesOK
  BY DEF LinesOK
<1> QED
  BY <1>4, <1>5 DEF BusInv, PlaceOK, Traffic, StartOK, WriteOK, AckOK, ReadOK, NackOK, StopOK,
                    GotOK, ReadBytesOK, DoneOK

LEMMA CallKeeps == BusInv /\ Call => BusInv'
<1> SUFFICES ASSUME BusInv, Call PROVE BusInv'
  OBVIOUS
<1> USE DEF Call
<1>1. /\ I2cTypeOK /\ LinesOK /\ byte = 0 /\ byte' = 1 /\ bit' = 0 /\ phase' = "sda"
      /\ UNCHANGED <<sda, scl, g_started, timeout, nack>>
  BY DEF BusInv
<1>2. /\ target' \in Targets /\ target'.scl = target.scl /\ target'.sda = target.sda
  BY <1>1 DEF I2cTypeOK, Targets
<1>3. call' \in Calls
  OBVIOUS
<1>4. /\ call'.op \in {"read", "write"} /\ call'.length \in Nat /\ call'.length > 0
  BY <1>3, CallOf
<1>5. I2cTypeOK'
  <2>1. rbyte' \in Seq(Levels) /\ pdata' \in Seq(Seq(Levels)) /\ calls' \in Nat
    BY <1>1 DEF I2cTypeOK
  <2>2. dirty' \in BOOLEAN
    BY <1>1 DEF I2cTypeOK, Targets
  <2> QED
    BY <1>1, <1>2, <1>3, <2>1, <2>2, I2cAssumption DEF I2cTypeOK
<1>6. PlaceOK'
  <2>1. byte' \in 1 .. Total'
    BY <1>1, <1>4 DEF Total
  <2> QED
    BY <1>1, <1>3, <2>1, I2cAssumption DEF PlaceOK, Starts
<1>7. LinesOK'
  BY <1>1, <1>2 DEF LinesOK, First, SclHigh
<1>8. Traffic'
  <2>1. ~Reads' /\ byte' <= 3
    BY <1>1 DEF Reads
  <2> QED
    BY <1>1, <1>2, <2>1, I2cAssumption
       DEF Traffic, StartOK, WriteOK, AckOK, ReadOK, NackOK, StopOK, GotOK, ReadBytesOK
<1> QED
  BY <1>5, <1>6, <1>7, <1>8 DEF BusInv, DoneOK

\* In a call there is no result yet.
LEMMA NotDone ==
  ASSUME BusInv, byte # 0, result' = result \/ result' = "FALSE"
  PROVE  DoneOK'
BY DEF BusInv, PlaceOK, DoneOK

LEMMA SetSdaKeeps == BusInv /\ SetSda => BusInv'
<1> SUFFICES ASSUME BusInv, SetSda PROVE BusInv'
  OBVIOUS
<1> USE DEF BusInv
<1>1. /\ byte # 0 /\ phase = "sda" /\ phase' = "scl" /\ timeout' = STRETCHING_TIMEOUT
      /\ UNCHANGED <<g_started, call, byte, bit, nack, rbyte, pdata, result, dirty, calls>>
      /\ Bus(Drives, scl, target.scl)
      /\ Op[1] # "start"
  BY DEF SetSda, Busy, Waits, Drives
<1>2. bit # 0
  BY <1>1, OpOf
<1>3. scl /\ ~SclHigh
  BY <1>1, <1>2 DEF LinesOK, First, SclHigh
<1>4. /\ sda' = Drives /\ scl' = scl
  BY <1>1 DEF Bus
<1>5. Drives \in BOOLEAN /\ target.scl \in BOOLEAN /\ scl \in BOOLEAN
  BY DEF Drives, I2cTypeOK, Targets
<1>6. target' \in Targets /\ Same(target', target)
  BY <1>1, <1>3, <1>5, BusLow, Zenon
<1>7. ~SclHigh'
  BY <1>3, <1>4 DEF SclHigh
<1>8. I2cTypeOK'
  BY <1>1, <1>4, <1>5, <1>6, I2cAssumption, Zenon DEF I2cTypeOK
<1>9. PlaceOK'
  BY <1>1, <1>2, SamePlace DEF PlaceOK, Starts
<1>10. LinesOK'
  <2>1. g_started
    BY <1>3 DEF LinesOK
  <2>2. Drives' <=> Drives
    BY <1>1, SamePlace
  <2> QED
    BY <1>1, <1>2, <1>3, <1>4, <2>1, <2>2 DEF LinesOK, Drives
<1>11. Traffic'
  BY <1>1, <1>3, <1>6, <1>7, Stays
<1> QED
  BY <1>1, <1>8, <1>9, <1>10, <1>11, NotDone

LEMMA StartReleasesKeeps == BusInv /\ StartReleases => BusInv'
<1> SUFFICES ASSUME BusInv, StartReleases PROVE BusInv'
  OBVIOUS
<1> USE DEF BusInv
<1>1. byte # 0 /\ phase = "sda" /\ Op[1] = "start" /\ UNCHANGED <<dirty, calls>>
  BY DEF StartReleases, Busy
<1>2. bit = 0
  BY <1>1, OpIs
<1>3. sda \in BOOLEAN /\ scl \in BOOLEAN /\ target.scl \in BOOLEAN /\ target.sda \in BOOLEAN
  BY DEF I2cTypeOK, Targets
<1>4. CASE g_started
  <2>1. /\ phase' = "scl" /\ timeout' = STRETCHING_TIMEOUT
        /\ UNCHANGED <<g_started, call, byte, bit, nack, rbyte, pdata, result>>
        /\ Bus(FALSE, scl, target.scl) /\ sda' = FALSE /\ scl' = scl
    BY <1>4 DEF StartReleases, Waits, Bus
  <2>2. /\ target' \in Targets /\ target'.scl = target.scl
        /\ target'.got = target.got /\ target'.gave = target.gave
        /\ target'.sda => target.sda
    <3>1. CASE ~SclHigh
      <4>1. scl \/ target.scl
        BY <3>1 DEF SclHigh
      <4> QED
        BY <1>3, <2>1, <3>1, <4>1, BusLow DEF Same
    <3>2. CASE SclHigh /\ (~sda \/ target.sda)
      <4>1. target' = target
        BY <1>3, <2>1, <3>2, BusHigh
      <4> QED
        BY <4>1 DEF I2cTypeOK
    <3>3. CASE SclHigh /\ sda /\ ~target.sda
      <4>1. target.scl = FALSE
        BY <1>3, <3>3 DEF SclHigh
      <4> QED
        BY <2>1, <3>3, <4>1, BusStop
    <3> QED
      BY <3>1, <3>2, <3>3
  <2>3. I2cTypeOK'
    BY <1>1, <1>3, <2>1, <2>2, I2cAssumption, Zenon DEF I2cTypeOK
  <2>4. PlaceOK'
    BY <1>2, <2>1, SamePlace DEF PlaceOK, Starts
  <2>5. LinesOK'
    BY <1>1, <1>2, <1>4, <2>1 DEF LinesOK, First
  <2>6. Traffic'
    <3>1. ~Reads' /\ (byte = 1 \/ byte = 3)
      BY <1>1, <1>2, <2>1 DEF Reads, PlaceOK, Starts
    <3>2. StartOK'
      BY <1>1, <1>2, <2>1, <2>2 DEF Traffic, StartOK
    <3>3. GotOK'
      BY <2>1, <2>2, Zenon DEF Traffic, GotOK
    <3>4. ReadBytesOK'
      BY <2>1, <3>1 DEF Traffic, ReadBytesOK
    <3>5. WriteOK' /\ AckOK' /\ ReadOK' /\ NackOK' /\ StopOK'
      BY <1>2, <2>1, I2cAssumption DEF WriteOK, AckOK, ReadOK, NackOK, StopOK
    <3> QED
      BY <3>2, <3>3, <3>4, <3>5 DEF Traffic
  <2> QED
    BY <1>1, <2>1, <2>3, <2>4, <2>5, <2>6, NotDone
<1>5. CASE ~g_started
  <2>1. /\ phase' = "sample"
        /\ UNCHANGED <<g_started, call, byte, bit, timeout, nack, rbyte, pdata, result, sda, scl, target>>
    BY <1>5 DEF StartReleases, Goto
  <2>2. SclHigh /\ ~sda /\ SclHigh' /\ byte = 1
    BY <1>1, <1>5, <2>1 DEF LinesOK, SclHigh
  <2>3. I2cTypeOK'
    BY <1>1, <2>1, Zenon DEF I2cTypeOK
  <2>4. PlaceOK'
    BY <1>2, <2>1, SamePlace DEF PlaceOK, Starts
  <2>5. LinesOK'
    BY <1>1, <1>2, <2>1, <2>2 DEF LinesOK
  <2>6. Traffic'
    <3>1. Same(target', target)
      BY <2>1 DEF Same
    <3>2. SclHigh' <=> SclHigh
      BY <2>2
    <3> QED
      BY <1>1, <2>1, <3>1, <3>2, Stays
  <2> QED
    BY <1>1, <2>1, <2>3, <2>4, <2>5, <2>6, NotDone
<1> QED
  BY <1>4, <1>5

LEMMA ReleaseSclKeeps == BusInv /\ ReleaseScl => BusInv'
<1> SUFFICES ASSUME BusInv, ReleaseScl PROVE BusInv'
  OBVIOUS
<1> USE DEF BusInv
<1>1. /\ byte # 0 /\ phase = "scl" /\ phase' = "poll"
      /\ UNCHANGED <<g_started, call, byte, bit, timeout, nack, rbyte, pdata, result, dirty, calls>>
      /\ Bus(sda, FALSE, target.scl) /\ sda' = sda /\ scl' = FALSE
  BY DEF ReleaseScl, Goto, Bus
<1>2. sda \in BOOLEAN /\ scl \in BOOLEAN /\ target.scl \in BOOLEAN /\ FALSE \in BOOLEAN
  BY DEF I2cTypeOK, Targets
<1>3. target' \in Targets /\ Traffic'
  <2>1. CASE ~SclHigh /\ target.scl
    <3>1. target' \in Targets /\ Same(target', target) /\ target'.scl = target.scl
      BY <1>1, <1>2, <2>1, BusLow
    <3>2. SclHigh' <=> SclHigh
      BY <2>1, <3>1 DEF SclHigh
    <3> QED
      BY <1>1, <3>1, <3>2, Stays
  <2>2. CASE ~SclHigh /\ ~target.scl
    <3>1. target.scl = FALSE
      BY <1>2, <2>2
    <3>2. Bus(sda, FALSE, FALSE)
      BY <1>1, <3>1
    <3>3. target' \in Targets
      BY <1>2, <2>2, <3>2, BusRise
    <3> QED
      BY <1>1, <2>2, <3>2, <3>3, ClockRises
  <2>3. CASE SclHigh
    <3>1. scl = FALSE
      BY <1>2, <2>3 DEF SclHigh
    <3>2. target' = target
      BY <1>1, <1>2, <2>3, <3>1, BusHigh
    <3>3. (SclHigh' <=> SclHigh) /\ Same(target', target)
      BY <1>1, <3>1, <3>2 DEF SclHigh, Same
    <3> QED
      BY <1>1, <3>2, <3>3, Stays DEF I2cTypeOK
  <2> QED
    BY <2>1, <2>2, <2>3
<1>4. I2cTypeOK'
  BY <1>1, <1>2, <1>3, Zenon DEF I2cTypeOK
<1>5. PlaceOK'
  BY <1>1, SamePlace DEF PlaceOK, Starts
<1>6. LinesOK'
  <2>1. g_started
    BY <1>1, I2cAssumption DEF LinesOK
  <2>2. sda <=> IF bit = 0 THEN FALSE ELSE Drives
    BY <1>1 DEF LinesOK, Drives
  <2>3. Drives' <=> Drives
    BY <1>1, SamePlace
  <2> QED
    BY <1>1, <2>1, <2>2, <2>3 DEF LinesOK, Drives
<1> QED
  BY <1>1, <1>3, <1>4, <1>5, <1>6, NotDone

LEMMA StretchEndsKeeps == BusInv /\ StretchEnds => BusInv'
<1> SUFFICES ASSUME BusInv, StretchEnds PROVE BusInv'
  OBVIOUS
<1> USE DEF BusInv
<1>1. /\ UNCHANGED <<g_started, call, byte, bit, phase, timeout, nack, rbyte, pdata, result, dirty, calls>>
      /\ Bus(sda, scl, FALSE) /\ sda' = sda /\ scl' = scl /\ target.scl
  BY DEF StretchEnds, Bus, loader
<1>2. sda \in BOOLEAN /\ scl \in BOOLEAN /\ FALSE \in BOOLEAN /\ ~SclHigh
  BY <1>1 DEF I2cTypeOK, SclHigh
<1>3. target' \in Targets
  <2>1. CASE scl
    BY <1>1, <1>2, <2>1, BusLow
  <2>2. CASE ~scl
    <3>1. Bus(sda, FALSE, FALSE)
      BY <1>1, <1>2, <2>2
    <3> QED
      BY <1>2, <3>1, BusRise
  <2> QED
    BY <2>1, <2>2
<1>4. I2cTypeOK'
  BY <1>1, <1>2, <1>3, Zenon DEF I2cTypeOK
<1>5. PlaceOK'
  BY <1>1, SamePlace DEF PlaceOK, Starts
<1>6. byte # 0 => phase \in {"sda", "scl", "poll"}
  BY <1>2 DEF LinesOK, I2cTypeOK
<1>7. LinesOK'
  <2>1. g_started
    BY <1>2 DEF LinesOK
  <2>2. Drives' <=> Drives
    BY <1>1, SamePlace
  <2> QED
    BY <1>1, <1>6, <2>1, <2>2 DEF LinesOK, Drives, First
<1>8. Traffic'
  <2>1. CASE byte = 0
    BY <1>1, <2>1 DEF Traffic, StartOK, WriteOK, AckOK, ReadOK, NackOK, StopOK, GotOK, ReadBytesOK
  <2>2. CASE byte # 0 /\ scl
    <3>1. Same(target', target)
      BY <1>1, <1>2, <2>2, BusLow
    <3>2. SclHigh' <=> SclHigh
      BY <1>1, <1>2, <2>2 DEF SclHigh
    <3>3. phase' # "condition"
      BY <1>1, <1>6, <2>2
    <3> QED
      BY <1>1, <2>2, <3>1, <3>2, <3>3, Stays
  <2>3. CASE byte # 0 /\ ~scl
    <3>1. Bus(sda, FALSE, FALSE)
      BY <1>1, <1>2, <2>3
    <3>2. phase \in {"scl", "poll"} \/ bit = 0
      BY <1>6, <2>3 DEF LinesOK, First
    <3> QED
      BY <1>1, <1>2, <1>6, <2>3, <3>1, <3>2, ClockRises
  <2> QED
    BY <2>1, <2>2, <2>3
<1>9. DoneOK'
  BY <1>1 DEF DoneOK
<1> QED
  BY <1>4, <1>5, <1>7, <1>8, <1>9

\* A call that fails leaves the bus to the next one as it is.
LEMMA FailsKeeps ==
  ASSUME BusInv, byte # 0, Fails, UNCHANGED <<dirty, calls>>,
         target' \in Targets, sda' \in BOOLEAN, scl' \in BOOLEAN,
         g_started \/ (SclHigh' /\ ~sda')
  PROVE  BusInv'
<1>1. I2cTypeOK'
  BY Zenon DEF BusInv, I2cTypeOK, Fails
<1>2. LinesOK'
  BY DEF LinesOK, Fails
<1> QED
  BY <1>1, <1>2, Over DEF BusInv, Fails

LEMMA PollSclKeeps == BusInv /\ PollScl => BusInv'
<1> SUFFICES ASSUME BusInv, PollScl PROVE BusInv'
  OBVIOUS
<1> USE DEF BusInv
<1>1. byte # 0 /\ phase = "poll" /\ UNCHANGED <<sda, scl, target, dirty, calls>>
  BY DEF PollScl
<1>2. g_started /\ ~scl
  BY <1>1, I2cAssumption DEF LinesOK
<1>3. CASE SclHigh
  <2>1. /\ phase' = "sample"
        /\ UNCHANGED <<g_started, call, byte, bit, timeout, nack, rbyte, pdata, result>>
    BY <1>3 DEF PollScl, Goto
  <2>2. (SclHigh' <=> SclHigh) /\ Same(target', target)
    BY <1>1 DEF SclHigh, Same
  <2>3. I2cTypeOK'
    BY <1>1, <2>1, Zenon DEF I2cTypeOK
  <2>4. PlaceOK'
    BY <1>1, <2>1, SamePlace DEF PlaceOK, Starts
  <2>5. LinesOK'
    <3>1. Drives' <=> Drives
      BY <2>1, SamePlace
    <3> QED
      BY <1>1, <1>2, <1>3, <2>1, <2>2, <3>1 DEF LinesOK, Drives
  <2>6. Traffic'
    BY <1>1, <2>1, <2>2, Stays
  <2> QED
    BY <1>1, <2>1, <2>3, <2>4, <2>5, <2>6, NotDone
<1>4. CASE ~SclHigh /\ timeout = 0
  <2>1. Fails
    BY <1>4 DEF PollScl
  <2> QED
    BY <1>1, <1>2, <2>1, FailsKeeps DEF I2cTypeOK
<1>5. CASE ~SclHigh /\ timeout # 0
  <2>1. /\ timeout' = timeout - 1
        /\ UNCHANGED <<g_started, call, byte, bit, phase, nack, rbyte, pdata, result>>
    BY <1>5 DEF PollScl
  <2>2. (SclHigh' <=> SclHigh) /\ Same(target', target)
    BY <1>1 DEF SclHigh, Same
  <2>3. timeout' \in Nat
    BY <1>5, <2>1 DEF I2cTypeOK
  <2>4. I2cTypeOK'
    BY <1>1, <2>1, <2>3, Zenon DEF I2cTypeOK
  <2>5. PlaceOK'
    BY <1>1, <2>1, SamePlace DEF PlaceOK, Starts
  <2>6. LinesOK'
    <3>1. Drives' <=> Drives
      BY <2>1, SamePlace
    <3> QED
      BY <1>1, <1>2, <2>1, <3>1 DEF LinesOK, Drives
  <2>7. Traffic'
    BY <1>1, <2>1, <2>2, Stays
  <2> QED
    BY <1>1, <2>1, <2>4, <2>5, <2>6, <2>7, NotDone
<1> QED
  BY <1>3, <1>4, <1>5

LEMMA ArbitrateKeeps == BusInv /\ Arbitrate => BusInv'
<1> SUFFICES ASSUME BusInv, Arbitrate PROVE BusInv'
  OBVIOUS
<1> USE DEF BusInv
<1>1. /\ byte # 0 /\ phase = "sample" /\ UNCHANGED <<sda, scl, target, dirty, calls>>
      /\ Op[1] = "start" \/ Op[1] = "write"
  BY DEF Arbitrate, Busy
<1>2. SclHigh /\ SclHigh' /\ Same(target', target)
  BY <1>1 DEF LinesOK, SclHigh, Same
<1>3. (Op[1] = "start" <=> bit = 0) /\ (bit = 0 => ~sda)
  BY <1>1, OpIs, OpOf, I2cAssumption DEF LinesOK
<1>4. CASE SdaHigh \/ Op = <<"write", 0>>
  <2>1. /\ phase' = IF Op[1] = "start" THEN "condition" ELSE "low"
        /\ UNCHANGED <<g_started, call, byte, bit, timeout, nack, rbyte, pdata, result>>
    BY <1>4 DEF Arbitrate, Goto
  <2>2. Op[1] = "start" => ~target.sda
    BY <1>4 DEF SdaHigh
  <2>3. I2cTypeOK'
    BY <1>1, <2>1, Zenon DEF I2cTypeOK
  <2>4. PlaceOK'
    <3>1. bit <= BITS + 1
      BY <1>1, OpIs, I2cAssumption
    <3> QED
      BY <1>1, <1>3, <2>1, <3>1, SamePlace DEF PlaceOK, Starts
  <2>5. LinesOK'
    <3>1. Drives' <=> Drives
      BY <2>1, SamePlace
    <3>2. ~g_started => bit = 0 /\ byte = 1 /\ ~sda
      BY <1>1, <1>3 DEF LinesOK
    <3> QED
      BY <1>1, <1>2, <1>3, <2>1, <3>1, <3>2 DEF LinesOK, Drives
  <2>6. Traffic'
    <3>1. (phase' = "low" <=> phase = "low") \/ Op[1] = "write"
      BY <1>1, <2>1
    <3>2. phase' # "free" /\ phase # "free"
      BY <1>1, <2>1
    <3>3. phase' = "condition" => ~target.sda
      BY <2>1, <2>2
    <3> QED
      BY <1>1, <1>2, <2>1, <3>1, <3>2, <3>3, Stays
  <2> QED
    BY <1>1, <2>1, <2>3, <2>4, <2>5, <2>6, NotDone
<1>5. CASE ~(SdaHigh \/ Op = <<"write", 0>>)
  <2>1. Fails
    BY <1>5 DEF Arbitrate
  <2>2. g_started \/ ~sda'
    BY <1>1 DEF LinesOK
  <2> QED
    BY <1>1, <1>2, <2>1, <2>2, FailsKeeps DEF I2cTypeOK
<1> QED
  BY <1>4, <1>5

LEMMA StartConditionKeeps == BusInv /\ StartCondition => BusInv'
<1> SUFFICES ASSUME BusInv, StartCondition PROVE BusInv'
  OBVIOUS
<1> USE DEF BusInv
<1>1. /\ byte # 0 /\ phase = "condition" /\ phase' = "low" /\ Op[1] = "start"
      /\ UNCHANGED <<g_started, call, byte, bit, timeout, nack, rbyte, pdata, result, dirty, calls>>
      /\ Bus(TRUE, scl, target.scl) /\ sda' = TRUE /\ scl' = scl
  BY DEF StartCondition, Busy, Goto, Bus
<1>2. bit = 0 /\ SclHigh /\ ~sda
  BY <1>1 DEF LinesOK, PlaceOK
<1>3. SdaHigh
  BY <1>1, <1>2 DEF Traffic, StartOK, SdaHigh
<1>4. /\ target' \in Targets /\ target'.scl = FALSE
      /\ target'.mode = "address" /\ target'.n = -1 /\ target'.bits = <<>> /\ ~target'.sda
      /\ target'.got = target.got
  BY <1>1, <1>2, <1>3, BusStart
<1>5. SclHigh'
  BY <1>1, <1>2, <1>4 DEF SclHigh
<1>6. I2cTypeOK'
  BY <1>1, <1>4, Zenon DEF I2cTypeOK
<1>7. PlaceOK'
  BY <1>1, <1>2, I2cAssumption, SamePlace DEF PlaceOK, Starts
<1>8. LinesOK'
  BY <1>1, <1>2, <1>5, I2cAssumption DEF LinesOK
<1>9. Traffic'
  <2>1. StartOK'
    BY <1>1, <1>4 DEF StartOK
  <2>2. GotOK'
    BY <1>1, <1>4, Zenon DEF Traffic, GotOK
  <2>3. ReadBytesOK'
    BY <1>1, SamePlace, Zenon DEF Traffic, ReadBytesOK
  <2>4. WriteOK' /\ AckOK' /\ ReadOK' /\ NackOK' /\ StopOK'
    BY <1>1, <1>2, I2cAssumption DEF WriteOK, AckOK, ReadOK, NackOK, StopOK
  <2> QED
    BY <2>1, <2>2, <2>3, <2>4 DEF Traffic
<1> QED
  BY <1>1, <1>6, <1>7, <1>8, <1>9, NotDone

LEMMA ReadSdaKeeps == BusInv /\ ReadSda => BusInv'
<1> SUFFICES ASSUME BusInv, ReadSda PROVE BusInv'
  OBVIOUS
<1> USE DEF BusInv
<1> DEFINE level == IF SdaHigh THEN 1 ELSE 0
<1>1. /\ byte # 0 /\ phase = "sample" /\ phase' = "low"
      /\ UNCHANGED <<sda, scl, target, g_started, call, byte, bit, timeout, pdata, result, dirty, calls>>
      /\ \/ Op[1] = "ack" /\ nack' = level /\ rbyte' = rbyte
         \/ Op[1] = "read" /\ rbyte' = Append(rbyte, level) /\ nack' = nack
  BY DEF ReadSda, Busy
<1>2. /\ SclHigh /\ (SclHigh' <=> SclHigh) /\ target' \in Targets
  BY <1>1 DEF LinesOK, SclHigh, I2cTypeOK
<1>3. /\ Op[1] = "ack" => bit = BITS + 1 /\ ~Reads /\ ~Drives
      /\ Op[1] = "read" => bit \in 1 .. BITS /\ Reads /\ ~Drives
  BY <1>1, OpIs, OpOf
<1>4. bit # 0 /\ bit <= BITS + 1 /\ ~Drives
  BY <1>1, <1>3, I2cAssumption
<1>5. ~sda /\ g_started
  BY <1>1, <1>4 DEF LinesOK, Drives
<1>6. level = (IF target.sda THEN 0 ELSE 1) /\ level \in Levels
  BY <1>5 DEF SdaHigh, Levels
<1>7. /\ Byte' = Byte /\ (Reads' <=> Reads) /\ (IsLast' <=> IsLast) /\ Receives' = Receives
      /\ (Drives' <=> Drives)
  BY <1>1, SamePlace
<1> HIDE DEF level
<1>8. I2cTypeOK'
  <2>1. nack' \in Levels /\ rbyte' \in Seq(Levels)
    <3>1. rbyte \in Seq(Levels) /\ nack \in Levels /\ level \in Levels
      BY <1>6 DEF I2cTypeOK
    <3>2. Append(rbyte, level) \in Seq(Levels)
      BY <3>1, AppendProperties
    <3> QED
      BY <1>1, <3>1, <3>2, Zenon
  <2>2. phase' \in {"sda", "scl", "poll", "sample", "condition", "low", "free"}
    BY <1>1
  <2> QED
    BY <1>1, <1>2, <2>1, <2>2, Zenon DEF I2cTypeOK
<1>9. PlaceOK'
  BY <1>1, <1>4, SamePlace DEF PlaceOK, Starts
<1>10. LinesOK'
  BY <1>1, <1>2, <1>4, <1>5, <1>7 DEF LinesOK, Drives
<1>11. Traffic'
  <2>1. StartOK' /\ StopOK'
    BY <1>1, <1>4, I2cAssumption DEF StartOK, StopOK
  <2>2. WriteOK'
    BY <1>1, <1>2, <1>7, Zenon DEF Traffic, WriteOK
  <2>3. AckOK'
    <3>1. bit = BITS + 1 /\ ~Reads => Op[1] = "ack"
      BY <1>1, OpOf
    <3>2. bit = BITS + 1 /\ ~Reads => nack' = level
      BY <1>1, <3>1
    <3> QED
      BY <1>1, <1>6, <1>7, <3>2, Zenon DEF Traffic, AckOK
  <2>4. ReadOK'
    <3> SUFFICES ASSUME bit \in 1 .. BITS, Reads
                 PROVE  /\ target.mode = "send" /\ target.n = bit - 1
                        /\ (target.sda <=> target.bits[bit] = 0)
                        /\ target.bits \in BYTES /\ target.gave = Append(pdata, target.bits)
                        /\ rbyte' = [i \in 1 .. bit |-> target.bits[i]]
      BY <1>1, <1>7, Zenon DEF ReadOK
    <3>1. /\ target.mode = "send" /\ target.n = bit - 1
          /\ (target.sda <=> target.bits[bit] = 0)
          /\ target.bits \in BYTES /\ target.gave = Append(pdata, target.bits)
          /\ rbyte = [i \in 1 .. bit - 1 |-> target.bits[i]]
      BY <1>1 DEF Traffic, ReadOK
    <3>2. target.bits \in [1 .. BITS -> Levels]
      BY <3>1, ByteSeq
    <3>3. target.bits[bit] = 0 \/ target.bits[bit] = 1
      BY <3>2 DEF Levels
    <3>4. level = target.bits[bit]
      BY <1>6, <3>1, <3>3
    <3>5. Op[1] = "read"
      BY <1>1, OpOf
    <3>6. rbyte' = Append([i \in 1 .. bit - 1 |-> target.bits[i]], target.bits[bit])
      BY <1>1, <3>1, <3>4, <3>5
    <3>7. Append([i \in 1 .. bit - 1 |-> target.bits[i]], target.bits[bit])
            = [i \in 1 .. bit |-> target.bits[i]]
      <4>1. bit \in Nat \ {0} /\ \A i \in 1 .. bit : target.bits[i] \in Levels
        BY <3>2, I2cAssumption
      <4> QED
        BY <4>1, PrefixNext
    <3> QED
      BY <3>1, <3>6, <3>7, Zenon
  <2>5. NackOK'
    <3>1. bit = BITS + 1 /\ Reads => FALSE
      BY <1>1, <1>3, I2cAssumption
    <3> QED
      BY <1>1, <1>7, <3>1, Zenon DEF NackOK
  <2>6. GotOK'
    BY <1>1, Zenon DEF Traffic, GotOK
  <2>7. ReadBytesOK'
    <3>1. byte <= 3 => rbyte' = rbyte
      BY <1>1, <1>3 DEF Reads, I2cTypeOK
    <3> QED
      BY <1>1, <1>7, <3>1, Zenon DEF Traffic, ReadBytesOK
  <2> QED
    BY <2>1, <2>2, <2>3, <2>4, <2>5, <2>6, <2>7 DEF Traffic
<1> QED
  BY <1>1, <1>8, <1>9, <1>10, <1>11, NotDone

LEMMA StopConditionKeeps == BusInv /\ StopCondition => BusInv'
<1> SUFFICES ASSUME BusInv, StopCondition PROVE BusInv'
  OBVIOUS
<1> USE DEF BusInv
<1>1. /\ byte # 0 /\ phase = "sample" /\ Op[1] = "stop"
      /\ phase' = "free" /\ g_started' = FALSE /\ timeout' = STRETCHING_TIMEOUT
      /\ UNCHANGED <<call, byte, bit, nack, rbyte, pdata, result, dirty, calls>>
      /\ Bus(FALSE, scl, target.scl) /\ sda' = FALSE /\ scl' = scl
  BY DEF StopCondition, Busy, Bus
<1>2. bit = BITS + 2
  BY <1>1, OpIs
<1>3. bit # 0 /\ bit \notin 1 .. BITS /\ bit # BITS + 1
  BY <1>2, I2cAssumption
<1>4. SclHigh /\ sda /\ ~target.sda
  <2>1. Drives
    BY <1>1, <1>2, OpOf
  <2>2. sda
    BY <1>1, <1>3, <2>1 DEF LinesOK, Drives
  <2> QED
    BY <1>1, <1>2, <2>2 DEF LinesOK, Traffic, StopOK
<1>5. /\ target' \in Targets /\ target'.scl = FALSE /\ target'.mode = "idle" /\ ~target'.sda
      /\ target'.got = target.got /\ target'.gave = target.gave
  BY <1>1, <1>4, BusStop
<1>6. SclHigh'
  BY <1>1, <1>4, <1>5 DEF SclHigh
<1>7. I2cTypeOK'
  BY <1>1, <1>5, I2cAssumption, Zenon DEF I2cTypeOK
<1>8. PlaceOK'
  BY <1>1, <1>2, SamePlace, I2cAssumption DEF PlaceOK, Starts
<1>9. LinesOK'
  BY <1>1, <1>2, <1>3, <1>6 DEF LinesOK
<1>10. Traffic'
  <2>1. StopOK'
    BY <1>1, <1>2, <1>5, Zenon DEF Traffic, StopOK
  <2>2. GotOK'
    BY <1>1, <1>5, Zenon DEF Traffic, GotOK
  <2>3. ReadBytesOK'
    BY <1>1, SamePlace, Zenon DEF Traffic, ReadBytesOK
  <2>4. StartOK' /\ WriteOK' /\ AckOK' /\ ReadOK' /\ NackOK'
    BY <1>1, <1>3 DEF StartOK, WriteOK, AckOK, ReadOK, NackOK
  <2> QED
    BY <2>1, <2>2, <2>3, <2>4 DEF Traffic
<1> QED
  BY <1>1, <1>7, <1>8, <1>9, <1>10, NotDone

\* The STOP has ended a call with all its bytes.
LEMMA AllThere ==
  ASSUME I2cTypeOK, PlaceOK, Traffic, byte # 0, bit = BITS + 2
  PROVE  /\ target.got = IF call.op = "read" THEN <<call.reg>> ELSE <<call.reg>> \o call.data
         /\ call.op = "read" => pdata = target.gave /\ Len(pdata) = call.length
<1>1. /\ call.op \in {"read", "write"} /\ call.reg \in BYTES
      /\ call.length \in Nat /\ call.length > 0
      /\ call.op = "write" => call.data \in [1 .. call.length -> BYTES]
  BY CallOf DEF PlaceOK
<1>2. byte = Total
  BY DEF PlaceOK, IsLast, Total
<1>3. target.got \in Seq(Seq(Levels)) /\ call.reg \in Seq(Levels)
  BY <1>1, ByteSeq DEF I2cTypeOK, Targets
<1>4. <<call.reg>> \in Seq(Seq(Levels)) /\ Len(<<call.reg>>) = 1 /\ <<call.reg>>[1] = call.reg
  BY <1>3
<1>5. CASE call.op = "read"
  <2>1. byte = call.length + 3 /\ byte > 3 /\ Reads
    BY <1>1, <1>2, <1>5 DEF Total, Reads
  <2>2. Len(target.got) = 1 /\ target.got[1] = call.reg
    BY <1>5, <2>1 DEF Traffic, GotOK
  <2>3. target.got = <<call.reg>>
    <3>1. \A i \in 1 .. 1 : target.got[i] = <<call.reg>>[i]
      BY <1>4, <2>2
    <3> QED
      BY <1>3, <1>4, <2>2, <3>1, SeqEqual
  <2>4. pdata = target.gave
    BY <1>5 DEF Traffic, StopOK
  <2>5. Len(pdata) = call.length
    BY <1>1, <2>1, I2cAssumption DEF Traffic, ReadBytesOK
  <2> QED
    BY <1>5, <2>3, <2>4, <2>5
<1>6. CASE call.op = "write"
  <2> DEFINE r == <<call.reg>> \o call.data
             n == call.length
  <2>1. byte = n + 2 /\ byte > 2
    BY <1>1, <1>2, <1>6 DEF Total
  <2>2. /\ Len(target.got) = n + 1 /\ target.got[1] = call.reg
        /\ \A i \in 1 .. n : target.got[i + 1] = call.data[i]
    <3>1. /\ Len(target.got) = (byte - 2) + 1 /\ target.got[1] = call.reg
          /\ \A i \in 1 .. byte - 2 : target.got[i + 1] = call.data[i]
      BY <1>6, <2>1 DEF Traffic, GotOK
    <3>2. byte - 2 = n
      BY <1>1, <2>1
    <3> QED
      BY <3>1, <3>2
  <2>3. call.data \in Seq(Seq(Levels)) /\ Len(call.data) = n
    <3>1. BYTES \subseteq Seq(Levels)
      BY ByteSeq
    <3>2. call.data \in [1 .. n -> Seq(Levels)]
      BY <1>1, <1>6, <3>1
    <3> QED
      BY <1>1, <3>2, FunctionIsSeq
  <2>4. /\ r \in Seq(Seq(Levels)) /\ Len(r) = 1 + n /\ r[1] = call.reg
        /\ \A i \in 2 .. n + 1 : r[i] = call.data[i - 1]
    <3>1. /\ r \in Seq(Seq(Levels)) /\ Len(r) = Len(<<call.reg>>) + Len(call.data)
          /\ \A i \in 1 .. Len(<<call.reg>>) + Len(call.data) :
                r[i] = IF i <= Len(<<call.reg>>) THEN <<call.reg>>[i]
                       ELSE call.data[i - Len(<<call.reg>>)]
      BY <1>4, <2>3, ConcatProperties
    <3> HIDE DEF r
    <3> QED
      BY <1>1, <1>4, <2>3, <3>1
  <2> HIDE DEF r
  <2>5. \A i \in 1 .. n + 1 : target.got[i] = r[i]
    <3> TAKE i \in 1 .. n + 1
    <3>1. CASE i = 1
      BY <2>2, <2>4, <3>1
    <3>2. CASE i # 1
      <4>1. i - 1 \in 1 .. n /\ i \in 2 .. n + 1 /\ (i - 1) + 1 = i
        BY <1>1, <3>2
      <4>2. target.got[(i - 1) + 1] = call.data[i - 1]
        BY <2>2, <4>1
      <4> QED
        BY <2>4, <4>1, <4>2
    <3> QED
      BY <3>1, <3>2
  <2>6. target.got = r
    <3>1. Len(target.got) = Len(r)
      BY <1>1, <2>2, <2>4
    <3> QED
      BY <1>1, <1>3, <2>2, <2>4, <2>5, <3>1, SeqEqual
  <2> QED
    BY <1>6, <2>6 DEF r
<1> QED
  BY <1>1, <1>5, <1>6

LEMMA PollSdaKeeps == BusInv /\ PollSda => BusInv'
<1> SUFFICES ASSUME BusInv, PollSda PROVE BusInv'
  OBVIOUS
<1> USE DEF BusInv
<1>1. byte # 0 /\ phase = "free" /\ UNCHANGED <<sda, scl, target, dirty, calls>>
  BY DEF PollSda, Busy
<1>2. bit = BITS + 2 /\ bit # 0
  BY <1>1, I2cAssumption DEF PlaceOK
<1>3. /\ SclHigh /\ ~sda /\ ~target.sda /\ target.mode = "idle"
  BY <1>1, <1>2 DEF LinesOK, Traffic, StopOK
<1>4. (SclHigh' <=> SclHigh) /\ SdaHigh /\ Same(target', target)
  BY <1>1, <1>3 DEF SclHigh, SdaHigh, Same
<1>5. /\ byte' = 0 /\ result' = "TRUE"
      /\ UNCHANGED <<g_started, call, bit, phase, timeout, nack, rbyte, pdata>>
  BY <1>4 DEF PollSda
<1>6. I2cTypeOK'
  BY <1>1, <1>5, I2cAssumption DEF I2cTypeOK
<1>7. LinesOK'
  BY <1>1, <1>3, <1>4, <1>5 DEF LinesOK
<1>8. PlaceOK' /\ Traffic'
  BY <1>5 DEF PlaceOK, Traffic, StartOK, WriteOK, AckOK, ReadOK, NackOK, StopOK, GotOK, ReadBytesOK
<1>9. DoneOK'
  <2>1. /\ target.got = IF call.op = "read" THEN <<call.reg>> ELSE <<call.reg>> \o call.data
        /\ call.op = "read" => pdata = target.gave /\ Len(pdata) = call.length
    BY <1>1, <1>2, AllThere
  <2>2. SdaHigh' /\ ~scl /\ ~target.scl
    BY <1>1, <1>3, <1>4 DEF SdaHigh, SclHigh
  <2> QED
    BY <1>1, <1>3, <1>5, <2>1, <2>2, Zenon DEF DoneOK, TransferFaithful
<1> QED
  BY <1>6, <1>7, <1>8, <1>9

-----------------------------------------------------------------------------
(* SCL falls: the loader and the target go on to the next bit              *)

LEMMA NextBit ==
  ASSUME BusInv, SclLow, ~(Op[1] = "ack" /\ nack = 1)
  PROVE  /\ byte # 0 /\ phase = "low" /\ phase' = "sda" /\ SclHigh /\ ~SclHigh'
         /\ scl' = TRUE /\ g_started' = TRUE /\ bit \in 0 .. BITS + 1 /\ byte \in Nat
         /\ UNCHANGED <<call, sda, timeout, nack, result, dirty, calls>>
         /\ bit <= BITS => bit' = bit + 1 /\ byte' = byte
         /\ bit = BITS + 1 /\ IsLast => bit' = BITS + 2 /\ byte' = byte
         /\ bit = BITS + 1 /\ ~IsLast => byte' = byte + 1 /\ bit' = IF Starts(byte + 1) THEN 0 ELSE 1
         /\ IF Reads /\ bit = BITS
            THEN pdata' = Append(pdata, rbyte) /\ rbyte' = <<>>
            ELSE UNCHANGED <<rbyte, pdata>>
<1> USE DEF BusInv
<1>1. /\ byte # 0 /\ phase = "low" /\ scl' = TRUE /\ Advance
      /\ g_started' = (g_started \/ Op[1] = "start")
      /\ UNCHANGED <<call, sda, timeout, nack, result, dirty, calls>>
  BY DEF SclLow, Bus
<1>2. SclHigh /\ ~SclHigh'
  BY <1>1 DEF LinesOK, SclHigh
<1>3. bit \in 0 .. BITS + 1 /\ byte \in Nat
  BY <1>1, I2cAssumption DEF PlaceOK, I2cTypeOK
<1>4. g_started' = TRUE
  <2>1. CASE g_started
    BY <1>1, <2>1
  <2>2. CASE ~g_started
    <3>1. bit = 0
      BY <1>1, <2>2 DEF LinesOK
    <3>2. Op[1] = "start"
      BY <1>1, <3>1, OpOf
    <3> QED
      BY <1>1, <3>2
  <2> QED
    BY <2>1, <2>2
<1>5. phase' = "sda"
  BY <1>1 DEF Advance
<1>6. /\ bit <= BITS => bit' = bit + 1 /\ byte' = byte
      /\ bit = BITS + 1 /\ IsLast => bit' = bit + 1 /\ byte' = byte
      /\ bit = BITS + 1 /\ ~IsLast => byte' = byte + 1 /\ bit' = IF Starts(byte + 1) THEN 0 ELSE 1
  <2>1. bit = BITS + 1 => ~(bit <= BITS)
    BY I2cAssumption
  <2>2. IF bit <= BITS \/ IsLast
        THEN bit' = bit + 1 /\ byte' = byte
        ELSE byte' = byte + 1 /\ bit' = IF Starts(byte') THEN 0 ELSE 1
    BY <1>1 DEF Advance
  <2> QED
    BY <2>1, <2>2, Zenon
<1>7. IF Reads /\ bit = BITS
      THEN pdata' = Append(pdata, rbyte) /\ rbyte' = <<>>
      ELSE UNCHANGED <<rbyte, pdata>>
  BY <1>1 DEF Advance
<1>8. bit = BITS + 1 => bit + 1 = BITS + 2
  BY I2cAssumption
<1> QED
  BY <1>1, <1>2, <1>3, <1>4, <1>5, <1>6, <1>7, <1>8, Zenon

\* The target after the edge.
LEMMA Falls ==
  ASSUME BusInv, SclLow, SclHigh
  PROVE  \E u \in Falling(target) : u \in Targets => target' \in Targets /\ Same(target', u)
<1>1. Bus(sda, TRUE, target.scl)
  BY DEF SclLow
<1> QED
  BY <1>1, BusFall DEF BusInv

\* A sequence without bits.
LEMMA NoBits == \A f : [i \in 1 .. 0 |-> f[i]] = <<>>
<1> TAKE f
<1>1. [i \in 1 .. 0 |-> f[i]] \in [1 .. 0 -> {0}]
  OBVIOUS
<1>2. [i \in 1 .. 0 |-> f[i]] \in Seq({0}) /\ Len([i \in 1 .. 0 |-> f[i]]) = 0
  BY <1>1, FunctionIsSeq
<1> QED
  BY <1>2, EmptySeq

\* The address follows the START.
LEMMA AfterStart ==
  ASSUME BusInv, SclLow, ~(Op[1] = "ack" /\ nack = 1), bit = 0
  PROVE  target' \in Targets /\ Traffic'
<1> USE DEF BusInv
<1>1. /\ byte # 0 /\ phase = "low" /\ SclHigh /\ ~SclHigh' /\ bit' = 1 /\ byte' = byte
      /\ UNCHANGED <<call, rbyte, pdata>> /\ byte \in Nat
  BY NextBit, I2cAssumption
<1>2. ~Reads /\ Starts(byte)
  BY <1>1, OpOf DEF PlaceOK
<1>3. target.mode = "address" /\ target.n = -1 /\ target.bits = <<>> /\ ~target.sda
  BY <1>1 DEF Traffic, StartOK
<1>4. PICK u \in Falling(target) : u \in Targets => target' \in Targets /\ Same(target', u)
  BY <1>1, Falls
<1>5. /\ u \in Targets /\ u.got = target.got
      /\ u.mode = "address" /\ u.n = 0 /\ u.bits = <<>> /\ ~u.sda
  <2>1. target \in Targets /\ target.n < BITS - 1
    BY <1>3, I2cAssumption DEF I2cTypeOK
  <2>2. /\ u \in Targets /\ Leaves(u, target)
        /\ u.mode = target.mode /\ u.n = target.n + 1 /\ u.bits = target.bits
        /\ u.sda <=> target.mode = "send" /\ target.bits[target.n + 2] = 0
    BY <1>3, <2>1, FallingMiddle DEF Receiving
  <2>3. target.n + 1 = 0
    BY <1>3
  <2> QED
    BY <1>3, <2>2, <2>3 DEF Leaves
<1>6. /\ target' \in Targets /\ target'.got = target.got
      /\ target'.mode = "address" /\ target'.n = 0 /\ target'.bits = <<>> /\ ~target'.sda
  BY <1>4, <1>5 DEF Same
<1>7. ~Reads' /\ Receives' = "address"
  BY <1>1, <1>2 DEF Reads, Receives, Starts
<1>8. bit' # 0 /\ bit' # BITS + 1 /\ bit' # BITS + 2
  BY <1>1, I2cAssumption
<1>9. WriteOK'
  <2>1. bit' - 1 = 0
    BY <1>1
  <2> QED
    BY <1>1, <1>6, <1>7, <2>1, NoBits DEF WriteOK
<1>10. GotOK'
  <2>1. (bit = BITS + 2) = (bit' = BITS + 2)
    BY <1>1, I2cAssumption
  <2> QED
    BY <1>1, <1>6, <2>1, Zenon DEF Traffic, GotOK
<1>11. ReadBytesOK'
  BY <1>1, <1>7 DEF Traffic, ReadBytesOK
<1>12. StartOK' /\ AckOK' /\ ReadOK' /\ NackOK' /\ StopOK'
  BY <1>7, <1>8 DEF StartOK, AckOK, ReadOK, NackOK, StopOK
<1> QED
  BY <1>6, <1>9, <1>10, <1>11, <1>12 DEF Traffic

\* A bit of a byte that is written, and not the last.
LEMMA AfterBitWritten ==
  ASSUME BusInv, SclLow, ~(Op[1] = "ack" /\ nack = 1), bit \in 1 .. BITS - 1, ~Reads
  PROVE  target' \in Targets /\ Traffic'
<1> USE DEF BusInv
<1>1. /\ byte # 0 /\ phase = "low" /\ SclHigh /\ ~SclHigh' /\ bit' = bit + 1 /\ byte' = byte
      /\ UNCHANGED <<call, rbyte, pdata>> /\ byte \in Nat /\ bit \in 1 .. BITS
  BY NextBit, I2cAssumption
<1>2. /\ target.mode = Receives /\ target.n = bit - 1 /\ ~target.sda
      /\ target.bits = [i \in 1 .. bit |-> Byte[i]]
  BY <1>1, Zenon DEF Traffic, WriteOK
<1>3. PICK u \in Falling(target) : u \in Targets => target' \in Targets /\ Same(target', u)
  BY <1>1, Falls
<1>4. /\ u \in Targets /\ u.got = target.got
      /\ u.mode = Receives /\ u.n = bit /\ u.bits = target.bits /\ ~u.sda
  <2>1. target \in Targets /\ target.n < BITS - 1 /\ target.mode \in Receiving /\ target.mode # "send"
    BY <1>2, I2cAssumption DEF I2cTypeOK, Receives, Receiving
  <2>2. /\ u \in Targets /\ Leaves(u, target)
        /\ u.mode = target.mode /\ u.n = target.n + 1 /\ u.bits = target.bits
        /\ u.sda <=> target.mode = "send" /\ target.bits[target.n + 2] = 0
    BY <2>1, FallingMiddle
  <2>3. target.n + 1 = bit
    BY <1>2, I2cAssumption
  <2> QED
    BY <1>2, <2>1, <2>2, <2>3 DEF Leaves
<1>5. /\ target' \in Targets /\ target'.got = target.got
      /\ target'.mode = Receives /\ target'.n = bit /\ target'.bits = target.bits /\ ~target'.sda
  BY <1>3, <1>4 DEF Same
<1>6. ~Reads' /\ Receives' = Receives /\ Byte' = Byte
  BY <1>1 DEF Reads, Receives, Starts, Byte, i2c_gpio_read, i2c_gpio_write
<1>7. bit' # 0 /\ bit' # BITS + 1 /\ bit' # BITS + 2 /\ bit' - 1 = bit
  BY <1>1, I2cAssumption
<1>8. WriteOK'
  BY <1>1, <1>2, <1>5, <1>6, <1>7, Zenon DEF WriteOK
<1>9. GotOK'
  <2>1. (bit = BITS + 2) = (bit' = BITS + 2)
    BY <1>1, I2cAssumption
  <2> QED
    BY <1>1, <1>5, <2>1, Zenon DEF Traffic, GotOK
<1>10. ReadBytesOK'
  BY <1>1, <1>6 DEF Traffic, ReadBytesOK
<1>11. StartOK' /\ AckOK' /\ ReadOK' /\ NackOK' /\ StopOK'
  BY <1>6, <1>7 DEF StartOK, AckOK, ReadOK, NackOK, StopOK
<1> QED
  BY <1>5, <1>8, <1>9, <1>10, <1>11 DEF Traffic

\* The last bit of a byte that is written.
LEMMA AfterByteWritten ==
  ASSUME BusInv, SclLow, ~(Op[1] = "ack" /\ nack = 1), bit = BITS, ~Reads
  PROVE  target' \in Targets /\ Traffic'
<1> USE DEF BusInv
<1>1. /\ byte # 0 /\ phase = "low" /\ phase' = "sda" /\ SclHigh /\ ~SclHigh'
      /\ bit' = BITS + 1 /\ byte' = byte
      /\ UNCHANGED <<call, rbyte, pdata>> /\ byte \in Nat /\ bit \in 1 .. BITS
  BY NextBit, I2cAssumption
<1>2. /\ target.mode = Receives /\ target.n = BITS - 1
      /\ target.bits = [i \in 1 .. BITS |-> Byte[i]]
  BY <1>1, Zenon DEF Traffic, WriteOK
<1>3. /\ Byte \in [1 .. BITS -> Levels]
      /\ Starts(byte) => SubSeq(Byte, 1, BITS - 1) = DEV
  BY <1>1, ByteOf
<1>4. target.bits = Byte
  BY <1>2, <1>3
<1>5. PICK u \in Falling(target) : u \in Targets => target' \in Targets /\ Same(target', u)
  BY <1>1, Falls
<1>6. target \in Targets /\ target.mode \in Receiving
  BY <1>2 DEF I2cTypeOK, Receives, Receiving
<1>7. /\ u \in Targets /\ Leaves(u, target) /\ u.bits = target.bits
      /\ \/ u.mode = target.mode /\ u.n = BITS /\ u.sda /\ u.refused = target.refused
         \/ /\ u.mode = "idle" /\ ~u.sda
            /\ u.refused \/ (target.mode = "address" /\ SubSeq(target.bits, 1, BITS - 1) # DEV)
  BY <1>2, <1>6, FallingComplete
<1>8. target.mode = "address" => Starts(byte)
  BY <1>2 DEF Receives
<1>9. \/ u.mode = Receives /\ u.n = BITS /\ u.bits = Byte /\ u.sda
      \/ u.mode = "idle" /\ u.refused /\ ~u.sda
  BY <1>2, <1>3, <1>4, <1>7, <1>8
<1>10. /\ target' \in Targets /\ target'.got = target.got
       /\ \/ target'.mode = Receives /\ target'.n = BITS /\ target'.bits = Byte /\ target'.sda
          \/ target'.mode = "idle" /\ target'.refused /\ ~target'.sda
  BY <1>5, <1>7, <1>9, Zenon DEF Same, Leaves
<1>11. ~Reads' /\ Receives' = Receives /\ Byte' = Byte
  BY <1>1 DEF Reads, Receives, Starts, Byte, i2c_gpio_read, i2c_gpio_write
<1>12. bit' # 0 /\ bit' \notin 1 .. BITS /\ bit' # BITS + 2
  BY <1>1, I2cAssumption
<1>13. AckOK'
  BY <1>1, <1>10, <1>11, Zenon DEF AckOK
<1>14. GotOK'
  <2>1. (bit = BITS + 2) = (bit' = BITS + 2)
    BY <1>1, I2cAssumption
  <2> QED
    BY <1>1, <1>10, <2>1, Zenon DEF Traffic, GotOK
<1>15. ReadBytesOK'
  BY <1>1, <1>11 DEF Traffic, ReadBytesOK
<1>16. StartOK' /\ WriteOK' /\ ReadOK' /\ NackOK' /\ StopOK'
  BY <1>11, <1>12 DEF StartOK, WriteOK, ReadOK, NackOK, StopOK
<1> QED
  BY <1>10, <1>13, <1>14, <1>15, <1>16 DEF Traffic

\* A byte that is written has been acknowledged.
LEMMA Acknowledged ==
  ASSUME BusInv, SclLow, ~(Op[1] = "ack" /\ nack = 1), bit = BITS + 1, ~Reads
  PROVE  /\ target \in Targets /\ target.mode = Receives /\ target.n = BITS /\ target.bits = Byte
         /\ target.mode \in Receiving /\ target.mode # "send"
<1> USE DEF BusInv
<1>1. byte # 0 /\ phase = "low"
  BY NextBit
<1>2. nack # 1
  BY <1>1, OpOf
<1>3. target.sda
  BY <1>1, <1>2 DEF Traffic, AckOK
<1>4. target.mode = Receives /\ target.n = BITS /\ target.bits = Byte
  BY <1>1, <1>3, Zenon DEF Traffic, AckOK
<1> QED
  BY <1>4 DEF I2cTypeOK, Receives, Receiving

\* The register or the data follows, or the STOP.
LEMMA AfterAck ==
  ASSUME BusInv, SclLow, ~(Op[1] = "ack" /\ nack = 1), bit = BITS + 1, ~Reads,
         ~(call.op = "read" /\ byte = 3)
  PROVE  target' \in Targets /\ Traffic'
<1> USE DEF BusInv
<1>1. /\ byte # 0 /\ phase = "low" /\ phase' = "sda" /\ SclHigh /\ ~SclHigh'
      /\ UNCHANGED <<call, rbyte, pdata>> /\ byte \in Nat
  BY NextBit, I2cAssumption
<1>2. /\ IsLast => bit' = BITS + 2 /\ byte' = byte
      /\ ~IsLast => byte' = byte + 1 /\ bit' = IF Starts(byte + 1) THEN 0 ELSE 1
  BY NextBit
<1>3. /\ target \in Targets /\ target.mode = Receives /\ target.n = BITS /\ target.bits = Byte
      /\ target.mode \in Receiving /\ target.mode # "send"
  BY Acknowledged
<1>4. /\ call \in Calls /\ call.op \in {"read", "write"} /\ call.reg \in BYTES
      /\ call.length \in Nat /\ call.length > 0
  BY <1>1, CallOf DEF PlaceOK
<1>5. /\ byte \in 1 .. Total /\ (IsLast <=> byte = Total)
  BY <1>1 DEF PlaceOK, IsLast, Total
<1>6. target.mode = "address" => Byte[BITS] # 1
  <2>1. target.mode = "address" => Starts(byte) /\ byte # 3
    BY <1>3 DEF Receives, Starts
  <2> QED
    BY <1>1, <2>1, ByteOf
<1>7. PICK u \in Falling(target) : u \in Targets => target' \in Targets /\ Same(target', u)
  BY <1>1, Falls
<1>8. /\ u \in Targets
      /\ u.mode = IF target.mode = "address" THEN "register" ELSE "data"
      /\ u.n = 0 /\ u.bits = <<>> /\ ~u.sda
      /\ u.got = IF target.mode = "address" THEN <<>> ELSE Append(target.got, target.bits)
  BY <1>3, <1>6, FallingTaken
<1>9. /\ target' \in Targets
      /\ target'.mode = IF target.mode = "address" THEN "register" ELSE "data"
      /\ target'.n = 0 /\ target'.bits = <<>> /\ ~target'.sda
      /\ target'.got = IF target.mode = "address" THEN <<>> ELSE Append(target.got, Byte)
  BY <1>3, <1>7, <1>8, Zenon DEF Same
<1>10. target.got \in Seq(Seq(Levels)) /\ Byte \in Seq(Levels)
  BY <1>1, <1>3, ByteOf DEF Targets
<1>11. CASE byte = 1
  <2>1. target.mode = "address"
    BY <1>3, <1>11 DEF Receives, Starts
  <2>2. ~IsLast /\ ~Starts(byte + 1)
    BY <1>4, <1>5, <1>11 DEF Total, Starts
  <2>3. byte' = 2 /\ bit' = 1
    BY <1>2, <1>11, <2>2
  <2>4. ~Reads' /\ Receives' = "register"
    BY <2>3 DEF Reads, Receives, Starts
  <2>5. WriteOK'
    <3>1. bit' - 1 = 0
      BY <2>3
    <3> QED
      BY <1>1, <1>9, <2>1, <2>3, <2>4, <3>1, NoBits DEF WriteOK
  <2>6. GotOK'
    BY <1>9, <2>1, <2>3 DEF GotOK
  <2>7. ReadBytesOK'
    BY <1>1, <1>11, <2>3, <2>4 DEF Traffic, ReadBytesOK
  <2>8. StartOK' /\ AckOK' /\ ReadOK' /\ NackOK' /\ StopOK'
    BY <2>3, <2>4, I2cAssumption DEF StartOK, AckOK, ReadOK, NackOK, StopOK
  <2> QED
    BY <1>9, <2>5, <2>6, <2>7, <2>8 DEF Traffic
<1>12. CASE byte = 2
  <2>1. target.mode = "register" /\ target.got = <<>> /\ Byte = call.reg
    BY <1>1, <1>3, <1>12, ByteOf DEF Receives, Starts, Traffic, GotOK
  <2>2. ~IsLast
    BY <1>4, <1>5, <1>12 DEF Total
  <2>3. byte' = 3 /\ bit' = IF call.op = "read" THEN 0 ELSE 1
    <3>1. Starts(byte + 1) <=> call.op = "read"
      BY <1>12 DEF Starts
    <3> QED
      BY <1>2, <1>12, <2>2, <3>1
  <2>4. ~Reads' /\ (call.op = "write" => Receives' = "data")
    BY <1>1, <2>3 DEF Reads, Receives, Starts
  <2>5. Len(target'.got) = 1 /\ target'.got[1] = call.reg
    <3>1. target'.got = Append(<<>>, call.reg)
      BY <1>9, <2>1
    <3>2. <<>> \in Seq(Seq(Levels)) /\ Len(<<>>) = 0 /\ call.reg \in Seq(Levels)
      BY <1>4, ByteSeq, EmptySeq
    <3> QED
      BY <3>1, <3>2, AppendProperties
  <2>6. StartOK'
    BY <1>1, <1>9 DEF StartOK
  <2>7. WriteOK'
    <3>1. CASE call.op = "read"
      BY <2>3, <3>1 DEF WriteOK
    <3>2. CASE call.op = "write"
      <4>1. bit' = 1 /\ bit' - 1 = 0
        BY <2>3, <3>2
      <4> QED
        BY <1>1, <1>9, <2>1, <2>4, <3>2, <4>1, NoBits DEF WriteOK
    <3> QED
      BY <1>4, <3>1, <3>2
  <2>8. GotOK'
    <3>1. bit' # BITS + 2
      BY <2>3, I2cAssumption
    <3> QED
      BY <1>1, <1>4, <2>3, <2>5, <3>1 DEF GotOK
  <2>9. ReadBytesOK'
    BY <1>1, <1>12, <2>3, <2>4 DEF Traffic, ReadBytesOK
  <2>10. AckOK' /\ ReadOK' /\ NackOK' /\ StopOK'
    <3>1. bit' # BITS + 1 /\ bit' # BITS + 2
      BY <2>3, I2cAssumption
    <3> QED
      BY <2>4, <3>1 DEF AckOK, ReadOK, NackOK, StopOK
  <2> QED
    BY <1>9, <2>6, <2>7, <2>8, <2>9, <2>10 DEF Traffic
<1>13. CASE byte > 2
  <2>1. call.op = "write"
    BY <1>1, <1>4, <1>13 DEF Reads
  <2>2. target.mode = "data" /\ Byte = call.data[byte - 2]
    BY <1>1, <1>3, <1>13, <2>1, ByteOf DEF Receives, Starts
  <2>3. /\ Len(target.got) = byte - 2 /\ target.got[1] = call.reg
        /\ \A i \in 1 .. byte - 3 : target.got[i + 1] = call.data[i]
    <3>1. /\ Len(target.got) = (byte - 3) + 1 /\ target.got[1] = call.reg
          /\ \A i \in 1 .. byte - 3 : target.got[i + 1] = call.data[i]
      BY <1>1, <1>13, <2>1, I2cAssumption DEF Traffic, GotOK
    <3> QED
      BY <1>1, <1>13, <3>1
  <2>4. /\ Len(target'.got) = byte - 1 /\ target'.got[1] = call.reg
        /\ \A i \in 1 .. byte - 2 : target'.got[i + 1] = call.data[i]
    <3>1. target'.got = Append(target.got, call.data[byte - 2])
      BY <1>9, <2>2
    <3>2. /\ Len(target'.got) = (byte - 2) + 1
          /\ \A i \in 1 .. byte - 2 : target'.got[i] = target.got[i]
          /\ target'.got[(byte - 2) + 1] = call.data[byte - 2]
      BY <1>10, <2>2, <2>3, <3>1, AppendProperties
    <3>3. target'.got[1] = call.reg
      BY <1>1, <1>13, <2>3, <3>2
    <3>4. ASSUME NEW i \in 1 .. byte - 2
          PROVE  target'.got[i + 1] = call.data[i]
      <4>1. CASE i = byte - 2
        BY <3>2, <4>1
      <4>2. CASE i # byte - 2
        <5>1. i \in 1 .. byte - 3 /\ i + 1 \in 1 .. byte - 2
          BY <1>1, <1>13, <4>2
        <5> QED
          BY <2>3, <3>2, <5>1
      <4> QED
        BY <4>1, <4>2
    <3>5. Len(target'.got) = byte - 1
      BY <1>1, <1>13, <3>2
    <3> QED
      BY <3>3, <3>4, <3>5, Zenon
  <2>5. ~Reads' /\ (byte' = byte \/ byte' = byte + 1) /\ byte' > 2
    BY <1>1, <1>2, <1>13, <2>1 DEF Reads
  <2>6. /\ IsLast => bit' = BITS + 2 /\ byte' = byte
        /\ ~IsLast => bit' = 1 /\ byte' = byte + 1
    <3>1. ~Starts(byte + 1)
      BY <1>1, <1>13, <2>1 DEF Starts
    <3> QED
      BY <1>2, <3>1
  <2>7. GotOK'
    <3>1. (IF bit' = BITS + 2 THEN byte' - 2 ELSE byte' - 3) = byte - 2
      BY <1>1, <2>6, I2cAssumption
    <3>2. Len(target'.got) = (byte - 2) + 1
      BY <1>1, <2>4
    <3>3. call'.op # "read" /\ call'.reg = call.reg /\ call'.data = call.data
      BY <1>1, <2>1
    <3>4. byte' # 2
      BY <1>1, <2>5
    <3> QED
      BY <2>4, <3>1, <3>2, <3>3, <3>4 DEF GotOK
  <2>8. ReadBytesOK'
    <3>1. byte' <= 3 => pdata = <<>> /\ rbyte = <<>>
      BY <1>1, <1>13, <2>5 DEF Traffic, ReadBytesOK
    <3> QED
      BY <1>1, <2>5, <3>1 DEF ReadBytesOK
  <2>9. WriteOK'
    <3>1. CASE IsLast
      BY <2>6, <3>1, I2cAssumption DEF WriteOK
    <3>2. CASE ~IsLast
      <4>1. bit' = 1 /\ bit' - 1 = 0
        BY <2>6, <3>2
      <4>2. Receives' = "data"
        BY <1>1, <2>1, <2>5 DEF Receives, Starts
      <4> QED
        BY <1>1, <1>9, <2>2, <4>1, <4>2, NoBits DEF WriteOK
    <3> QED
      BY <3>1, <3>2
  <2>10. StopOK'
    BY <1>1, <1>9, <2>1 DEF StopOK
  <2>11. StartOK' /\ AckOK' /\ ReadOK' /\ NackOK'
    <3>1. bit' # 0 /\ bit' # BITS + 1
      BY <2>6, I2cAssumption
    <3> QED
      BY <2>5, <3>1 DEF StartOK, AckOK, ReadOK, NackOK
  <2> QED
    BY <1>9, <2>7, <2>8, <2>9, <2>10, <2>11 DEF Traffic
<1> QED
  BY <1>1, <1>5, <1>11, <1>12, <1>13

\* The target sends after its address, and after a byte that was acknowledged.
LEMMA ReadsByte ==
  ASSUME BusInv, SclHigh, SclLow, ~(Op[1] = "ack" /\ nack = 1), bit = BITS + 1,
         call.op = "read", ~IsLast, byte >= 3,
         target.n = BITS,
         \/ target.mode = "address" /\ target.bits[BITS] = 1 /\ pdata = <<>>
         \/ target.mode = "send" /\ target.bits = << 0 >> /\ target.gave = pdata,
         Len(pdata) = byte - 3, rbyte = <<>>, byte = 3 => pdata = <<>>
  PROVE  target' \in Targets /\ Traffic'
<1> USE DEF BusInv
<1>1. /\ byte # 0 /\ phase = "low" /\ phase' = "sda" /\ ~SclHigh'
      /\ UNCHANGED <<call, rbyte, pdata>> /\ byte \in Nat
  BY NextBit, I2cAssumption
<1>2. byte' = byte + 1 /\ bit' = 1
  <2>1. ~Starts(byte + 1)
    BY <1>1 DEF Starts
  <2> QED
    BY <2>1, NextBit
<1>3. target \in Targets
  BY DEF I2cTypeOK
<1>4. PICK u \in Falling(target) : u \in Targets => target' \in Targets /\ Same(target', u)
  BY Falls
<1>5. PICK data \in BYTES :
          /\ u \in Targets /\ u.got = target.got
          /\ u.mode = "send" /\ u.n = 0 /\ u.bits = data /\ (u.sda <=> data[1] = 0)
          /\ u.gave = IF target.mode = "address" THEN <<data>> ELSE Append(target.gave, data)
  BY <1>3, FallingReads
<1>6. u.gave = Append(pdata, data)
  <2>1. Append(<<>>, data) = <<data>>
    OBVIOUS
  <2> QED
    BY <1>5, <2>1
<1>7. /\ target' \in Targets /\ target'.got = target.got
      /\ target'.mode = "send" /\ target'.n = 0 /\ target'.bits = data
      /\ (target'.sda <=> data[1] = 0) /\ target'.gave = Append(pdata, data)
  BY <1>4, <1>5, <1>6, Zenon DEF Same
<1>8. Reads' /\ byte' # 2 /\ byte' > 3
  BY <1>1, <1>2 DEF Reads
<1>9. bit' # 0 /\ bit' # BITS + 1 /\ bit' # BITS + 2 /\ bit' - 1 = 0
  BY <1>2, I2cAssumption
<1>10. ReadOK'
  BY <1>1, <1>2, <1>7, <1>9, NoBits DEF ReadOK
<1>11. GotOK'
  <2>1. Len(target.got) = 1 /\ target.got[1] = call.reg
    BY <1>1 DEF Traffic, GotOK
  <2> QED
    BY <1>1, <1>7, <1>8, <2>1 DEF GotOK
<1>12. ReadBytesOK'
  <2>1. byte - 3 = byte' - 4 /\ ~(bit' > BITS)
    BY <1>1, <1>2, I2cAssumption
  <2> QED
    BY <1>1, <1>2, <1>8, <2>1 DEF ReadBytesOK
<1>13. StartOK' /\ WriteOK' /\ AckOK' /\ NackOK' /\ StopOK'
  BY <1>8, <1>9 DEF StartOK, WriteOK, AckOK, NackOK, StopOK
<1> QED
  BY <1>7, <1>10, <1>11, <1>12, <1>13 DEF Traffic

\* The address of a read has been acknowledged.
LEMMA AfterReadAddress ==
  ASSUME BusInv, SclLow, ~(Op[1] = "ack" /\ nack = 1), bit = BITS + 1,
         call.op = "read", byte = 3
  PROVE  target' \in Targets /\ Traffic'
<1> USE DEF BusInv
<1>1. /\ byte # 0 /\ phase = "low" /\ SclHigh /\ ~Reads
  BY NextBit DEF Reads
<1>2. ~IsLast
  <2>1. call.length \in Nat /\ call.length > 0
    BY <1>1, CallOf DEF PlaceOK
  <2> QED
    BY <2>1 DEF IsLast
<1>3. /\ target.mode = Receives /\ target.n = BITS /\ target.bits = Byte
  BY <1>1, Acknowledged
<1>4. Starts(byte)
  BY DEF Starts
<1>5. target.mode = "address"
  BY <1>3, <1>4 DEF Receives
<1>6. target.bits[BITS] = 1
  BY <1>1, <1>3, <1>4, ByteOf
<1>7. pdata = <<>> /\ rbyte = <<>> /\ Len(pdata) = byte - 3
  BY <1>1, EmptySeq DEF Traffic, ReadBytesOK
<1> QED
  BY <1>1, <1>2, <1>3, <1>5, <1>6, <1>7, ReadsByte

\* A bit of a byte that is read, and not the last.
LEMMA AfterBitRead ==
  ASSUME BusInv, SclLow, ~(Op[1] = "ack" /\ nack = 1), bit \in 1 .. BITS - 1, Reads
  PROVE  target' \in Targets /\ Traffic'
<1> USE DEF BusInv
<1>1. /\ byte # 0 /\ phase = "low" /\ phase' = "sda" /\ SclHigh /\ ~SclHigh'
      /\ bit' = bit + 1 /\ byte' = byte
      /\ UNCHANGED <<call, rbyte, pdata>> /\ byte \in Nat /\ bit \in 1 .. BITS
  BY NextBit, I2cAssumption
<1>2. /\ target.mode = "send" /\ target.n = bit - 1
      /\ target.bits \in BYTES /\ target.gave = Append(pdata, target.bits)
      /\ rbyte = [i \in 1 .. bit |-> target.bits[i]]
  BY <1>1, Zenon DEF Traffic, ReadOK
<1>3. PICK u \in Falling(target) : u \in Targets => target' \in Targets /\ Same(target', u)
  BY <1>1, Falls
<1>4. /\ u \in Targets /\ u.got = target.got /\ u.gave = target.gave
      /\ u.mode = "send" /\ u.n = bit /\ u.bits = target.bits
      /\ (u.sda <=> target.bits[bit + 1] = 0)
  <2>1. target \in Targets /\ target.n < BITS - 1
    BY <1>2, I2cAssumption DEF I2cTypeOK
  <2>2. /\ u \in Targets /\ Leaves(u, target)
        /\ u.mode = target.mode /\ u.n = target.n + 1 /\ u.bits = target.bits
        /\ u.sda <=> target.mode = "send" /\ target.bits[target.n + 2] = 0
    BY <1>2, <2>1, FallingMiddle
  <2>3. target.n + 1 = bit /\ target.n + 2 = bit + 1
    BY <1>1, <1>2, I2cAssumption
  <2> QED
    BY <1>2, <2>2, <2>3, Zenon DEF Leaves
<1>5. /\ target' \in Targets /\ target'.got = target.got /\ target'.gave = target.gave
      /\ target'.mode = "send" /\ target'.n = bit /\ target'.bits = target.bits
      /\ (target'.sda <=> target.bits[bit + 1] = 0)
  BY <1>3, <1>4, Zenon DEF Same
<1>6. Reads'
  BY <1>1 DEF Reads
<1>7. bit' # 0 /\ bit' # BITS + 1 /\ bit' # BITS + 2 /\ bit' - 1 = bit /\ bit' <= BITS
  BY <1>1, I2cAssumption
<1>8. ReadOK'
  BY <1>1, <1>2, <1>5, <1>7, Zenon DEF ReadOK
<1>9. GotOK'
  <2>1. (bit = BITS + 2) = (bit' = BITS + 2)
    BY <1>1, I2cAssumption
  <2> QED
    BY <1>1, <1>5, <2>1, Zenon DEF Traffic, GotOK
<1>10. ReadBytesOK'
  <2>1. ~(bit > BITS) /\ ~(bit' > BITS)
    BY <1>1, <1>7, I2cAssumption
  <2> QED
    BY <1>1, <1>6, <2>1 DEF Traffic, ReadBytesOK
<1>11. StartOK' /\ WriteOK' /\ AckOK' /\ NackOK' /\ StopOK'
  BY <1>6, <1>7 DEF StartOK, WriteOK, AckOK, NackOK, StopOK
<1> QED
  BY <1>5, <1>8, <1>9, <1>10, <1>11 DEF Traffic

\* The last bit of a byte that is read.
LEMMA AfterByteRead ==
  ASSUME BusInv, SclLow, ~(Op[1] = "ack" /\ nack = 1), bit = BITS, Reads
  PROVE  /\ target' \in Targets /\ Traffic'
         /\ pdata' \in Seq(Seq(Levels)) /\ rbyte' = <<>>
<1> USE DEF BusInv
<1>1. /\ byte # 0 /\ phase = "low" /\ phase' = "sda" /\ SclHigh /\ ~SclHigh'
      /\ bit' = BITS + 1 /\ byte' = byte /\ pdata' = Append(pdata, rbyte) /\ rbyte' = <<>>
      /\ call' = call /\ byte \in Nat /\ bit \in 1 .. BITS
  BY NextBit, I2cAssumption
<1>2. /\ target.mode = "send" /\ target.n = BITS - 1
      /\ target.bits \in BYTES /\ target.gave = Append(pdata, target.bits)
      /\ rbyte = [i \in 1 .. BITS |-> target.bits[i]]
  BY <1>1, Zenon DEF Traffic, ReadOK
<1>3. rbyte = target.bits
  <2>1. target.bits \in [1 .. BITS -> Levels]
    BY <1>2, ByteSeq
  <2> QED
    BY <1>2, <2>1
<1>4. PICK u \in Falling(target) : u \in Targets => target' \in Targets /\ Same(target', u)
  BY <1>1, Falls
<1>5. target \in Targets
  BY DEF I2cTypeOK
<1>6. /\ u \in Targets /\ Leaves(u, target) /\ u.mode = "send" /\ u.n = BITS /\ ~u.sda
  BY <1>2, <1>5, FallingSent
<1>7. /\ target' \in Targets /\ target'.got = target.got /\ target'.gave = pdata'
      /\ target'.mode = "send" /\ target'.n = BITS /\ ~target'.sda
  BY <1>1, <1>2, <1>3, <1>4, <1>6, Zenon DEF Same, Leaves
<1>8. pdata' \in Seq(Seq(Levels)) /\ Len(pdata') = Len(pdata) + 1
  <2>1. pdata \in Seq(Seq(Levels)) /\ rbyte \in Seq(Levels)
    BY DEF I2cTypeOK
  <2> QED
    BY <1>1, <2>1, AppendProperties
<1>9. Reads' /\ byte' > 3
  BY <1>1 DEF Reads
<1>10. bit' # 0 /\ bit' \notin 1 .. BITS /\ bit' # BITS + 2 /\ bit' > BITS /\ ~(bit > BITS)
  BY <1>1, I2cAssumption
<1>11. NackOK'
  BY <1>1, <1>7 DEF NackOK
<1>12. GotOK'
  <2>1. (bit = BITS + 2) = (bit' = BITS + 2)
    BY <1>1, I2cAssumption
  <2> QED
    BY <1>1, <1>7, <2>1, Zenon DEF Traffic, GotOK
<1>13. ReadBytesOK'
  <2>1. Len(pdata) = byte - 4
    BY <1>1, <1>10 DEF Traffic, ReadBytesOK
  <2>2. Len(pdata') = byte' - 3
    BY <1>1, <1>8, <2>1
  <2> QED
    BY <1>1, <1>9, <1>10, <2>2 DEF ReadBytesOK
<1>14. StartOK' /\ WriteOK' /\ AckOK' /\ ReadOK' /\ StopOK'
  BY <1>9, <1>10 DEF StartOK, WriteOK, AckOK, ReadOK, StopOK
<1> QED
  BY <1>1, <1>7, <1>8, <1>11, <1>12, <1>13, <1>14 DEF Traffic

\* The loader has acknowledged a byte, or the last one not.
LEMMA AfterReadAck ==
  ASSUME BusInv, SclLow, ~(Op[1] = "ack" /\ nack = 1), bit = BITS + 1, Reads
  PROVE  target' \in Targets /\ Traffic'
<1> USE DEF BusInv
<1>1. /\ byte # 0 /\ phase = "low" /\ phase' = "sda" /\ SclHigh /\ ~SclHigh'
      /\ UNCHANGED <<call, rbyte, pdata>> /\ byte \in Nat
  BY NextBit, I2cAssumption
<1>2. /\ target.mode = "send" /\ target.n = BITS /\ target.gave = pdata /\ rbyte = <<>>
      /\ target.bits = <<IF IsLast THEN 1 ELSE 0>>
  BY <1>1, Zenon DEF Traffic, NackOK
<1>3. call.op = "read" /\ byte > 3 /\ Len(pdata) = byte - 3
  BY <1>1, I2cAssumption DEF Reads, Traffic, ReadBytesOK
<1>4. CASE ~IsLast
  <2>1. target.bits = << 0 >>
    BY <1>2, <1>4
  <2> QED
    BY <1>1, <1>2, <1>3, <1>4, <2>1, ReadsByte
<1>5. CASE IsLast
  <2>1. bit' = BITS + 2 /\ byte' = byte
    BY <1>5, NextBit
  <2>2. target \in Targets /\ target.bits # << 0 >>
    <3>1. target.bits = << 1 >> /\ << 1 >>[1] # << 0 >>[1]
      BY <1>2, <1>5
    <3> QED
      BY <3>1 DEF I2cTypeOK
  <2>3. PICK u \in Falling(target) : u \in Targets => target' \in Targets /\ Same(target', u)
    BY <1>1, Falls
  <2>4. u \in Targets /\ Leaves(u, target) /\ u.mode = "idle" /\ ~u.sda
    BY <1>2, <2>2, FallingNack
  <2>5. /\ target' \in Targets /\ target'.got = target.got /\ target'.gave = pdata
        /\ ~target'.sda
    BY <1>2, <2>3, <2>4, Zenon DEF Same, Leaves
  <2>6. StopOK'
    BY <1>1, <2>5 DEF StopOK
  <2>7. GotOK'
    <3>1. Len(target.got) = 1 /\ target.got[1] = call.reg
      BY <1>1, <1>3 DEF Traffic, GotOK
    <3> QED
      BY <1>1, <1>3, <2>1, <2>5, <3>1 DEF GotOK
  <2>8. ReadBytesOK'
    BY <1>1, <1>3, <2>1, I2cAssumption DEF ReadBytesOK
  <2>9. StartOK' /\ WriteOK' /\ AckOK' /\ ReadOK' /\ NackOK'
    <3>1. bit' # 0 /\ bit' \notin 1 .. BITS /\ bit' # BITS + 1
      BY <2>1, I2cAssumption
    <3> QED
      BY <3>1 DEF StartOK, WriteOK, AckOK, ReadOK, NackOK
  <2> QED
    BY <2>5, <2>6, <2>7, <2>8, <2>9 DEF Traffic
<1> QED
  BY <1>4, <1>5

LEMMA SclLowKeeps == BusInv /\ SclLow => BusInv'
<1> SUFFICES ASSUME BusInv, SclLow PROVE BusInv'
  OBVIOUS
<1> USE DEF BusInv
<1>1. /\ byte # 0 /\ phase = "low" /\ SclHigh
      /\ Bus(sda, TRUE, target.scl) /\ sda' = sda /\ scl' = TRUE /\ UNCHANGED <<dirty, calls>>
  BY DEF SclLow, Bus, LinesOK
<1>2. CASE Op[1] = "ack" /\ nack = 1
  <2>1. Fails
    BY <1>2 DEF SclLow
  <2>2. bit = BITS + 1 /\ ~Reads /\ bit # 0 /\ bit # BITS + 2
    BY <1>1, <1>2, OpIs, I2cAssumption
  <2>3. target \in Targets /\ target.mode = "idle"
    <3>1. ~target.sda
      BY <1>1, <1>2, <2>2 DEF Traffic, AckOK
    <3> QED
      BY <1>1, <2>2, <3>1 DEF Traffic, AckOK, I2cTypeOK
  <2>4. target' \in Targets
    <3>1. PICK u \in Falling(target) : u \in Targets => target' \in Targets
      BY <1>1, Falls
    <3>2. u = target
      BY <2>3 DEF Falling
    <3> QED
      BY <2>3, <3>1, <3>2
  <2>5. g_started
    BY <1>1, <2>2 DEF LinesOK
  <2>6. sda' \in BOOLEAN /\ scl' \in BOOLEAN
    BY <1>1 DEF I2cTypeOK
  <2> QED
    BY <1>1, <2>1, <2>4, <2>5, <2>6, FailsKeeps
<1>3. CASE ~(Op[1] = "ack" /\ nack = 1)
  <2>1. /\ phase' = "sda" /\ g_started' = TRUE /\ bit \in 0 .. BITS + 1 /\ byte \in Nat
        /\ UNCHANGED <<call, sda, timeout, nack, result, dirty, calls>>
    BY <1>3, NextBit
  <2>2. /\ bit <= BITS => bit' = bit + 1 /\ byte' = byte
        /\ bit = BITS + 1 /\ IsLast => bit' = BITS + 2 /\ byte' = byte
        /\ bit = BITS + 1 /\ ~IsLast => byte' = byte + 1 /\ bit' = IF Starts(byte + 1) THEN 0 ELSE 1
    BY <1>3, NextBit
  <2>3. target' \in Targets /\ Traffic'
    <3>1. bit = 0 \/ bit \in 1 .. BITS - 1 \/ bit = BITS \/ bit = BITS + 1
      BY <2>1, I2cAssumption
    <3>2. CASE bit = 0
      BY <1>3, <3>2, AfterStart
    <3>3. CASE bit \in 1 .. BITS - 1
      BY <1>3, <3>3, AfterBitWritten, AfterBitRead
    <3>4. CASE bit = BITS
      BY <1>3, <3>4, AfterByteWritten, AfterByteRead
    <3>5. CASE bit = BITS + 1
      BY <1>3, <3>5, AfterAck, AfterReadAddress, AfterReadAck
    <3> QED
      BY <3>1, <3>2, <3>3, <3>4, <3>5
  <2>4. rbyte' \in Seq(Levels) /\ pdata' \in Seq(Seq(Levels))
    <3>1. CASE Reads /\ bit = BITS
      <4>1. pdata' \in Seq(Seq(Levels)) /\ rbyte' = <<>>
        BY <1>3, <3>1, AfterByteRead
      <4> QED
        BY <4>1
    <3>2. CASE ~(Reads /\ bit = BITS)
      <4>1. UNCHANGED <<rbyte, pdata>>
        BY <1>3, <3>2, NextBit, Zenon
      <4> QED
        BY <4>1 DEF I2cTypeOK
    <3> QED
      BY <3>1, <3>2
  <2>5. bit' \in 0 .. BITS + 2 /\ byte' \in Nat
    <3>1. bit <= BITS \/ bit = BITS + 1
      BY <2>1, I2cAssumption
    <3>2. CASE bit <= BITS
      BY <2>1, <2>2, <3>2, I2cAssumption
    <3>3. CASE bit = BITS + 1 /\ IsLast
      BY <2>1, <2>2, <3>3, I2cAssumption
    <3>4. CASE bit = BITS + 1 /\ ~IsLast
      <4>1. bit' = 0 \/ bit' = 1
        BY <2>2, <3>4
      <4> QED
        BY <2>1, <2>2, <3>4, <4>1, I2cAssumption
    <3> QED
      BY <3>1, <3>2, <3>3, <3>4
  <2>6. I2cTypeOK'
    BY <1>1, <2>1, <2>3, <2>4, <2>5, Zenon DEF I2cTypeOK
  <2>7. PlaceOK'
    <3>1. /\ call \in Calls /\ byte \in 1 .. Total /\ result = "none" /\ Total \in Nat
          /\ (IsLast <=> byte = Total)
      <4>1. call \in Calls /\ byte \in 1 .. Total /\ result = "none"
        BY <1>1 DEF PlaceOK
      <4>2. call.length \in Nat
        BY <4>1, CallOf
      <4> QED
        BY <4>1, <4>2 DEF Total, IsLast
    <3>2. Total' = Total /\ (IsLast' <=> byte' = Total)
      BY <2>1 DEF Total, IsLast
    <3>3. Starts(byte)' <=> byte' = 1 \/ (byte' = 3 /\ call.op = "read")
      BY <2>1 DEF Starts
    <3>4. CASE bit <= BITS
      <4>1. byte' = byte /\ bit' # 0 /\ bit' # BITS + 2
        BY <2>1, <2>2, <3>4, I2cAssumption
      <4> QED
        BY <2>1, <3>1, <3>2, <4>1 DEF PlaceOK
    <3>5. CASE bit = BITS + 1 /\ IsLast
      <4>1. byte' = byte /\ bit' = BITS + 2 /\ bit' # 0
        BY <2>2, <3>5, I2cAssumption
      <4> QED
        BY <2>1, <3>1, <3>2, <3>5, <4>1 DEF PlaceOK
    <3>6. CASE bit = BITS + 1 /\ ~IsLast
      <4>1. byte' = byte + 1 /\ bit' = IF Starts(byte + 1) THEN 0 ELSE 1
        BY <2>2, <3>6
      <4>2. byte' \in 1 .. Total'
        BY <2>1, <3>1, <3>2, <3>6, <4>1
      <4>3. bit' = 0 => Starts(byte)'
        BY <3>3, <4>1 DEF Starts
      <4>4. bit' # BITS + 2
        BY <4>1, I2cAssumption
      <4> QED
        BY <2>1, <3>1, <4>2, <4>3, <4>4 DEF PlaceOK
    <3> QED
      BY <2>1, <3>4, <3>5, <3>6, I2cAssumption
  <2>8. LinesOK'
    BY <1>1, <2>1 DEF LinesOK
  <2> QED
    BY <1>1, <2>1, <2>3, <2>6, <2>7, <2>8, NotDone
<1> QED
  BY <1>2, <1>3

LEMMA StutterKeeps == BusInv /\ UNCHANGED i2cVars => BusInv'
<1> SUFFICES ASSUME BusInv, UNCHANGED i2cVars PROVE BusInv'
  OBVIOUS
<1>1. /\ UNCHANGED <<sda, scl, g_started, call, byte, bit, phase, timeout, nack, rbyte, pdata, result>>
      /\ UNCHANGED <<target, dirty, calls>>
  BY DEF i2cVars, loader
<1>2. /\ Byte' = Byte /\ (Reads' <=> Reads) /\ (IsLast' <=> IsLast) /\ Receives' = Receives
      /\ Op' = Op /\ Total' = Total
  BY <1>1, SamePlace
<1>3. (SclHigh' <=> SclHigh) /\ (First' <=> First)
  BY <1>1 DEF SclHigh, First
<1> USE DEF BusInv, Traffic
<1>4. I2cTypeOK'
  BY <1>1, Zenon DEF I2cTypeOK
<1>5. PlaceOK'
  BY <1>1, <1>2 DEF PlaceOK, Starts
<1>6. LinesOK'
  BY <1>1, <1>2, <1>3, Zenon DEF LinesOK
<1>7. StartOK' /\ AckOK' /\ StopOK' /\ ReadBytesOK'
  BY <1>1, <1>2, Zenon DEF StartOK, AckOK, StopOK, ReadBytesOK
<1>8. WriteOK' /\ ReadOK' /\ NackOK'
  BY <1>1, <1>2, <1>3, Zenon DEF WriteOK, ReadOK, NackOK
<1>9. GotOK' /\ DoneOK'
  BY <1>1, Zenon DEF GotOK, DoneOK, TransferFaithful, SdaHigh
<1> QED
  BY <1>4, <1>5, <1>6, <1>7, <1>8, <1>9

\* Bytes are never taken for other bytes.
LEMMA I2cInvariance == I2cSpec => []BusInv
<1>1. I2cInit => BusInv
  BY InitKeeps
<1>2. BusInv /\ [I2cNext]_i2cVars => BusInv'
  BY CallKeeps, SetSdaKeeps, StartReleasesKeeps, ReleaseSclKeeps, PollSclKeeps, ArbitrateKeeps,
     StartConditionKeeps, ReadSdaKeeps, SclLowKeeps, StopConditionKeeps, PollSdaKeeps,
     StretchEndsKeeps, StutterKeeps DEF I2cNext, Loader
<1> QED
  BY <1>1, <1>2, PTL DEF I2cSpec

-----------------------------------------------------------------------------
\* Every state of the loader and of the target is one that the code and a
\* target can be in: no byte longer than its clocks, no bit but 0 and 1.
THEOREM I2cTyping == I2cSpec => []I2cTypeOK
BY I2cInvariance, PTL DEF BusInv

\* i2c_gpio_read and i2c_gpio_write return TRUE only with the transfer done,
\* for bytes of any length, calls of any size and any number of calls, also
\* after calls that gave up in the middle.
THEOREM Faithful == I2cSpec => []TransferFaithful
<1>1. BusInv => TransferFaithful
  BY DEF BusInv, DoneOK, TransferFaithful
<1> QED
  BY <1>1, I2cInvariance, PTL

\* A step that changes SDA under a high SCL is one of a START or a STOP.
LEMMA OnlyConditions ==
  ASSUME BusInv, [I2cNext]_i2cVars, SclHigh, SclHigh', SdaHigh # SdaHigh'
  PROVE  Op[1] \in {"start", "stop"}
<1> SUFFICES ASSUME Op[1] \notin {"start", "stop"} PROVE FALSE
  OBVIOUS
<1> USE DEF BusInv
<1>1. sda \in BOOLEAN /\ target.sda \in BOOLEAN /\ target.scl = FALSE /\ scl = FALSE
  BY DEF I2cTypeOK, Targets, SclHigh
<1>2. ASSUME SetSda PROVE FALSE
  <2>1. byte # 0 /\ phase = "sda" /\ scl' = scl
    BY <1>2 DEF SetSda, Busy, Bus
  <2>2. bit = 0
    BY <1>1, <2>1 DEF LinesOK, First
  <2> QED
    BY <2>1, <2>2, OpOf
<1>3. ASSUME StartReleases \/ StartCondition \/ StopCondition \/ PollSda PROVE FALSE
  BY <1>3 DEF StartReleases, StartCondition, StopCondition, PollSda, Busy
<1>4. ASSUME ReleaseScl PROVE FALSE
  <2>1. Bus(sda, scl, target.scl) /\ sda' = sda
    BY <1>1, <1>4 DEF ReleaseScl, Bus
  <2>2. target' = target
    BY <1>1, <2>1, BusHigh
  <2> QED
    BY <2>1, <2>2 DEF SdaHigh
<1>5. ASSUME PollScl \/ Arbitrate \/ ReadSda \/ UNCHANGED i2cVars PROVE FALSE
  <2>1. sda' = sda /\ target' = target
    BY <1>5 DEF PollScl, Arbitrate, ReadSda, i2cVars
  <2> QED
    BY <2>1 DEF SdaHigh
<1>6. ASSUME SclLow PROVE FALSE
  BY <1>6 DEF SclLow, Bus, SclHigh
<1>7. ASSUME Call PROVE FALSE
  <2>1. sda' = sda /\ target'.sda = target.sda
    BY <1>7 DEF Call, I2cTypeOK, Targets
  <2> QED
    BY <2>1 DEF SdaHigh
<1>8. ASSUME StretchEnds PROVE FALSE
  BY <1>1, <1>8 DEF StretchEnds
<1> QED
  BY <1>2, <1>3, <1>4, <1>5, <1>6, <1>7, <1>8 DEF I2cNext, Loader

\* No data bit of the loader or of the target is a START or a STOP.
THEOREM NoStray == I2cSpec => NoStrayCondition
<1>1. BusInv /\ [I2cNext]_i2cVars =>
          [SclHigh /\ SclHigh' /\ SdaHigh # SdaHigh' => Op[1] \in {"start", "stop"}]_i2cVars
  BY OnlyConditions
<1> QED
  BY <1>1, I2cInvariance, PTL DEF I2cSpec, NoStrayCondition

\* What makes a call fail.
LEMMA Reason ==
  ASSUME BusInv, [I2cNext]_i2cVars, result # "FALSE", result' = "FALSE"
  PROVE  target.refused \/ target.scl \/ dirty
<1> USE DEF BusInv
<1>1. CASE PollScl
  <2>1. byte # 0 /\ phase = "poll" /\ ~SclHigh
    BY <1>1 DEF PollScl, Goto
  <2> QED
    BY <2>1 DEF LinesOK, SclHigh
<1>2. CASE Arbitrate
  <2>1. /\ byte # 0 /\ phase = "sample" /\ Op[1] \in {"start", "write"}
        /\ ~SdaHigh /\ Op # <<"write", 0>>
    BY <1>2 DEF Arbitrate, Busy, Goto
  <2>2. CASE Op[1] = "start"
    <3>1. bit = 0
      BY <2>1, <2>2, OpIs
    <3>2. ~sda
      BY <2>1, <3>1 DEF LinesOK
    <3> QED
      BY <2>1, <3>1, <3>2 DEF SdaHigh, Traffic, StartOK
  <2>3. CASE Op[1] = "write"
    <3>1. (bit \in 1 .. BITS /\ ~Reads) \/ (bit = BITS + 1 /\ Reads)
      BY <2>1, <2>3, OpIs
    <3>2. ~target.sda
      BY <2>1, <3>1 DEF Traffic, WriteOK, NackOK
    <3>3. ~Drives
      <4>1. Op # <<"stop", 0>>
        BY <2>3
      <4> QED
        BY <2>1, <4>1 DEF Drives
    <3>4. bit # 0
      BY <3>1, I2cAssumption
    <3>5. ~sda
      BY <2>1, <3>3, <3>4 DEF LinesOK, Drives
    <3> QED
      BY <2>1, <3>2, <3>5 DEF SdaHigh
  <2> QED
    BY <2>1, <2>2, <2>3
<1>3. CASE SclLow
  <2>1. byte # 0 /\ phase = "low" /\ Op[1] = "ack" /\ nack = 1
    BY <1>3 DEF SclLow
  <2>2. bit = BITS + 1 /\ ~Reads
    BY <2>1, OpIs
  <2> QED
    BY <2>1, <2>2 DEF Traffic, AckOK
<1>4. CASE PollSda
  <2>1. byte # 0 /\ phase = "free"
    BY <1>4 DEF PollSda, Busy
  <2>2. bit = BITS + 2 /\ bit # 0
    BY <2>1, I2cAssumption DEF PlaceOK
  <2>3. SdaHigh
    BY <2>1, <2>2 DEF LinesOK, Traffic, StopOK, SdaHigh
  <2> QED
    BY <1>4, <2>3 DEF PollSda
<1>5. result' = result \/ result' = "none" \/ PollScl \/ Arbitrate \/ SclLow \/ PollSda
  BY DEF I2cNext, Loader, Call, SetSda, StartReleases, ReleaseScl, StartCondition, ReadSda,
         StopCondition, StretchEnds, Waits, Goto, i2cVars, loader
<1> QED
  BY <1>1, <1>2, <1>3, <1>4, <1>5

\* A call fails only for a byte that the target refused, a clock that it
\* holds, or the SDA that it held when the call began.
THEOREM FailsWithReason == I2cSpec => FailsForAReason
<1>1. BusInv /\ [I2cNext]_i2cVars =>
          [result # "FALSE" /\ result' = "FALSE" => target.refused \/ target.scl \/ dirty]_i2cVars
  BY Reason
<1> QED
  BY <1>1, I2cInvariance, PTL DEF I2cSpec, FailsForAReason

=============================================================================
