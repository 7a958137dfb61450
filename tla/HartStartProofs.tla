-------------------------- MODULE HartStartProofs ---------------------------
(***************************************************************************)
(* The two protocols that start more than one hart, for every size.        *)
(*                                                                         *)
(* SmpBarrier, for every number of harts and of msip words, when the hart  *)
(* that runs main() is hart 0.  The order of the two loops is what makes   *)
(* it work: hart 0's word is the first one raised and the first one        *)
(* checked, and hart 0 clears it only after raising all words.             *)
(*                                                                         *)
(* SubCpu, for any number of CPUs, polls and retries: the count of         *)
(* s5p6818_subcpu_bringup is not above the number of CPUs that are up, and *)
(* no CPU jumps before the kernel tells it where.                          *)
(***************************************************************************)
EXTENDS SmpBarrier, SubCpu, FiniteSetTheorems, TLAPS

(***************************************************************************)
(* The barrier of smp_resume                                               *)
(***************************************************************************)

\* Hart 0 has finished its signalling loop.
Signalled == hart[0] \in {"wfi", "clear", "check", "payload"}

\* Until hart 0 signals, nothing is pending and the others are parked.
BeforeSignal ==
    hart[0] \in {"start", "main"} =>
        /\ \A h \in Harts : msip[h] = 0
        /\ \A h \in Harts \ {0} : hart[h] \in {"start", "wfi"}

\* While hart 0 signals, the words at and past reg1 are still clear and their
\* harts parked; of the words before it, those of released harts are clear;
\* and a released hart is held at hart 0's word.
DuringSignal ==
    hart[0] = "raise" =>
        /\ \A h \in Harts : h >= reg1[0] => msip[h] = 0
        /\ \A h \in Harts : h < reg1[0] => (msip[h] = 0 <=> Released(h))
        /\ \A h \in Harts \ {0} :
              h >= reg1[0] => hart[h] \in {"start", "wfi"}
        /\ \A h \in Harts : hart[h] = "check" => reg1[h] = 0

\* Once hart 0 has signalled, exactly the released harts' words are clear.
AfterSignal ==
    Signalled => \A h \in Harts : msip[h] = 0 <=> Released(h)

\* Only hart 0 runs main() and signals; nobody else clears before a wake-up.
Roles ==
    /\ \A h \in Harts \ {0} : hart[h] \notin {"main", "raise"}
    /\ \A h \in Harts : hart[h] = "clear" => msip[h] = 1

\* The words a checking hart has gone past belong to released harts.
Passed ==
    \A h \in Harts :
        /\ hart[h] = "check" =>
              \A g \in Harts : g < reg1[h] => Released(g)
        /\ hart[h] = "payload" => \A g \in Harts : Released(g)

\* A hart that is in one of the two loops has a word left to visit.
SmpInLoop ==
    \A h \in Harts : hart[h] \in {"raise", "check"} => reg1[h] < MAX_HARTS

SmpIInv ==
    /\ SmpTypeOK
    /\ SmpInLoop
    /\ BeforeSignal
    /\ DuringSignal
    /\ AfterSignal
    /\ Roles
    /\ Passed

-----------------------------------------------------------------------------
(***************************************************************************)
(* Type correctness of the barrier, whichever hart runs main(): the two    *)
(* loops never run past the last msip word.                                *)
(***************************************************************************)
THEOREM SmpTyping == SmpSpec => [](SmpTypeOK /\ SmpInLoop)
<1>1. SmpInit => SmpTypeOK /\ SmpInLoop
  BY HartsAssumption DEF SmpInit, SmpTypeOK, SmpInLoop, Harts
<1>2. SmpTypeOK /\ SmpInLoop /\ [SmpNext]_smpVars => (SmpTypeOK /\ SmpInLoop)'
  <2> SUFFICES ASSUME SmpTypeOK, SmpInLoop, [SmpNext]_smpVars
               PROVE  (SmpTypeOK /\ SmpInLoop)'
    OBVIOUS
  <2> USE HartsAssumption DEF SmpTypeOK, SmpInLoop, Goto, Harts
  <2>1. ASSUME NEW h \in Harts, smp_pause(h)
        PROVE  (SmpTypeOK /\ SmpInLoop)'
    BY <2>1 DEF smp_pause
  <2>2. ASSUME NEW h \in Harts, MainReturns(h)
        PROVE  (SmpTypeOK /\ SmpInLoop)'
    BY <2>2 DEF MainReturns
  <2>3. ASSUME NEW h \in Harts, RaiseMsip(h)
        PROVE  (SmpTypeOK /\ SmpInLoop)'
    BY <2>3 DEF RaiseMsip
  <2>4. ASSUME NEW h \in Harts, TakeIpi(h)
        PROVE  (SmpTypeOK /\ SmpInLoop)'
    BY <2>4 DEF TakeIpi
  <2>5. ASSUME NEW h \in Harts, ClearMsip(h)
        PROVE  (SmpTypeOK /\ SmpInLoop)'
    BY <2>5 DEF ClearMsip
  <2>6. ASSUME NEW h \in Harts, CheckMsip(h)
        PROVE  (SmpTypeOK /\ SmpInLoop)'
    BY <2>6 DEF CheckMsip
  <2>7. CASE UNCHANGED smpVars
    BY <2>7 DEF smpVars
  <2> QED
    BY <2>1, <2>2, <2>3, <2>4, <2>5, <2>6, <2>7 DEF SmpNext, Step
<1> QED
  BY <1>1, <1>2, PTL DEF SmpSpec

(***************************************************************************)
(* One step of any hart preserves the inductive invariant.                 *)
(***************************************************************************)
LEMMA SmpStep ==
    ASSUME NONSMP_HART = 0, SmpIInv, (SmpTypeOK /\ SmpInLoop)', [SmpNext]_smpVars
    PROVE  SmpIInv'
<1> USE HartsAssumption DEF SmpIInv, SmpTypeOK, SmpInLoop, Goto, Harts, Signalled,
        BeforeSignal, DuringSignal, AfterSignal, Roles, Passed, Released
<1>1. ASSUME NEW h \in Harts, smp_pause(h)
      PROVE  SmpIInv'
  BY <1>1 DEF smp_pause
<1>2. ASSUME NEW h \in Harts, MainReturns(h)
      PROVE  SmpIInv'
  BY <1>2 DEF MainReturns
<1>3. ASSUME NEW h \in Harts, RaiseMsip(h)
      PROVE  SmpIInv'
  <2>1. BeforeSignal'
    BY <1>3 DEF RaiseMsip
  <2>2. DuringSignal'
    BY <1>3 DEF RaiseMsip
  <2>3. AfterSignal'
    BY <1>3 DEF RaiseMsip
  <2>4. Roles'
    BY <1>3 DEF RaiseMsip
  <2>5. Passed'
    BY <1>3 DEF RaiseMsip
  <2> QED
    BY <2>1, <2>2, <2>3, <2>4, <2>5
<1>4. ASSUME NEW h \in Harts, TakeIpi(h)
      PROVE  SmpIInv'
  BY <1>4 DEF TakeIpi
<1>5. ASSUME NEW h \in Harts, ClearMsip(h)
      PROVE  SmpIInv'
  BY <1>5 DEF ClearMsip
<1>6. ASSUME NEW h \in Harts, CheckMsip(h)
      PROVE  SmpIInv'
  <2>1. BeforeSignal'
    BY <1>6 DEF CheckMsip
  <2>2. DuringSignal'
    \* While hart 0 signals, its word is set and a checking hart cannot move.
    <3>1. CASE hart[0] = "raise"
      <4>1. h # 0 /\ hart[h] = "check" /\ reg1[h] = 0 /\ 0 \in Harts
        BY <1>6, <3>1 DEF CheckMsip
      <4>2. 0 < reg1[0]
        <5>1. ~ (h >= reg1[0])
          BY <3>1, <4>1
        <5> QED
          BY <4>1, <5>1
      <4>3. msip[0] # 0
        BY <3>1, <4>1, <4>2
      <4> QED
        BY <1>6, <4>1, <4>3 DEF CheckMsip
    <3>2. CASE hart[0] # "raise"
      BY <1>6, <3>2 DEF CheckMsip
    <3> QED
      BY <3>1, <3>2
  <2>3. AfterSignal'
    BY <1>6 DEF CheckMsip
  <2>4. Roles'
    BY <1>6 DEF CheckMsip
  <2>5. Passed'
    BY <1>6 DEF CheckMsip
  <2> QED
    BY <2>1, <2>2, <2>3, <2>4, <2>5
<1>7. CASE UNCHANGED smpVars
  BY <1>7 DEF smpVars
<1> QED
  BY <1>1, <1>2, <1>3, <1>4, <1>5, <1>6, <1>7 DEF SmpNext, Step

\* The invariant holds throughout when hart 0 runs main().
LEMMA SmpInvariance ==
    ASSUME NONSMP_HART = 0
    PROVE  SmpSpec => []SmpIInv
<1>1. SmpInit => SmpIInv
  BY HartsAssumption, NONSMP_HART = 0
     DEF SmpInit, SmpIInv, SmpTypeOK, SmpInLoop, Harts, Signalled, BeforeSignal,
         DuringSignal, AfterSignal, Roles, Passed, Released
<1>2. SmpIInv /\ (SmpTypeOK /\ SmpInLoop)' /\ [SmpNext]_smpVars => SmpIInv'
  BY NONSMP_HART = 0, SmpStep
<1> QED
  BY <1>1, <1>2, SmpTyping, PTL DEF SmpSpec

\* A released hart's word is clear, before, while and after hart 0 signals.
LEMMA ReleasedClear ==
    ASSUME SmpIInv, NEW h \in Harts, Released(h)
    PROVE  msip[h] = 0
<1> USE HartsAssumption DEF SmpIInv, SmpTypeOK, Harts
<1>1. CASE hart[0] \in {"start", "main"}
  BY <1>1 DEF BeforeSignal
<1>2. CASE hart[0] = "raise"
  <2>1. ~ (h >= reg1[0])
    BY <1>2 DEF DuringSignal, Released
  <2> QED
    BY <1>2, <2>1 DEF DuringSignal
<1>3. CASE Signalled
  BY <1>3 DEF AfterSignal
<1> QED
  BY <1>1, <1>2, <1>3 DEF Signalled

(***************************************************************************)
(* When hart 0 runs main(), smp_resume is a barrier: no hart starts the    *)
(* payload before every hart has been woken and has cleared its own word.  *)
(***************************************************************************)
THEOREM BarrierSafe ==
    ASSUME NONSMP_HART = 0
    PROVE  SmpSpec => []Barrier
<1>1. SmpIInv => Barrier
  BY DEF SmpIInv, Passed, Barrier
<1> QED
  BY <1>1, SmpInvariance, PTL

(***************************************************************************)
(* When hart 0 runs main(), the payload starts with no software interrupt  *)
(* pending on any hart.                                                    *)
(***************************************************************************)
THEOREM NothingPending ==
    ASSUME NONSMP_HART = 0
    PROVE  SmpSpec => []NoStaleIpi
<1>1. SmpIInv => NoStaleIpi
  BY ReleasedClear DEF SmpIInv, Passed, NoStaleIpi
<1> QED
  BY <1>1, SmpInvariance, PTL

(***************************************************************************)
(* When hart 0 runs main(), no hart is signalled again once released: the  *)
(* only writer of another hart's word is hart 0's first loop, and it is    *)
(* still before the words of the harts that are parked.                    *)
(***************************************************************************)
THEOREM SignalOnce ==
    ASSUME NONSMP_HART = 0
    PROVE  SmpSpec => WokenOnce
<1>1. ASSUME SmpIInv, [SmpNext]_smpVars
      PROVE  [\A h \in Harts : Released(h) => msip'[h] = 0]_smpVars
  <2> SUFFICES ASSUME SmpNext, NEW h \in Harts, Released(h)
               PROVE  msip'[h] = 0
    BY <1>1
  <2>1. msip[h] = 0
    BY <1>1, ReleasedClear
  <2>2. PICK g \in Harts : Step(g)
    BY DEF SmpNext
  <2>3. CASE RaiseMsip(g)
    <3>1. g = 0 /\ hart[0] = "raise"
      BY <1>1, <2>3 DEF SmpIInv, Roles, RaiseMsip
    <3>2. ~ (h >= reg1[0])
      BY <1>1, <3>1 DEF SmpIInv, DuringSignal, Released
    <3>3. h # reg1[0]
      BY <3>2 DEF Harts
    <3> QED
      BY <2>1, <2>3, <3>1, <3>3 DEF RaiseMsip
  <2>4. CASE ClearMsip(g)
    BY <1>1, <2>1, <2>4 DEF ClearMsip, SmpIInv, SmpTypeOK
  <2>5. CASE msip' = msip
    BY <2>1, <2>5
  <2> QED
    BY <2>2, <2>3, <2>4, <2>5
       DEF Step, smp_pause, MainReturns, TakeIpi, CheckMsip
<1> QED
  BY <1>1, SmpInvariance, PTL DEF SmpSpec, WokenOnce

-----------------------------------------------------------------------------
(***************************************************************************)
(* The start of the secondary CPUs                                         *)
(***************************************************************************)

InLoop == pc \in {"clear", "power", "wait", "decide"}

\* The loop over the CPUs: one is being started, those before it counted at
\* most once, and there are polls left.
Loop ==
    /\ InLoop => cpu_num \in SubCpus /\ result < cpu_num
    /\ pc \in {"power", "wait"} => delay # 0

\* An answer that has been given and will be counted.
Owed ==
    \/ pc \in {"power", "wait"} /\ wakeup_flag = 1
    \/ pc = "decide" /\ delay # 0

\* Every answer that is or will be counted is that of a CPU of its own.
Counted ==
    /\ result <= Cardinality(Up)
    /\ Owed => result + 1 <= Cardinality(Up)

\* While CPU 0 is at work the others sleep, with nowhere to go.
Asleep ==
    /\ pc # "returned" => \A c \in SubCpus : cpu[c] \in {"off", "starting", "wfi"}
    /\ pc = "begin" => \A c \in SubCpus : cpu[c] = "off"
    /\ pc \notin {"begin", "returned"} => jump_addr = "invalid"

\* Later they have the kernel's address or none.
Directed ==
    /\ pc = "returned" => jump_addr # "reset"
    /\ \A c \in SubCpus :
          cpu[c] \in {"compare", "launched"} => pLaunch[c] = "kernel"

IInv == TypeOK /\ Loop /\ Counted /\ Asleep /\ Directed

-----------------------------------------------------------------------------
LEMMA SubCpusFinite == IsFiniteSet(SubCpus)
  BY SubCpuAssumption, FS_Interval DEF SubCpus

LEMMA UpFinite == IsFiniteSet(Up) /\ Cardinality(Up) \in Nat
  BY SubCpusFinite, FS_Subset, FS_CardinalityType DEF Up

LEMMA UpFiniteNext == IsFiniteSet(Up') /\ Cardinality(Up') \in Nat
  BY SubCpusFinite, FS_Subset, FS_CardinalityType DEF Up

\* A CPU that is up stays up, so that their number does not decrease.
LEMMA UpGrows ==
  ASSUME TypeOK, Next
  PROVE  Up \subseteq Up'
<1>1. CASE Master
  BY <1>1 DEF TypeOK, Up, Master, Begin, ClearFlag, PowerOn, PollFlag,
              NoAnswer, Answered, info
<1>2. CASE SubCpu
  BY <1>2 DEF TypeOK, Up, SubCpu, Announce, WakeUp, Compare
<1>3. CASE KernelWrites
  BY <1>3 DEF Up, KernelWrites
<1> QED
  BY <1>1, <1>2, <1>3 DEF Next

LEMMA CountGrows ==
  ASSUME TypeOK, Next
  PROVE  Cardinality(Up) <= Cardinality(Up')
  BY UpGrows, UpFiniteNext, FS_Subset

\* An announcement is that of a CPU which was not up.
LEMMA AnnounceAdds ==
  ASSUME TypeOK, NEW c \in SubCpus, Announce(c)
  PROVE  Cardinality(Up') = Cardinality(Up) + 1
<1>1. Up' = Up \cup {c} /\ c \notin Up
  BY DEF TypeOK, Up, Announce
<1> QED
  BY <1>1, UpFinite, FS_AddElement

-----------------------------------------------------------------------------
LEMMA InitIInv == Init => IInv
<1> SUFFICES ASSUME Init
             PROVE  IInv
  OBVIOUS
<1> USE SubCpuAssumption
<1>1. TypeOK
  BY DEF Init, TypeOK, SubCpus, Addresses
<1>2. Loop
  BY DEF Init, Loop, InLoop
<1>3. Counted
  BY UpFinite DEF Init, Counted, Owed
<1>4. Asleep /\ Directed
  BY DEF Init, Asleep, Directed
<1> QED
  BY <1>1, <1>2, <1>3, <1>4 DEF IInv

\* Steps of CPU 0.
LEMMA MasterStep ==
  ASSUME IInv, Master
  PROVE  TypeOK' /\ Loop' /\ Asleep' /\ Directed'
<1> USE SubCpuAssumption
    DEF IInv, TypeOK, Loop, InLoop, Asleep, Directed, SubCpus, info
<1>1. CASE Begin
  BY <1>1 DEF Begin, Addresses
<1>2. CASE ClearFlag
  BY <1>2 DEF ClearFlag
<1>3. CASE PowerOn
  BY <1>3 DEF PowerOn
<1>4. CASE PollFlag
  BY <1>4 DEF PollFlag
<1>5. CASE NoAnswer
  BY <1>5 DEF NoAnswer, GoTo
<1>6. CASE Answered
  BY <1>6 DEF Answered, GoTo
<1> QED
  BY <1>1, <1>2, <1>3, <1>4, <1>5, <1>6 DEF Master

\* Steps of the others, and of the kernel.
LEMMA OthersStep ==
  ASSUME IInv, SubCpu \/ KernelWrites
  PROVE  TypeOK' /\ Loop' /\ Asleep' /\ Directed'
<1> USE DEF IInv, TypeOK, Loop, InLoop, Asleep, Directed, Addresses, master
<1>1. ASSUME NEW c \in SubCpus, Announce(c)
      PROVE  TypeOK' /\ Loop' /\ Asleep' /\ Directed'
  BY <1>1 DEF Announce
<1>2. ASSUME NEW c \in SubCpus, WakeUp(c)
      PROVE  TypeOK' /\ Loop' /\ Asleep' /\ Directed'
  BY <1>2 DEF WakeUp, info
<1>3. ASSUME NEW c \in SubCpus, Compare(c)
      PROVE  TypeOK' /\ Loop' /\ Asleep' /\ Directed'
  BY <1>3 DEF Compare, info
<1>4. CASE KernelWrites
  BY <1>4 DEF KernelWrites, SubCpus
<1> QED
  BY <1>1, <1>2, <1>3, <1>4 DEF SubCpu

\* The count, with what each step does to the CPUs that are up.
LEMMA CountedStep ==
  ASSUME IInv, Next
  PROVE  Counted'
<1> USE UpFinite, UpFiniteNext DEF IInv, TypeOK, Loop, InLoop, Counted, Owed
<1>1. Cardinality(Up) <= Cardinality(Up')
  BY CountGrows DEF IInv
<1>2. CASE Master
  <2>1. CASE Begin
    BY <1>1, <2>1 DEF Begin
  <2>2. CASE ClearFlag
    BY <1>1, <2>2 DEF ClearFlag
  <2>3. CASE PowerOn
    BY <1>1, <2>3 DEF PowerOn, info
  <2>4. CASE PollFlag
    BY <1>1, <2>4 DEF PollFlag, info
  <2>5. CASE NoAnswer
    BY <1>1, <2>5 DEF NoAnswer, GoTo, info
  <2>6. CASE Answered
    BY <1>1, <2>6 DEF Answered, GoTo, info
  <2> QED
    BY <1>2, <2>1, <2>2, <2>3, <2>4, <2>5, <2>6 DEF Master
<1>3. ASSUME NEW c \in SubCpus, Announce(c)
      PROVE  Counted'
  <2>1. Cardinality(Up') = Cardinality(Up) + 1
    BY <1>3, AnnounceAdds
  <2>2. result' = result
    BY <1>3 DEF Announce, master
  <2> QED
    BY <2>1, <2>2
<1>4. ASSUME NEW c \in SubCpus, WakeUp(c) \/ Compare(c)
      PROVE  Counted'
  BY <1>1, <1>4 DEF WakeUp, Compare, master, info
<1>5. CASE KernelWrites
  BY <1>1, <1>5 DEF KernelWrites, master
<1> QED
  BY <1>2, <1>3, <1>4, <1>5 DEF Next, SubCpu

LEMMA StutterStep == IInv /\ UNCHANGED vars => IInv'
  BY DEF IInv, TypeOK, Loop, InLoop, Counted, Owed, Up, Asleep, Directed, vars,
         master, info

LEMMA Invariance == Spec => []IInv
<1>1. IInv /\ [Next]_vars => IInv'
  BY MasterStep, OthersStep, CountedStep, StutterStep DEF IInv, Next
<1> QED
  BY <1>1, InitIInv, PTL DEF Spec

-----------------------------------------------------------------------------
\* No variable of the bring-up leaves its range, in particular the counters.
THEOREM Typing == Spec => []TypeOK
<1>1. IInv => TypeOK
  BY DEF IInv
<1> QED
  BY <1>1, Invariance, PTL

(***************************************************************************)
(* However late the CPUs answer and whichever of them never do, the value  *)
(* that s5p6818_subcpu_bringup returns counts only CPUs that are up.       *)
(***************************************************************************)
THEOREM CountSound == Spec => []CountsNoGhost
<1>1. IInv => CountsNoGhost
  BY DEF IInv, Counted, CountsNoGhost
<1> QED
  BY <1>1, Invariance, PTL

(***************************************************************************)
(* A CPU launches only when the bring-up is over and only at an address    *)
(* that the kernel has written.                                            *)
(***************************************************************************)
THEOREM LaunchSafe == Spec => []LaunchedByKernel
<1>1. IInv => LaunchedByKernel
  BY DEF IInv, Asleep, Directed, LaunchedByKernel
<1> QED
  BY <1>1, Invariance, PTL

=============================================================================
