----------------------------- MODULE SmpBarrier -----------------------------
(***************************************************************************)
(* The multi-hart start of sdboot (sdboot/head.S with the macros of        *)
(* sdboot/include/smp.h): smp_pause parks every hart but the boot hart in  *)
(* the middle of smp_resume, the boot hart runs main() alone, and          *)
(* smp_resume releases all harts together through the CLINT's software     *)
(* interrupt registers, one msip word per hart.                            *)
(*                                                                         *)
(* One step is one access to msip.  The msip words of harts that do not    *)
(* exist are hardwired to zero, and the CLINT is an I/O region, so that    *)
(* the accesses of one hart take effect in program order.                  *)
(*                                                                         *)
(* Its names are its own, so that HartStartProofs can extend it together   *)
(* with SubCpu.                                                            *)
(***************************************************************************)
EXTENDS Integers

CONSTANTS NUM_HARTS,   \* harts on the chip
          MAX_HARTS,   \* msip words the loops of smp_resume visit
          NONSMP_HART \* the hart that runs main()

Harts == 0 .. NUM_HARTS - 1

ASSUME HartsAssumption ==
    /\ NUM_HARTS \in Nat \ {0}
    /\ MAX_HARTS \in Nat
    /\ NUM_HARTS <= MAX_HARTS
    /\ NONSMP_HART \in Harts

VARIABLES hart,  \* where each hart is in head.S
          msip,  \* the CLINT's software interrupt pending words
          reg1   \* the msip word a hart's loop has reached

smpVars == <<hart, msip, reg1>>

-----------------------------------------------------------------------------
SmpInit ==
    /\ hart = [h \in Harts |-> "start"]
    /\ msip = [h \in Harts |-> 0]
    /\ reg1 = [h \in Harts |-> 0]

Goto(h, l) == hart' = [hart EXCEPT ![h] = l]

\* MUTANT: the parked harts fall into the signalling loop.
smp_pause_FallsThrough(h) ==
    /\ hart[h] = "start"
    /\ Goto(h, IF h = NONSMP_HART THEN "main" ELSE "raise")
    /\ UNCHANGED <<msip, reg1>>

\* smp_pause: bne to label 42 of the smp_resume that follows main().
smp_pause(h) ==
    /\ hart[h] = "start"
    /\ Goto(h, IF h = NONSMP_HART THEN "main" ELSE "wfi")
    /\ UNCHANGED <<msip, reg1>>

\* MUTANT: the signalling loop starts past the boot hart's own word.
MainReturns_SkipsSelf(h) ==
    /\ hart[h] = "main"
    /\ Goto(h, "raise")
    /\ reg1' = [reg1 EXCEPT ![h] = h + 1]
    /\ UNCHANGED msip

\* main() returns, whatever it did; smp_resume begins.
MainReturns(h) ==
    /\ hart[h] = "main"
    /\ Goto(h, "raise")
    /\ reg1' = [reg1 EXCEPT ![h] = 0]
    /\ UNCHANGED msip

\* First loop 41: sw 1 to the next msip word.
RaiseMsip(h) ==
    /\ hart[h] = "raise"
    /\ msip' = [g \in Harts |-> IF g = reg1[h] THEN 1 ELSE msip[g]]
    /\ reg1' = [reg1 EXCEPT ![h] = @ + 1]
    /\ Goto(h, IF reg1[h] + 1 < MAX_HARTS THEN "raise" ELSE "wfi")

\* Loop 42: wfi may return at any time; the loop ends on mip.MSIP.
TakeIpi(h) ==
    /\ hart[h] = "wfi"
    /\ msip[h] = 1
    /\ Goto(h, "clear")
    /\ UNCHANGED <<msip, reg1>>

\* MUTANT: reg1 is left at the hart's own word, not reloaded.
ClearMsip_NoReload(h) ==
    /\ hart[h] = "clear"
    /\ msip' = [msip EXCEPT ![h] = 0]
    /\ reg1' = [reg1 EXCEPT ![h] = h]
    /\ Goto(h, "check")

\* sw zero to the hart's own msip word, reg1 back at the first word.
ClearMsip(h) ==
    /\ hart[h] = "clear"
    /\ msip' = [msip EXCEPT ![h] = 0]
    /\ reg1' = [reg1 EXCEPT ![h] = 0]
    /\ Goto(h, "check")

\* MUTANT: the loop goes on without reading the word.
CheckMsip_NoWait(h) ==
    /\ hart[h] = "check"
    /\ reg1' = [reg1 EXCEPT ![h] = @ + 1]
    /\ Goto(h, IF reg1[h] + 1 < MAX_HARTS THEN "check" ELSE "payload")
    /\ UNCHANGED msip

\* Second loop 41: go past the next msip word once it reads zero.
CheckMsip(h) ==
    /\ hart[h] = "check"
    /\ reg1[h] \in Harts => msip[reg1[h]] = 0
    /\ reg1' = [reg1 EXCEPT ![h] = @ + 1]
    /\ Goto(h, IF reg1[h] + 1 < MAX_HARTS THEN "check" ELSE "payload")
    /\ UNCHANGED msip

Step(h) ==
    \/ smp_pause(h)
    \/ MainReturns(h)
    \/ RaiseMsip(h)
    \/ TakeIpi(h)
    \/ ClearMsip(h)
    \/ CheckMsip(h)

SmpNext == \E h \in Harts : Step(h)

SmpSpec == SmpInit /\ [][SmpNext]_smpVars

\* Every hart keeps executing instructions.
SmpFairSpec == SmpSpec /\ \A h \in Harts : WF_smpVars(Step(h))

-----------------------------------------------------------------------------
SmpTypeOK ==
    /\ hart \in [Harts -> {"start", "main", "raise", "wfi", "clear", "check",
                         "payload"}]
    /\ msip \in [Harts -> {0, 1}]
    /\ reg1 \in [Harts -> 0 .. MAX_HARTS]

\* A hart that has taken its software interrupt and cleared it.
Released(h) == hart[h] \in {"check", "payload"}

(***************************************************************************)
(* smp_resume is a barrier: a hart is in the payload only when every hart  *)
(* has been woken and has cleared its own msip, so no hart of the payload  *)
(* runs beside main() and none is left behind in the boot loader's wfi.    *)
(***************************************************************************)
Barrier ==
    \A h \in Harts : hart[h] = "payload" => \A g \in Harts : Released(g)

(***************************************************************************)
(* The payload starts with no software interrupt pending on any hart: the  *)
(* IPI of the boot loader is never delivered to the payload's handler.     *)
(***************************************************************************)
NoStaleIpi ==
    (\E h \in Harts : hart[h] = "payload") => \A g \in Harts : msip[g] = 0

(***************************************************************************)
(* A hart is woken once: a released hart's msip is never raised again (the *)
(* word would stay set and hold every hart still checking, for ever).      *)
(***************************************************************************)
WokenOnce ==
    [][\A h \in Harts : Released(h) => msip'[h] = 0]_smpVars

\* Every hart gets to the payload: nobody waits for a hart that waits.
AllStart == \A h \in Harts : <>(hart[h] = "payload")
=============================================================================
