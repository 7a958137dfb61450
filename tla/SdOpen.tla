------------------------------- MODULE SdOpen -------------------------------
(***************************************************************************)
(* Card identification and set-up in the boot ROM: NX_SDMMC_Open with      *)
(* NX_SDMMC_IdentifyCard, SelectCard, SetCardDetectPullUp, SetBlockLength  *)
(* and SetBusWidth (nexell_riscv/romboot/src/iSDBOOT.c), run against a     *)
(* card that follows the SD or the MMC state diagram.                      *)
(*                                                                         *)
(* A driver step is one command exchange.  The command may not reach the   *)
(* card, the card may not answer it in its state, and an answer may be     *)
(* damaged on the way; the driver sees an error in all three cases and     *)
(* cannot tell them apart.  SD_SEND_OP_COND and SEND_OP_COND are sent      *)
(* without CHKRSPCRC, as their answer has no CRC: there a damaged answer   *)
(* is taken for good.  The card is external.                               *)
(***************************************************************************)
EXTENDS Integers

CONSTANTS
    Kinds,                      \* cards that may be in the slot
    NX_SDMMC_TIMEOUT_IDENTIFY,  \* tries while the card powers up (0x100000)
    FAULTS                      \* whether commands and answers may be lost
                                \* or damaged

AllKinds == {"none", "SDv1", "SDv2", "SDHC", "MMC", "MMCHC"}

ASSUME SdOpenAssumption ==
    /\ Kinds \subseteq AllKinds
    /\ NX_SDMMC_TIMEOUT_IDENTIFY \in Nat
    /\ FAULTS \subseteq BOOLEAN

VARIABLES
    pc,            \* the command the driver is about to send
    HCS,           \* CMD8 was answered: high capacity may be asked for
    timeout,       \* tries left
    resp,          \* cmd.response[0] of the last SEND_OP_COND; its field
                   \* hurt is history: the answer was damaged on the way
    CardType, rca, bHighCapacity,  \* of SDBOOTSTATUS (CardType is a local
                                   \* of IdentifyCard until it returns)
    CTYPE,         \* bus width register: 0 is 1 bit, 1 is 4 bits
    kind,          \* the card in the slot
    lossy,         \* the way to it loses and damages commands and answers
    card           \* its state

frame == <<HCS, timeout, resp>>
status == <<CardType, rca, bHighCapacity>>
slot == <<kind, lossy>>
vars == <<pc, frame, status, CTYPE, slot, card>>

-----------------------------------------------------------------------------
(* The card                                                                *)

IsSD(k) == k \in {"SDv1", "SDv2", "SDHC"}
IsHC(k) == k \in {"SDHC", "MMCHC"}

\* The address the host gives an MMC card, and one an SD card may choose.
MmcRca == 2
SdRca == 7

NoResponse == [ready |-> FALSE, hc |-> FALSE, rca |-> 0, hurt |-> FALSE]

\* Power-up state, and that of a card left powered by a restart.
Fresh == [state |-> "idle", rca |-> 0, width |-> 1, blklen |-> FALSE,
          app |-> FALSE, v2 |-> FALSE]
Left(k) == [state |-> "tran", rca |-> IF IsSD(k) THEN SdRca ELSE MmcRca,
            width |-> 4, blklen |-> TRUE, app |-> FALSE, v2 |-> FALSE]

\* The commands the card answers in its present state.
Answers(c, arg) ==
    \/ c = "SEND_IF_COND" /\ card.state = "idle" /\ kind \in {"SDv2", "SDHC"}
    \/ /\ c = "APP_CMD" /\ IsSD(kind) /\ arg = card.rca
       /\ card.state \in {"idle", "stby", "tran"}
    \/ c = "SD_SEND_OP_COND" /\ card.state = "idle" /\ card.app
    \/ c = "SEND_OP_COND" /\ card.state = "idle" /\ kind \in {"MMC", "MMCHC"}
    \/ c = "ALL_SEND_CID" /\ card.state = "ready"
    \/ c = "SEND_RELATIVE_ADDR" /\ card.state = "ident" /\ IsSD(kind)
    \/ c = "SET_RELATIVE_ADDR" /\ card.state = "ident" /\ ~ IsSD(kind)
    \/ c = "SELECT_CARD" /\ card.state = "stby" /\ arg = card.rca
    \/ c = "SET_BLOCKLEN" /\ card.state = "tran"
    \/ c \in {"SET_CLR_CARD_DETECT", "SET_BUS_WIDTH"}
          /\ card.state = "tran" /\ card.app
    \/ c = "SWITCH_FUNC" /\ card.state = "tran" /\ ~ IsSD(kind)

\* SDHC stays busy for a host that did not ask for high capacity.
MayPowerUp(arg) == kind = "SDHC" => arg = 1 /\ card.v2

\* The card after a command it answers, power-up apart.
After(c, arg) ==
    [state |-> IF c = "ALL_SEND_CID" THEN "ident"
               ELSE IF c \in {"SEND_RELATIVE_ADDR", "SET_RELATIVE_ADDR"}
                    THEN "stby"
               ELSE IF c = "SELECT_CARD" THEN "tran" ELSE card.state,
     rca |-> IF c = "SEND_RELATIVE_ADDR" THEN SdRca
             ELSE IF c = "SET_RELATIVE_ADDR" THEN arg ELSE card.rca,
     width |-> IF c \in {"SET_BUS_WIDTH", "SWITCH_FUNC"} THEN 4
               ELSE card.width,
     blklen |-> card.blklen \/ c = "SET_BLOCKLEN",
     app |-> (c = "APP_CMD"),
     v2 |-> card.v2 \/ c = "SEND_IF_COND"]

PoweredUpResponse ==
    [ready |-> TRUE, hc |-> IsHC(kind), rca |-> 0, hurt |-> FALSE]
AddressResponse == [NoResponse EXCEPT !.rca = SdRca]

\* What may become of an answer whose CRC is not looked at.
Damaged(c) ==
    IF c \in {"SD_SEND_OP_COND", "SEND_OP_COND"}
    THEN [ready : BOOLEAN, hc : BOOLEAN, rca : {0}, hurt : {TRUE}] ELSE {}

\* What the card does with a command it answers, and its answers.
Effects(c, arg) ==
    {[card |-> After(c, arg),
      resp |-> IF c = "SEND_RELATIVE_ADDR" THEN AddressResponse
               ELSE NoResponse]}
    \cup
    {[card |-> [After(c, arg) EXCEPT !.state = "ready"],
      resp |-> PoweredUpResponse] :
        up \in {x \in {c} \cap {"SD_SEND_OP_COND", "SEND_OP_COND"} :
                   x = "SD_SEND_OP_COND" => MayPowerUp(arg)}}

-----------------------------------------------------------------------------
(* The exchanges                                                           *)

\* NX_SDMMC_SendCommandInternal: the card as the exchange leaves it, and
\* whether the driver got an answer without error.
SendCommandInternal(c, arg) ==
    LET heard == IF Answers(c, arg) THEN Effects(c, arg) ELSE {}
        ignored == [card EXCEPT !.app = FALSE]
        error(x) == [ok |-> FALSE, card |-> x, resp |-> resp]
    IN  {[ok |-> TRUE, card |-> e.card, resp |-> e.resp] : e \in heard}
        \cup (IF ~ Answers(c, arg) THEN {error(ignored)} ELSE {})
        \cup (IF lossy
              THEN {error(card)} \cup {error(e.card) : e \in heard}
                   \cup {[ok |-> TRUE, card |-> e.card, resp |-> r] :
                            e \in heard, r \in Damaged(c)}
              ELSE {})

\* NX_SDMMC_SendCommand: after an error SEND_STATUS is sent, whose answer is
\* not used; if it reaches the card it ends an application command sequence.
SendCommand(c, arg) ==
    LET sent == SendCommandInternal(c, arg)
    IN  sent \cup {[ok |-> FALSE, resp |-> o.resp,
                     card |-> [o.card EXCEPT !.app = FALSE]] :
                        o \in {x \in sent : ~ x.ok}}

\* GO_IDLE_STATE has no response, so nobody notices that it was lost.
GoIdle ==
    \/ card' = Fresh
    \/ lossy /\ card' = card

\* The driver goes on at ok or at err.
Continue(o, ok, err) ==
    /\ card' = o.card
    /\ pc' = IF o.ok THEN ok ELSE err

-----------------------------------------------------------------------------
(* NX_SDMMC_IdentifyCard                                                   *)

Init ==
    /\ pc = "open"
    /\ HCS = 0 /\ timeout = 0 /\ resp = NoResponse
    /\ CardType = "UNKNOWN" /\ rca = 0 /\ bHighCapacity = FALSE /\ CTYPE = 0
    /\ kind \in Kinds /\ lossy \in FAULTS
    /\ card \in {Fresh, Left(kind)}

\* SetClock(400KHz), CTYPE = 0, rca = 0, GO_IDLE_STATE.
Begin ==
    /\ pc = "open"
    /\ CTYPE' = 0 /\ rca' = 0
    /\ \/ lossy /\ pc' = "failed" /\ UNCHANGED card
       \/ pc' = "SEND_IF_COND" /\ GoIdle
    /\ UNCHANGED <<frame, CardType, bHighCapacity, slot>>

\* An answer with another check pattern ends the identification.
SendIfCond ==
    /\ pc = "SEND_IF_COND"
    /\ \E o \in SendCommandInternal("SEND_IF_COND", 0) :
          /\ card' = o.card
          /\ HCS' = IF o.ok THEN 1 ELSE 0
          /\ pc' \in IF o.ok /\ lossy THEN {"APP_CMD", "failed"}
                     ELSE {"APP_CMD"}
    /\ timeout' = NX_SDMMC_TIMEOUT_IDENTIFY
    /\ UNCHANGED <<resp, status, CTYPE, slot>>

\* A card that answers APP_CMD is an SD card, any other is taken for an MMC.
AppCmd ==
    /\ pc = "APP_CMD"
    /\ \E o \in SendCommandInternal("APP_CMD", rca) :
          Continue(o, "SD_SEND_OP_COND", "GO_IDLE_STATE")
    /\ UNCHANGED <<frame, status, CTYPE, slot>>

\* The first SD_SEND_OP_COND.
SdSendOpCond ==
    /\ pc = "SD_SEND_OP_COND"
    /\ \E o \in SendCommandInternal("SD_SEND_OP_COND", HCS) :
          Continue(o, "powerup", "failed") /\ resp' = o.resp
    /\ UNCHANGED <<HCS, timeout, status, CTYPE, slot>>

\* While it is busy, NX_SDMMC_SendAppCommand: APP_CMD ...
PowerUpApp ==
    /\ pc = "powerup" /\ ~ resp.ready
    /\ \E o \in SendCommandInternal("APP_CMD", rca) :
          Continue(o, "powerup41", "failed")
    /\ UNCHANGED <<frame, status, CTYPE, slot>>

\* Mutant: counts only the tries that were answered.
PowerUpOpCond_CountsAnswers ==
    /\ pc = "powerup41"
    /\ \E o \in SendCommand("SD_SEND_OP_COND", HCS) :
          /\ card' = o.card /\ resp' = o.resp
          /\ timeout' = IF o.ok THEN timeout - 1 ELSE timeout
          /\ pc' = IF o.ok /\ timeout <= 0 THEN "failed" ELSE "powerup"
    /\ UNCHANGED <<HCS, status, CTYPE, slot>>

\* ... then the command again, whose own status is dropped.
PowerUpOpCond ==
    /\ pc = "powerup41"
    /\ \E o \in SendCommand("SD_SEND_OP_COND", HCS) :
          card' = o.card /\ resp' = o.resp
    /\ timeout' = timeout - 1
    /\ pc' = IF timeout <= 0 THEN "failed" ELSE "powerup"
    /\ UNCHANGED <<HCS, status, CTYPE, slot>>

\* Mutant: the card is of high capacity if the host can handle it.
PoweredUp_TakesHcs ==
    /\ pc = "powerup" /\ resp.ready
    /\ CardType' = "SDMEM"
    /\ bHighCapacity' = (HCS = 1)
    /\ pc' = "ALL_SEND_CID"
    /\ UNCHANGED <<frame, rca, CTYPE, slot, card>>

PoweredUp ==
    /\ pc = "powerup" /\ resp.ready
    /\ CardType' = "SDMEM"
    /\ bHighCapacity' = resp.hc
    /\ pc' = "ALL_SEND_CID"
    /\ UNCHANGED <<frame, rca, CTYPE, slot, card>>

MmcGoIdle ==
    /\ pc = "GO_IDLE_STATE"
    /\ GoIdle
    /\ pc' = "SEND_OP_COND"
    /\ UNCHANGED <<frame, status, CTYPE, slot>>

\* The timeout is looked at before the answer.
MmcSendOpCond ==
    /\ pc = "SEND_OP_COND"
    /\ \E o \in SendCommand("SEND_OP_COND", 1) :
          /\ card' = o.card /\ resp' = o.resp
          /\ timeout' = IF o.ok THEN timeout - 1 ELSE timeout
          /\ pc' = IF ~ o.ok \/ timeout <= 0 THEN "failed"
                   ELSE IF o.resp.ready THEN "ALL_SEND_CID"
                   ELSE "SEND_OP_COND"
          /\ CardType' = IF pc' = "ALL_SEND_CID" THEN "MMC" ELSE CardType
          /\ bHighCapacity' = IF pc' = "ALL_SEND_CID" THEN o.resp.hc
                              ELSE bHighCapacity
    /\ UNCHANGED <<HCS, rca, CTYPE, slot>>

AllSendCid ==
    /\ pc = "ALL_SEND_CID"
    /\ \E o \in SendCommand("ALL_SEND_CID", 0) :
          Continue(o, "RELATIVE_ADDR", "failed")
    /\ UNCHANGED <<frame, status, CTYPE, slot>>

\* Mutant: asks every card for the address it has chosen.
RelativeAddr_AlwaysAsks ==
    /\ pc = "RELATIVE_ADDR"
    /\ \E o \in SendCommand("SEND_RELATIVE_ADDR", 0) :
          /\ Continue(o, "clock", "failed")
          /\ rca' = IF o.ok THEN o.resp.rca ELSE rca
    /\ UNCHANGED <<frame, CardType, bHighCapacity, CTYPE, slot>>

\* An SD card chooses its address and tells it; an MMC is given one.
RelativeAddr ==
    /\ pc = "RELATIVE_ADDR"
    /\ \E o \in IF CardType = "SDMEM" THEN SendCommand("SEND_RELATIVE_ADDR", 0)
                ELSE SendCommand("SET_RELATIVE_ADDR", MmcRca) :
          /\ Continue(o, "clock", "failed")
          /\ rca' = IF ~ o.ok THEN rca
                    ELSE IF CardType = "SDMEM" THEN o.resp.rca ELSE MmcRca
    /\ UNCHANGED <<frame, CardType, bHighCapacity, CTYPE, slot>>

-----------------------------------------------------------------------------
(* The rest of NX_SDMMC_Open                                               *)

\* SetClock(25MHz), which gives up when the controller stays busy.
FastClock ==
    /\ pc = "clock"
    /\ pc' \in {"SELECT_CARD"} \cup (IF lossy THEN {"failed"} ELSE {})
    /\ UNCHANGED <<frame, status, CTYPE, slot, card>>

SelectCard ==
    /\ pc = "SELECT_CARD"
    /\ \E o \in SendCommand("SELECT_CARD", rca) :
          Continue(o, IF CardType = "SDMEM" THEN "pullup" ELSE "SET_BLOCKLEN",
                   "failed")
    /\ UNCHANGED <<frame, status, CTYPE, slot>>

\* SetCardDetectPullUp, whose result is not used.
SetCardDetectPullUp ==
    /\ \/ /\ pc = "pullup"
          /\ \E o \in SendCommandInternal("APP_CMD", rca) :
                Continue(o, "pullup42", "SET_BLOCKLEN")
       \/ /\ pc = "pullup42"
          /\ \E o \in SendCommand("SET_CLR_CARD_DETECT", 0) :
                Continue(o, "SET_BLOCKLEN", "SET_BLOCKLEN")
    /\ UNCHANGED <<frame, status, CTYPE, slot>>

\* Mutant: goes on when the card did not take the block length.
SetBlockLength_Unchecked ==
    /\ pc = "SET_BLOCKLEN"
    /\ LET next == IF CardType = "SDMEM" THEN "width" ELSE "SWITCH_FUNC"
       IN  \E o \in SendCommand("SET_BLOCKLEN", 512) : Continue(o, next, next)
    /\ UNCHANGED <<frame, status, CTYPE, slot>>

SetBlockLength ==
    /\ pc = "SET_BLOCKLEN"
    /\ \E o \in SendCommand("SET_BLOCKLEN", 512) :
          Continue(o, IF CardType = "SDMEM" THEN "width" ELSE "SWITCH_FUNC",
                   "failed")
    /\ UNCHANGED <<frame, status, CTYPE, slot>>

\* Mutant: the controller is left at one bit.
SetBusWidthMmc_CardOnly ==
    /\ pc = "SWITCH_FUNC"
    /\ \E o \in SendCommand("SWITCH_FUNC", 4) : Continue(o, "opened", "opened")
    /\ UNCHANGED <<frame, status, CTYPE, slot>>

\* SetBusWidth of an MMC; Open does not look at its result.
SetBusWidthMmc ==
    /\ pc = "SWITCH_FUNC"
    /\ \E o \in SendCommand("SWITCH_FUNC", 4) :
          /\ Continue(o, "opened", "opened")
          /\ CTYPE' = IF o.ok THEN 1 ELSE CTYPE
    /\ UNCHANGED <<frame, status, slot>>

\* SetBusWidth of an SD card: APP_CMD ...
SetBusWidthApp ==
    /\ pc = "width"
    /\ \E o \in SendCommandInternal("APP_CMD", rca) :
          Continue(o, "SET_BUS_WIDTH", "opened")
    /\ UNCHANGED <<frame, status, CTYPE, slot>>

\* ... then SET_BUS_WIDTH, whose status NX_SDMMC_SendAppCommand drops.
SetBusWidthSd ==
    /\ pc = "SET_BUS_WIDTH"
    /\ \E o \in SendCommand("SET_BUS_WIDTH", 4) :
          Continue(o, "opened", "opened")
    /\ CTYPE' = 1
    /\ UNCHANGED <<frame, status, slot>>

Next ==
    \/ Begin \/ SendIfCond \/ AppCmd \/ SdSendOpCond
    \/ PowerUpApp \/ PowerUpOpCond \/ PoweredUp
    \/ MmcGoIdle \/ MmcSendOpCond
    \/ AllSendCid \/ RelativeAddr \/ FastClock \/ SelectCard
    \/ SetCardDetectPullUp \/ SetBlockLength
    \/ SetBusWidthMmc \/ SetBusWidthApp \/ SetBusWidthSd

Spec == Init /\ [][Next]_vars

(* The driver runs: NX_SDMMC_Open waits for nothing but its own polls. *)
FairSpec == Spec /\ WF_vars(Next)

-----------------------------------------------------------------------------
TypeOK ==
    /\ pc \in {"open", "SEND_IF_COND", "APP_CMD", "SD_SEND_OP_COND", "powerup",
               "powerup41", "GO_IDLE_STATE", "SEND_OP_COND", "ALL_SEND_CID",
               "RELATIVE_ADDR", "clock", "SELECT_CARD", "pullup", "pullup42",
               "SET_BLOCKLEN", "SWITCH_FUNC", "width", "SET_BUS_WIDTH",
               "opened", "failed"}
    /\ HCS \in 0 .. 1 /\ CTYPE \in 0 .. 1
    /\ timeout \in -1 .. NX_SDMMC_TIMEOUT_IDENTIFY
    /\ resp \in [ready : BOOLEAN, hc : BOOLEAN, rca : {0, SdRca},
                 hurt : BOOLEAN]
    /\ CardType \in {"UNKNOWN", "SDMEM", "MMC"}
    /\ rca \in {0, MmcRca, SdRca}
    /\ bHighCapacity \in BOOLEAN
    /\ kind \in Kinds /\ lossy \in FAULTS
    /\ card \in [state : {"idle", "ready", "ident", "stby", "tran"},
                 rca : {0, MmcRca, SdRca}, width : {1, 4},
                 blklen : BOOLEAN, app : BOOLEAN, v2 : BOOLEAN]

(***************************************************************************)
(* When NX_SDMMC_Open returns 1 the card is selected, answers to the       *)
(* address the driver will use and has taken the block length, whatever    *)
(* was lost or repeated on the way and whatever state a restart left the   *)
(* card in.                                                                *)
(***************************************************************************)
OpenedReady ==
    pc = "opened" => card.state = "tran" /\ card.rca = rca /\ card.blklen

(***************************************************************************)
(* ReadSectors turns a sector number into a byte address unless            *)
(* bHighCapacity: an opened card is taken for the kind it is, and is       *)
(* addressed the way it counts unless the very answer that ended its       *)
(* power-up was damaged.  Other losses and damages, an earlier damaged     *)
(* answer included, do not lead to a wrong addressing.                     *)
(***************************************************************************)
AddressingAgrees ==
    pc = "opened" =>
        /\ CardType = IF IsSD(kind) THEN "SDMEM" ELSE "MMC"
        /\ resp.hurt \/ bHighCapacity = IsHC(kind)

(***************************************************************************)
(* The same with no exception, which the code does not give: a damaged     *)
(* OCR that says "ready" is taken as it came, and so is its CCS bit.       *)
(***************************************************************************)
AddressingAlways == pc = "opened" => bHighCapacity = IsHC(kind)

(***************************************************************************)
(* "0 : 1-bit mode, 1 : 4-bit mode" (iSDBOOT.c:711): when the card is      *)
(* opened the controller and the card drive the same number of data lines. *)
(***************************************************************************)
WidthAgrees == pc = "opened" => (CTYPE = 1 <=> card.width = 4)

\* Where nothing is lost, they do.
WidthAgreesClean == ~ lossy => WidthAgrees

(***************************************************************************)
(* Where nothing is lost, NX_SDMMC_Open gives up only on an empty slot or  *)
(* on a card that stayed busy for all the tries.                           *)
(***************************************************************************)
FailsForAReason ==
    pc = "failed" /\ ~ lossy => kind = "none" \/ timeout < 0

\* NX_SDMMC_Open returns, whatever the card answers or does not.
OpenReturns == <>(pc \in {"opened", "failed"})
=============================================================================
