------------------------------- MODULE SdRead -------------------------------
(***************************************************************************)
(* The read path of the boot ROM's SD/MMC driver: NX_SDMMC_ReadSectors and *)
(* NX_SDMMC_ReadSectorData (nexell_riscv/romboot/src/iSDBOOT.c), polled    *)
(* against a host controller that fills its receive FIFO and raises its    *)
(* raw interrupt bits meanwhile.                                           *)
(*                                                                         *)
(* A driver step is one access to RINTSTS or STATUS and what follows from  *)
(* it; a command exchange (module SdCommand) is one step that succeeds or  *)
(* fails.  A word of data is the pair of the read it belongs to and its    *)
(* place in it.  The controller and the card are external: what they do is *)
(* what the driver's loops are written to wait for.                        *)
(***************************************************************************)
EXTENDS Integers, Sequences

CONSTANTS
    BLOCK_LENGTH,     \* words in a block (128)
    NX_SDMMC_TIMEOUT, \* polls of an empty FIFO (0x100000)
    WORD,             \* an unsigned int holds 0 .. WORD - 1 (2^32)
    FIFO_DEPTH,       \* words the receive FIFO holds
    RX_WMARK,         \* FIFO level that raises RXDR (8)
    LAG,              \* DTO can be seen before the last word is in the FIFO
    Sectors,          \* numberOfSector of the calls
    MAX_READS         \* calls of ReadSectors

ASSUME SdReadAssumption ==
    /\ BLOCK_LENGTH \in Nat \ {0}
    /\ NX_SDMMC_TIMEOUT \in Nat \ {0}
    /\ FIFO_DEPTH \in Nat \ {0}
    /\ RX_WMARK \in 1 .. FIFO_DEPTH
    /\ Sectors \subseteq Nat
    /\ WORD \in Nat
    /\ NX_SDMMC_TIMEOUT < WORD /\ BLOCK_LENGTH < WORD
    /\ \A n \in Sectors : n * BLOCK_LENGTH < WORD
    /\ LAG \in BOOLEAN
    /\ MAX_READS \in Nat

VARIABLES
    \* the driver
    pc,             \* where ReadSectors is
    numberOfSector, \* its argument
    count,          \* words still to be read
    Timeout,        \* polls of an empty FIFO left
    buffer,         \* what was stored at pdwBuffer
    reads,          \* calls made so far
    \* the controller and the card
    RINTSTS,        \* raw interrupt bits that are set
    fifo,           \* receive FIFO
    pipe,           \* the word between the card and the FIFO
    sent, total,    \* words the card has sent, and has to send
    active,         \* a data transfer is in progress (FSMBUSY)
    autostop,       \* the controller has yet to finish CMD12 by itself
    bad             \* the transfer met a data error

driver == <<pc, numberOfSector, count, Timeout, buffer, reads>>
card == <<sent, total, active, autostop, bad>>
vars == <<driver, RINTSTS, fifo, pipe, card>>

DataErrors == {"DRTO", "EBE", "SBE", "DCRC"}
Bits == {"RXDR", "DTO", "HTO", "ACD"} \cup DataErrors

\* The read in progress: what a correct one leaves at pdwBuffer.
Wanted(n) == [i \in 1 .. n |-> <<reads, i>>]

Init ==
    /\ pc = "ok" /\ numberOfSector = 1 /\ count = 0 /\ Timeout = 0
    /\ buffer = <<>> /\ reads = 0
    /\ RINTSTS = {} /\ fifo = <<>> /\ pipe = <<>>
    /\ sent = 0 /\ total = 0
    /\ active = FALSE /\ autostop = FALSE /\ bad = FALSE

-----------------------------------------------------------------------------
(* NX_SDMMC_ReadSectors                                                    *)

(* SDMMCBOOT reads again only after a success, and an image of no sectors *)
(* is the last thing it reads.                                            *)
Call ==
    /\ pc = "ok" /\ reads < MAX_READS
    /\ reads > 0 => numberOfSector > 0
    /\ numberOfSector' \in Sectors
    /\ reads' = reads + 1
    /\ buffer' = <<>>
    /\ count' = 0
    /\ pc' = "busy"
    /\ UNCHANGED <<Timeout, RINTSTS, fifo, pipe, card>>

\* Mutant: does not wait for the last transfer.
WaitWhileBusy_NoWait ==
    /\ pc = "busy"
    /\ pc' = "status"
    /\ UNCHANGED <<numberOfSector, count, Timeout, buffer, reads>>
    /\ UNCHANGED <<RINTSTS, fifo, pipe, card>>

\* while (STATUS & (1 << 9 | 1 << 10))
WaitWhileBusy ==
    /\ pc = "busy"
    /\ ~ active
    /\ pc' = "status"
    /\ UNCHANGED <<numberOfSector, count, Timeout, buffer, reads>>
    /\ UNCHANGED <<RINTSTS, fifo, pipe, card>>

(* SEND_STATUS until the card says it is ready and in the transfer state;  *)
(* every command begins by clearing RINTSTS.                               *)
SendStatus ==
    /\ pc = "status"
    /\ RINTSTS' = {}
    /\ pc' \in {"status", "read", "stop"}
    /\ UNCHANGED <<numberOfSector, count, Timeout, buffer, reads>>
    /\ UNCHANGED <<fifo, pipe, card>>

(* READ_SINGLE_BLOCK or READ_MULTIPLE_BLOCK.  The card may have taken a    *)
(* command whose response the controller did not.  A byte count of zero    *)
(* does not keep the card from sending its block.                          *)
SendRead ==
    /\ pc = "read"
    /\ RINTSTS' = {}
    /\ \E taken, answered \in BOOLEAN :
          /\ answered => taken
          /\ pc' = IF answered THEN "loop" ELSE "stop"
          /\ active' = taken
          /\ autostop' = (taken /\ numberOfSector > 1)
    /\ count' = numberOfSector * BLOCK_LENGTH
    /\ total' = (IF numberOfSector = 0 THEN 1 ELSE numberOfSector)
                   * BLOCK_LENGTH
    /\ sent' = 0 /\ bad' = FALSE
    /\ UNCHANGED <<numberOfSector, Timeout, buffer, reads, fifo, pipe>>

(* After the data: a multiple read waits for the auto-stop command.        *)
WaitAutoStop ==
    /\ pc = "acd"
    /\ numberOfSector > 1 => "ACD" \in RINTSTS
    /\ pc' = "ok"
    /\ UNCHANGED <<numberOfSector, count, Timeout, buffer, reads>>
    /\ UNCHANGED <<RINTSTS, fifo, pipe, card>>

(* Label End after a failure: STOP_TRANSMISSION, which may be lost, ...    *)
StopTransmission ==
    /\ pc = "stop"
    /\ RINTSTS' = {}
    /\ \/ /\ active' = FALSE /\ autostop' = FALSE /\ pipe' = <<>>
       \/ UNCHANGED <<active, autostop, pipe>>
    /\ pc' = "reset"
    /\ UNCHANGED <<numberOfSector, count, Timeout, buffer, reads>>
    /\ UNCHANGED <<fifo, sent, total, bad>>

(* ... then a FIFO that is not empty is reset.                             *)
ResetFifo ==
    /\ pc = "reset"
    /\ fifo' = <<>>
    /\ pc' = "failed"
    /\ UNCHANGED <<numberOfSector, count, Timeout, buffer, reads>>
    /\ UNCHANGED <<RINTSTS, pipe, card>>

-----------------------------------------------------------------------------
(* NX_SDMMC_ReadSectorData                                                 *)

\* Mutant: waits for RXDR only, so the tail of a read is never fetched.
LoopHead_NoDto ==
    /\ pc = "loop"
    /\ \/ count = 0 /\ pc' = "end" /\ UNCHANGED Timeout
       \/ /\ count > 0 /\ "RXDR" \in RINTSTS
          /\ Timeout' = NX_SDMMC_TIMEOUT
          /\ pc' = "wait"
       \/ /\ count > 0 /\ "RXDR" \notin RINTSTS
          /\ pc' = "errors" /\ UNCHANGED Timeout
    /\ UNCHANGED <<numberOfSector, count, buffer, reads>>
    /\ UNCHANGED <<RINTSTS, fifo, pipe, card>>

\* while (0 < count), and the test of RXDR and DTO.
LoopHead ==
    /\ pc = "loop"
    /\ \/ count = 0 /\ pc' = "end" /\ UNCHANGED Timeout
       \/ /\ count > 0 /\ RINTSTS \cap {"RXDR", "DTO"} # {}
          /\ Timeout' = NX_SDMMC_TIMEOUT
          /\ pc' = "wait"
       \/ /\ count > 0 /\ RINTSTS \cap {"RXDR", "DTO"} = {}
          /\ pc' = "errors" /\ UNCHANGED Timeout
    /\ UNCHANGED <<numberOfSector, count, buffer, reads>>
    /\ UNCHANGED <<RINTSTS, fifo, pipe, card>>

\* while (FIFOEMPTY && Timeout--), and if (0 == Timeout) break.
PollFifo ==
    /\ pc = "wait"
    /\ \/ /\ fifo = <<>> /\ Timeout > 0
          /\ Timeout' = Timeout - 1 /\ pc' = "wait"
       \/ /\ fifo = <<>> /\ Timeout = 0
          /\ Timeout' = WORD - 1 /\ pc' = "drain"
       \/ /\ fifo # <<>>
          /\ pc' = IF Timeout = 0 THEN "end" ELSE "drain"
          /\ UNCHANGED Timeout
    /\ UNCHANGED <<numberOfSector, count, buffer, reads>>
    /\ UNCHANGED <<RINTSTS, fifo, pipe, card>>

\* Read FIFOCOUNT words; count is unsigned.
DrainFifo ==
    /\ pc = "drain"
    /\ count' = (count - Len(fifo)) % WORD
    /\ buffer' = buffer \o fifo
    /\ fifo' = <<>>
    /\ pc' = "ack"
    /\ UNCHANGED <<numberOfSector, Timeout, reads, RINTSTS, pipe, card>>

\* RXDR is cleared after the words are read, whatever has come since.
AckRxdr ==
    /\ pc = "ack"
    /\ RINTSTS' = RINTSTS \ {"RXDR"}
    /\ pc' = "errors"
    /\ UNCHANGED <<numberOfSector, count, Timeout, buffer, reads>>
    /\ UNCHANGED <<fifo, pipe, card>>

\* Mutant: a bad CRC is not an error.
CheckErrors_NoDcrc ==
    /\ pc = "errors"
    /\ pc' = IF RINTSTS \cap (DataErrors \ {"DCRC"}) # {} THEN "stop" ELSE "dto"
    /\ UNCHANGED <<numberOfSector, count, Timeout, buffer, reads>>
    /\ UNCHANGED <<RINTSTS, fifo, pipe, card>>

CheckErrors ==
    /\ pc = "errors"
    /\ pc' = IF RINTSTS \cap DataErrors # {} THEN "stop" ELSE "dto"
    /\ UNCHANGED <<numberOfSector, count, Timeout, buffer, reads>>
    /\ UNCHANGED <<RINTSTS, fifo, pipe, card>>

\* DTO ends the loop once everything is read.
CheckDto ==
    /\ pc = "dto"
    /\ pc' = IF "DTO" \in RINTSTS /\ count = 0 THEN "end" ELSE "hto"
    /\ UNCHANGED <<numberOfSector, count, Timeout, buffer, reads>>
    /\ UNCHANGED <<RINTSTS, fifo, pipe, card>>

\* Mutant: empties the FIFO on HTO, as a stop command does.
CheckHto_ClearsFifo ==
    /\ pc = "hto"
    /\ RINTSTS' = RINTSTS \ {"HTO"}
    /\ fifo' = IF "HTO" \in RINTSTS THEN <<>> ELSE fifo
    /\ pc' = "loop"
    /\ UNCHANGED <<numberOfSector, count, Timeout, buffer, reads>>
    /\ UNCHANGED <<pipe, card>>

CheckHto ==
    /\ pc = "hto"
    /\ RINTSTS' = RINTSTS \ {"HTO"}
    /\ pc' = "loop"
    /\ UNCHANGED <<numberOfSector, count, Timeout, buffer, reads>>
    /\ UNCHANGED <<fifo, pipe, card>>

\* RINTSTS = DTO; return 1.
ReturnOne ==
    /\ pc = "end"
    /\ RINTSTS' = RINTSTS \ {"DTO"}
    /\ pc' = "acd"
    /\ UNCHANGED <<numberOfSector, count, Timeout, buffer, reads>>
    /\ UNCHANGED <<fifo, pipe, card>>

Driver ==
    \/ Call \/ WaitWhileBusy \/ SendStatus \/ SendRead \/ WaitAutoStop
    \/ StopTransmission \/ ResetFifo
    \/ LoopHead \/ PollFifo \/ DrainFifo \/ AckRxdr
    \/ CheckErrors \/ CheckDto \/ CheckHto \/ ReturnOne

-----------------------------------------------------------------------------
(* The controller and the card                                             *)

SendWord ==
    /\ active /\ sent < total /\ pipe = <<>>
    /\ sent' = sent + 1
    /\ pipe' = << <<reads, sent + 1>> >>
    /\ UNCHANGED <<driver, RINTSTS, fifo, total, active, autostop, bad>>

\* The card's clock stops while the FIFO is full.
PushWord ==
    /\ pipe # <<>> /\ Len(fifo) < FIFO_DEPTH
    /\ fifo' = fifo \o pipe
    /\ pipe' = <<>>
    /\ UNCHANGED <<driver, RINTSTS, card>>

RaiseRxdr ==
    /\ Len(fifo) >= RX_WMARK /\ "RXDR" \notin RINTSTS
    /\ RINTSTS' = RINTSTS \cup {"RXDR"}
    /\ UNCHANGED <<driver, fifo, pipe, card>>

\* The CRC of a block comes after its last word and before DTO.
RaiseError ==
    /\ active /\ ~ bad
    /\ \E e \in DataErrors : RINTSTS' = RINTSTS \cup {e}
    /\ bad' = TRUE
    /\ UNCHANGED <<driver, fifo, pipe, sent, total, active, autostop>>

RaiseDto ==
    /\ active /\ (sent = total \/ bad)
    /\ LAG \/ pipe = <<>>
    /\ RINTSTS' = RINTSTS \cup {"DTO"}
    /\ active' = FALSE
    /\ UNCHANGED <<driver, fifo, pipe, sent, total, autostop, bad>>

RaiseHto ==
    /\ active /\ Len(fifo) = FIFO_DEPTH /\ "HTO" \notin RINTSTS
    /\ RINTSTS' = RINTSTS \cup {"HTO"}
    /\ UNCHANGED <<driver, fifo, pipe, card>>

RaiseAcd ==
    /\ autostop /\ ~ active
    /\ RINTSTS' = RINTSTS \cup {"ACD"}
    /\ autostop' = FALSE
    /\ UNCHANGED <<driver, fifo, pipe, sent, total, active, bad>>

Controller ==
    \/ SendWord \/ PushWord \/ RaiseRxdr \/ RaiseError \/ RaiseDto
    \/ RaiseHto \/ RaiseAcd

Next == Driver \/ Controller

Spec == Init /\ [][Next]_vars

(* The processor runs; the controller moves words, ends transfers and      *)
(* tells the driver so; a card that is asked often enough gets ready.      *)
(* Errors and lost commands need not happen.                               *)
FairSpec ==
    /\ Spec
    /\ WF_vars(Driver) /\ SF_vars(SendStatus /\ pc' # "status")
    /\ WF_vars(SendWord) /\ WF_vars(PushWord)
    /\ WF_vars(RaiseRxdr) /\ WF_vars(RaiseDto) /\ WF_vars(RaiseAcd)

-----------------------------------------------------------------------------
InLoop == pc \in {"loop", "wait", "drain", "ack", "errors", "dto", "hto"}
Succeeded == reads > 0 /\ pc \in {"acd", "ok"}

TypeOK ==
    /\ \/ InLoop
       \/ pc \in {"ok", "busy", "status", "read", "end", "acd", "stop",
                   "reset", "failed"}
    /\ numberOfSector \in Sectors \cup {1}
    /\ count \in 0 .. WORD - 1 /\ Timeout \in 0 .. WORD - 1
    /\ buffer \in Seq(Nat \X Nat)
    /\ reads \in 0 .. MAX_READS
    /\ RINTSTS \subseteq Bits
    /\ fifo \in Seq(Nat \X Nat) /\ Len(fifo) <= FIFO_DEPTH
    /\ pipe \in Seq(Nat \X Nat) /\ Len(pipe) <= 1
    /\ sent \in 0 .. total /\ total \in Nat
    /\ active \in BOOLEAN /\ autostop \in BOOLEAN /\ bad \in BOOLEAN

(***************************************************************************)
(* What is stored at pdwBuffer is always the beginning of the read that    *)
(* was asked for: no word of an earlier read, none twice, none left out,   *)
(* none past the end, however the FIFO fills while it is drained.  When    *)
(* ReadSectors returns 1 it is all of it.                                  *)
(***************************************************************************)
InOrder ==
    InLoop \/ Succeeded =>
        /\ Len(buffer) <= numberOfSector * BLOCK_LENGTH
        /\ Succeeded => Len(buffer) = numberOfSector * BLOCK_LENGTH
        /\ buffer = Wanted(Len(buffer))

(***************************************************************************)
(* The assertions before a read command (iSDBOOT.c:1091-1093): whatever    *)
(* the last read left running is over and the FIFO holds nothing of it.    *)
(***************************************************************************)
CleanBeforeRead == pc = "read" => ~ active /\ pipe = <<>> /\ fifo = <<>>

(***************************************************************************)
(* A data error that shows in RINTSTS while words are still missing makes  *)
(* ReadSectors fail.                                                       *)
(***************************************************************************)
EarlyErrorFails ==
    (InLoop /\ count > 0 /\ RINTSTS \cap DataErrors # {}) ~> pc = "failed"

\* Every call returns: no loop of the driver waits for what cannot come.
ReadReturns == pc = "busy" ~> pc \in {"ok", "failed"}

(***************************************************************************)
(* "Check Errors" (iSDBOOT.c:1006): once the transfer of a successful read *)
(* is over, none of its blocks had a data error.                           *)
(***************************************************************************)
NoErrorAccepted == Succeeded /\ ~ active => ~ bad

(***************************************************************************)
(* The assertions after the data (iSDBOOT.c:1140-1143): a successful       *)
(* ReadSectorData leaves the FIFO empty.                                   *)
(***************************************************************************)
FifoEmptyAfterData == pc = "acd" => fifo = <<>>
=============================================================================
