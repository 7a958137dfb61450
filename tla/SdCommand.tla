----------------------------- MODULE SdCommand -----------------------------
(***************************************************************************)
(* One command of the boot ROM's SD/MMC driver at the level of registers:  *)
(* NX_SDMMC_SendCommandInternal and NX_SDMMC_SetClock                      *)
(* (nexell_riscv/romboot/src/iSDBOOT.c), called one after the other.       *)
(*                                                                         *)
(* Every loop of the driver counts polls; nothing relates its count to the *)
(* speed of the controller, so a call may give up at any time on a command *)
(* that the controller goes on with.  A driver step is one register access *)
(* and what follows from it.  The controller and the card are external.    *)
(***************************************************************************)
EXTENDS Integers

CONSTANTS
    NX_SDMMC_TIMEOUT, \* polls of a loop (0x100000)
    FIFO_DEPTH,       \* words the receive FIFO holds
    WORDS,            \* words a read command makes the card send
    MAX_CALLS         \* calls of the two functions

ASSUME SdCommandAssumption ==
    /\ NX_SDMMC_TIMEOUT \in Nat
    /\ FIFO_DEPTH \in Nat \ {0}
    /\ WORDS \in Nat
    /\ MAX_CALLS \in Nat

\* Commands by their flags: "r1b" is a command with response R1B, "read" one
\* that moves data, "stop" is STOP_TRANSMISSION, "idle" is GO_IDLE_STATE;
\* SetClock updates the clock once ("off") or twice ("off", then "on").
Responding == {"cmd", "r1b", "read", "stop"}
StopAbort == {"stop", "idle"}
Clock == {"off", "on"}
Kinds == Responding \cup StopAbort \cup Clock

ResponseErrors == {"RCRC", "RE", "RTO"}

VARIABLES
    \* the driver
    pc, calls, kind,  \* where it is, in which call, of what
    timeout,          \* polls counted
    status,           \* of the call
    response,         \* the call whose response is in pCommand->response
    \* the controller and the card
    RINTSTS,          \* raw interrupt bits that are set
    START,            \* the start bit of CMD
    loaded,           \* the command in CMD
    executing,        \* the command on its way to the card and back
    RESP,             \* the call whose response is in the register
    DATABUSY,         \* the card is busy
    fifo, left,       \* words in the FIFO, and to come
    \* history of the call
    quiet,            \* the controller was idle when it began
    sent,             \* times its command was executed
    failed            \* the errors its command was answered with

driver == <<pc, calls, kind, timeout, status, response>>
command == <<START, loaded, executing, RESP, DATABUSY>>
data == <<fifo, left>>
history == <<quiet, sent, failed>>
vars == <<driver, RINTSTS, command, data, history>>

None == [call |-> 0, kind |-> "idle"]
Current == [call |-> calls, kind |-> kind]

Init ==
    /\ pc = "return" /\ calls = 0 /\ kind = "idle" /\ timeout = 0
    /\ status = "NOERROR" /\ response = 0
    /\ RINTSTS = {} /\ START = FALSE /\ loaded = None /\ executing = None
    /\ RESP = 0 /\ DATABUSY = FALSE /\ fifo = 0 /\ left = 0
    /\ quiet = TRUE /\ sent = 0 /\ failed = {}

-----------------------------------------------------------------------------
(* The driver                                                              *)

\* MUTANT: RINTSTS keeps what the last command left there.
Call_KeepsRintsts(k) ==
    /\ pc = "return" /\ calls < MAX_CALLS
    /\ calls' = calls + 1 /\ kind' = k
    /\ pc' = "write" /\ timeout' = 0 /\ status' = "NOERROR"
    /\ quiet' = (~ START /\ executing = None)
    /\ sent' = 0 /\ failed' = {}
    /\ UNCHANGED <<response, RINTSTS, command, data>>

\* A call, until it first writes CMD.  SetClock leaves RINTSTS alone.
Call(k) ==
    /\ pc = "return" /\ calls < MAX_CALLS
    /\ calls' = calls + 1 /\ kind' = k
    /\ pc' = "write" /\ timeout' = 0 /\ status' = "NOERROR"
    /\ RINTSTS' = IF k \in Clock THEN RINTSTS ELSE {}
    /\ quiet' = (~ START /\ executing = None)
    /\ sent' = 0 /\ failed' = {}
    /\ UNCHANGED <<response, command, data>>

\* MUTANT: HLE is not cleared before the command is written.
WriteCommand_KeepsHle ==
    /\ pc = "write"
    /\ RINTSTS' = RINTSTS \cup (IF START THEN {"HLE"} ELSE {})
    /\ START' = TRUE
    /\ loaded' = IF START THEN loaded ELSE Current
    /\ pc' = "start"
    /\ UNCHANGED <<calls, kind, timeout, status, response>>
    /\ UNCHANGED <<executing, RESP, DATABUSY, data, history>>

\* CMDARG and CMD.  While the start bit is set the controller takes no
\* write and raises HLE.
WriteCommand ==
    /\ pc = "write"
    /\ LET cleared == IF kind \in Clock THEN RINTSTS ELSE RINTSTS \ {"HLE"}
       IN  RINTSTS' = cleared \cup (IF START THEN {"HLE"} ELSE {})
    /\ START' = TRUE
    /\ loaded' = IF START THEN loaded ELSE Current
    /\ pc' = "start"
    /\ UNCHANGED <<calls, kind, timeout, status, response>>
    /\ UNCHANGED <<executing, RESP, DATABUSY, data, history>>

\* One more poll of the register that pc names, and the error of the last.
CountPoll(here, error) ==
    /\ timeout' = timeout + 1
    /\ pc' = IF timeout' > NX_SDMMC_TIMEOUT THEN "return" ELSE here
    /\ status' = IF timeout' > NX_SDMMC_TIMEOUT THEN error ELSE status

\* while (CMD & STARTCMD)
PollStart ==
    /\ pc = "start"
    /\ \/ START /\ CountPoll("start", "CMDBUSY")
       \/ ~ START /\ pc' = "hle" /\ UNCHANGED <<timeout, status>>
    /\ UNCHANGED <<calls, kind, response, RINTSTS, command, data, history>>

\* SendCommandInternal: the command again while HLE is set, with the polls
\* of all the tries counted together.
CheckHle ==
    /\ pc = "hle" /\ kind \notin Clock
    /\ \/ "HLE" \in RINTSTS /\ pc' = "write" /\ UNCHANGED timeout
       \/ "HLE" \notin RINTSTS /\ pc' = "cd" /\ timeout' = 0
    /\ UNCHANGED <<calls, kind, status, response>>
    /\ UNCHANGED <<RINTSTS, command, data, history>>

\* SetClock: likewise, but HLE is cleared after it was seen and the polls
\* start again.  Then the clock is enabled, if it shall be.
CheckHleClock ==
    /\ pc = "hle" /\ kind \in Clock
    /\ \/ /\ "HLE" \in RINTSTS
          /\ RINTSTS' = RINTSTS \ {"HLE"} /\ timeout' = 0
          /\ pc' = "write" /\ UNCHANGED kind
       \/ /\ "HLE" \notin RINTSTS /\ kind = "off"
          /\ pc' = "write" /\ kind' = "on" /\ timeout' = 0
          /\ UNCHANGED RINTSTS
       \/ /\ "HLE" \notin RINTSTS
          /\ pc' = "return" /\ UNCHANGED <<kind, timeout, RINTSTS>>
    /\ UNCHANGED <<calls, status, response, command, data, history>>

\* MUTANT: the polls are counted only while a FIFO may have to be emptied.
PollDone_NoCount ==
    /\ pc = "cd"
    /\ \/ /\ "CD" \in RINTSTS
          /\ pc' = "response" /\ UNCHANGED <<timeout, status>>
       \/ /\ "CD" \notin RINTSTS /\ kind \in StopAbort
          /\ CountPoll("hto", "CMDTOUT")
       \/ /\ "CD" \notin RINTSTS /\ kind \notin StopAbort
          /\ UNCHANGED <<pc, timeout, status>>
    /\ UNCHANGED <<calls, kind, response, RINTSTS, command, data, history>>

\* while (1): until CD ...
PollDone ==
    /\ pc = "cd"
    /\ \/ /\ "CD" \in RINTSTS
          /\ pc' = "response" /\ UNCHANGED <<timeout, status>>
       \/ /\ "CD" \notin RINTSTS
          /\ CountPoll(IF kind \in StopAbort THEN "hto" ELSE "cd", "CMDTOUT")
    /\ UNCHANGED <<calls, kind, response, RINTSTS, command, data, history>>

\* ... and if the command is to stop a transfer that starves, the FIFO is
\* read until it is empty.
CheckHto ==
    /\ pc = "hto"
    /\ pc' = IF "HTO" \in RINTSTS THEN "drain" ELSE "cd"
    /\ UNCHANGED <<calls, kind, timeout, status, response>>
    /\ UNCHANGED <<RINTSTS, command, data, history>>

DrainFifo ==
    /\ pc = "drain"
    /\ \/ fifo > 0 /\ fifo' = fifo - 1 /\ UNCHANGED pc
       \/ fifo = 0 /\ pc' = "cd" /\ UNCHANGED fifo
    /\ UNCHANGED <<calls, kind, timeout, status, response>>
    /\ UNCHANGED <<RINTSTS, command, left, history>>

\* Response errors; else the response, and for R1B the wait for the card.
CheckResponse ==
    /\ pc = "response"
    /\ LET ok == RINTSTS \cap ResponseErrors = {}
       IN  /\ status' = IF ok THEN status ELSE "RESPONSE"
           /\ response' = IF ok /\ kind \in Responding THEN RESP ELSE response
           /\ pc' = IF ok /\ kind \in {"r1b", "stop"} THEN "busy" ELSE "return"
    /\ timeout' = 0
    /\ UNCHANGED <<calls, kind, RINTSTS, command, data, history>>

\* do { ++timeout ... } while (STATUS & DATABUSY): counts before it looks.
PollBusy ==
    /\ pc = "busy"
    /\ timeout' = timeout + 1
    /\ \/ /\ timeout' > NX_SDMMC_TIMEOUT
          /\ pc' = "return" /\ status' = "DATABUSY"
       \/ /\ timeout' <= NX_SDMMC_TIMEOUT
          /\ pc' = IF DATABUSY THEN "busy" ELSE "return"
          /\ UNCHANGED status
    /\ UNCHANGED <<calls, kind, response, RINTSTS, command, data, history>>

Driver ==
    \/ WriteCommand \/ PollStart \/ CheckHle \/ CheckHleClock
    \/ PollDone \/ CheckHto \/ DrainFifo \/ CheckResponse \/ PollBusy

-----------------------------------------------------------------------------
(* The controller and the card                                             *)

\* One command at a time; a clock update does not reach the card.
TakeCommand ==
    /\ START /\ executing = None
    /\ START' = FALSE
    /\ executing' = IF loaded.kind \in Clock THEN None ELSE loaded
    /\ sent' = IF loaded.call = calls THEN sent + 1 ELSE sent
    /\ UNCHANGED <<driver, RINTSTS, loaded, RESP, DATABUSY, data>>
    /\ UNCHANGED <<quiet, failed>>

\* CD, with the response or an error.  A stop waits for a starved FIFO.
Complete ==
    /\ executing # None
    /\ executing.kind = "stop" => "HTO" \notin RINTSTS \/ fifo = 0
    /\ executing' = None
    /\ \E e \in SUBSET ResponseErrors :
          /\ executing.kind \notin Responding => e = {}
          /\ RINTSTS' = RINTSTS \cup {"CD"} \cup e
          /\ RESP' = IF executing.kind \in Responding /\ "RTO" \notin e
                     THEN executing.call ELSE RESP
          /\ failed' = IF executing.call = calls THEN e ELSE failed
    /\ DATABUSY' \in IF executing.kind \in {"r1b", "stop"} THEN BOOLEAN
                     ELSE {DATABUSY}
    /\ left' = IF executing.kind = "read" THEN WORDS
               ELSE IF executing.kind \in StopAbort THEN 0 ELSE left
    /\ UNCHANGED <<driver, START, loaded, fifo, quiet, sent>>

PushWord ==
    /\ left > 0 /\ fifo < FIFO_DEPTH
    /\ fifo' = fifo + 1 /\ left' = left - 1
    /\ UNCHANGED <<driver, RINTSTS, command, history>>

RaiseHto ==
    /\ left > 0 /\ fifo = FIFO_DEPTH /\ "HTO" \notin RINTSTS
    /\ RINTSTS' = RINTSTS \cup {"HTO"}
    /\ UNCHANGED <<driver, command, data, history>>

CardReady ==
    /\ DATABUSY
    /\ DATABUSY' = FALSE
    /\ UNCHANGED <<driver, RINTSTS, START, loaded, executing, RESP>>
    /\ UNCHANGED <<data, history>>

Controller == TakeCommand \/ Complete \/ PushWord \/ RaiseHto \/ CardReady

Next ==
    \/ \E k \in Kinds \ {"on"} : Call(k)
    \/ Driver
    \/ Controller

Spec == Init /\ [][Next]_vars

(* The processor runs.  The controller need not do anything.               *)
FairSpec == Spec /\ WF_vars(Driver)

-----------------------------------------------------------------------------
TypeOK ==
    /\ pc \in {"write", "start", "hle", "cd", "hto", "drain", "response",
               "busy", "return"}
    /\ calls \in 0 .. MAX_CALLS /\ kind \in Kinds
    /\ timeout \in 0 .. NX_SDMMC_TIMEOUT + 1
    /\ status \in {"NOERROR", "CMDBUSY", "CMDTOUT", "RESPONSE", "DATABUSY"}
    /\ response \in 0 .. calls
    /\ RINTSTS \subseteq {"CD", "HLE", "HTO"} \cup ResponseErrors
    /\ START \in BOOLEAN /\ DATABUSY \in BOOLEAN
    /\ loaded \in [call : Nat, kind : Kinds] /\ loaded.call <= calls
    /\ executing \in [call : Nat, kind : Kinds] /\ executing.call <= calls
    /\ RESP \in 0 .. calls
    /\ fifo \in 0 .. FIFO_DEPTH /\ left \in 0 .. WORDS
    /\ quiet \in BOOLEAN /\ sent \in Nat /\ failed \subseteq ResponseErrors

(***************************************************************************)
(* A call that found the controller idle and returns without error has the *)
(* response of its own command, undamaged: not the bits nor the response   *)
(* that an earlier command left in the registers.                          *)
(***************************************************************************)
OwnAnswer ==
    pc = "return" /\ status = "NOERROR" /\ quiet /\ kind \in Responding =>
        response = calls /\ failed = {}

(***************************************************************************)
(* A command that has to be written again because of HLE is still executed *)
(* at most once, even when it follows one the driver gave up on.           *)
(***************************************************************************)
SentOnce == kind \notin Clock => sent <= 1

(***************************************************************************)
(* Every call returns, even if the controller never answers: no wait is    *)
(* without a count, and emptying the FIFO ends with the words to come.     *)
(***************************************************************************)
CallReturns == pc # "return" ~> pc = "return"

(***************************************************************************)
(* "Confirm that no card is engaged in any transaction.  If there's a      *)
(* transaction, wait until it has been finished" (iSDBOOT.c:82-83): the    *)
(* clock of the card is stopped between transactions only.                 *)
(***************************************************************************)
ClockStopsIdle ==
    pc = "write" /\ kind = "off" => executing = None /\ left = 0

Promise == INSTANCE CommandPromise WITH
    phase <- IF pc = "return" THEN "returned" ELSE "calling",
    clock <- kind \in Clock,
    result <- status,
    alone <- quiet,
    late <- START /\ loaded.kind \notin Clock /\ loaded.call # calls,
    executed <- IF kind \in Clock THEN 0 ELSE sent,
    own <- /\ pc = "return" /\ status = "NOERROR"
           /\ kind \in Responding => response = calls

(***************************************************************************)
(* To its caller the driver is CommandPromise: however the polls, the HLE  *)
(* retries and the controller interleave, the status says whether the      *)
(* command has been executed, commands are executed in the order of the    *)
(* calls, and until a call gives up none meets what is left of another.    *)
(***************************************************************************)
KeepsCommandPromise == Promise!Spec
=============================================================================
