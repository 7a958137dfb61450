------------------------------ MODULE I2cGpio ------------------------------
(***************************************************************************)
(* The I2C bus that the 2nd boot loader drives with two GPIO pins to set   *)
(* up the PMIC (nexell_riscv/bl1/src/devices/i2c_gpio.c).                  *)
(*                                                                         *)
(* A pin is driven low or released; a line is high when nobody drives it.  *)
(* The loader is one step per access to a pin.  A call is a number of      *)
(* bytes, and a byte the conditions and bits that i2c_write_byte or        *)
(* i2c_read_byte goes through: the first that fails ends the call, and     *)
(* nothing is undone.                                                      *)
(*                                                                         *)
(* External: a target that follows the edges of the two lines as an I2C    *)
(* target does.  It may refuse a byte and stretch the clock for as long as *)
(* it likes, and a reset of the loader may find it sending.                *)
(***************************************************************************)
EXTENDS Integers, Sequences

CONSTANTS
    BITS,                \* of a byte
    DEV,                 \* dev_addr, a bit less
    BYTES,               \* the bytes of registers and data
    LENGTHS,             \* bytes read or written by a call
    STRETCHING_TIMEOUT,
    CALLS                \* bound of the checks

ASSUME I2cAssumption ==
    /\ BITS \in Nat \ {0, 1}
    /\ DEV \in [1 .. BITS - 1 -> {0, 1}]
    /\ BYTES \subseteq [1 .. BITS -> {0, 1}]
    /\ LENGTHS \subseteq Nat \ {0}
    /\ STRETCHING_TIMEOUT \in Nat /\ CALLS \in Nat

VARIABLES
    sda, scl,    \* the loader drives the line low
    g_started,
    call,        \* its arguments
    byte, bit,   \* the place in the call; without a call byte is 0
    phase, timeout, nack,
    rbyte,       \* the bits of a byte that is read
    pdata, result,
    target,      \* the target
    dirty,       \* history: the call began with the target holding SDA
    calls

loader == <<g_started, call, byte, bit, phase, timeout, nack, rbyte, pdata, result>>
i2cVars == <<sda, scl, loader, target, dirty, calls>>

SdaHigh == ~sda /\ ~target.sda
SclHigh == ~scl /\ ~target.scl

-----------------------------------------------------------------------------
(* The target: n clocks of a byte are over, -1 after a START, BITS in the  *)
(* acknowledge clock.                                                      *)

Idle == [mode |-> "idle", n |-> 0, bits |-> <<>>, sda |-> FALSE, scl |-> FALSE,
         got |-> <<>>, gave |-> <<>>, refused |-> FALSE]

Sends(t, data) ==
    [t EXCEPT !.mode = "send", !.n = 0, !.bits = data, !.sda = data[1] = 0,
              !.gave = Append(@, data)]

\* SCL rises: SDA is sampled.
Rising(t, level) ==
    LET sample == IF level THEN 1 ELSE 0
    IN  IF t.mode \in {"address", "register", "data"} /\ t.n \in 0 .. BITS - 1
        THEN [t EXCEPT !.bits = Append(@, sample)]
        ELSE IF t.mode = "send" /\ t.n = BITS THEN [t EXCEPT !.bits = <<sample>>]
        ELSE t

Ignores(t) == [t EXCEPT !.mode = "idle", !.sda = FALSE]
Refuses(t) == [Ignores(t) EXCEPT !.refused = TRUE]

\* A byte is complete: it is acknowledged or refused.
Acknowledges(t) ==
    IF t.mode = "send" THEN {[t EXCEPT !.n = BITS, !.sda = FALSE]}
    ELSE IF t.mode = "address" /\ SubSeq(t.bits, 1, BITS - 1) # DEV THEN {Ignores(t)}
    ELSE {Refuses(t), [t EXCEPT !.n = BITS, !.sda = TRUE]}

\* The acknowledge clock is over.
Goes(t) ==
    IF t.mode = "send"
    THEN IF t.bits = <<0>> THEN {Sends(t, data) : data \in BYTES} ELSE {Ignores(t)}
    ELSE IF t.mode = "address" /\ t.bits[BITS] = 1
    THEN {Sends([t EXCEPT !.gave = <<>>], data) : data \in BYTES}
    ELSE {[t EXCEPT !.mode = IF t.mode = "address" THEN "register" ELSE "data",
                    !.got = IF t.mode = "address" THEN <<>> ELSE Append(@, t.bits),
                    !.n = 0, !.bits = <<>>, !.sda = FALSE]}

\* SCL falls: the target may change SDA.
Falling(t) ==
    IF t.mode = "idle" THEN {t}
    ELSE IF t.n = BITS THEN Goes(t)
    ELSE IF t.n = BITS - 1 THEN Acknowledges(t)
    ELSE {[t EXCEPT !.n = @ + 1,
                    !.sda = t.mode = "send" /\ t.bits[t.n + 2] = 0]}

\* The lines change: what the target makes of it.
Bus(newSda, newScl, hold) ==
    LET t == [target EXCEPT !.scl = hold]
        sclHigh == ~newScl /\ ~hold
        sdaHigh == ~newSda /\ ~target.sda
    IN  /\ sda' = newSda /\ scl' = newScl
        /\ IF SclHigh /\ ~sclHigh
           THEN \E stretches \in BOOLEAN, u \in Falling(t) :
                   target' = [u EXCEPT !.scl = stretches /\ u.mode # "idle"]
           ELSE target' = IF ~SclHigh /\ sclHigh THEN Rising(t, sdaHigh)
                     ELSE IF sclHigh /\ SdaHigh /\ ~sdaHigh
                     THEN [t EXCEPT !.mode = "address", !.n = -1, !.bits = <<>>, !.sda = FALSE]
                     ELSE IF sclHigh /\ ~SdaHigh /\ sdaHigh THEN Ignores(t)
                     ELSE t

\* The target lets the clock go.
StretchEnds ==
    /\ target.scl
    /\ Bus(sda, scl, FALSE)
    /\ UNCHANGED <<loader, dirty, calls>>

-----------------------------------------------------------------------------
(* The calls                                                               *)

\* Reads and writes in any order, those of the PMIC drivers (devices/pmic) among them.
Calls ==
    [op : {"read"}, reg : BYTES, length : LENGTHS]
    \cup UNION {[op : {"write"}, reg : BYTES, length : {n}, data : [1 .. n -> BYTES]] : n \in LENGTHS}

\* The bytes that a call writes; i2c_gpio_read goes on with bytes it reads.
i2c_gpio_read(k) ==
    IF k = 1 THEN DEV \o <<0>> ELSE IF k = 2 THEN call.reg ELSE DEV \o <<1>>

i2c_gpio_write(k) ==
    IF k = 1 THEN DEV \o <<0>> ELSE IF k = 2 THEN call.reg ELSE call.data[k - 2]

Starts(k) == k = 1 \/ (k = 3 /\ call.op = "read")
Reads == call.op = "read" /\ byte > 3
IsLast == byte = call.length + (IF call.op = "read" THEN 3 ELSE 2)

\* What there is in the places 0 .. BITS + 2 of a byte, with a START before
\* and a STOP behind it.
i2c_write_byte(data) ==
    IF bit = 0 THEN <<"start", 0>>
    ELSE IF bit <= BITS THEN <<"write", data[bit]>>
    ELSE IF bit = BITS + 1 THEN <<"ack", 0>> ELSE <<"stop", 0>>

\* Mutant: the last byte is acknowledged.
i2c_read_byte_AcksAll(last) ==
    IF bit <= BITS THEN <<"read", 0>>
    ELSE IF bit = BITS + 1 THEN <<"write", 0>> ELSE <<"stop", 0>>

i2c_read_byte(last) ==
    IF bit <= BITS THEN <<"read", 0>>
    ELSE IF bit = BITS + 1 THEN <<"write", IF last THEN 1 ELSE 0>> ELSE <<"stop", 0>>

\* The condition or the bit under way.
Op ==
    IF Reads THEN i2c_read_byte(IsLast)
    ELSE i2c_write_byte(IF call.op = "read" THEN i2c_gpio_read(byte) ELSE i2c_gpio_write(byte))

\* i2c_gpio_init; the target may be in the middle of a byte that reads.
I2cInit ==
    /\ sda = FALSE /\ scl = FALSE
    /\ g_started = TRUE
    /\ call = [op |-> "none"] /\ byte = 0 /\ bit = 0
    /\ phase = "sda" /\ timeout = 0 /\ nack = 0
    /\ rbyte = <<>> /\ pdata = <<>> /\ result = "none"
    /\ target \in {Idle} \cup {Sends(Idle, data) : data \in BYTES}
    /\ dirty = FALSE
    /\ calls = 0

Call ==
    /\ byte = 0 /\ calls < CALLS
    /\ call' \in Calls
    /\ byte' = 1 /\ bit' = 0
    /\ phase' = "sda" /\ rbyte' = <<>> /\ pdata' = <<>> /\ result' = "none"
    /\ dirty' = target.sda
    /\ target' = [target EXCEPT !.refused = FALSE]
    /\ calls' = calls + 1
    /\ UNCHANGED <<sda, scl, g_started, timeout, nack>>

-----------------------------------------------------------------------------
(* The conditions and bits                                                 *)

Busy(ops, p) == byte # 0 /\ Op[1] \in ops /\ phase = p

Fails ==
    /\ byte' = 0 /\ result' = "FALSE"
    /\ UNCHANGED <<g_started, call, bit, phase, timeout, nack, rbyte, pdata>>

Goto(p) ==
    /\ phase' = p
    /\ UNCHANGED <<g_started, call, byte, bit, timeout, nack, rbyte, pdata, result>>

Waits(p) ==
    /\ phase' = p /\ timeout' = STRETCHING_TIMEOUT
    /\ UNCHANGED <<g_started, call, byte, bit, nack, rbyte, pdata, result>>

\* i2c_write_bit, i2c_read_bit and i2c_gpio_send_stop set SDA first.
SetSda ==
    /\ Busy({"write", "read", "ack", "stop"}, "sda")
    /\ Bus(Op \in {<<"write", 0>>, <<"stop", 0>>}, scl, target.scl)
    /\ Waits("scl")
    /\ UNCHANGED <<dirty, calls>>

\* i2c_gpio_send_start: a repeated START releases both lines.
StartReleases ==
    /\ Busy({"start"}, "sda")
    /\ IF g_started
       THEN Bus(FALSE, scl, target.scl) /\ Waits("scl")
       ELSE Goto("sample") /\ UNCHANGED <<sda, scl, target>>
    /\ UNCHANGED <<dirty, calls>>

\* scl_read releases the line ...
ReleaseScl ==
    /\ byte # 0 /\ phase = "scl"
    /\ Bus(sda, FALSE, target.scl)
    /\ Goto("poll")
    /\ UNCHANGED <<dirty, calls>>

\* Mutant: the count starts again.
PollScl_ForEver ==
    /\ byte # 0 /\ phase = "poll"
    /\ IF SclHigh THEN Goto("sample")
       ELSE /\ timeout' = IF timeout = 0 THEN STRETCHING_TIMEOUT ELSE timeout - 1
            /\ UNCHANGED <<g_started, call, byte, bit, phase, nack, rbyte, pdata, result>>
    /\ UNCHANGED <<sda, scl, target, dirty, calls>>

\* ... and is repeated while the target stretches the clock.
PollScl ==
    /\ byte # 0 /\ phase = "poll"
    /\ IF SclHigh THEN Goto("sample")
       ELSE IF timeout = 0 THEN Fails
       ELSE /\ timeout' = timeout - 1
            /\ UNCHANGED <<g_started, call, byte, bit, phase, nack, rbyte, pdata, result>>
    /\ UNCHANGED <<sda, scl, target, dirty, calls>>

\* Mutant: whatever bit is written.
Arbitrate_AnyBit ==
    /\ Busy({"start", "write"}, "sample")
    /\ IF SdaHigh THEN Goto(IF Op[1] = "start" THEN "condition" ELSE "low") ELSE Fails
    /\ UNCHANGED <<sda, scl, target, dirty, calls>>

\* SDA must be high for a START, and for a bit that is written as 1.
Arbitrate ==
    /\ Busy({"start", "write"}, "sample")
    /\ IF SdaHigh \/ Op = <<"write", 0>>
       THEN Goto(IF Op[1] = "start" THEN "condition" ELSE "low")
       ELSE Fails
    /\ UNCHANGED <<sda, scl, target, dirty, calls>>

StartCondition ==
    /\ Busy({"start"}, "condition")
    /\ Bus(TRUE, scl, target.scl)
    /\ Goto("low")
    /\ UNCHANGED <<dirty, calls>>

ReadSda ==
    /\ Busy({"read", "ack"}, "sample")
    /\ LET level == IF SdaHigh THEN 1 ELSE 0
       IN  IF Op[1] = "ack" THEN nack' = level /\ UNCHANGED rbyte
                             ELSE rbyte' = Append(rbyte, level) /\ UNCHANGED nack
    /\ phase' = "low"
    /\ UNCHANGED <<sda, scl, target, g_started, call, byte, bit, timeout, pdata, result, dirty, calls>>

\* What follows in the call, and the byte that is read.
Advance ==
    /\ phase' = "sda"
    /\ IF bit <= BITS \/ IsLast
       THEN bit' = bit + 1 /\ UNCHANGED byte
       ELSE byte' = byte + 1 /\ bit' = IF Starts(byte') THEN 0 ELSE 1
    /\ IF Reads /\ bit = BITS
       THEN pdata' = Append(pdata, rbyte) /\ rbyte' = <<>>
       ELSE UNCHANGED <<rbyte, pdata>>

\* Mutant: the START leaves the clock high.
SclLow_BitsOnly ==
    /\ byte # 0 /\ phase = "low"
    /\ Bus(sda, Op[1] # "start", target.scl)
    /\ IF Op[1] = "ack" /\ nack = 1 THEN Fails
       ELSE /\ Advance
            /\ g_started' = (g_started \/ Op[1] = "start")
            /\ UNCHANGED <<call, timeout, nack, result>>
    /\ UNCHANGED <<dirty, calls>>

\* scl_low ends a START or a bit; a byte without acknowledge ends the call.
SclLow ==
    /\ byte # 0 /\ phase = "low"
    /\ Bus(sda, TRUE, target.scl)
    /\ IF Op[1] = "ack" /\ nack = 1 THEN Fails
       ELSE /\ Advance
            /\ g_started' = (g_started \/ Op[1] = "start")
            /\ UNCHANGED <<call, timeout, nack, result>>
    /\ UNCHANGED <<dirty, calls>>

StopCondition ==
    /\ Busy({"stop"}, "sample")
    /\ Bus(FALSE, scl, target.scl)
    /\ g_started' = FALSE
    /\ phase' = "free" /\ timeout' = STRETCHING_TIMEOUT
    /\ UNCHANGED <<call, byte, bit, nack, rbyte, pdata, result, dirty, calls>>

\* The call is over when SDA is seen high.
PollSda ==
    /\ Busy({"stop"}, "free")
    /\ IF SdaHigh THEN /\ byte' = 0 /\ result' = "TRUE"
                       /\ UNCHANGED <<g_started, call, bit, phase, timeout, nack, rbyte, pdata>>
       ELSE IF timeout = 0 THEN Fails
       ELSE /\ timeout' = timeout - 1
            /\ UNCHANGED <<g_started, call, byte, bit, phase, nack, rbyte, pdata, result>>
    /\ UNCHANGED <<sda, scl, target, dirty, calls>>

-----------------------------------------------------------------------------
Loader ==
    \/ SetSda \/ StartReleases \/ ReleaseScl \/ PollScl \/ Arbitrate \/ StartCondition
    \/ ReadSda \/ SclLow \/ StopCondition \/ PollSda

I2cNext == Call \/ Loader \/ StretchEnds

I2cSpec == I2cInit /\ [][I2cNext]_i2cVars

\* The loader runs; the target promises nothing.
I2cFairSpec == I2cSpec /\ WF_i2cVars(Loader)

-----------------------------------------------------------------------------
\* The states of a target that a byte or a reset may leave it in.
Levels == {0, 1}
Targets ==
    [mode : {"idle", "address", "register", "data", "send"}, n : -1 .. BITS, bits : Seq(Levels),
     sda : BOOLEAN, scl : BOOLEAN, got : Seq(Seq(Levels)), gave : Seq(Seq(Levels)), refused : BOOLEAN]

I2cTypeOK ==
    /\ sda \in BOOLEAN /\ scl \in BOOLEAN /\ g_started \in BOOLEAN
    /\ call \in Calls \cup {[op |-> "none"]} /\ byte \in Nat /\ bit \in 0 .. BITS + 2
    /\ phase \in {"sda", "scl", "poll", "sample", "condition", "low", "free"}
    /\ timeout \in Nat /\ nack \in Levels
    /\ rbyte \in Seq(Levels) /\ pdata \in Seq(Seq(Levels))
    /\ result \in {"none", "TRUE", "FALSE"}
    /\ target \in Targets /\ dirty \in BOOLEAN /\ calls \in Nat

-----------------------------------------------------------------------------
\* A call that returns TRUE has done what it was asked: the target has the
\* register and the data of a write, or the call has the bytes that the
\* target sent for a read; whatever the calls before it left undone.
TransferFaithful ==
    result = "TRUE" =>
        /\ target.got = IF call.op = "read" THEN <<call.reg>> ELSE <<call.reg>> \o call.data
        /\ call.op = "read" => pdata = target.gave /\ Len(pdata) = call.length
        /\ SdaHigh /\ ~scl /\ target.mode = "idle"

\* SDA changes under a high SCL in a START and a STOP only, so that no data
\* bit is taken for one.
NoStrayCondition ==
    [][SclHigh /\ SclHigh' /\ SdaHigh # SdaHigh' => Op[1] \in {"start", "stop"}]_i2cVars

\* A call fails for a reason: a refused byte, a clock that is held, or SDA
\* that was held when it began.
FailsForAReason ==
    [][result # "FALSE" /\ result' = "FALSE" => target.refused \/ target.scl \/ dirty]_i2cVars

\* Every call returns, however long the target stretches.
CallReturns == byte # 0 ~> byte = 0

=============================================================================
