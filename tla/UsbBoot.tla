------------------------------ MODULE UsbBoot -------------------------------
(***************************************************************************)
(* iUSBBOOT of the 2nd boot loader: the third loader is downloaded over    *)
(* USB by polling the OTG core (nexell_riscv/bl1/src/boot/iUSBBOOT.c).     *)
(*                                                                         *)
(* The host resets the bus, enumerates the loader with some requests on    *)
(* endpoint 0 and sends a file on endpoint 2: a header and a body.  It     *)
(* may reset the bus again at any time.  A pass of the loader is split at  *)
(* its interrupt sources, so that the bus may change in between.           *)
(*                                                                         *)
(* External: the core latches USBRst and EnumDone until they are written,  *)
(* RXFLvl and IEPInt are levels; a bus reset deactivates endpoint 2 and    *)
(* need not flush a FIFO; an endpoint takes one packet each time it is     *)
(* armed, and endpoint 0 every SETUP; a packet to send takes what is first *)
(* in the transmit FIFO.  Sizes are in units that divide the header and    *)
(* every packet; on endpoint 0 a unit is a word of the FIFO.               *)
(***************************************************************************)
EXTENDS Integers, Sequences, SequencesExt

CONSTANTS
    HEADER,    \* units of the header; the first has the size, the last the signature
    SIZES,     \* bodies the host sends
    DESC,      \* units of a descriptor
    HIGH_MAX_PKT_SIZE_EP0, FULL_MAX_PKT_SIZE_EP0,  \* units of a packet
    NPTX_FIFO_SIZE,  \* units the transmit FIFO holds (512)
    WANTS,     \* the lengths that hosts ask for
    REQUESTS,  \* requests before the host sends its file
    SESSIONS   \* bound of the checks: bus resets

ASSUME UsbAssumption ==
    /\ HEADER \in Nat \ {0, 1} /\ DESC \in Nat \ {0}
    /\ HIGH_MAX_PKT_SIZE_EP0 \in Nat /\ FULL_MAX_PKT_SIZE_EP0 \in 1 .. HIGH_MAX_PKT_SIZE_EP0
    /\ NPTX_FIFO_SIZE \in Nat
    /\ SIZES \subseteq Nat \ {0} /\ WANTS \subseteq Nat \ {0}
    /\ REQUESTS \in Nat /\ SESSIONS \in Nat

Speeds == {"USB_HIGH", "USB_FULL", "USB_LOW"}
CtrlMax(s) == IF s = "USB_HIGH" THEN HIGH_MAX_PKT_SIZE_EP0 ELSE FULL_MAX_PKT_SIZE_EP0
\* A packet of endpoint 2 holds the header at high speed only.
BulkMax(s) == IF s = "USB_HIGH" THEN HEADER ELSE 1
NoPacket == <<-1>>

VARIABLES
    \* the core
    events,      \* what is latched in GINTSTS
    rx,          \* the receive FIFO
    tx,          \* the packet in the transmit FIFO, for endpoint 0
    left,        \* what is in that FIFO behind it and of no packet
    token,       \* INTKN_TXFEMP of endpoint 0
    armed,       \* endpoint 2 takes a packet
    \* the loader
    pass,        \* of nx_udc_int_hndlr
    int_status,  \* what it has still to look at
    ep0_state, speed, Current_ptr, Remain_size,
    header,      \* pTBI
    bHeaderReceived, iRxHeaderSize, iRxSize,
    stored,      \* what is at the load address, up to RxBuffAddr
    bDownLoading,
    \* the host
    session, phase,
    file,        \* its file: size and signature, and the speed of the bus
    reqs, want, got, pos,
    asked,       \* history: for GET_CONFIGURATION, in this session
    lag          \* history: the host outran the loader in this session: the bus
                 \* was reset in a pass or with a packet unread or unsent, or
                 \* enumerated in a pass, or a SETUP came behind an unread entry

core == <<events, rx, tx, left, token, armed>>
ep0 == <<ep0_state, Current_ptr, Remain_size>>
download == <<header, bHeaderReceived, iRxHeaderSize, iRxSize, stored, bDownLoading>>
loader == <<pass, int_status, ep0, speed, download>>
host == <<session, phase, file, reqs, want, got, pos, asked>>
vars == <<core, loader, host, lag>>

\* A file without a signature may end within 4 bytes.
Files == [size : SIZES, sort : {"signed", "unsigned", "unaligned"}, speed : Speeds]

\* iUSBBOOT up to its loop.  The rest of USBBootStatus, which is on the stack,
\* is not set before nx_usb_set_init, and endpoint 2 is off until then.
Init ==
    /\ events = {} /\ rx = <<>> /\ tx = NoPacket /\ left = <<>> /\ token = FALSE /\ armed = FALSE
    /\ pass = FALSE /\ int_status = {}
    /\ ep0_state = "INIT" /\ speed = "USB_HIGH"
    /\ Current_ptr = 0 /\ Remain_size = 0
    /\ header = <<>> /\ bHeaderReceived = FALSE /\ iRxHeaderSize = 0 /\ iRxSize = 0
    /\ stored = <<>> /\ bDownLoading = TRUE
    /\ session = 0 /\ phase = "idle" /\ file \in [size : SIZES, sort : {"unsigned"}, speed : {"USB_LOW"}]
    /\ reqs = 0 /\ want = 0 /\ got = <<>> /\ pos = 1
    /\ asked = FALSE /\ lag = FALSE

-----------------------------------------------------------------------------
(* The host and the core                                                   *)

BusReset ==
    /\ bDownLoading /\ session < SESSIONS
    /\ session' = session + 1 /\ phase' = "reset"
    /\ file' \in Files
    /\ events' = events \cup {"USBRst"}
    /\ token' = FALSE /\ armed' = FALSE
    \* a packet that was not sent stays, goes, or leaves its data behind
    /\ \/ UNCHANGED <<tx, left>>
       \/ tx' = NoPacket /\ left' \in {left, IF tx = NoPacket THEN left ELSE tx \o left}
    /\ reqs' = REQUESTS /\ want' = 0 /\ got' = <<>> /\ pos' = 1 /\ asked' = FALSE
    \* the pass under way erases it; what the last session left in the FIFOs
    /\ lag' = (pass \/ rx # <<>> \/ tx' # NoPacket)
    /\ UNCHANGED <<rx, loader>>

Enumerated ==
    /\ bDownLoading /\ phase = "reset"
    /\ events' = events \cup {"EnumDone"}
    /\ phase' = IF reqs = 0 THEN "bulk" ELSE "setup"
    /\ lag' = (lag \/ pass)
    /\ UNCHANGED <<rx, tx, left, token, armed, loader, session, file, reqs, want, got, pos, asked>>

Requests == {"descriptor", "status", "configuration", "plain"}

\* A request, behind what the loader has not read yet.
SendSetup ==
    /\ bDownLoading /\ phase = "setup"
    /\ \E request \in Requests, n \in WANTS :
          /\ rx' = Append(rx, [kind |-> "SETUP", request |-> request, length |-> n])
          /\ want' = IF request = "descriptor" THEN n ELSE IF request = "plain" THEN 0 ELSE 1
          /\ phase' = IF request = "descriptor" THEN "descriptor" ELSE "answer"
          /\ asked' = (asked \/ request = "configuration")
    /\ got' = <<>>
    /\ lag' = (lag \/ rx # <<>>)
    /\ UNCHANGED <<events, tx, left, token, armed, loader, session, file, reqs, pos>>

\* An IN token of endpoint 0 takes the packet that is there, or is noted.
TokenNoted ==
    /\ bDownLoading /\ phase \in {"descriptor", "answer"}
    /\ tx = NoPacket /\ ~token
    /\ token' = TRUE
    /\ UNCHANGED <<events, rx, tx, left, armed, loader, host, lag>>

TokenAnswered ==
    /\ bDownLoading /\ phase \in {"descriptor", "answer"}
    /\ tx # NoPacket
    /\ tx' = NoPacket
    /\ IF Len(got \o tx) >= want \/ Len(tx) < CtrlMax(file.speed)
       THEN /\ reqs' = reqs - 1 /\ want' = 0 /\ got' = <<>>
            /\ phase' = IF reqs = 1 THEN "bulk" ELSE "setup"
            \* the status stage of a request that reads
            /\ rx' = IF want = 0 THEN rx ELSE Append(rx, [kind |-> "other"])
       ELSE got' = got \o tx /\ UNCHANGED <<rx, reqs, phase, want>>
    /\ UNCHANGED <<events, left, token, armed, loader, session, file, pos, asked, lag>>

FileUnits == HEADER + file.size
\* A unit is known by its session and place; the signature may be missing.
FileUnit(i) == <<session, IF i = HEADER /\ file.sort # "signed" THEN 0 ELSE i>>

\* The next packet of the file; the last may not be a multiple of 4 bytes.
SendBulk ==
    /\ bDownLoading /\ phase = "bulk" /\ armed /\ pos <= FileUnits
    /\ LET last == IF pos + BulkMax(file.speed) > FileUnits THEN FileUnits
                                                            ELSE pos + BulkMax(file.speed) - 1
       IN  /\ rx' = Append(rx, [kind |-> "OUT", odd |-> file.sort = "unaligned" /\ last = FileUnits,
                                data |-> [i \in 1 .. last - pos + 1 |-> FileUnit(pos + i - 1)]])
           /\ pos' = last + 1
    /\ armed' = FALSE
    /\ UNCHANGED <<events, tx, left, token, loader, session, phase, file, reqs, want, got, asked, lag>>

-----------------------------------------------------------------------------
(* nx_udc_int_hndlr                                                        *)

Pending ==
    events \cup (IF rx # <<>> THEN {"RXFLvl"} ELSE {}) \cup (IF token THEN {"IEPInt"} ELSE {})

ReadStatus ==
    /\ ~pass /\ bDownLoading /\ Pending # {}
    /\ int_status' = Pending
    /\ pass' = TRUE
    /\ UNCHANGED <<core, ep0, speed, download, host, lag>>

\* The pass has come to this source; before is what it looks at earlier.
Handles(source, before) ==
    /\ pass /\ source \in int_status /\ int_status \cap before = {}
    /\ int_status' = int_status \ {source}

\* Mutant: endpoint 0 goes on where it was.
nx_usb_reset_KeepsEp0 ==
    /\ Handles("USBRst", {})
    /\ UNCHANGED <<core, pass, ep0, speed, download, host, lag>>

nx_usb_reset ==
    /\ Handles("USBRst", {})
    /\ ep0_state' = "INIT"
    /\ UNCHANGED <<core, pass, Current_ptr, Remain_size, speed, download, host, lag>>

\* Mutant: what was received of a header counts for the next.
nx_usb_set_init_KeepsCount ==
    /\ pass /\ "EnumDone" \in int_status /\ "USBRst" \notin int_status
    /\ bHeaderReceived' = FALSE
    /\ IF file.speed = "USB_LOW"
       THEN int_status' = {} /\ UNCHANGED <<speed, token, armed>>
       ELSE /\ int_status' = int_status \ {"EnumDone"}
            /\ speed' = file.speed /\ token' = FALSE /\ armed' = TRUE
    /\ UNCHANGED <<events, rx, tx, left, pass, ep0, header, iRxHeaderSize, iRxSize,
                   stored, bDownLoading, host, lag>>

\* At a speed it does not know the rest of the pass is left out.
nx_usb_set_init ==
    /\ pass /\ "EnumDone" \in int_status /\ "USBRst" \notin int_status
    /\ bHeaderReceived' = FALSE /\ iRxHeaderSize' = 0
    /\ IF file.speed = "USB_LOW"
       THEN int_status' = {} /\ UNCHANGED <<speed, token, armed>>
       ELSE /\ int_status' = int_status \ {"EnumDone"}
            /\ speed' = file.speed /\ token' = FALSE /\ armed' = TRUE
    /\ UNCHANGED <<events, rx, tx, left, pass, ep0, header, iRxSize, stored,
                   bDownLoading, host, lag>>

\* nx_usb_pkt_receive takes one packet of the FIFO.
Meets(kind) == Handles("RXFLvl", {"USBRst", "EnumDone"}) /\ Head(rx).kind = kind
Receives(kind) == Meets(kind) /\ rx' = Tail(rx)

ReceiveOther ==
    /\ Receives("other")
    /\ UNCHANGED <<events, tx, left, token, armed, pass, ep0, speed, download, host, lag>>

\* The packet is as long as the data written for it and takes the first units
\* of the FIFO, where a packet before it may be unsent.
Send(data) ==
    LET fifo == (IF tx = NoPacket THEN <<>> ELSE tx) \o left \o data
    IN  /\ tx' = SubSeq(fifo, 1, Len(data))
        /\ left' = SubSeq(fifo, Len(data) + 1, Len(fifo))

\* GET_CONFIGURATION: one word for a packet of one byte, whose size and control
\* words are overwritten at the end of the handler.  There is a packet or the
\* word stays in the FIFO alone.
GetConfiguration ==
    \/ Send(<<0>>)
    \/ left' = Append(left, 0) /\ UNCHANGED tx

GetDescriptor(length) ==
    /\ ep0_state' = "GET_DSCPT" /\ Current_ptr' = 0
    /\ Remain_size' = IF length > DESC THEN DESC ELSE length

Request(r) ==
    /\ CASE r.request = "descriptor" -> GetDescriptor(r.length)
         [] r.request = "status" -> ep0_state' = "GET_STATUS" /\ UNCHANGED <<Current_ptr, Remain_size>>
         [] OTHER -> UNCHANGED ep0
    /\ IF r.request = "configuration" THEN GetConfiguration ELSE UNCHANGED <<tx, left>>

\* nx_usb_ep0_int_hndlr: the request is looked at in the INIT state only.  In
\* another its two words are left in the FIFO and are the next two statuses; as
\* such a request of these hosts is of no kind that the loader acts on.
nx_usb_ep0_int_hndlr ==
    /\ Meets("SETUP")
    /\ IF ep0_state = "INIT"
       THEN rx' = Tail(rx) /\ Request(Head(rx))
       ELSE /\ rx' = <<[kind |-> "other"], [kind |-> "other"]>> \o Tail(rx)
            /\ UNCHANGED <<tx, left, ep0>>
    /\ UNCHANGED <<events, token, armed, pass, speed, download, host, lag>>

\* The units of the packet from position n of a buffer on.
Written(buffer, n, data) ==
    [i \in 1 .. (IF Len(buffer) > n + Len(data) THEN Len(buffer) ELSE n + Len(data)) |->
        IF i \in n + 1 .. n + Len(data) THEN data[i - n] ELSE buffer[i]]

\* Mutant: only the length is looked at.
Signed_LengthOnly == Len(header') >= HEADER

Signed == header'[HEADER][2] = HEADER

\* nx_usb_int_bulkout before the header is complete, with header_check.  The
\* stalls are taken back by the write of DOEPCTL that ends it.
ReceiveHeader ==
    /\ Receives("OUT") /\ ~bHeaderReceived
    /\ header' = Written(header, iRxHeaderSize, Head(rx).data)
    /\ LET count == IF Head(rx).odd THEN iRxHeaderSize ELSE iRxHeaderSize + Len(Head(rx).data)
       IN  IF count < HEADER
           THEN iRxHeaderSize' = count /\ UNCHANGED <<bHeaderReceived, iRxSize, stored>>
           ELSE IF Signed
           THEN /\ iRxHeaderSize' = count /\ bHeaderReceived' = TRUE
                /\ stored' = <<>>
                /\ iRxSize' \in IF header'[1][2] = 1 /\ header'[1][1] = session
                                THEN {file.size} ELSE SIZES
           ELSE iRxHeaderSize' = 0 /\ UNCHANGED <<bHeaderReceived, iRxSize, stored>>
    /\ armed' = TRUE
    /\ UNCHANGED <<events, tx, left, token, pass, ep0, speed, bDownLoading, host, lag>>

\* Mutant: done when the next packet comes.
ReceiveBody_OneMore ==
    /\ Receives("OUT") /\ bHeaderReceived
    /\ stored' = stored \o Head(rx).data
    /\ iRxSize' = iRxSize - Len(Head(rx).data)
    /\ bDownLoading' = (iRxSize' >= 0)
    /\ bHeaderReceived' = bDownLoading'
    /\ armed' = TRUE
    /\ UNCHANGED <<events, tx, left, token, pass, ep0, speed, header, iRxHeaderSize, host, lag>>

ReceiveBody ==
    /\ Receives("OUT") /\ bHeaderReceived
    /\ stored' = stored \o Head(rx).data
    /\ iRxSize' = iRxSize - Len(Head(rx).data)
    /\ bDownLoading' = (iRxSize' > 0)
    /\ bHeaderReceived' = bDownLoading'
    /\ armed' = TRUE
    /\ UNCHANGED <<events, tx, left, token, pass, ep0, speed, header, iRxHeaderSize, host, lag>>

\* nx_usb_transfer with the token gone, by a reset of the bus.
NothingToSend ==
    /\ Handles("IEPInt", {"USBRst", "EnumDone", "RXFLvl"}) /\ ~token
    /\ UNCHANGED <<core, pass, ep0, speed, download, host, lag>>

Descriptor(n) == [i \in 1 .. n |-> Current_ptr + i]

\* nx_usb_transfer; in the INIT state every token gets an empty packet.  It
\* waits until as many words are free as the packet has bytes.
nx_usb_transfer_ep0 ==
    /\ Handles("IEPInt", {"USBRst", "EnumDone", "RXFLvl"}) /\ token
    /\ NPTX_FIFO_SIZE - Len(left) >= 4 * CtrlMax(speed)
    /\ CASE ep0_state = "INIT" -> Send(<<>>) /\ UNCHANGED ep0
         [] ep0_state = "GET_STATUS" ->
              Send(<<0>>) /\ ep0_state' = "INIT" /\ UNCHANGED <<Current_ptr, Remain_size>>
         [] ep0_state = "GET_DSCPT" ->
              IF CtrlMax(speed) >= Remain_size
              THEN /\ Send(Descriptor(Remain_size))
                   /\ ep0_state' = "INIT" /\ UNCHANGED <<Current_ptr, Remain_size>>
              ELSE /\ Send(Descriptor(CtrlMax(speed)))
                   /\ Remain_size' = Remain_size - CtrlMax(speed)
                   /\ Current_ptr' = Current_ptr + CtrlMax(speed)
                   /\ UNCHANGED ep0_state
    /\ token' = FALSE
    /\ UNCHANGED <<events, rx, armed, pass, speed, download, host, lag>>

\* The loop of iUSBBOOT clears every latch, of events it has not seen too.
ClearStatus ==
    /\ pass /\ int_status = {}
    /\ events' = {}
    /\ pass' = FALSE
    /\ UNCHANGED <<rx, tx, left, token, armed, int_status, ep0, speed, download, host, lag>>

-----------------------------------------------------------------------------
Loader ==
    \/ ReadStatus \/ nx_usb_reset \/ nx_usb_set_init
    \/ ReceiveOther \/ nx_usb_ep0_int_hndlr \/ ReceiveHeader \/ ReceiveBody
    \/ NothingToSend \/ nx_usb_transfer_ep0 \/ ClearStatus

Host == Enumerated \/ SendSetup \/ TokenNoted \/ TokenAnswered \/ SendBulk

Next == Loader \/ Host \/ BusReset

Spec == Init /\ [][Next]_vars

\* The loader polls; the host goes on with what it has begun.
FairSpec == Spec /\ WF_vars(Loader) /\ WF_vars(Host)

-----------------------------------------------------------------------------
\* The units of files and the packets of the receive FIFO.
Units == Nat \X Nat

Setups == [kind : {"SETUP"}, request : Requests, length : WANTS]
Outs == [kind : {"OUT"}, odd : BOOLEAN, data : Seq(Units)]
Packets == Setups \cup [kind : {"other"}] \cup Outs

CoreTypeOK ==
    /\ events \subseteq {"USBRst", "EnumDone"}
    /\ rx \in Seq(Packets)
    /\ tx \in Seq(Nat) \cup {NoPacket} /\ left \in Seq(Nat)
    /\ token \in BOOLEAN /\ armed \in BOOLEAN

LoaderTypeOK ==
    /\ pass \in BOOLEAN /\ int_status \subseteq {"USBRst", "EnumDone", "RXFLvl", "IEPInt"}
    /\ ep0_state \in {"INIT", "GET_STATUS", "GET_DSCPT"}
    /\ speed \in Speeds \ {"USB_LOW"}
    /\ Current_ptr \in Nat /\ Remain_size \in Nat
    /\ header \in Seq(Units) /\ iRxHeaderSize \in 0 .. Len(header)
    /\ bHeaderReceived \in BOOLEAN /\ iRxSize \in Int
    /\ stored \in Seq(Units) /\ bDownLoading \in BOOLEAN

HostTypeOK ==
    /\ session \in Nat /\ file \in Files
    /\ phase \in {"idle", "reset", "setup", "descriptor", "answer", "bulk"}
    /\ reqs \in Nat /\ want \in Nat /\ got \in Seq(Int) /\ pos \in Nat \ {0}
    /\ asked \in BOOLEAN

TypeOK == CoreTypeOK /\ LoaderTypeOK /\ HostTypeOK /\ lag \in BOOLEAN

-----------------------------------------------------------------------------
\* A header is accepted only whole, signed and from the file of the session it
\* is accepted in: the pieces of a header that an earlier session left in the
\* buffer, or a file without signature, never make one up.  Said of sessions in
\* which the host did not outrun the loader.
HeaderOfOneFile ==
    [][~bHeaderReceived /\ bHeaderReceived' /\ ~lag =>
        /\ file.sort = "signed"
        /\ \A i \in 1 .. HEADER : header'[i] = FileUnit(i)]_vars

\* The loader goes on with the body that its header announces, whole and from
\* one file, however often the host began before.  Said of a session in which
\* the host did not outrun the loader: otherwise the loop may have erased the
\* reset, or a packet that the reset left in the FIFO gets into the body.
BodyIsFile ==
    ~bDownLoading /\ ~lag =>
        stored = [i \in 1 .. file.size |-> <<session, HEADER + i>>]

\* The request for a descriptor ends with what was asked for, at most all of it,
\* in order.
Ends == phase = "descriptor" /\ phase' \in {"setup", "bulk"}
EndsWhole == Ends => got \o tx = [i \in 1 .. (IF want > DESC THEN DESC ELSE want) |-> i]

\* A host that asks for a descriptor gets what it asked for, at most all of
\* it, in order, and can tell where it ends: if it did not outrun the loader, did
\* not ask for the configuration and no bus reset left units in the FIFO.
DescriptorWhole == [][~lag /\ ~asked /\ left = <<>> => EndsWhole]_vars

\* The same without one of the conditions, which the code does not give.  The
\* word of GET_CONFIGURATION, or the empty packet for the token that its packet
\* answered, comes before the descriptor.
DescriptorAfterConfiguration == [][~lag => EndsWhole]_vars

\* A token is answered before the SETUP that it belongs to is read.
DescriptorOutrun == [][~asked /\ left = <<>> => EndsWhole]_vars

\* The file of a host that is not interrupted, and did not outrun the loader, is
\* downloaded.
Downloads ==
    session = SESSIONS /\ file.sort = "signed" /\ file.speed # "USB_LOW" ~> ~bDownLoading \/ lag

=============================================================================
