---------------------------- MODULE UsbBootProofs ----------------------------
(***************************************************************************)
(* UsbBoot for every size of the header, the descriptor and the files, of  *)
(* the packets of endpoint 0 and of its transmit FIFO, and any number of   *)
(* sessions and requests.                                                  *)
(***************************************************************************)
EXTENDS UsbBoot, SequenceTheorems, TLAPS

(***************************************************************************)
(* A pass, in any session.  Its sources are still there when it comes to   *)
(* them, and after the last packet there is none of them but a token.      *)
(***************************************************************************)
PassOK ==
    /\ ~pass => int_status = {}
    /\ "RXFLvl" \in int_status => rx # <<>>
    /\ ~bDownLoading => int_status \subseteq {"IEPInt"}
    /\ phase \in {"setup", "descriptor", "answer"} => reqs > 0

-----------------------------------------------------------------------------
(* The session and endpoint 2, as long as the host does not outrun the     *)
(* loader                                                                  *)

\* The event waits for a pass, or for its turn in the pass under way.
Waiting(event) == event \in events /\ (pass => event \in int_status)

Begun == phase \notin {"idle", "reset"}

\* The bus is known to the loader: nx_usb_set_init has run in this session.
Known == Begun /\ ~Waiting("EnumDone")

\* The latches and the tokens follow the session.
EventsOK ==
    /\ \A event \in {"USBRst", "EnumDone"} : event \in int_status => event \in events
    /\ token => Begun
    /\ tx # NoPacket => Known
    /\ file.speed = "USB_LOW" => ~armed
    /\ Known => speed = file.speed \/ file.speed = "USB_LOW"

\* The packet with the units a .. b - 1 of the file: a packet of the header,
\* or one of the body.
Piece(p, a, b) ==
    /\ p.kind = "OUT" /\ p.data = [i \in 1 .. b - a |-> FileUnit(a + i - 1)]
    /\ a < b /\ b <= FileUnits + 1
    /\ p.odd => b = FileUnits + 1 /\ file.sort = "unaligned"
    /\ IF file.speed = "USB_HIGH" THEN (a = 1 /\ b = HEADER + 1) \/ a > HEADER ELSE b = a + 1

\* The first n entries of the receive FIFO are of endpoint 0.
Ahead(n) == \A i \in 1 .. n : rx[i].kind # "OUT"

\* The loader has taken r units; those up to pos are in the FIFO, the last of
\* them behind entries of endpoint 0 or, if it was armed twice, in two packets.
Queue(r) ==
    \/ Ahead(Len(rx)) /\ pos = r + 1
    \/ /\ rx # <<>> /\ Ahead(Len(rx) - 1) /\ Piece(rx[Len(rx)], r + 1, pos)
       /\ Len(rx) > 1 => ~armed
    \/ Len(rx) = 2 /\ (\E m \in 1 .. pos : Piece(rx[1], r + 1, m) /\ Piece(rx[2], m, pos)) /\ ~armed

\* What there is in the buffer of the header is what came last.
HeaderPart(r) ==
    ~bHeaderReceived /\ bDownLoading =>
        /\ iRxHeaderSize < HEADER /\ iRxHeaderSize <= r
        /\ file.sort = "signed" => iRxHeaderSize = r
        /\ r < FileUnits => \A i \in 1 .. iRxHeaderSize : header[i] = FileUnit(r - iRxHeaderSize + i)

BodyPart(r) ==
    /\ bHeaderReceived \/ ~bDownLoading =>
          /\ file.sort = "signed" /\ r >= HEADER
          /\ stored = [i \in 1 .. r - HEADER |-> <<session, HEADER + i>>]
          /\ iRxSize = FileUnits - r
    /\ bHeaderReceived => bDownLoading /\ iRxSize > 0
    /\ ~bDownLoading => iRxSize = 0

BulkOK ==
    \E r \in 0 .. pos - 1 :
        /\ Queue(r)
        /\ phase # "bulk" => pos = 1
        /\ phase \in {"idle", "reset"} => rx = <<>>
        /\ pos # 1 \/ ~bDownLoading => file.speed # "USB_LOW"
        /\ pos <= FileUnits + 1
        /\ file.speed = "USB_HIGH" => pos = 1 \/ pos > HEADER
        /\ IF Known
           THEN file.speed # "USB_LOW" => HeaderPart(r) /\ BodyPart(r)
           ELSE /\ r = 0 /\ Len(rx) < 2 /\ bDownLoading
                /\ phase = "bulk" /\ pos = 1 => rx = <<>>
                /\ pos # 1 => ~armed

InStep == EventsOK /\ BulkOK

-----------------------------------------------------------------------------
(* Endpoint 0, if moreover the host does not ask for the configuration and *)
(* there is nothing but the packet in the transmit FIFO                    *)

Clean == ~lag /\ ~asked /\ left = <<>>

Setup(request, n) == [kind |-> "SETUP", request |-> request, length |-> n]

Quiet == ep0_state = "INIT" \/ Waiting("USBRst")

Due == IF want > DESC THEN DESC ELSE want
Count(n) == [i \in 1 .. n |-> i]
Sent == IF tx = NoPacket THEN got ELSE got \o tx

Asking == phase \in {"descriptor", "answer"}

\* Tokens and packets belong to a request; the FIFO has one while it is unread.
TokensOK ==
    /\ token => Asking /\ tx = NoPacket
    /\ "IEPInt" \in int_status => Asking /\ tx = NoPacket /\ (rx = <<>> \/ "RXFLvl" \in int_status)
    /\ tx # NoPacket => Asking /\ rx = <<>>
    /\ ~Asking => Quiet /\ \A i \in 1 .. Len(rx) : rx[i].kind # "SETUP"

\* Of a request for a descriptor: not read, some of the descriptor to come, or
\* nothing but the packet that tells the host where it ends.
DescriptorOK ==
    phase = "descriptor" =>
        /\ want \in WANTS
        /\ \/ rx = <<Setup("descriptor", want)>> /\ got = <<>> /\ tx = NoPacket /\ Quiet
           \/ /\ rx = <<>> /\ ep0_state = "GET_DSCPT" /\ ~Waiting("USBRst") /\ Known
              /\ Sent = Count(Current_ptr) /\ Current_ptr + Remain_size = Due /\ Remain_size > 0
              /\ tx # NoPacket => Len(tx) = CtrlMax(speed)
           \/ rx = <<>> /\ ep0_state = "INIT" /\ Known /\ Sent = Count(Due)

AnswerOK ==
    phase = "answer" =>
        /\ got = <<>>
        /\ \/ (\E n \in WANTS : rx = <<Setup("status", n)>>) /\ want = 1 /\ tx = NoPacket /\ Quiet
           \/ (\E n \in WANTS : rx = <<Setup("plain", n)>>) /\ want = 0 /\ tx = NoPacket /\ Quiet
           \/ /\ rx = <<>> /\ ep0_state = "GET_STATUS" /\ ~Waiting("USBRst")
              /\ want = 1 /\ tx = NoPacket /\ Known
           \/ rx = <<>> /\ ep0_state = "INIT" /\ want = 1 /\ tx = << 0 >> /\ Known
           \/ rx = <<>> /\ ep0_state = "INIT" /\ want = 0 /\ tx \in {NoPacket, <<>>} /\ Known

ControlOK == TokensOK /\ DescriptorOK /\ AnswerOK

IInv == TypeOK /\ PassOK /\ (~lag => InStep) /\ (Clean => ControlOK)

-----------------------------------------------------------------------------
(* Sequences                                                               *)

\* A function on 1 .. n is a sequence of length n.
LEMMA FunctionIsSeq ==
  ASSUME NEW S, NEW n \in Nat, NEW f \in [1 .. n -> S]
  PROVE  f \in Seq(S) /\ Len(f) = n
<1>1. f \in Seq(S)
  BY SeqDef
<1> QED
  BY <1>1, LenProperties

LEMMA EmptyFunction ==
  ASSUME NEW S, NEW f \in [1 .. 0 -> S]
  PROVE  f = <<>>
  BY FunctionIsSeq, EmptySeq

LEMMA CountSeq ==
  ASSUME NEW n \in Nat
  PROVE  Count(n) \in Seq(Int) /\ Len(Count(n)) = n
<1>1. Count(n) \in [1 .. n -> Int]
  BY DEF Count
<1> QED
  BY <1>1, FunctionIsSeq

LEMMA DescriptorSeq ==
  ASSUME TypeOK, NEW n \in Nat
  PROVE  Descriptor(n) \in Seq(Nat) /\ Len(Descriptor(n)) = n
<1>1. Descriptor(n) \in [1 .. n -> Nat]
  BY DEF Descriptor, TypeOK, LoaderTypeOK
<1> QED
  BY <1>1, FunctionIsSeq

\* What is written into a buffer: the buffer before it, and the data.
LEMMA WrittenSeq ==
  ASSUME NEW S, NEW buffer \in Seq(S), NEW n \in 0 .. Len(buffer), NEW data \in Seq(S)
  PROVE  /\ Written(buffer, n, data) \in Seq(S)
         /\ Len(Written(buffer, n, data)) >= n + Len(data)
         /\ \A i \in 1 .. n : Written(buffer, n, data)[i] = buffer[i]
         /\ \A i \in n + 1 .. n + Len(data) : Written(buffer, n, data)[i] = data[i - n]
<1> DEFINE len == IF Len(buffer) > n + Len(data) THEN Len(buffer) ELSE n + Len(data)
<1>1. Len(buffer) \in Nat /\ Len(data) \in Nat /\ len \in Nat /\ n \in Nat
  BY LenProperties
<1>2. /\ \A i \in 1 .. Len(buffer) : buffer[i] \in S
      /\ \A i \in 1 .. Len(data) : data[i] \in S
  BY ElementOfSeq
<1>3. Written(buffer, n, data) =
         [i \in 1 .. len |-> IF i \in n + 1 .. n + Len(data) THEN data[i - n] ELSE buffer[i]]
  BY DEF Written
<1>4. Written(buffer, n, data) \in [1 .. len -> S]
  <2>1. ASSUME NEW i \in 1 .. len
        PROVE  (IF i \in n + 1 .. n + Len(data) THEN data[i - n] ELSE buffer[i]) \in S
    <3>1. CASE i \in n + 1 .. n + Len(data)
      <4>1. i - n \in 1 .. Len(data)
        BY <1>1, <3>1
      <4> QED
        BY <1>2, <3>1, <4>1
    <3>2. CASE i \notin n + 1 .. n + Len(data)
      <4>1. i \in 1 .. Len(buffer)
        BY <1>1, <3>2
      <4> QED
        BY <1>2, <3>2, <4>1
    <3> QED
      BY <3>1, <3>2
  <2> QED
    BY <1>3, <2>1
<1>5. Written(buffer, n, data) \in Seq(S) /\ Len(Written(buffer, n, data)) = len
  BY <1>1, <1>4, FunctionIsSeq
<1> QED
  BY <1>1, <1>3, <1>5

-----------------------------------------------------------------------------
(* Type correctness                                                        *)

\* The first packet, by its kind.
LEMMA HeadPacket ==
  ASSUME TypeOK, rx # <<>>
  PROVE  /\ Head(rx) \in Packets /\ Tail(rx) \in Seq(Packets)
         /\ Head(rx) = rx[1]
         /\ Head(rx).kind = "SETUP" => Head(rx) \in Setups
         /\ Head(rx).kind = "OUT" => Head(rx) \in Outs
<1>1. Head(rx) \in Packets /\ Tail(rx) \in Seq(Packets)
  BY HeadTailProperties DEF TypeOK, CoreTypeOK
<1> QED
  BY <1>1 DEF Packets, Setups, Outs

LEMMA PacketSent ==
  ASSUME TypeOK, NEW p \in Packets
  PROVE  Append(rx, p) \in Seq(Packets) /\ Append(rx, p) # <<>>
  BY AppendProperties DEF TypeOK, CoreTypeOK

LEMMA FileSizes ==
  ASSUME TypeOK
  PROVE  /\ file.size \in SIZES /\ file.size \in Nat \ {0}
         /\ file.speed \in Speeds /\ FileUnits \in Nat /\ FileUnits > HEADER
<1>1. file.size \in SIZES /\ file.speed \in Speeds
  BY DEF TypeOK, HostTypeOK, Files
<1>2. file.size \in Nat \ {0} /\ HEADER \in Nat
  BY <1>1, UsbAssumption
<1> QED
  BY <1>1, <1>2 DEF FileUnits

LEMMA FileUnitType ==
  ASSUME TypeOK, NEW i \in Nat
  PROVE  FileUnit(i) \in Units
  BY DEF FileUnit, Units, TypeOK, HostTypeOK

\* A step of the host on endpoint 2 sends the next piece of the file.
LEMMA BulkSent ==
  ASSUME TypeOK, SendBulk
  PROVE  /\ pos' \in Nat \ {0} /\ pos < pos' /\ pos' <= FileUnits + 1
         /\ \E p \in Packets :
               /\ rx' = Append(rx, p)
               /\ p.kind = "OUT" /\ p.data = [i \in 1 .. pos' - pos |-> FileUnit(pos + i - 1)]
               /\ p.odd => pos' = FileUnits + 1 /\ file.sort = "unaligned"
               /\ pos' <= FileUnits => pos' = pos + BulkMax(file.speed)
               /\ pos' <= pos + BulkMax(file.speed)
<1> USE UsbAssumption
<1> DEFINE last == IF pos + BulkMax(file.speed) > FileUnits THEN FileUnits
                                                          ELSE pos + BulkMax(file.speed) - 1
           p == [kind |-> "OUT", odd |-> file.sort = "unaligned" /\ last = FileUnits,
                 data |-> [i \in 1 .. last - pos + 1 |-> FileUnit(pos + i - 1)]]
<1>1. pos \in Nat \ {0} /\ FileUnits \in Nat /\ BulkMax(file.speed) \in Nat \ {0}
  BY FileSizes DEF TypeOK, HostTypeOK, BulkMax
<1>2. rx' = Append(rx, p) /\ pos' = last + 1
  BY DEF SendBulk
<1>3. /\ last \in Nat /\ last >= pos /\ last <= FileUnits
      /\ last < FileUnits => last = pos + BulkMax(file.speed) - 1
      /\ last <= pos + BulkMax(file.speed) - 1
  BY <1>1 DEF SendBulk
<1>4. last - pos + 1 = pos' - pos
  BY <1>1, <1>2, <1>3
<1>5. p.data = [i \in 1 .. pos' - pos |-> FileUnit(pos + i - 1)]
  BY <1>4
<1>6. p \in Packets
  <2>1. last - pos + 1 \in Nat
    BY <1>1, <1>3
  <2>2. \A i \in 1 .. last - pos + 1 : FileUnit(pos + i - 1) \in Units
    BY <1>1, <2>1, FileUnitType
  <2>3. p.data \in Seq(Units)
    BY <2>1, <2>2, FunctionIsSeq
  <2> QED
    BY <2>3 DEF Packets, Outs
<1>7. p.odd => pos' = FileUnits + 1 /\ file.sort = "unaligned"
  BY <1>2
<1>8. p.kind = "OUT"
  OBVIOUS
<1>9. /\ pos' \in Nat \ {0} /\ pos < pos' /\ pos' <= FileUnits + 1
      /\ pos' <= FileUnits => pos' = pos + BulkMax(file.speed)
      /\ pos' <= pos + BulkMax(file.speed)
  <2> HIDE DEF p, last
  <2>1. pos' = last + 1
    BY <1>2
  <2> QED
    BY <1>1, <1>3, <2>1
<1> HIDE DEF p, last
<1> QED
  BY <1>2, <1>5, <1>6, <1>7, <1>8, <1>9, Zenon

\* What is of no packet, NoPacket among them, is told from a packet.
LEMMA NatPacket == NoPacket \notin Seq(Nat) /\ NoPacket \in Seq(Int) /\ \A s \in Seq(Nat) : s \in Seq(Int)
<1>1. NoPacket \notin Seq(Nat)
  <2>1. ASSUME NoPacket \in Seq(Nat)
        PROVE  FALSE
    <3>1. NoPacket[1] \in Nat
      BY <2>1, ElementOfSeq DEF NoPacket
    <3> QED
      BY <3>1 DEF NoPacket
  <2> QED
    BY <2>1
<1>2. ASSUME NEW s \in Seq(Nat)
      PROVE  s \in Seq(Int)
  <2>1. s \in [1 .. Len(s) -> Nat] /\ Len(s) \in Nat
    BY LenProperties
  <2>2. s \in [1 .. Len(s) -> Int]
    BY <2>1
  <2> QED
    BY <2>1, <2>2, FunctionIsSeq
<1> QED
  BY <1>1, <1>2 DEF NoPacket

\* A packet is as long as what was written for it; it has just that when there
\* was nothing in the FIFO before.
LEMMA SendTyping ==
  ASSUME TypeOK, NEW data \in Seq(Nat), Send(data)
  PROVE  /\ tx' \in Seq(Nat) /\ left' \in Seq(Nat)
         /\ left' = <<>> => left = <<>>
         /\ left = <<>> /\ tx = NoPacket => tx' = data /\ left' = <<>>
<1> DEFINE unsent == IF tx = NoPacket THEN <<>> ELSE tx
           fifo == unsent \o left \o data
<1>1. unsent \in Seq(Nat) /\ left \in Seq(Nat)
  BY EmptySeq DEF TypeOK, CoreTypeOK
<1>2. /\ unsent \o left \in Seq(Nat) /\ Len(unsent \o left) = Len(unsent) + Len(left)
      /\ fifo \in Seq(Nat) /\ Len(fifo) = Len(unsent) + Len(left) + Len(data)
      /\ Len(unsent) \in Nat /\ Len(left) \in Nat /\ Len(data) \in Nat
  <2> HIDE DEF unsent
  <2>1. unsent \o left \in Seq(Nat) /\ Len(unsent \o left) = Len(unsent) + Len(left)
    BY <1>1, ConcatProperties
  <2>2. fifo \in Seq(Nat) /\ Len(fifo) = Len(unsent \o left) + Len(data)
    BY <2>1, ConcatProperties
  <2> QED
    BY <1>1, <2>1, <2>2, LenProperties
<1>3. tx' = SubSeq(fifo, 1, Len(data)) /\ left' = SubSeq(fifo, Len(data) + 1, Len(fifo))
  BY DEF Send
<1>4. left = <<>> /\ tx = NoPacket => fifo = data
  BY ConcatEmptySeq, EmptySeq
<1> HIDE DEF fifo, unsent
<1>5. \A i \in 1 .. Len(fifo) : fifo[i] \in Nat
  BY <1>2, ElementOfSeq
<1>6. tx' \in Seq(Nat)
  <2>1. \A i \in 1 .. Len(data) : fifo[i] \in Nat
    BY <1>2, <1>5
  <2> QED
    BY <1>2, <1>3, <2>1, SubSeqProperties
<1>7. /\ left' \in Seq(Nat)
      /\ Len(left') = IF Len(data) + 1 <= Len(fifo) THEN Len(fifo) - (Len(data) + 1) + 1 ELSE 0
  <2>1. \A i \in Len(data) + 1 .. Len(fifo) : fifo[i] \in Nat
    BY <1>2, <1>5
  <2>2. Len(data) + 1 \in Int /\ Len(fifo) \in Int
    BY <1>2
  <2> QED
    BY <1>3, <2>1, <2>2, SubSeqProperties
<1>8. ASSUME left' = <<>>
      PROVE  left = <<>>
  <2>1. Len(left') = 0
    BY <1>8, EmptySeq
  <2>2. Len(fifo) < Len(data) + 1
    <3>1. CASE Len(data) + 1 <= Len(fifo)
      <4>1. Len(left') = Len(fifo) - (Len(data) + 1) + 1
        BY <1>7, <3>1
      <4>2. \A d, l \in Nat : d + 1 <= l => l - (d + 1) + 1 # 0
        OBVIOUS
      <4>3. Len(data) \in Nat /\ Len(fifo) \in Nat
        BY <1>2, LenProperties
      <4> QED
        BY <2>1, <3>1, <4>1, <4>2, <4>3
    <3>2. CASE ~(Len(data) + 1 <= Len(fifo))
      BY <1>2, <3>2
    <3> QED
      BY <3>1, <3>2
  <2>3. Len(left) = 0
    <3> HIDE DEF Send
    <3>1. \A a, b, c \in Nat : a + b + c < c + 1 => b = 0
      OBVIOUS
    <3> QED
      BY <1>2, <2>2, <3>1
  <2> QED
    BY <1>1, <2>3, EmptySeq
<1>9. ASSUME left = <<>>, tx = NoPacket
      PROVE  tx' = data /\ left' = <<>>
  <2>1. fifo = data
    BY <1>4, <1>9
  <2>2. Len(data) < Len(data) + 1 /\ Len(data) \in Int /\ Len(data) + 1 \in Int
    BY <1>2
  <2> QED
    BY <1>3, <2>1, <2>2, SubSeqFull, SubSeqEmpty
<1> QED
  BY <1>6, <1>7, <1>8, <1>9

LEMMA RequestTyping ==
  ASSUME TypeOK, rx # <<>>, Head(rx).kind = "SETUP", Request(Head(rx))
  PROVE  /\ ep0_state' \in {"INIT", "GET_STATUS", "GET_DSCPT"} /\ Current_ptr' \in Nat
         /\ Remain_size' \in Nat /\ tx' \in Seq(Nat) \cup {NoPacket} /\ left' \in Seq(Nat)
         /\ left' = <<>> => left = <<>>
         /\ Head(rx).request # "configuration" => UNCHANGED <<tx, left>>
<1> USE UsbAssumption
<1>1. Head(rx).length \in Nat
  BY HeadPacket DEF Setups
<1>2. /\ ep0_state' \in {"INIT", "GET_STATUS", "GET_DSCPT"} /\ Current_ptr' \in Nat
      /\ Remain_size' \in Nat
  BY <1>1 DEF Request, GetDescriptor, ep0, TypeOK, LoaderTypeOK
<1>3. CASE Head(rx).request = "configuration"
  <2>1. GetConfiguration
    BY <1>3 DEF Request
  <2>2. CASE Send(<<0>>)
    <3>1. <<0>> \in Seq(Nat)
      OBVIOUS
    <3> QED
      BY <1>2, <1>3, <2>2, <3>1, SendTyping
  <2>3. CASE left' = Append(left, 0) /\ UNCHANGED tx
    <3>1. left' \in Seq(Nat) /\ left' # <<>>
      BY <2>3, AppendProperties DEF TypeOK, CoreTypeOK
    <3> QED
      BY <1>2, <1>3, <2>3, <3>1 DEF TypeOK, CoreTypeOK
  <2> QED
    BY <2>1, <2>2, <2>3 DEF GetConfiguration
<1>4. CASE Head(rx).request # "configuration"
  BY <1>2, <1>4 DEF Request, TypeOK, CoreTypeOK
<1> QED
  BY <1>3, <1>4

LEMMA HostTyping ==
  ASSUME TypeOK, PassOK, Host \/ BusReset
  PROVE  TypeOK' /\ PassOK'
<1> USE UsbAssumption
<1> UNCHANGED loader => LoaderTypeOK'
  BY DEF TypeOK, LoaderTypeOK, loader, ep0, download
<1> UNCHANGED host => HostTypeOK'
  BY DEF TypeOK, HostTypeOK, host
<1>e. /\ <<>> \in Seq(Int) /\ tx \in Seq(Int)
      /\ left \in Seq(Nat) /\ (tx # NoPacket => tx \o left \in Seq(Nat))
  <2>1. left \in Seq(Nat) /\ tx \in Seq(Nat) \cup {NoPacket}
    BY DEF TypeOK, CoreTypeOK
  <2>2. tx \in Seq(Int)
    BY <2>1, NatPacket DEF NoPacket
  <2> QED
    BY <2>1, <2>2, EmptySeq, ConcatProperties
<1>1. CASE BusReset
  <2>1. CoreTypeOK'
    BY <1>1, <1>e DEF BusReset, TypeOK, CoreTypeOK
  <2>2. HostTypeOK'
    <3>1. asked' \in BOOLEAN
      BY <1>1 DEF BusReset
    <3>2. /\ session' \in Nat /\ file' \in Files /\ phase' = "reset"
          /\ reqs' \in Nat /\ want' = 0 /\ got' = <<>> /\ pos' = 1
      BY <1>1 DEF BusReset, TypeOK, HostTypeOK
    <3> QED
      BY <1>e, <3>1, <3>2 DEF HostTypeOK
  <2>3. lag' \in BOOLEAN
    BY <1>1 DEF BusReset
  <2>4. LoaderTypeOK'
    BY <1>1 DEF BusReset
  <2>5. PassOK'
    BY <1>1 DEF BusReset, PassOK, loader, download
  <2> QED
    BY <2>1, <2>2, <2>3, <2>4, <2>5 DEF TypeOK
<1>2. CASE Enumerated
  <2>1. TypeOK'
    BY <1>2 DEF Enumerated, TypeOK, CoreTypeOK, HostTypeOK
  <2>2. PassOK'
    BY <1>2 DEF Enumerated, TypeOK, HostTypeOK, PassOK, loader, download
  <2> QED
    BY <2>1, <2>2
<1>3. CASE SendSetup
  <2>1. PICK request \in Requests, n \in WANTS :
           /\ rx' = Append(rx, Setup(request, n))
           /\ want' = IF request = "descriptor" THEN n ELSE IF request = "plain" THEN 0 ELSE 1
           /\ phase' = IF request = "descriptor" THEN "descriptor" ELSE "answer"
    BY <1>3 DEF SendSetup, Setup
  <2>2. Setup(request, n) \in Packets
    BY DEF Setup, Packets, Setups
  <2>3. rx' \in Seq(Packets) /\ rx' # <<>>
    BY <2>1, <2>2, PacketSent
  <2>4. CoreTypeOK' /\ LoaderTypeOK' /\ lag' \in BOOLEAN
    BY <1>3, <2>3 DEF SendSetup, TypeOK, CoreTypeOK
  <2>5. HostTypeOK'
    <3>1. want' \in Nat
      BY <2>1
    <3>2. asked' \in BOOLEAN
      BY <1>3 DEF SendSetup
    <3> QED
      BY <1>3, <1>e, <2>1, <3>1, <3>2 DEF SendSetup, TypeOK, HostTypeOK
  <2>6. PassOK'
    BY <1>3, <2>3 DEF SendSetup, PassOK, loader, download
  <2> QED
    BY <2>4, <2>5, <2>6 DEF TypeOK
<1>4. CASE TokenNoted
  <2>1. TypeOK'
    BY <1>4 DEF TokenNoted, TypeOK, CoreTypeOK
  <2>2. PassOK'
    BY <1>4 DEF TokenNoted, PassOK, loader, download, host
  <2> QED
    BY <2>1, <2>2
<1>5. CASE TokenAnswered
  <2>1. [kind |-> "other"] \in Packets
    BY DEF Packets
  <2>2. /\ Append(rx, [kind |-> "other"]) \in Seq(Packets)
        /\ Append(rx, [kind |-> "other"]) # <<>>
    BY <2>1, PacketSent
  <2>3. got \o tx \in Seq(Int)
    BY <1>e, ConcatProperties DEF TypeOK, HostTypeOK
  <2>4. reqs - 1 \in Nat /\ (reqs # 1 => reqs - 1 > 0)
    BY <1>5 DEF TokenAnswered, TypeOK, HostTypeOK, PassOK
  <2>5. CoreTypeOK' /\ LoaderTypeOK' /\ lag' \in BOOLEAN
    BY <1>5, <1>e, <2>2 DEF TokenAnswered, TypeOK, CoreTypeOK
  <2>6. HostTypeOK'
    <3> DEFINE over == Len(got \o tx) >= want \/ Len(tx) < CtrlMax(file.speed)
    <3>1. reqs' \in Nat /\ want' \in Nat /\ got' \in Seq(Int)
      <4>1. CASE over
        <5>1. reqs' = reqs - 1 /\ want' = 0 /\ got' = <<>>
          BY <1>5, <4>1, Zenon DEF TokenAnswered
        <5> QED
          BY <1>e, <2>4, <5>1
      <4>2. CASE ~over
        BY <1>5, <2>3, <4>2 DEF TokenAnswered, TypeOK, HostTypeOK
      <4> QED
        BY <4>1, <4>2
    <3>2. phase' \in {phase, "setup", "bulk"} /\ UNCHANGED <<session, file, pos, asked>>
      BY <1>5 DEF TokenAnswered
    <3> QED
      BY <3>1, <3>2 DEF TypeOK, HostTypeOK
  <2>7. PassOK'
    BY <1>5, <2>2, <2>4 DEF TokenAnswered, PassOK, loader, download
  <2> QED
    BY <2>5, <2>6, <2>7 DEF TypeOK
<1>6. CASE SendBulk
  <2>1. pos' \in Nat \ {0} /\ rx' \in Seq(Packets) /\ rx' # <<>>
    BY <1>6, BulkSent, PacketSent
  <2>2. CoreTypeOK' /\ LoaderTypeOK' /\ lag' \in BOOLEAN
    BY <1>6, <2>1 DEF SendBulk, TypeOK, CoreTypeOK
  <2>3. HostTypeOK'
    BY <1>6, <2>1 DEF SendBulk, TypeOK, HostTypeOK
  <2>4. PassOK'
    BY <1>6, <2>1 DEF SendBulk, PassOK, loader, download
  <2> QED
    BY <2>2, <2>3, <2>4 DEF TypeOK
<1> QED
  BY <1>1, <1>2, <1>3, <1>4, <1>5, <1>6 DEF Host

LEMMA LoaderTyping ==
  ASSUME TypeOK, PassOK, Loader
  PROVE  TypeOK' /\ PassOK'
<1> USE UsbAssumption
<1> UNCHANGED host => HostTypeOK'
  BY DEF TypeOK, HostTypeOK, host
<1> UNCHANGED core => CoreTypeOK'
  BY DEF TypeOK, CoreTypeOK, core
<1>a. CASE ReadStatus
  <2>1. int_status' \subseteq {"USBRst", "EnumDone", "RXFLvl", "IEPInt"}
    BY <1>a DEF ReadStatus, Pending, TypeOK, CoreTypeOK
  <2>2. TypeOK'
    BY <1>a, <2>1 DEF ReadStatus, TypeOK, LoaderTypeOK, ep0, download
  <2>3. PassOK'
    BY <1>a DEF ReadStatus, Pending, TypeOK, CoreTypeOK, PassOK, core, download, host
  <2> QED
    BY <2>2, <2>3
<1>b. CASE nx_usb_reset
  <2>1. TypeOK'
    BY <1>b DEF nx_usb_reset, Handles, TypeOK, LoaderTypeOK, download
  <2>2. PassOK'
    BY <1>b DEF nx_usb_reset, Handles, PassOK, core, download, host
  <2> QED
    BY <2>1, <2>2
<1>c. CASE nx_usb_set_init
  <2>1. LoaderTypeOK'
    <3>1. speed' \in Speeds \ {"USB_LOW"}
      BY <1>c, FileSizes DEF nx_usb_set_init, TypeOK, LoaderTypeOK
    <3>2. int_status' \subseteq int_status /\ bHeaderReceived' = FALSE /\ iRxHeaderSize' = 0
      BY <1>c DEF nx_usb_set_init
    <3>3. 0 \in 0 .. Len(header)
      BY LenProperties DEF TypeOK, LoaderTypeOK
    <3> QED
      BY <1>c, <3>1, <3>2, <3>3 DEF nx_usb_set_init, TypeOK, LoaderTypeOK, ep0
  <2>2. CoreTypeOK' /\ HostTypeOK' /\ lag' \in BOOLEAN
    BY <1>c DEF nx_usb_set_init, TypeOK, CoreTypeOK
  <2>3. PassOK'
    BY <1>c DEF nx_usb_set_init, PassOK, host
  <2> QED
    BY <2>1, <2>2, <2>3 DEF TypeOK
<1>d. CASE NothingToSend
  <2>1. TypeOK'
    BY <1>d DEF NothingToSend, Handles, TypeOK, LoaderTypeOK, ep0, download
  <2>2. PassOK'
    BY <1>d DEF NothingToSend, Handles, PassOK, core, download, host
  <2> QED
    BY <2>1, <2>2
<1>e. CASE nx_usb_transfer_ep0
  <2>1. CtrlMax(speed) \in Nat /\ (CtrlMax(speed) < Remain_size => Remain_size - CtrlMax(speed) \in Nat)
    BY DEF CtrlMax, TypeOK, LoaderTypeOK
  <2>2. <<>> \in Seq(Nat) /\ <<0>> \in Seq(Nat)
    BY EmptySeq
  <2>3. Descriptor(Remain_size) \in Seq(Nat) /\ Descriptor(CtrlMax(speed)) \in Seq(Nat)
    BY <2>1, DescriptorSeq DEF TypeOK, LoaderTypeOK
  <2>4. /\ tx' \in Seq(Nat) /\ left' \in Seq(Nat) /\ ep0_state' \in {ep0_state, "INIT"}
        /\ Current_ptr' \in Nat /\ Remain_size' \in Nat
    <3>1. CASE ep0_state = "INIT"
      <4>1. Send(<<>>) /\ UNCHANGED ep0
        BY <1>e, <3>1 DEF nx_usb_transfer_ep0
      <4> QED
        BY <2>2, <4>1, SendTyping DEF ep0, TypeOK, LoaderTypeOK
    <3>2. CASE ep0_state = "GET_STATUS"
      <4>1. Send(<<0>>) /\ ep0_state' = "INIT" /\ UNCHANGED <<Current_ptr, Remain_size>>
        BY <1>e, <3>2 DEF nx_usb_transfer_ep0
      <4> QED
        BY <2>2, <4>1, SendTyping DEF TypeOK, LoaderTypeOK
    <3>3. CASE ep0_state = "GET_DSCPT"
      <4>1. /\ Send(Descriptor(Remain_size)) \/ Send(Descriptor(CtrlMax(speed)))
            /\ ep0_state' \in {ep0_state, "INIT"}
            /\ \/ UNCHANGED <<Current_ptr, Remain_size>>
               \/ /\ CtrlMax(speed) < Remain_size
                  /\ Remain_size' = Remain_size - CtrlMax(speed)
                  /\ Current_ptr' = Current_ptr + CtrlMax(speed)
        <5>1. CASE CtrlMax(speed) >= Remain_size
          BY <1>e, <3>3, <5>1 DEF nx_usb_transfer_ep0
        <5>2. CASE ~(CtrlMax(speed) >= Remain_size)
          <6>1. CtrlMax(speed) < Remain_size
            BY <2>1, <5>2 DEF TypeOK, LoaderTypeOK
          <6> QED
            BY <1>e, <3>3, <5>2, <6>1 DEF nx_usb_transfer_ep0
        <5> QED
          BY <5>1, <5>2
      <4>2. tx' \in Seq(Nat) /\ left' \in Seq(Nat)
        BY <2>3, <4>1, SendTyping
      <4> QED
        BY <2>1, <4>1, <4>2 DEF TypeOK, LoaderTypeOK
    <3> QED
      BY <3>1, <3>2, <3>3 DEF TypeOK, LoaderTypeOK
  <2>5. /\ Handles("IEPInt", {"USBRst", "EnumDone", "RXFLvl"}) /\ token' = FALSE
        /\ UNCHANGED <<events, rx, armed, pass, speed, download, host, lag>>
    BY <1>e DEF nx_usb_transfer_ep0
  <2>6. TypeOK'
    BY <2>4, <2>5 DEF Handles, TypeOK, CoreTypeOK, LoaderTypeOK, download
  <2>7. PassOK'
    BY <2>5 DEF Handles, PassOK, download, host
  <2> QED
    BY <2>6, <2>7
<1>f. CASE ClearStatus
  <2>1. TypeOK'
    BY <1>f DEF ClearStatus, TypeOK, CoreTypeOK, LoaderTypeOK, ep0, download
  <2>2. PassOK'
    BY <1>f DEF ClearStatus, PassOK, download, host
  <2> QED
    BY <2>1, <2>2
<1>g. ASSUME Handles("RXFLvl", {"USBRst", "EnumDone"}), UNCHANGED <<pass, host>>
      PROVE  /\ int_status' \subseteq {"IEPInt"} /\ pass /\ UNCHANGED phase /\ UNCHANGED reqs
             /\ rx # <<>> /\ Tail(rx) \in Seq(Packets)
  BY <1>g, HeadPacket DEF Handles, TypeOK, LoaderTypeOK, PassOK, host
<1>h. CASE ReceiveOther
  <2>1. int_status' \subseteq {"IEPInt"} /\ pass /\ rx' \in Seq(Packets)
    BY <1>g, <1>h DEF ReceiveOther, Receives, Meets
  <2>2. TypeOK'
    BY <1>h, <2>1 DEF ReceiveOther, TypeOK, CoreTypeOK, LoaderTypeOK, ep0, download
  <2>3. PassOK'
    BY <1>h, <2>1 DEF ReceiveOther, PassOK, download, host
  <2> QED
    BY <2>2, <2>3
<1>i. CASE nx_usb_ep0_int_hndlr
  <2>1. /\ Meets("SETUP") /\ UNCHANGED <<events, token, armed, pass, speed, download, host, lag>>
        /\ IF ep0_state = "INIT"
           THEN rx' = Tail(rx) /\ Request(Head(rx))
           ELSE /\ rx' = <<[kind |-> "other"], [kind |-> "other"]>> \o Tail(rx)
                /\ UNCHANGED <<tx, left, ep0>>
    BY <1>i DEF nx_usb_ep0_int_hndlr
  <2>2. int_status' \subseteq {"IEPInt"} /\ pass /\ rx # <<>> /\ Tail(rx) \in Seq(Packets)
    BY <1>g, <2>1 DEF Meets
  <2>3. rx' \in Seq(Packets)
    <3>1. <<[kind |-> "other"], [kind |-> "other"]>> \in Seq(Packets)
      BY DEF Packets
    <3>2. CASE rx' = Tail(rx)
      BY ONLY <2>2, <3>2
    <3>3. CASE rx' = <<[kind |-> "other"], [kind |-> "other"]>> \o Tail(rx)
      <4> DEFINE two == <<[kind |-> "other"], [kind |-> "other"]>>
      <4>1. two \in Seq(Packets) /\ Tail(rx) \in Seq(Packets) /\ rx' = two \o Tail(rx)
        BY ONLY <2>2, <3>1, <3>3
      <4> HIDE DEF two
      <4> QED
        BY ONLY <4>1, ConcatProperties
    <3> QED
      BY ONLY <2>1, <3>2, <3>3
  <2>4. Request(Head(rx)) =>
           /\ ep0_state' \in {"INIT", "GET_STATUS", "GET_DSCPT"} /\ Current_ptr' \in Nat
           /\ Remain_size' \in Nat /\ tx' \in Seq(Nat) \cup {NoPacket} /\ left' \in Seq(Nat)
    BY <2>1, <2>2, RequestTyping DEF Meets
  <2>5. /\ ep0_state' \in {"INIT", "GET_STATUS", "GET_DSCPT"} /\ Current_ptr' \in Nat
        /\ Remain_size' \in Nat /\ tx' \in Seq(Nat) \cup {NoPacket} /\ left' \in Seq(Nat)
    BY <2>1, <2>4 DEF TypeOK, LoaderTypeOK, CoreTypeOK, ep0
  <2>6. TypeOK'
    BY <2>1, <2>2, <2>3, <2>5 DEF TypeOK, CoreTypeOK, LoaderTypeOK, download
  <2>7. PassOK'
    BY <2>1, <2>2 DEF PassOK, download, host
  <2> QED
    BY <2>6, <2>7
<1>j. CASE ReceiveHeader
  <2> DEFINE data == Head(rx).data
             count == IF Head(rx).odd THEN iRxHeaderSize ELSE iRxHeaderSize + Len(data)
  <2>1. int_status' \subseteq {"IEPInt"} /\ pass /\ rx # <<>> /\ rx' \in Seq(Packets)
    BY <1>g, <1>j DEF ReceiveHeader, Receives, Meets
  <2>2. data \in Seq(Units) /\ Len(data) \in Nat
    BY <1>j, <2>1, HeadPacket, LenProperties DEF ReceiveHeader, Receives, Meets, Outs
  <2>3. /\ header' \in Seq(Units) /\ Len(header') \in Nat
        /\ Len(header') >= iRxHeaderSize + Len(data) /\ iRxHeaderSize \in Nat
    BY <1>j, <2>2, WrittenSeq, LenProperties DEF ReceiveHeader, TypeOK, LoaderTypeOK
  <2>4. count \in 0 .. Len(header')
    BY <2>2, <2>3
  <2>5. /\ iRxHeaderSize' \in {0, count} /\ bHeaderReceived' \in BOOLEAN
        /\ iRxSize' \in Int /\ stored' \in Seq(Units)
    <3>1. CASE count < HEADER
      BY <1>j, <3>1 DEF ReceiveHeader, TypeOK, LoaderTypeOK
    <3>2. CASE ~(count < HEADER) /\ Signed
      <4>1. /\ iRxHeaderSize' = count /\ bHeaderReceived' = TRUE /\ stored' = <<>>
        BY <1>j, <3>2 DEF ReceiveHeader
      <4>2. iRxSize' \in Int
        <5>1. iRxSize' \in {file.size} \cup SIZES
          BY <1>j, <3>2 DEF ReceiveHeader
        <5>2. iRxSize' \in SIZES
          BY <5>1, FileSizes
        <5>3. SIZES \subseteq Nat
          OBVIOUS
        <5>4. iRxSize' \in Nat
          BY <5>2, <5>3
        <5> QED
          BY <5>4
      <4>3. stored' \in Seq(Units)
        BY <4>1, EmptySeq
      <4> QED
        BY <4>1, <4>2, <4>3
    <3>3. CASE ~(count < HEADER) /\ ~Signed
      BY <1>j, <3>3 DEF ReceiveHeader, TypeOK, LoaderTypeOK
    <3> QED
      BY <3>1, <3>2, <3>3
  <2>6. /\ UNCHANGED <<events, tx, left, token, pass, ep0, speed, bDownLoading, host, lag>>
        /\ armed' = TRUE
    BY <1>j DEF ReceiveHeader
  <2>7. TypeOK'
    <3>1. iRxHeaderSize' \in 0 .. Len(header')
      BY <2>3, <2>4, <2>5
    <3> QED
      BY <2>1, <2>3, <2>5, <2>6, <3>1 DEF TypeOK, CoreTypeOK, LoaderTypeOK, ep0
  <2>8. PassOK'
    BY <2>1, <2>6 DEF PassOK, host
  <2> QED
    BY <2>7, <2>8
<1>k. CASE ReceiveBody
  <2>1. int_status' \subseteq {"IEPInt"} /\ pass /\ rx # <<>> /\ rx' \in Seq(Packets)
    BY <1>g, <1>k DEF ReceiveBody, Receives, Meets
  <2>2. Head(rx).data \in Seq(Units) /\ Len(Head(rx).data) \in Nat
    BY <1>k, <2>1, HeadPacket, LenProperties DEF ReceiveBody, Receives, Meets, Outs
  <2>3. stored' \in Seq(Units) /\ iRxSize' \in Int
    BY <1>k, <2>2, ConcatProperties DEF ReceiveBody, TypeOK, LoaderTypeOK
  <2>4. bDownLoading' \in BOOLEAN /\ bHeaderReceived' \in BOOLEAN
    BY <1>k DEF ReceiveBody
  <2>5. /\ UNCHANGED <<events, tx, left, token, pass, ep0, speed, header, iRxHeaderSize, host, lag>>
        /\ armed' = TRUE
    BY <1>k DEF ReceiveBody
  <2>6. TypeOK'
    BY <2>1, <2>3, <2>4, <2>5 DEF TypeOK, CoreTypeOK, LoaderTypeOK, ep0
  <2>7. PassOK'
    BY <2>1, <2>5 DEF PassOK, host
  <2> QED
    BY <2>6, <2>7
<1> QED
  BY <1>a, <1>b, <1>c, <1>d, <1>e, <1>f, <1>h, <1>i, <1>j, <1>k DEF Loader

LEMMA InitTyping == Init => TypeOK /\ PassOK
<1> SUFFICES ASSUME Init
             PROVE  TypeOK /\ PassOK
  OBVIOUS
<1> USE UsbAssumption
<1>1. <<>> \in Seq(Int) /\ <<>> \in Seq(Nat) /\ <<>> \in Seq(Packets)
      /\ <<>> \in Seq(Units) /\ Len(<<>>) = 0
  BY EmptySeq
<1>2. CoreTypeOK
  BY <1>1 DEF Init, CoreTypeOK
<1>3. LoaderTypeOK
  <2>1. iRxHeaderSize \in 0 .. Len(header)
    BY <1>1 DEF Init
  <2>2. header \in Seq(Units) /\ stored \in Seq(Units)
    BY <1>1 DEF Init
  <2>3. speed \in Speeds \ {"USB_LOW"} /\ ep0_state \in {"INIT", "GET_STATUS", "GET_DSCPT"}
    BY DEF Init, Speeds
  <2>4. /\ pass = FALSE /\ int_status = {} /\ Current_ptr = 0 /\ Remain_size = 0
        /\ bHeaderReceived = FALSE /\ bDownLoading = TRUE /\ iRxSize = 0
    BY DEF Init
  <2>5. pass \in BOOLEAN /\ bHeaderReceived \in BOOLEAN /\ bDownLoading \in BOOLEAN
    BY <2>4
  <2>6. int_status \subseteq {"USBRst", "EnumDone", "RXFLvl", "IEPInt"}
    BY <2>4
  <2>7. Current_ptr \in Nat /\ Remain_size \in Nat /\ iRxSize \in Int
    BY <2>4
  <2> QED
    BY <2>1, <2>2, <2>3, <2>5, <2>6, <2>7 DEF LoaderTypeOK
<1>4. HostTypeOK
  <2>1. file \in Files
    BY DEF Init, Files, Speeds
  <2> QED
    <3>1. asked \in BOOLEAN
      BY DEF Init
    <3>2. session = 0 /\ phase = "idle" /\ reqs = 0 /\ want = 0 /\ got = <<>> /\ pos = 1
      BY DEF Init
    <3> QED
      BY <1>1, <2>1, <3>1, <3>2 DEF HostTypeOK
<1> QED
  BY <1>2, <1>3, <1>4 DEF Init, TypeOK, PassOK

LEMMA StutterTyping == TypeOK /\ PassOK /\ UNCHANGED vars => (TypeOK /\ PassOK)'
  BY DEF TypeOK, CoreTypeOK, LoaderTypeOK, HostTypeOK, PassOK, vars, core, loader, ep0,
         download, host

(***************************************************************************)
(* No variable leaves its range, in any order of sessions and passes: the  *)
(* loader reads a packet of the FIFO only when there is one, and counts no *)
(* more of a header than it has written.                                   *)
(***************************************************************************)
THEOREM Typing == Spec => [](TypeOK /\ PassOK)
<1>1. TypeOK /\ PassOK /\ [Next]_vars => (TypeOK /\ PassOK)'
  BY HostTyping, LoaderTyping, StutterTyping DEF Next
<1> QED
  BY <1>1, InitTyping, PTL DEF Spec

-----------------------------------------------------------------------------
(* What most steps leave alone                                             *)

LEMMA PieceSame ==
  ASSUME UNCHANGED <<session, file>>, NEW p, NEW a, NEW b
  PROVE  Piece(p, a, b)' <=> Piece(p, a, b)
  BY DEF Piece, FileUnits, FileUnit

LEMMA PartsSame ==
  ASSUME UNCHANGED <<session, file, download>>, NEW r
  PROVE  /\ FileUnits' = FileUnits /\ UNCHANGED bDownLoading
         /\ HeaderPart(r)' <=> HeaderPart(r)
         /\ BodyPart(r)' <=> BodyPart(r)
<1>1. HeaderPart(r)' <=> HeaderPart(r)
  BY DEF HeaderPart, FileUnits, FileUnit, download
<1>2. BodyPart(r)' <=> BodyPart(r)
  BY DEF BodyPart, FileUnits, download
<1> QED
  BY <1>1, <1>2 DEF FileUnits, download

LEMMA BulkSame ==
  ASSUME BulkOK, UNCHANGED <<rx, pos, armed, session, file, phase, download>>, Known' <=> Known
  PROVE  BulkOK'
<1>1. ASSUME NEW r
      PROVE  Queue(r)' <=> Queue(r)
  BY PieceSame DEF Queue, Ahead
<1> QED
  BY <1>1, PartsSame DEF BulkOK

\* A source that the pass takes away changes nothing for the two events.
LEMMA WaitingSame ==
  ASSUME PassOK, EventsOK, NEW event \in {"USBRst", "EnumDone"},
         \/ UNCHANGED <<events, pass, int_status>>
         \/ UNCHANGED events /\ ReadStatus
         \/ UNCHANGED events /\ UNCHANGED pass /\ pass /\ int_status \ {"RXFLvl", "IEPInt"} = int_status' \ {"RXFLvl", "IEPInt"}
         \/ ClearStatus
  PROVE  Waiting(event)' <=> Waiting(event)
<1>1. CASE UNCHANGED <<events, pass, int_status>>
  BY <1>1 DEF Waiting
<1>2. CASE UNCHANGED events /\ ReadStatus
  BY <1>2 DEF Waiting, ReadStatus, Pending
<1>3. CASE UNCHANGED events /\ UNCHANGED pass /\ pass /\ int_status \ {"RXFLvl", "IEPInt"} = int_status' \ {"RXFLvl", "IEPInt"}
  BY <1>3 DEF Waiting
<1>4. CASE ClearStatus
  BY <1>4 DEF Waiting, ClearStatus
<1> QED
  BY <1>1, <1>2, <1>3, <1>4

\* Once the bus is known, and stays so, the latches do.
LEMMA EventsKept ==
  ASSUME EventsOK, Known, Known', UNCHANGED <<events, speed, file>>, int_status' \subseteq int_status,
         file.speed = "USB_LOW" => ~armed'
  PROVE  EventsOK'
  BY DEF EventsOK, Known

-----------------------------------------------------------------------------
(* The session and endpoint 2: the steps of the host                       *)

LEMMA ResetStep ==
  ASSUME TypeOK, PassOK, TypeOK', BusReset, ~lag'
  PROVE  InStep'
<1> USE UsbAssumption
<1>1. ~pass /\ rx = <<>> /\ tx' = NoPacket
  BY DEF BusReset
<1>2. /\ bDownLoading /\ UNCHANGED <<rx, pass, int_status, ep0, speed, download>>
      /\ phase' = "reset" /\ events' = events \cup {"USBRst"} /\ token' = FALSE /\ armed' = FALSE
      /\ pos' = 1
  BY DEF BusReset, loader
<1>3. ~Known'
  BY <1>2 DEF Known, Begun
<1>4. EventsOK'
  BY <1>1, <1>2, <1>3 DEF EventsOK, PassOK
<1>5. BulkOK'
  <2>1. rx' = <<>> /\ Len(rx') = 0
    BY <1>1, <1>2, EmptySeq
  <2>2. 1 <= HEADER + file'.size + 1
    <3>1. file'.size \in SIZES
      BY DEF TypeOK, HostTypeOK, Files
    <3>2. file'.size \in Nat /\ HEADER \in Nat
      BY <3>1
    <3> QED
      BY <3>2
  <2>3. bDownLoading' = bDownLoading
    BY <1>2 DEF download
  <2>4. pos' = 1 /\ 0 \in 0 .. 1 - 1
    BY <1>2
  <2>5. Queue(0)'
    BY <2>1, <2>4 DEF Queue, Ahead
  <2> QED
    BY <1>2, <1>3, <2>1, <2>2, <2>3, <2>4, <2>5 DEF BulkOK, FileUnits
<1> QED
  BY <1>4, <1>5 DEF InStep

LEMMA EnumeratedStep ==
  ASSUME TypeOK, PassOK, InStep, Enumerated, ~lag'
  PROVE  InStep'
<1>1. /\ ~pass /\ bDownLoading /\ phase = "reset" /\ phase' \in {"setup", "bulk"}
      /\ events' = events \cup {"EnumDone"}
      /\ UNCHANGED <<rx, tx, token, armed, pass, int_status, ep0, speed, download>>
      /\ UNCHANGED <<session, file, want, got, pos>>
  BY DEF Enumerated, loader
<1>2. ~Known /\ ~Known' /\ Begun'
  BY <1>1 DEF Known, Begun, Waiting
<1>3. EventsOK'
  BY <1>1, <1>2 DEF InStep, EventsOK, PassOK
<1>4. BulkOK'
  <2>1. rx = <<>> /\ Len(rx) = 0 /\ pos = 1 /\ pos <= FileUnits + 1
    BY <1>1, EmptySeq DEF InStep, BulkOK
  <2>2. Queue(0)' /\ FileUnits' = FileUnits
    BY <1>1, <2>1 DEF Queue, Ahead, FileUnits
  <2>3. ~bDownLoading' => file'.speed # "USB_LOW"
    BY <1>1 DEF download
  <2> QED
    BY <1>1, <1>2, <2>1, <2>2, <2>3 DEF BulkOK, download
<1> QED
  BY <1>3, <1>4 DEF InStep

\* An entry of endpoint 0 comes before the file is begun.
LEMMA EntryAdded ==
  ASSUME TypeOK, BulkOK, phase \in {"setup", "descriptor", "answer"},
         phase' \in {"setup", "descriptor", "answer", "bulk"},
         NEW p \in Packets, p.kind # "OUT", rx' = rx \/ rx' = Append(rx, p),
         UNCHANGED <<session, file, pos, armed, download>>, Known' <=> Known,
         ~Known => rx = <<>> /\ phase' # "bulk"
  PROVE  BulkOK'
<1>1. PICK r \in 0 .. pos - 1 : BulkOK!(r)
  BY DEF BulkOK
<1>2. pos = 1 /\ r = 0
  BY <1>1
<1>3. Ahead(Len(rx))
  <2>1. \A q, m : ~Piece(q, 1, 1) /\ ~(m \in 1 .. 1 /\ Piece(q, 1, m))
    BY DEF Piece
  <2> QED
    BY <1>1, <1>2, <2>1 DEF Queue
<1>4. Queue(0)' /\ (rx = <<>> => Len(rx') < 2)
  <2>1. CASE rx' = rx
    BY <1>2, <1>3, <2>1, EmptySeq DEF Queue, Ahead
  <2>2. CASE rx' = Append(rx, p)
    <3>1. /\ Len(rx') = Len(rx) + 1 /\ Len(rx) \in Nat
          /\ \A i \in 1 .. Len(rx) : rx'[i] = rx[i]
          /\ rx'[Len(rx) + 1] = p
      BY <2>2, AppendProperties, LenProperties DEF TypeOK, CoreTypeOK
    <3>2. ASSUME NEW i \in 1 .. Len(rx')
          PROVE  rx'[i].kind # "OUT"
      <4>1. CASE i = Len(rx) + 1
        BY <3>1, <4>1
      <4>2. CASE i # Len(rx) + 1
        <5>1. i \in 1 .. Len(rx)
          BY <3>1, <4>2
        <5> QED
          BY <1>3, <3>1, <5>1 DEF Ahead
      <4> QED
        BY <4>1, <4>2
    <3>3. Ahead(Len(rx))'
      BY <3>2 DEF Ahead
    <3>4. rx = <<>> => Len(rx) = 0
      BY EmptySeq
    <3> QED
      BY <1>2, <3>1, <3>3, <3>4 DEF Queue
  <2> QED
    BY <2>1, <2>2
<1>5. /\ FileUnits' = FileUnits /\ UNCHANGED bDownLoading
      /\ (HeaderPart(0)' <=> HeaderPart(0)) /\ (BodyPart(0)' <=> BodyPart(0))
  BY PartsSame
<1> QED
  BY <1>1, <1>2, <1>4, <1>5 DEF BulkOK

LEMMA SetupStep ==
  ASSUME TypeOK, PassOK, InStep, SendSetup, ~lag'
  PROVE  InStep'
<1>1. /\ rx = <<>> /\ phase = "setup" /\ phase' \in {"descriptor", "answer"}
      /\ UNCHANGED <<events, tx, token, armed, pass, int_status, speed, download>>
      /\ UNCHANGED <<session, file, pos>>
  BY DEF SendSetup, loader
<1>2. PICK request \in Requests, n \in WANTS : rx' = Append(rx, Setup(request, n))
  BY DEF SendSetup, Setup
<1>3. Setup(request, n) \in Packets /\ Setup(request, n).kind # "OUT"
  BY DEF Setup, Packets, Setups
<1>4. Waiting("EnumDone")' <=> Waiting("EnumDone")
  BY <1>1, WaitingSame DEF InStep
<1>5. Known' <=> Known
  BY <1>1, <1>4 DEF Known, Begun
<1>6. EventsOK'
  BY <1>1, <1>5 DEF InStep, EventsOK, Begun
<1>7. BulkOK'
  BY <1>1, <1>2, <1>3, <1>5, EntryAdded DEF InStep
<1> QED
  BY <1>6, <1>7 DEF InStep

LEMMA NotedStep ==
  ASSUME TypeOK, PassOK, InStep, TokenNoted
  PROVE  InStep'
<1>1. /\ phase \in {"descriptor", "answer"} /\ token' = TRUE
      /\ UNCHANGED <<events, rx, tx, armed, pass, int_status, speed, download>>
      /\ UNCHANGED <<session, phase, file, pos>>
  BY DEF TokenNoted, loader, host
<1>2. Waiting("EnumDone")' <=> Waiting("EnumDone")
  BY <1>1, WaitingSame DEF InStep
<1>3. Known' <=> Known
  BY <1>1, <1>2 DEF Known, Begun
<1>4. EventsOK'
  BY <1>1, <1>3 DEF InStep, EventsOK, Begun
<1>5. BulkOK'
  BY <1>1, <1>3, BulkSame DEF InStep
<1> QED
  BY <1>4, <1>5 DEF InStep

LEMMA AnsweredStep ==
  ASSUME TypeOK, PassOK, InStep, TokenAnswered
  PROVE  InStep'
<1>1. /\ tx # NoPacket /\ tx' = NoPacket /\ phase \in {"descriptor", "answer"}
      /\ phase' \in {phase, "setup", "bulk"}
      /\ rx' = rx \/ rx' = Append(rx, [kind |-> "other"])
      /\ UNCHANGED <<events, token, armed, pass, int_status, speed, download>>
      /\ UNCHANGED <<session, file, pos>>
  BY DEF TokenAnswered, loader
<1>2. Waiting("EnumDone")' <=> Waiting("EnumDone")
  BY <1>1, WaitingSame DEF InStep
<1>3. Known /\ Known'
  BY <1>1, <1>2 DEF InStep, EventsOK, Known, Begun
<1>4. EventsOK'
  BY <1>1, <1>3, EventsKept DEF InStep, EventsOK
<1>5. [kind |-> "other"] \in Packets
  BY DEF Packets
<1>6. BulkOK'
  BY <1>1, <1>3, <1>5, EntryAdded DEF InStep
<1> QED
  BY <1>4, <1>6 DEF InStep

LEMMA BulkStep ==
  ASSUME TypeOK, PassOK, InStep, SendBulk
  PROVE  InStep'
<1> USE UsbAssumption
<1>1. /\ phase = "bulk" /\ armed /\ ~armed' /\ pos <= FileUnits /\ bDownLoading
      /\ UNCHANGED <<events, tx, token, pass, int_status, speed, download>>
      /\ UNCHANGED <<session, phase, file>>
  BY DEF SendBulk, loader
<1>2. file.speed # "USB_LOW"
  BY <1>1 DEF InStep, EventsOK
<1>3. Waiting("EnumDone")' <=> Waiting("EnumDone")
  BY <1>1, WaitingSame DEF InStep
<1>4. (Known' <=> Known) /\ FileUnits' = FileUnits
  BY <1>1, <1>3 DEF Known, Begun, FileUnits
<1>5. EventsOK'
  BY <1>1, <1>2, <1>4 DEF InStep, EventsOK, Begun
<1>6. BulkOK'
  <2>1. PICK r \in 0 .. pos - 1 : BulkOK!(r)
    BY DEF InStep, BulkOK
  <2>2. PICK p \in Packets :
           /\ rx' = Append(rx, p)
           /\ p.kind = "OUT" /\ p.data = [i \in 1 .. pos' - pos |-> FileUnit(pos + i - 1)]
           /\ p.odd => pos' = FileUnits + 1 /\ file.sort = "unaligned"
           /\ pos' <= FileUnits => pos' = pos + BulkMax(file.speed)
           /\ pos' <= pos + BulkMax(file.speed)
    BY BulkSent
  <2>3. pos \in Nat \ {0} /\ pos' \in Nat \ {0} /\ pos < pos' /\ pos' <= FileUnits + 1
    BY BulkSent DEF TypeOK, HostTypeOK
  <2>4. FileUnits \in Nat /\ HEADER \in Nat /\ FileUnits > HEADER
    BY FileSizes
  <2>5. Piece(p, pos, pos')
    <3>1. CASE file.speed = "USB_HIGH"
      <4>1. pos' <= FileUnits => pos' = pos + HEADER
        BY <2>2, <3>1 DEF BulkMax
      <4>2. pos' <= pos + HEADER
        BY <2>2, <3>1 DEF BulkMax
      <4>3. pos = 1 \/ pos > HEADER
        BY <2>1, <3>1
      <4>4. (pos = 1 /\ pos' = HEADER + 1) \/ pos > HEADER
        BY <2>3, <2>4, <4>1, <4>2, <4>3
      <4> QED
        BY <2>2, <2>3, <3>1, <4>4 DEF Piece
    <3>2. CASE file.speed # "USB_HIGH"
      <4>1. pos' <= pos + 1
        BY <2>2, <3>2 DEF BulkMax
      <4>2. pos' = pos + 1
        BY <2>3, <4>1
      <4> QED
        BY <2>2, <2>3, <3>2, <4>2 DEF Piece
    <3> QED
      BY <3>1, <3>2
  <2>6. /\ rx # <<>> => Len(rx) > 0
        /\ Len(rx) \in Nat /\ rx' # <<>> /\ Len(rx') = Len(rx) + 1
        /\ rx'[Len(rx) + 1] = p /\ \A i \in 1 .. Len(rx) : rx'[i] = rx[i]
    BY <2>2, AppendProperties, EmptySeq, LenProperties, SMTT(30) DEF TypeOK, CoreTypeOK
  <2>7. \A q, a, b : Piece(q, a, b)' <=> Piece(q, a, b)
    BY <1>1, PieceSame
  <2>8. Queue(r)'
    <3>1. CASE Ahead(Len(rx)) /\ pos = r + 1
      <4>1. Len(rx') - 1 = Len(rx) /\ rx'[Len(rx')] = p
        BY <2>6
      <4>2. Ahead(Len(rx) - 1)'
        BY <2>6, <3>1, <4>1 DEF Ahead
      <4>3. Piece(rx[Len(rx)], r + 1, pos)'
        BY <2>5, <2>7, <3>1, <4>1
      <4> QED
        BY <1>1, <2>6, <4>2, <4>3 DEF Queue
    <3>2. CASE rx # <<>> /\ Piece(rx[Len(rx)], r + 1, pos) /\ (Len(rx) > 1 => ~armed)
      <4>1. Len(rx) = 1
        <5>1. Len(rx) > 0 /\ Len(rx) \in Nat
          BY <2>6, <3>2
        <5>2. ~(Len(rx) > 1)
          BY <1>1, <3>2, Zenon
        <5>3. \A n \in Nat : n > 0 /\ ~(n > 1) => n = 1
          OBVIOUS
        <5> QED
          BY <5>1, <5>2, <5>3, Zenon
      <4>2. Len(rx') = 2 /\ rx'[2] = p /\ rx'[1] = rx[1]
        BY <2>6, <4>1
      <4>3. pos \in 1 .. pos'
        BY <2>3
      <4> QED
        BY <1>1, <2>5, <2>7, <3>2, <4>1, <4>2, <4>3 DEF Queue
    <3> QED
      BY <1>1, <2>1, <3>1, <3>2 DEF Queue
  <2>9. (HeaderPart(r) => HeaderPart(r)') /\ (BodyPart(r) => BodyPart(r)') /\ UNCHANGED bDownLoading
    BY <1>1, PartsSame
  <2>10. r \in 0 .. pos' - 1
    <3> HIDE UsbAssumption
    <3>1. pos \in Nat /\ pos' \in Nat /\ pos < pos'
      BY <2>3
    <3>2. ASSUME NEW a \in Nat, NEW b \in Nat, a < b, NEW i \in 0 .. a - 1
          PROVE  i \in 0 .. b - 1
      BY <3>2
    <3> QED
      BY <3>1, <3>2
  <2>11. file.speed = "USB_HIGH" => pos' = 1 \/ pos' > HEADER
    BY <2>3, <2>4, <2>5 DEF Piece
  <2>12. ~Known => r = 0 /\ Len(rx') < 2 /\ bDownLoading
    <3> SUFFICES ASSUME ~Known
                 PROVE  r = 0 /\ Len(rx') < 2 /\ bDownLoading
      OBVIOUS
    <3>1. r = 0 /\ rx = <<>>
      BY <1>1, <2>1
    <3>2. Len(rx) = 0
      BY <3>1, EmptySeq
    <3> QED
      BY <1>1, <2>6, <3>1, <3>2
  <2>13. pos' # 1
    BY <2>3
  <2> QED
    BY <1>1, <1>2, <1>4, <2>1, <2>3, <2>6, <2>8, <2>9, <2>10, <2>11, <2>12, <2>13 DEF BulkOK
<1> QED
  BY <1>5, <1>6 DEF InStep

-----------------------------------------------------------------------------
(* The session and endpoint 2: the steps of the loader                     *)

\* The pass is begun and ended; the reset of endpoint 0.
LEMMA PassStep ==
  ASSUME TypeOK, PassOK, InStep, ReadStatus \/ ClearStatus \/ NothingToSend \/ nx_usb_reset
  PROVE  InStep'
<1>1. /\ UNCHANGED <<rx, tx, token, armed, speed, download>>
      /\ UNCHANGED <<session, phase, file, pos>>
  BY DEF ReadStatus, ClearStatus, NothingToSend, nx_usb_reset, core, host
<1>2. Waiting("EnumDone")' <=> Waiting("EnumDone")
  <2>1. CASE ReadStatus \/ ClearStatus
    BY <2>1, WaitingSame DEF InStep, ReadStatus, core
  <2>2. CASE NothingToSend \/ nx_usb_reset
    BY <2>2 DEF NothingToSend, nx_usb_reset, Handles, Waiting, core
  <2> QED
    BY <2>1, <2>2
<1>3. Known' <=> Known
  BY <1>1, <1>2 DEF Known, Begun
<1>4. \A event \in {"USBRst", "EnumDone"} : event \in int_status' => event \in events'
  <2>1. CASE ReadStatus
    <3>1. int_status' = Pending /\ UNCHANGED events
      BY <2>1 DEF ReadStatus, core
    <3> QED
      BY <3>1 DEF Pending
  <2>2. CASE ClearStatus
    BY <2>2 DEF ClearStatus
  <2>3. CASE NothingToSend \/ nx_usb_reset
    BY <2>3 DEF NothingToSend, nx_usb_reset, Handles, InStep, EventsOK, core
  <2> QED
    BY <2>1, <2>2, <2>3
<1>5. EventsOK'
  BY <1>1, <1>3, <1>4 DEF InStep, EventsOK, Begun
<1>6. BulkOK'
  BY <1>1, <1>3, BulkSame DEF InStep
<1> QED
  BY <1>5, <1>6 DEF InStep

LEMMA SetInitStep ==
  ASSUME TypeOK, PassOK, InStep, nx_usb_set_init
  PROVE  InStep'
<1> USE UsbAssumption
<1>1. /\ pass /\ pass' /\ "EnumDone" \in int_status /\ "USBRst" \notin int_status
      /\ int_status' \in {{}, int_status \ {"EnumDone"}}
      /\ ~bHeaderReceived' /\ iRxHeaderSize' = 0
      /\ file.speed = "USB_LOW" => UNCHANGED <<speed, token, armed>>
      /\ file.speed # "USB_LOW" => speed' = file.speed /\ ~token'
      /\ UNCHANGED <<events, rx, tx, header, stored, iRxSize, bDownLoading>>
      /\ UNCHANGED <<session, phase, file, pos>>
  BY DEF nx_usb_set_init, host
<1>2. Waiting("EnumDone") /\ ~Waiting("EnumDone")'
  BY <1>1 DEF Waiting, InStep, EventsOK
<1>3. ~Known /\ (Known' <=> Begun)
  BY <1>1, <1>2 DEF Known, Begun
<1>4. tx = NoPacket
  BY <1>3 DEF InStep, EventsOK
<1>5. EventsOK'
  BY <1>1, <1>3, <1>4 DEF InStep, EventsOK, Begun
<1>6. BulkOK'
  <2>1. PICK r \in 0 .. pos - 1 : BulkOK!(r)
    BY DEF InStep, BulkOK
  <2>2. r = 0 /\ Len(rx) < 2 /\ bDownLoading
    BY <1>3, <2>1
  <2>3. \A q, a, b : Piece(q, a, b)' <=> Piece(q, a, b)
    BY <1>1, PieceSame
  <2>4. Queue(r)'
    BY <1>1, <2>1, <2>2, <2>3 DEF Queue, Ahead
  <2>5. HeaderPart(r)' /\ BodyPart(r)'
    <3>1. 0 < HEADER
      OBVIOUS
    <3> QED
      BY <1>1, <2>2, <3>1 DEF HeaderPart, BodyPart
  <2>6. ~Begun => pos = 1 /\ phase # "bulk"
    BY <2>1 DEF Begun
  <2>7. FileUnits' = FileUnits
    BY <1>1 DEF FileUnits
  <2> QED
    BY <1>1, <1>3, <2>1, <2>2, <2>4, <2>5, <2>6, <2>7 DEF BulkOK
<1> QED
  BY <1>5, <1>6 DEF InStep

\* A packet is read when the loader has seen the events of its session.
LEMMA Receiving ==
  ASSUME TypeOK, PassOK, InStep, Handles("RXFLvl", {"USBRst", "EnumDone"}), UNCHANGED <<events, pass, phase>>
  PROVE  /\ rx # <<>> /\ rx \in Seq(Packets) /\ Len(rx) \in Nat /\ Len(rx) > 0
         /\ int_status' = int_status \ {"RXFLvl"}
         /\ ~Waiting("USBRst") /\ ~Waiting("USBRst")'
         /\ Known /\ Known'
         /\ Head(rx) = rx[1] /\ rx[1] \in Packets
         /\ Tail(rx) \in Seq(Packets) /\ Len(Tail(rx)) = Len(rx) - 1
         /\ \A i \in 1 .. Len(rx) - 1 : Tail(rx)[i] = rx[i + 1]
<1>1. /\ pass /\ "RXFLvl" \in int_status /\ "USBRst" \notin int_status /\ "EnumDone" \notin int_status
      /\ int_status' = int_status \ {"RXFLvl"}
  BY DEF Handles
<1>2. rx # <<>>
  BY <1>1 DEF PassOK
<1>3. /\ ~Waiting("USBRst") /\ ~Waiting("USBRst")'
      /\ ~Waiting("EnumDone") /\ ~Waiting("EnumDone")'
  BY <1>1 DEF Waiting
<1>4. PICK r \in 0 .. pos - 1 : BulkOK!(r)
  BY DEF InStep, BulkOK
<1>5. Known /\ Known'
  BY <1>2, <1>3, <1>4 DEF Known, Begun
<1>6. rx \in Seq(Packets)
  BY DEF TypeOK, CoreTypeOK
<1>7. Len(rx) \in Nat /\ Len(rx) > 0
  BY <1>2, <1>6, EmptySeq
<1>8. /\ Tail(rx) \in Seq(Packets) /\ Len(Tail(rx)) = Len(rx) - 1
      /\ \A i \in 1 .. Len(rx) - 1 : Tail(rx)[i] = rx[i + 1]
  BY <1>2, <1>6, HeadTailProperties
<1>9. Head(rx) = rx[1] /\ rx[1] \in Packets
  BY <1>2, HeadPacket
<1> QED
  BY <1>1, <1>2, <1>3, <1>5, <1>6, <1>7, <1>8, <1>9

\* An entry of endpoint 0 is taken away from the front, or d of them are put
\* in its place.
LEMMA QueueShift ==
  ASSUME rx # <<>>, Len(rx) \in Nat, Len(rx) > 0, rx[1].kind # "OUT",
         UNCHANGED <<session, file, pos, armed>>,
         NEW d \in Nat, rx' \in Seq(Packets), Len(rx') = Len(rx) - 1 + d,
         \A i \in 1 .. d : rx'[i].kind # "OUT",
         \A i \in 2 .. Len(rx) : rx'[i - 1 + d] = rx[i],
         NEW r, Queue(r)
  PROVE  Queue(r)'
<1>1. ASSUME NEW n \in Nat, n <= Len(rx), n > 0, Ahead(n)
      PROVE  \A i \in 1 .. n - 1 + d : rx'[i].kind # "OUT"
  <2>1. ASSUME NEW i \in 1 .. n - 1 + d
        PROVE  rx'[i].kind # "OUT"
    <3>1. CASE i <= d
      BY <3>1
    <3>2. CASE i > d
      <4> DEFINE j == i + 1 - d
      <4>1. j \in Int /\ 2 <= j /\ j <= n /\ j - 1 + d = i
        BY <1>1, <3>2
      <4> HIDE DEF j
      <4>2. j \in 2 .. Len(rx) /\ j \in 1 .. n
        BY <1>1, <4>1
      <4>3. rx'[j - 1 + d] = rx[j]
        BY <4>2
      <4> QED
        BY <1>1, <4>1, <4>2, <4>3 DEF Ahead
    <3> QED
      BY <3>1, <3>2
  <2> QED
    BY <2>1
<1>2. CASE Ahead(Len(rx)) /\ pos = r + 1
  <2>1. \A i \in 1 .. Len(rx) - 1 + d : rx'[i].kind # "OUT"
    <3>1. Len(rx) \in Nat /\ Len(rx) <= Len(rx) /\ Len(rx) > 0
      OBVIOUS
    <3>2. Ahead(Len(rx))
      BY <1>2
    <3> QED
      BY ONLY <1>1, <3>1, <3>2
  <2>2. \A i \in 1 .. Len(rx)' : rx'[i].kind # "OUT"
    BY ONLY <2>1, Len(rx') = Len(rx) - 1 + d
  <2>3. Ahead(Len(rx))'
    BY ONLY <2>2 DEF Ahead
  <2> QED
    BY <1>2, <2>3 DEF Queue
<1>3. CASE /\ Ahead(Len(rx) - 1) /\ Piece(rx[Len(rx)], r + 1, pos)
           /\ Len(rx) > 1 => ~armed
  <2>1. Len(rx) > 1
    BY <1>3 DEF Piece
  <2>2. rx'[Len(rx')] = rx[Len(rx)] /\ rx' # <<>> /\ Len(rx') - 1 = Len(rx) - 1 - 1 + d
    <3>1. Len(rx) \in 2 .. Len(rx) /\ Len(rx') > 0
      BY <2>1
    <3> QED
      BY <3>1, EmptySeq
  <2>3. \A i \in 1 .. Len(rx) - 1 - 1 + d : rx'[i].kind # "OUT"
    <3>1. Len(rx) - 1 \in Nat /\ Len(rx) - 1 <= Len(rx) /\ Len(rx) - 1 > 0
      BY <2>1
    <3> QED
      BY <1>1, <1>3, <3>1
  <2>4. Ahead(Len(rx) - 1)'
    BY <2>2, <2>3 DEF Ahead
  <2>5. Piece(rx[Len(rx)], r + 1, pos)'
    BY <1>3, <2>2, PieceSame
  <2> QED
    BY <1>3, <2>1, <2>2, <2>4, <2>5 DEF Queue
<1> QED
  BY <1>2, <1>3 DEF Queue, Piece

LEMMA ShiftStep ==
  ASSUME TypeOK, PassOK, InStep, Handles("RXFLvl", {"USBRst", "EnumDone"}), Head(rx).kind # "OUT",
         UNCHANGED <<events, armed, pass, speed, download, session, phase, file, pos>>,
         rx' = Tail(rx) \/ rx' = <<[kind |-> "other"], [kind |-> "other"]>> \o Tail(rx)
  PROVE  InStep'
<1>1. /\ rx # <<>> /\ Len(rx) \in Nat /\ Len(rx) > 0 /\ int_status' = int_status \ {"RXFLvl"}
      /\ Known /\ Known' /\ Head(rx) = rx[1]
      /\ Tail(rx) \in Seq(Packets) /\ Len(Tail(rx)) = Len(rx) - 1
      /\ \A i \in 1 .. Len(rx) - 1 : Tail(rx)[i] = rx[i + 1]
  BY Receiving
<1>2. EventsOK'
  BY <1>1, EventsKept DEF InStep, EventsOK
<1>3. PICK r \in 0 .. pos - 1 : BulkOK!(r)
  BY DEF InStep, BulkOK
<1>4. Queue(r)'
  <2>1. CASE rx' = Tail(rx)
    <3>1. /\ 0 \in Nat /\ rx' \in Seq(Packets) /\ Len(rx') = Len(rx) - 1 + 0
          /\ \A i \in 1 .. 0 : rx'[i].kind # "OUT"
      BY <1>1, <2>1
    <3>2. ASSUME NEW i \in 2 .. Len(rx)
          PROVE  rx'[i - 1 + 0] = rx[i]
      <4>1. i - 1 \in 1 .. Len(rx) - 1 /\ i - 1 + 0 = i - 1 /\ i - 1 + 1 = i
        BY <1>1, SMTT(30)
      <4> QED
        BY <1>1, <2>1, <4>1
    <3> QED
      BY <1>1, <1>3, <3>1, <3>2, QueueShift
  <2>2. CASE rx' = <<[kind |-> "other"], [kind |-> "other"]>> \o Tail(rx)
    <3> DEFINE two == <<[kind |-> "other"], [kind |-> "other"]>>
    <3>1. two \in Seq(Packets) /\ Len(two) = 2 /\ two[1].kind = "other" /\ two[2].kind = "other"
      BY DEF Packets
    <3> HIDE DEF two
    <3>2. /\ rx' \in Seq(Packets) /\ Len(rx') = 2 + Len(Tail(rx))
          /\ \A i \in 1 .. 2 + Len(Tail(rx)) : rx'[i] = IF i <= 2 THEN two[i] ELSE Tail(rx)[i - 2]
      BY <1>1, <2>2, <3>1, ConcatProperties DEF two
    <3>3. 2 \in Nat /\ Len(rx') = Len(rx) - 1 + 2
      <4>1. \A m \in Nat : m > 0 => 2 + (m - 1) = m - 1 + 2
        BY SMTT(30)
      <4>2. Len(rx) \in Nat /\ Len(rx) > 0 /\ Len(rx') = 2 + (Len(rx) - 1)
        BY <1>1, <3>2
      <4> QED
        BY <4>1, <4>2
    <3>4. ASSUME NEW i \in 1 .. 2
          PROVE  rx'[i].kind # "OUT"
      <4>1. i \in 1 .. 2 + Len(Tail(rx)) /\ i <= 2 /\ (i = 1 \/ i = 2)
        BY <1>1
      <4> QED
        BY <3>1, <3>2, <4>1
    <3>5. ASSUME NEW i \in 2 .. Len(rx)
          PROVE  rx'[i - 1 + 2] = rx[i]
      <4>1. /\ i - 1 + 2 \in 1 .. 2 + Len(Tail(rx)) /\ ~(i - 1 + 2 <= 2) /\ i - 1 + 2 - 2 = i - 1
            /\ i - 1 \in 1 .. Len(rx) - 1 /\ i - 1 + 1 = i
        BY <1>1
      <4>2. rx'[i - 1 + 2] = Tail(rx)[i - 1]
        BY <3>2, <4>1
      <4> QED
        BY <1>1, <4>1, <4>2
    <3> QED
      BY <1>1, <1>3, <3>2, <3>3, <3>4, <3>5, QueueShift
  <2> QED
    BY <2>1, <2>2, SMTT(30)
<1>5. /\ FileUnits' = FileUnits /\ UNCHANGED bDownLoading
      /\ (HeaderPart(r)' <=> HeaderPart(r)) /\ (BodyPart(r)' <=> BodyPart(r))
  BY PartsSame
<1>6. phase \notin {"idle", "reset"}
  BY <1>1 DEF Known, Begun
<1> QED
  BY <1>1, <1>2, <1>3, <1>4, <1>5, <1>6 DEF InStep, BulkOK

\* The first packet of endpoint 2 is the next piece, and what is behind it
\* follows.
LEMMA PieceFirst ==
  ASSUME TypeOK, PassOK, InStep, Receives("OUT"), UNCHANGED <<events, pass, host>>,
         NEW r \in 0 .. pos - 1, Queue(r)
  PROVE  \E b \in r + 2 .. pos : Piece(Head(rx), r + 1, b) /\ Queue(b - 1)'
<1>1. /\ rx # <<>> /\ Head(rx) = rx[1] /\ rx[1].kind = "OUT" /\ Len(rx) \in Nat /\ Len(rx) > 0
      /\ rx' \in Seq(Packets) /\ Len(rx') = Len(rx) - 1
      /\ \A i \in 1 .. Len(rx) - 1 : rx'[i] = rx[i + 1]
  BY Receiving DEF Receives, Meets, host
<1>2. UNCHANGED <<session, file, pos>>
  BY DEF host
<1>3. \A q, a, b : Piece(q, a, b)' <=> Piece(q, a, b)
  BY <1>2, PieceSame
<1>4. pos \in Nat \ {0} /\ r \in Nat /\ FileUnits \in Nat
  BY FileSizes DEF TypeOK, HostTypeOK
<1>5. ASSUME NEW n \in Nat, n > 0
      PROVE  ~Ahead(n)
  <2>1. 1 \in 1 .. n
    BY <1>5
  <2> QED
    BY <1>1, <2>1 DEF Ahead
<1>6. CASE Ahead(Len(rx) - 1) /\ Piece(rx[Len(rx)], r + 1, pos)
  <2>1. Len(rx) = 1
    <3>1. ~(Len(rx) - 1 \in Nat /\ Len(rx) - 1 > 0)
      BY <1>5, <1>6
    <3> QED
      BY <1>1, <3>1
  <2>2. Len(rx') = 0 /\ pos \in r + 2 .. pos
    BY <1>1, <1>4, <1>6, <2>1 DEF Piece
  <2>3. Ahead(Len(rx))'
    BY <2>2 DEF Ahead
  <2>4. ASSUME NEW b, b = pos
        PROVE  Queue(b - 1)'
    BY <1>2, <1>4, <2>3, <2>4 DEF Queue
  <2>5. Piece(Head(rx), r + 1, pos)
    BY <1>1, <1>6, <2>1
  <2> QED
    BY <2>2, <2>4, <2>5
<1>7. CASE Len(rx) = 2 /\ (\E m \in 1 .. pos : Piece(rx[1], r + 1, m) /\ Piece(rx[2], m, pos))
  <2>1. PICK m \in 1 .. pos : Piece(rx[1], r + 1, m) /\ Piece(rx[2], m, pos)
    BY <1>7
  <2>2. r + 1 < m /\ m < pos
    BY <2>1 DEF Piece
  <2>3. m \in r + 2 .. pos /\ m - 1 + 1 = m
    BY <1>4, <2>2
  <2>4. Len(rx') = 1 /\ rx'[1] = rx[2]
    BY <1>1, <1>7
  <2>5. rx' # <<>> /\ Ahead(Len(rx) - 1)'
    BY <2>4, EmptySeq DEF Ahead
  <2>6. Piece(rx[Len(rx)], m, pos)'
    BY <1>2, <1>3, <2>1, <2>4
  <2>7. Queue(m - 1)'
    BY <2>3, <2>4, <2>5, <2>6 DEF Queue
  <2> QED
    BY <1>1, <2>1, <2>3, <2>7
<1>8. ~Ahead(Len(rx))
  BY <1>1, <1>5
<1> QED
  BY <1>6, <1>7, <1>8 DEF Queue

\* A function on 1 .. m + k is its first m values and its last k ones.
LEMMA ConcatFunction ==
  ASSUME NEW S, NEW m \in Nat, NEW k \in Nat, NEW f \in [1 .. m + k -> S]
  PROVE  [i \in 1 .. m |-> f[i]] \o [i \in 1 .. k |-> f[m + i]] = f
<1> DEFINE a == [i \in 1 .. m |-> f[i]]
           b == [i \in 1 .. k |-> f[m + i]]
<1>1. a \in Seq(S) /\ Len(a) = m
  <2>1. a \in [1 .. m -> S]
    OBVIOUS
  <2> QED
    BY <2>1, FunctionIsSeq
<1>2. b \in Seq(S) /\ Len(b) = k
  <2>1. b \in [1 .. k -> S]
    OBVIOUS
  <2> QED
    BY <2>1, FunctionIsSeq
<1>3. f \in Seq(S) /\ Len(f) = m + k
  BY FunctionIsSeq
<1>4. ASSUME NEW i \in 1 .. m + k
      PROVE  (a \o b)[i] = f[i]
  <2>1. CASE i <= m
    <3>1. (a \o b)[i] = a[i]
      BY <1>1, <1>2, <2>1, ConcatProperties
    <3>2. i \in 1 .. m
      BY <2>1
    <3> QED
      BY <3>1, <3>2
  <2>2. CASE i > m
    <3>1. (a \o b)[i] = b[i - m]
      BY <1>1, <1>2, <2>2, ConcatProperties
    <3>2. i - m \in 1 .. k /\ m + (i - m) = i
      BY <2>2
    <3> QED
      BY <3>1, <3>2
  <2> QED
    BY <2>1, <2>2
<1>5. a \o b \in Seq(S) /\ Len(a \o b) = m + k
  BY <1>1, <1>2, ConcatProperties
<1> HIDE DEF a, b
<1>6. a \o b = f
  BY <1>3, <1>4, <1>5, SeqEqual
<1> QED
  BY <1>6 DEF a, b

\* What every step keeps that takes a packet of endpoint 2.
LEMMA BulkTaken ==
  ASSUME TypeOK, PassOK, InStep, Receives("OUT"), armed' = TRUE,
         UNCHANGED <<events, tx, token, pass, ep0, speed, host>>
  PROVE  /\ EventsOK' /\ Known /\ Known' /\ bDownLoading
         /\ phase = "bulk" /\ file.speed # "USB_LOW"
         /\ pos > 1 /\ pos <= FileUnits + 1 /\ (file.speed = "USB_HIGH" => pos > HEADER)
         /\ \E r \in 0 .. pos - 1 : \E b \in r + 2 .. pos :
               /\ HeaderPart(r) /\ BodyPart(r)
               /\ Piece(Head(rx), r + 1, b) /\ Queue(b - 1)'
<1>1. UNCHANGED <<session, phase, file, want, got, pos>>
  BY DEF host
<1>2. int_status' = int_status \ {"RXFLvl"} /\ Known /\ Known'
  BY <1>1, Receiving DEF Receives, Meets
<1>3. bDownLoading
  BY DEF Receives, Meets, Handles, PassOK
<1>4. PICK r \in 0 .. pos - 1 : BulkOK!(r)
  BY DEF InStep, BulkOK
<1>5. PICK b \in r + 2 .. pos : Piece(Head(rx), r + 1, b) /\ Queue(b - 1)'
  BY <1>4, PieceFirst
<1>6. pos > 1
  BY <1>5 DEF TypeOK, HostTypeOK
<1>7. phase = "bulk" /\ file.speed # "USB_LOW"
  BY <1>4, <1>6
<1>8. EventsOK'
  BY <1>1, <1>2, <1>7, EventsKept DEF InStep
<1>9. HeaderPart(r) /\ BodyPart(r)
  BY <1>2, <1>4, <1>7
<1>10. pos <= FileUnits + 1 /\ (file.speed = "USB_HIGH" => pos > HEADER)
  BY <1>4, <1>6
<1> QED
  BY <1>2, <1>3, <1>4, <1>5, <1>6, <1>7, <1>8, <1>9, <1>10

\* And with what it has taken counted, BulkOK.
LEMMA BulkKept ==
  ASSUME TypeOK, UNCHANGED <<session, file, phase, pos>>, NEW r \in 0 .. pos - 1, Queue(r)', Known',
         HeaderPart(r)', BodyPart(r)', phase = "bulk", file.speed # "USB_LOW", pos > 1, 
         pos <= FileUnits + 1, file.speed = "USB_HIGH" => pos > HEADER
  PROVE  BulkOK'
<1>1. FileUnits' = FileUnits
  BY DEF FileUnits
<1> QED
  BY <1>1 DEF BulkOK

\* What is written of a header, behind what there is of it, is the last of
\* what was taken.
LEMMA HeaderWritten ==
  ASSUME TypeOK, ReceiveHeader, bDownLoading, pos <= FileUnits + 1,
         NEW r \in 0 .. pos - 1, NEW b \in r + 2 .. pos, HeaderPart(r), Piece(Head(rx), r + 1, b),
         Head(rx) \in Outs
  PROVE  /\ iRxHeaderSize < HEADER /\ iRxHeaderSize <= r
         /\ file.sort = "signed" => iRxHeaderSize = r
         /\ Len(Head(rx).data) = b - (r + 1)
         /\ \A i \in 1 .. iRxHeaderSize + b - (r + 1) : header'[i] = FileUnit(r - iRxHeaderSize + i)
<1> USE UsbAssumption
<1> DEFINE n == iRxHeaderSize
           data == Head(rx).data
           len == b - (r + 1)
<1>1. ~bHeaderReceived /\ header' = Written(header, n, data)
  BY DEF ReceiveHeader
<1>2. /\ header \in Seq(Units) /\ n \in 0 .. Len(header) /\ n \in Nat /\ HEADER \in Nat
      /\ r \in Nat /\ b \in Nat /\ len \in Nat /\ FileUnits \in Nat
  BY FileSizes, LenProperties DEF TypeOK, HostTypeOK, LoaderTypeOK
<1>3. n < HEADER /\ n <= r /\ (file.sort = "signed" => n = r)
  BY <1>1 DEF HeaderPart
<1>4. r < FileUnits
  BY <1>2 DEF TypeOK, HostTypeOK
<1>5. \A i \in 1 .. n : header[i] = FileUnit(r - n + i)
  BY <1>1, <1>4 DEF HeaderPart
<1>6. data = [i \in 1 .. len |-> FileUnit(r + 1 + i - 1)]
  BY DEF Piece
<1>7. data \in Seq(Units)
  BY DEF Outs
<1>8. Len(data) = len
  BY <1>2, <1>6, <1>7, LenProperties, SMTT(30)
<1>9. /\ \A i \in 1 .. n : header'[i] = header[i]
      /\ \A i \in n + 1 .. n + len : header'[i] = data[i - n]
  BY <1>1, <1>2, <1>7, <1>8, WrittenSeq, SMTT(30)
<1>10. ASSUME NEW i \in 1 .. n + len
       PROVE  header'[i] = FileUnit(r - n + i)
  <2>1. CASE i <= n
    BY <1>2, <1>5, <1>9, <2>1
  <2>2. CASE i > n
    <3>1. i - n \in 1 .. len /\ i \in n + 1 .. n + len /\ r + 1 + (i - n) - 1 = r - n + i
      BY <1>2, <2>2
    <3>2. data[i - n] = FileUnit(r + 1 + (i - n) - 1)
      BY <1>6, <3>1
    <3> QED
      BY <1>9, <3>1, <3>2
  <2> QED
    BY <1>2, <2>1, <2>2
<1>11. n + len = iRxHeaderSize + b - (r + 1)
  BY <1>2
<1> QED
  BY <1>3, <1>8, <1>10, <1>11

\* A header is complete when it is whole, signed and from this session.
LEMMA HeaderStep ==
  ASSUME TypeOK, PassOK, TypeOK', InStep, ReceiveHeader
  PROVE  /\ InStep'
         /\ bHeaderReceived' => /\ file.sort = "signed"
                                /\ \A i \in 1 .. HEADER : header'[i] = FileUnit(i)
<1> USE UsbAssumption
<1>1. /\ Receives("OUT") /\ ~bHeaderReceived /\ armed' = TRUE
      /\ UNCHANGED <<events, tx, token, pass, ep0, speed, host, bDownLoading>>
      /\ UNCHANGED <<session, phase, file, pos>>
  BY DEF ReceiveHeader, host
<1>2. /\ EventsOK' /\ Known' /\ bDownLoading
      /\ phase = "bulk" /\ file.speed # "USB_LOW"
      /\ pos > 1 /\ pos <= FileUnits + 1 /\ (file.speed = "USB_HIGH" => pos > HEADER)
  BY <1>1, BulkTaken
<1>r. PICK r \in 0 .. pos - 1 : \E b \in r + 2 .. pos :
         HeaderPart(r) /\ BodyPart(r) /\ Piece(Head(rx), r + 1, b) /\ Queue(b - 1)'
  BY <1>1, BulkTaken
<1>3. PICK b \in r + 2 .. pos :
         HeaderPart(r) /\ BodyPart(r) /\ Piece(Head(rx), r + 1, b) /\ Queue(b - 1)'
  BY <1>r
<1>4. Head(rx) \in Outs
  <2>1. rx # <<>> /\ Head(rx).kind = "OUT"
    BY <1>1 DEF Receives, Meets, Handles, PassOK
  <2> QED
    BY <2>1, HeadPacket
<1> DEFINE n == iRxHeaderSize
           len == b - (r + 1)
           count == IF Head(rx).odd THEN n ELSE n + len
<1>5. /\ n < HEADER /\ n <= r /\ (file.sort = "signed" => n = r)
      /\ Len(Head(rx).data) = len
      /\ \A i \in 1 .. n + len : header'[i] = FileUnit(r - n + i)
  <2>1. \A i \in 1 .. n + b - (r + 1) : header'[i] = FileUnit(r - n + i)
    BY <1>2, <1>3, <1>4, HeaderWritten
  <2>2. n + b - (r + 1) = n + len
    BY DEF TypeOK, LoaderTypeOK, HostTypeOK
  <2> QED
    BY <1>2, <1>3, <1>4, <2>1, <2>2, HeaderWritten
<1>6. /\ n \in Nat /\ r \in Nat /\ b \in Nat /\ HEADER \in Nat /\ HEADER > 1 /\ pos \in Nat
      /\ FileUnits \in Nat /\ FileUnits = HEADER + file.size /\ file.size \in Nat \ {0}
      /\ b <= pos /\ r + 2 <= b
  BY FileSizes, SMTT(30) DEF TypeOK, LoaderTypeOK, HostTypeOK, FileUnits
<1>7. /\ Head(rx).odd \in BOOLEAN
      /\ Head(rx).odd => b = FileUnits + 1 /\ file.sort = "unaligned"
      /\ IF file.speed = "USB_HIGH" THEN (r + 1 = 1 /\ b = HEADER + 1) \/ r + 1 > HEADER ELSE b = r + 1 + 1
  BY <1>3, <1>4 DEF Piece, Outs
<1>8. b - 1 \in 0 .. pos - 1
  BY <1>6
<1>9. ASSUME HeaderPart(b - 1)', BodyPart(b - 1)'
      PROVE  InStep'
  <2>1. BulkOK'
    BY <1>1, <1>2, <1>3, <1>8, <1>9, BulkKept
  <2> QED
    BY <1>2, <2>1 DEF InStep
<1>f. FileUnits' = FileUnits /\ \A i : FileUnit(i)' = FileUnit(i)
  BY <1>1 DEF FileUnits, FileUnit
<1>g. IF count < HEADER
      THEN iRxHeaderSize' = count /\ UNCHANGED bHeaderReceived
      ELSE IF Signed
      THEN /\ bHeaderReceived' = TRUE /\ stored' = <<>>
           /\ iRxSize' \in IF header'[1][2] = 1 /\ header'[1][1] = session THEN {file.size} ELSE SIZES
      ELSE iRxHeaderSize' = 0 /\ UNCHANGED bHeaderReceived
  BY <1>5, Zenon DEF ReceiveHeader
<1>10. CASE count < HEADER
  <2>1. iRxHeaderSize' = count /\ ~bHeaderReceived' /\ bDownLoading'
    BY <1>1, <1>2, <1>g, <1>10, Zenon
  <2>2. HeaderPart(b - 1)'
    <3>1. count <= b - 1 /\ (file.sort = "signed" => count = b - 1)
      BY <1>5, <1>6, <1>7
    <3>2. ASSUME b - 1 < FileUnits, NEW i \in 1 .. count
          PROVE  header'[i] = FileUnit(b - 1 - count + i)
      <4>1. count = n + len
        BY <1>6, <1>7, <3>2
      <4>2. r - n + i = b - 1 - count + i
        BY <1>6, <4>1
      <4> QED
        BY <1>5, <4>1, <4>2
    <3> HIDE DEF count
    <3> QED
      BY <1>1, <1>f, <1>10, <2>1, <3>1, <3>2 DEF HeaderPart
  <2>3. BodyPart(b - 1)'
    BY <2>1 DEF BodyPart
  <2> QED
    BY <1>9, <2>1, <2>2, <2>3
<1>11. CASE count >= HEADER
  <2>1. ~Head(rx).odd /\ count = n + len /\ ~(count < HEADER)
    BY <1>5, <1>6, <1>7, <1>11
  <2>2. HEADER \in 1 .. n + len /\ 1 \in 1 .. n + len
    BY <1>6, <1>11, <2>1
  <2>3. header'[HEADER] = FileUnit(r - n + HEADER)
    BY <1>5, <2>2
  <2>4. CASE Signed
    <3>1. r = n /\ file.sort = "signed"
      <4>1. FileUnit(r - n + HEADER)[2] = HEADER
        BY <2>3, <2>4 DEF Signed
      <4> QED
        BY <1>5, <1>6, <4>1 DEF FileUnit
    <3>2. b - 1 = HEADER
      BY <1>5, <1>6, <1>7, <1>11, <2>1, <3>1
    <3>3. ASSUME NEW i \in 1 .. HEADER
          PROVE  header'[i] = FileUnit(i)
      <4>1. r - n + i = i /\ i \in 1 .. n + len
        BY <1>6, <1>11, <2>1, <3>1
      <4> QED
        BY <1>5, <4>1
    <3>4. header'[1][1] = session /\ header'[1][2] = 1
      BY <1>6, <3>3 DEF FileUnit
    <3>5. bHeaderReceived' = TRUE /\ stored' = <<>> /\ iRxSize' = file.size
      <4>1. /\ bHeaderReceived' = TRUE /\ stored' = <<>>
            /\ iRxSize' \in IF header'[1][2] = 1 /\ header'[1][1] = session THEN {file.size} ELSE SIZES
        BY <1>g, <2>1, <2>4, Zenon
      <4> QED
        BY <3>4, <4>1
    <3>6. HeaderPart(b - 1)'
      BY <3>5 DEF HeaderPart
    <3>7. [i \in 1 .. b - 1 - HEADER |-> <<session, HEADER + i>>] = <<>>
      <4>1. b - 1 - HEADER = 0
        BY <1>6, <3>2
      <4>2. [i \in 1 .. 0 |-> <<session, HEADER + i>>] \in [1 .. 0 -> {<<session, HEADER + i>> : i \in 1 .. 0}]
        OBVIOUS
      <4> QED
        BY <4>1, <4>2, EmptyFunction
    <3>8. BodyPart(b - 1)'
      BY <1>1, <1>2, <1>f, <1>6, <3>1, <3>2, <3>5, <3>7 DEF BodyPart
    <3> QED
      BY <1>9, <3>1, <3>3, <3>6, <3>8
  <2>5. CASE ~Signed
    <3>1. iRxHeaderSize' = 0 /\ ~bHeaderReceived' /\ bDownLoading'
      BY <1>1, <1>2, <1>g, <2>1, <2>5, Zenon
    <3>2. file.sort # "signed"
      <4>1. ASSUME file.sort = "signed"
            PROVE  Signed
        <5>1. r - n + HEADER = HEADER
          BY <1>5, <1>6, <4>1
        <5> QED
          BY <2>3, <4>1, <5>1 DEF Signed, FileUnit
      <4> QED
        BY <2>5, <4>1
    <3>3. HeaderPart(b - 1)'
      BY <1>1, <1>6, <3>1, <3>2 DEF HeaderPart
    <3>4. BodyPart(b - 1)'
      BY <3>1 DEF BodyPart
    <3> QED
      BY <1>9, <3>1, <3>3, <3>4
  <2> QED
    BY <2>4, <2>5
<1> QED
  BY <1>5, <1>6, <1>7, <1>10, <1>11

LEMMA BodyStep ==
  ASSUME TypeOK, PassOK, TypeOK', InStep, ReceiveBody
  PROVE  InStep'
<1> USE UsbAssumption
<1>1. /\ Receives("OUT") /\ bHeaderReceived /\ armed' = TRUE
      /\ UNCHANGED <<events, tx, token, pass, ep0, speed, host>>
      /\ UNCHANGED <<session, phase, file, pos>>
  BY DEF ReceiveBody, host
<1>2. /\ EventsOK' /\ Known' /\ bDownLoading
      /\ phase = "bulk" /\ file.speed # "USB_LOW"
      /\ pos > 1 /\ pos <= FileUnits + 1 /\ (file.speed = "USB_HIGH" => pos > HEADER)
  BY <1>1, BulkTaken
<1>r. PICK r \in 0 .. pos - 1 : \E b \in r + 2 .. pos :
         HeaderPart(r) /\ BodyPart(r) /\ Piece(Head(rx), r + 1, b) /\ Queue(b - 1)'
  BY <1>1, BulkTaken
<1>3. PICK b \in r + 2 .. pos :
         HeaderPart(r) /\ BodyPart(r) /\ Piece(Head(rx), r + 1, b) /\ Queue(b - 1)'
  BY <1>r
<1>4. Head(rx) \in Outs
  <2>1. rx # <<>> /\ Head(rx).kind = "OUT"
    BY <1>1 DEF Receives, Meets, Handles, PassOK
  <2> QED
    BY <2>1, HeadPacket
<1>5. /\ file.sort = "signed" /\ r >= HEADER /\ iRxSize = FileUnits - r
      /\ stored = [i \in 1 .. r - HEADER |-> <<session, HEADER + i>>]
  BY <1>1, <1>3 DEF BodyPart
<1>6. /\ r \in Nat /\ b \in Nat /\ HEADER \in Nat /\ pos \in Nat /\ FileUnits \in Nat
      /\ b <= pos /\ r + 2 <= b
  BY FileSizes DEF TypeOK, HostTypeOK
<1> DEFINE len == b - (r + 1)
           data == Head(rx).data
<1>7. data = [i \in 1 .. len |-> <<session, r + i>>] /\ Len(data) = len
  <2>1. data = [i \in 1 .. len |-> FileUnit(r + 1 + i - 1)] /\ data \in Seq(Units)
    BY <1>3, <1>4 DEF Piece, Outs
  <2>2. ASSUME NEW i \in 1 .. len
        PROVE  FileUnit(r + 1 + i - 1) = <<session, r + i>>
    <3>1. r + 1 + i - 1 = r + i
      BY <1>6
    <3> QED
      BY <1>5, <3>1 DEF FileUnit
  <2>3. Len(data) = len
    BY <1>6, <2>1, LenProperties
  <2> QED
    BY <2>1, <2>2, <2>3
<1>8. stored' = [i \in 1 .. b - 1 - HEADER |-> <<session, HEADER + i>>]
  <2> DEFINE m == r - HEADER
             f == [i \in 1 .. m + len |-> <<session, HEADER + i>>]
  <2>1. m \in Nat /\ len \in Nat /\ m + len = b - 1 - HEADER
    BY <1>5, <1>6
  <2>2. f \in [1 .. m + len -> {<<session, HEADER + i>> : i \in 1 .. m + len}]
    OBVIOUS
  <2>3. stored = [i \in 1 .. m |-> f[i]]
    BY <1>5, <2>1
  <2>4. data = [i \in 1 .. len |-> f[m + i]]
    <3>1. ASSUME NEW i \in 1 .. len
          PROVE  f[m + i] = <<session, r + i>>
      <4>1. m + i \in 1 .. m + len /\ HEADER + (m + i) = r + i
        BY <1>6, <2>1
      <4> QED
        BY <4>1
    <3> QED
      BY <1>7, <3>1
  <2>5. stored' = stored \o data
    BY DEF ReceiveBody
  <2> HIDE DEF f, m, len, data
  <2>6. [i \in 1 .. m |-> f[i]] \o [i \in 1 .. len |-> f[m + i]] = f
    BY <2>1, <2>2, ConcatFunction
  <2>7. stored' = f
    BY <2>3, <2>4, <2>5, <2>6
  <2> QED
    BY <2>1, <2>7 DEF f
<1>9. iRxSize' = FileUnits - (b - 1) /\ iRxSize' >= 0
  <2>1. iRxSize' = iRxSize - len
    BY <1>7 DEF ReceiveBody
  <2> QED
    BY <1>2, <1>5, <1>6, <2>1
<1>10. bDownLoading' = (iRxSize' > 0) /\ bHeaderReceived' = bDownLoading'
  BY DEF ReceiveBody
<1>f. FileUnits' = FileUnits
  BY <1>1 DEF FileUnits
<1>11. HeaderPart(b - 1)'
  BY <1>10 DEF HeaderPart
<1>12. BodyPart(b - 1)'
  <2>1. b - 1 >= HEADER
    BY <1>5, <1>6
  <2>2. (bHeaderReceived' => bDownLoading' /\ iRxSize' > 0) /\ (~bDownLoading' => iRxSize' = 0)
    <3>1. iRxSize' > 0 \/ iRxSize' = 0
      BY <1>6, <1>9
    <3> QED
      BY <1>10, <3>1, Zenon
  <2> QED
    BY <1>1, <1>5, <1>8, <1>9, <1>f, <2>1, <2>2 DEF BodyPart
<1>13. b - 1 \in 0 .. pos - 1
  BY <1>6
<1>14. BulkOK'
  BY <1>1, <1>2, <1>3, <1>11, <1>12, <1>13, BulkKept
<1> QED
  BY <1>2, <1>14 DEF InStep

-----------------------------------------------------------------------------
(* The session and endpoint 2: entries of endpoint 0 and tokens            *)

LEMMA EntryStep ==
  ASSUME TypeOK, PassOK, InStep, ReceiveOther \/ nx_usb_ep0_int_hndlr
  PROVE  InStep'
<1>1. /\ Handles("RXFLvl", {"USBRst", "EnumDone"}) /\ Head(rx).kind # "OUT"
      /\ UNCHANGED <<events, armed, pass, speed, download, session, phase, file, pos>>
      /\ rx' = Tail(rx) \/ rx' = <<[kind |-> "other"], [kind |-> "other"]>> \o Tail(rx)
  <2>1. CASE ReceiveOther
    BY <2>1 DEF ReceiveOther, Receives, Meets, host
  <2>2. CASE nx_usb_ep0_int_hndlr
    BY <2>2 DEF nx_usb_ep0_int_hndlr, Meets, host
  <2> QED
    BY <2>1, <2>2
<1> QED
  BY <1>1, ShiftStep

LEMMA TransferSends ==
  ASSUME TypeOK, nx_usb_transfer_ep0
  PROVE  \E data \in Seq(Nat) : Send(data)
<1> USE UsbAssumption
<1>1. <<>> \in Seq(Nat) /\ << 0 >> \in Seq(Nat)
  BY EmptySeq
<1>2. CtrlMax(speed) \in Nat /\ Remain_size \in Nat
  BY DEF TypeOK, LoaderTypeOK, CtrlMax
<1>3. Descriptor(Remain_size) \in Seq(Nat) /\ Descriptor(CtrlMax(speed)) \in Seq(Nat)
  BY <1>2, DescriptorSeq DEF TypeOK, LoaderTypeOK
<1>4. Send(<<>>) \/ Send(<< 0 >>) \/ Send(Descriptor(Remain_size)) \/ Send(Descriptor(CtrlMax(speed)))
  BY DEF nx_usb_transfer_ep0, TypeOK, LoaderTypeOK
<1> QED
  BY <1>1, <1>3, <1>4

LEMMA TransferStep ==
  ASSUME TypeOK, PassOK, InStep, nx_usb_transfer_ep0
  PROVE  InStep'
<1>1. /\ token /\ ~token' /\ pass /\ "EnumDone" \notin int_status
      /\ int_status' = int_status \ {"IEPInt"}
      /\ UNCHANGED <<events, rx, armed, pass, speed, download>>
      /\ UNCHANGED <<session, phase, file, pos>>
  BY DEF nx_usb_transfer_ep0, Handles, host
<1>2. Known /\ Known'
  BY <1>1 DEF InStep, EventsOK, Known, Begun, Waiting
<1>3. EventsOK'
  BY <1>1, <1>2, EventsKept DEF InStep, EventsOK
<1>4. BulkOK'
  BY <1>1, <1>2, BulkSame DEF InStep
<1> QED
  BY <1>3, <1>4 DEF InStep

-----------------------------------------------------------------------------
(* Endpoint 0: the steps of the host                                       *)

\* What a step keeps that changes neither entries, packets nor the state of
\* endpoint 0.
LEMMA ControlSame ==
  ASSUME ControlOK, UNCHANGED <<rx, tx, got, want, phase, ep0, speed>>,
         Known => Known', Waiting("USBRst")' <=> Waiting("USBRst"),
         token' => token \/ (Asking /\ tx = NoPacket),
         "IEPInt" \in int_status' => \/ token /\ (rx = <<>> \/ "RXFLvl" \in int_status')
                                     \/ "IEPInt" \in int_status /\ ("RXFLvl" \in int_status => "RXFLvl" \in int_status')
  PROVE  ControlOK'
<1>1. UNCHANGED <<Quiet, Due, Sent, Asking>>
  BY DEF Quiet, Due, Sent, Asking, ep0
<1>2. TokensOK'
  BY <1>1 DEF ControlOK, TokensOK
<1>3. DescriptorOK'
  BY <1>1 DEF ControlOK, DescriptorOK, ep0
<1>4. AnswerOK'
  BY <1>1 DEF ControlOK, AnswerOK, ep0
<1> QED
  BY <1>2, <1>3, <1>4 DEF ControlOK

\* Between requests there is nothing of one left.
LEMMA NotAsking ==
  ASSUME ~Asking', ~token', "IEPInt" \notin int_status', tx' = NoPacket, Quiet',
         \A i \in 1 .. Len(rx') : rx'[i].kind # "SETUP"
  PROVE  ControlOK'
<1>1. phase' # "descriptor" /\ phase' # "answer"
  BY DEF Asking
<1>2. DescriptorOK' /\ AnswerOK'
  BY <1>1 DEF DescriptorOK, AnswerOK
<1>3. TokensOK'
  BY DEF TokensOK
<1> QED
  BY <1>2, <1>3 DEF ControlOK

LEMMA ResetControl ==
  ASSUME TypeOK, PassOK, BusReset, ~lag'
  PROVE  ControlOK'
<1>1. ~pass /\ rx = <<>> /\ tx' = NoPacket
  BY DEF BusReset
<1>2. /\ UNCHANGED <<rx, pass, int_status>>
      /\ phase' = "reset" /\ events' = events \cup {"USBRst"} /\ token' = FALSE
  BY DEF BusReset, loader
<1>3. ~Asking' /\ Quiet'
  BY <1>1, <1>2 DEF Asking, Quiet, Waiting
<1>4. "IEPInt" \notin int_status' /\ Len(rx') = 0
  BY <1>1, <1>2, EmptySeq DEF PassOK
<1> QED
  BY <1>1, <1>2, <1>3, <1>4, NotAsking

LEMMA EnumeratedControl ==
  ASSUME TypeOK, PassOK, InStep, ControlOK, Enumerated, ~lag'
  PROVE  ControlOK'
<1>1. /\ ~pass /\ phase = "reset" /\ phase' \in {"setup", "bulk"}
      /\ events' = events \cup {"EnumDone"}
      /\ UNCHANGED <<rx, tx, token, pass, int_status, ep0>>
  BY DEF Enumerated, loader
<1>2. ~Asking /\ ~Asking' /\ (Quiet => Quiet')
  BY <1>1 DEF Asking, Quiet, Waiting, ep0
<1>3. /\ ~token /\ "IEPInt" \notin int_status /\ tx = NoPacket /\ Quiet
      /\ \A i \in 1 .. Len(rx) : rx[i].kind # "SETUP"
  BY <1>2 DEF ControlOK, TokensOK
<1> QED
  BY <1>1, <1>2, <1>3, NotAsking

LEMMA SetupControl ==
  ASSUME TypeOK, PassOK, InStep, ControlOK, SendSetup, ~lag', ~asked'
  PROVE  ControlOK'
<1>1. /\ rx = <<>> /\ phase = "setup" /\ got' = <<>>
      /\ UNCHANGED <<events, tx, token, pass, int_status, ep0>>
  BY DEF SendSetup, loader
<1>2. PICK request \in Requests, n \in WANTS :
         /\ rx' = Append(rx, Setup(request, n))
         /\ want' = IF request = "descriptor" THEN n ELSE IF request = "plain" THEN 0 ELSE 1
         /\ phase' = IF request = "descriptor" THEN "descriptor" ELSE "answer"
         /\ request # "configuration"
  BY DEF SendSetup, Setup
<1>3. rx' = <<Setup(request, n)>>
  BY <1>1, <1>2
<1>4. Waiting("USBRst")' <=> Waiting("USBRst")
  BY <1>1, WaitingSame DEF InStep
<1>5. ~Asking /\ Asking'
  BY <1>1, <1>2 DEF Asking
<1>6. ~token' /\ "IEPInt" \notin int_status' /\ tx' = NoPacket /\ Quiet'
  BY <1>1, <1>4, <1>5 DEF ControlOK, TokensOK, Quiet, ep0
<1>7. TokensOK'
  BY <1>5, <1>6 DEF TokensOK
<1>8. CASE request = "descriptor"
  BY <1>1, <1>2, <1>3, <1>6, <1>7, <1>8 DEF ControlOK, DescriptorOK, AnswerOK
<1>9. CASE request = "status"
  BY <1>1, <1>2, <1>3, <1>6, <1>7, <1>9 DEF ControlOK, DescriptorOK, AnswerOK
<1>10. CASE request = "plain"
  BY <1>1, <1>2, <1>3, <1>6, <1>7, <1>10 DEF ControlOK, DescriptorOK, AnswerOK
<1> QED
  BY <1>2, <1>8, <1>9, <1>10 DEF Requests

LEMMA NotedControl ==
  ASSUME TypeOK, PassOK, InStep, ControlOK, TokenNoted
  PROVE  ControlOK'
<1>1. /\ Asking /\ tx = NoPacket /\ token' = TRUE
      /\ UNCHANGED <<events, rx, tx, pass, int_status, ep0, speed>>
      /\ UNCHANGED <<phase, want, got>>
  BY DEF TokenNoted, Asking, loader, host
<1>2. /\ Waiting("USBRst")' <=> Waiting("USBRst")
      /\ Waiting("EnumDone")' <=> Waiting("EnumDone")
  BY <1>1, WaitingSame DEF InStep
<1>3. Known' <=> Known
  BY <1>1, <1>2 DEF Known, Begun
<1> QED
  BY <1>1, <1>2, <1>3, ControlSame

\* The host ends a request when it has all the loader had to send, not before.
LEMMA AnswerWhole ==
  ASSUME TypeOK, PassOK, InStep, ControlOK, TokenAnswered
  PROVE  LET over == Len(got \o tx) >= want \/ Len(tx) < CtrlMax(file.speed)
         IN  /\ over => ep0_state = "INIT"
             /\ over /\ phase = "descriptor" => got \o tx = Count(Due)
             /\ phase = "answer" => over
<1> USE UsbAssumption
<1> DEFINE over == Len(got \o tx) >= want \/ Len(tx) < CtrlMax(file.speed)
<1>1. tx # NoPacket /\ phase \in {"descriptor", "answer"} /\ rx = <<>> /\ Known
  BY DEF TokenAnswered, InStep, EventsOK, ControlOK, TokensOK
<1>2. speed = file.speed \/ file.speed = "USB_LOW"
  BY <1>1 DEF InStep, EventsOK
<1>3. Sent = got \o tx
  BY <1>1 DEF Sent
<1>e. tx \in Seq(Int)
  BY <1>1, NatPacket DEF TypeOK, CoreTypeOK
<1>4. CASE phase = "descriptor"
  <2>1. ASSUME ep0_state = "GET_DSCPT", Sent = Count(Current_ptr), Current_ptr + Remain_size = Due,
               Remain_size > 0, Len(tx) = CtrlMax(speed)
        PROVE  ~over
    <3>1. Len(got \o tx) = Current_ptr
      BY <1>3, <2>1, CountSeq DEF TypeOK, LoaderTypeOK
    <3>2. Due <= want /\ Due \in Nat /\ want \in Nat
      BY DEF Due, TypeOK, HostTypeOK
    <3>3. Current_ptr < want
      BY <2>1, <3>2 DEF TypeOK, LoaderTypeOK
    <3>4. CtrlMax(speed) >= CtrlMax(file.speed) /\ CtrlMax(speed) \in Nat /\ CtrlMax(file.speed) \in Nat
      BY <1>2 DEF CtrlMax
    <3> QED
      BY <2>1, <3>1, <3>2, <3>3, <3>4 DEF TypeOK, LoaderTypeOK
  <2>2. \/ ep0_state = "INIT" /\ Sent = Count(Due)
        \/ /\ ep0_state = "GET_DSCPT" /\ Sent = Count(Current_ptr) /\ Current_ptr + Remain_size = Due
           /\ Remain_size > 0 /\ Len(tx) = CtrlMax(speed)
    BY <1>1, <1>4 DEF ControlOK, DescriptorOK
  <2>3. over => ep0_state = "INIT" /\ Sent = Count(Due)
    BY <2>1, <2>2
  <2> HIDE DEF over
  <2> QED
    BY <1>3, <1>4, <2>3 DEF over
<1>5. CASE phase = "answer"
  <2>1. got = <<>> /\ ep0_state = "INIT" /\ ((want = 1 /\ tx = <<0>>) \/ (want = 0 /\ tx = <<>>))
    <3>1. \A p : rx # <<p>>
      BY <1>1
    <3>2. /\ got = <<>>
          /\ \/ rx = <<>> /\ ep0_state = "GET_STATUS" /\ tx = NoPacket
             \/ rx = <<>> /\ ep0_state = "INIT" /\ want = 1 /\ tx = <<0>>
             \/ rx = <<>> /\ ep0_state = "INIT" /\ want = 0 /\ tx \in {NoPacket, <<>>}
      BY <1>1, <1>5, <3>1, Zenon DEF ControlOK, AnswerOK
    <3> QED
      BY <1>1, <3>2, Zenon
  <2>2. Len(got \o tx) = want
    <3>1. Len(got \o tx) = Len(got) + Len(tx)
      BY <1>e, ConcatProperties DEF TypeOK, HostTypeOK
    <3>2. Len(got) = 0 /\ Len(tx) = want
      BY <2>1, EmptySeq
    <3> QED
      BY <3>1, <3>2 DEF TypeOK, HostTypeOK
  <2>3. over
    BY <2>1, <2>2
  <2> QED
    BY <1>5, <2>1, <2>3
<1> QED
  BY <1>1, <1>4, <1>5

LEMMA AnsweredControl ==
  ASSUME TypeOK, PassOK, InStep, ControlOK, TokenAnswered
  PROVE  ControlOK'
<1> DEFINE over == Len(got \o tx) >= want \/ Len(tx) < CtrlMax(file.speed)
<1>1. /\ tx # NoPacket /\ tx' = NoPacket /\ Asking /\ rx = <<>> /\ Known
      /\ ~token /\ "IEPInt" \notin int_status
      /\ UNCHANGED <<events, token, pass, int_status, ep0, speed>>
  BY DEF TokenAnswered, InStep, EventsOK, ControlOK, TokensOK, loader
<1>2. /\ Waiting("USBRst")' <=> Waiting("USBRst")
      /\ Waiting("EnumDone")' <=> Waiting("EnumDone")
  BY <1>1, WaitingSame DEF InStep
<1>3. CASE over
  <2>1. phase' \in {"setup", "bulk"} /\ (rx' = rx \/ rx' = Append(rx, [kind |-> "other"]))
    BY <1>3 DEF TokenAnswered
  <2>2. \A i \in 1 .. Len(rx') : rx'[i].kind # "SETUP"
    <3>1. CASE rx' = <<>>
      <4>1. Len(rx') = 0
        BY <3>1, EmptySeq
      <4> QED
        BY <4>1
    <3>2. CASE rx' = <<[kind |-> "other"]>>
      BY <3>2
    <3> QED
      BY <1>1, <2>1, <3>1, <3>2
  <2>3. ~Asking' /\ Quiet'
    <3>1. ep0_state' = "INIT"
      BY <1>1, <1>3, AnswerWhole DEF ep0
    <3> QED
      BY <2>1, <3>1 DEF Asking, Quiet
  <2> QED
    BY <1>1, <2>2, <2>3, NotAsking
<1>4. CASE ~over
  <2>1. got' = got \o tx /\ UNCHANGED <<rx, phase, want>>
    BY <1>4 DEF TokenAnswered
  <2>2. phase = "descriptor"
    BY <1>1, <1>4, AnswerWhole DEF Asking
  <2>3. Known' /\ Asking'
    BY <1>1, <1>2, <2>1 DEF Known, Begun, Asking
  <2>4. Sent' = Sent /\ Due' = Due
    BY <1>1, <2>1 DEF Sent, Due
  <2>5. TokensOK'
    BY <1>1, <2>3 DEF TokensOK
  <2>6. DescriptorOK' /\ AnswerOK'
    BY <1>1, <1>2, <2>1, <2>2, <2>3, <2>4 DEF ControlOK, DescriptorOK, AnswerOK, ep0
  <2> QED
    BY <2>5, <2>6 DEF ControlOK
<1> QED
  BY <1>3, <1>4

LEMMA BulkControl ==
  ASSUME TypeOK, PassOK, InStep, ControlOK, SendBulk
  PROVE  ControlOK'
<1>1. /\ phase = "bulk" /\ UNCHANGED <<events, tx, token, pass, int_status, ep0, phase>>
  BY DEF SendBulk, loader
<1>2. Waiting("USBRst")' <=> Waiting("USBRst")
  BY <1>1, WaitingSame DEF InStep
<1>3. ~Asking /\ ~Asking' /\ (Quiet => Quiet')
  BY <1>1, <1>2 DEF Asking, Quiet, ep0
<1>4. /\ ~token /\ "IEPInt" \notin int_status /\ tx = NoPacket /\ Quiet
      /\ \A i \in 1 .. Len(rx) : rx[i].kind # "SETUP"
  BY <1>3 DEF ControlOK, TokensOK
<1>5. PICK p \in Packets : rx' = Append(rx, p) /\ p.kind = "OUT"
  BY BulkSent
<1>6. ASSUME NEW i \in 1 .. Len(rx')
      PROVE  rx'[i].kind # "SETUP"
  <2>1. /\ Len(rx') = Len(rx) + 1 /\ Len(rx) \in Nat
        /\ \A j \in 1 .. Len(rx) : rx'[j] = rx[j]
        /\ rx'[Len(rx) + 1] = p
    BY <1>5, AppendProperties, LenProperties DEF TypeOK, CoreTypeOK
  <2>2. CASE i = Len(rx) + 1
    BY <1>5, <2>1, <2>2
  <2>3. CASE i # Len(rx) + 1
    <3>1. i \in 1 .. Len(rx)
      BY <2>1, <2>3
    <3> QED
      BY <1>4, <2>1, <3>1
  <2> QED
    BY <2>2, <2>3
<1> QED
  BY <1>1, <1>3, <1>4, <1>6, NotAsking


-----------------------------------------------------------------------------
(* Endpoint 0: the steps of the loader                                     *)

LEMMA PassControl ==
  ASSUME TypeOK, PassOK, InStep, ControlOK, ReadStatus \/ ClearStatus \/ NothingToSend
  PROVE  ControlOK'
<1>1. /\ UNCHANGED <<rx, tx, token, ep0, speed>>
      /\ UNCHANGED <<phase, want, got>>
  BY DEF ReadStatus, ClearStatus, NothingToSend, core, host
<1>2. /\ Waiting("USBRst")' <=> Waiting("USBRst")
      /\ Waiting("EnumDone")' <=> Waiting("EnumDone")
  <2>1. CASE ReadStatus \/ ClearStatus
    BY <2>1, WaitingSame DEF InStep, ReadStatus, core
  <2>2. CASE NothingToSend
    BY <2>2 DEF NothingToSend, Handles, Waiting, core
  <2> QED
    BY <2>1, <2>2
<1>3. Known' <=> Known
  BY <1>1, <1>2 DEF Known, Begun
<1>4. "IEPInt" \in int_status' => token /\ (rx = <<>> \/ "RXFLvl" \in int_status')
  <2>1. CASE ReadStatus
    <3>1. int_status' = Pending /\ events \subseteq {"USBRst", "EnumDone"}
      BY <2>1 DEF ReadStatus, TypeOK, CoreTypeOK
    <3> QED
      BY <3>1 DEF Pending
  <2>2. CASE ClearStatus \/ NothingToSend
    BY <2>2 DEF ClearStatus, NothingToSend, Handles
  <2> QED
    BY <2>1, <2>2
<1>5. token' => token \/ (Asking /\ tx = NoPacket)
  BY <1>1
<1>6. "IEPInt" \in int_status' => \/ token /\ (rx = <<>> \/ "RXFLvl" \in int_status')
                                  \/ "IEPInt" \in int_status /\ ("RXFLvl" \in int_status => "RXFLvl" \in int_status')
  BY <1>4
<1>7. UNCHANGED <<rx, tx, got, want, phase, ep0, speed>>
  BY <1>1
<1> QED
  BY <1>2, <1>3, <1>5, <1>6, <1>7, ControlSame

LEMMA UsbResetControl ==
  ASSUME TypeOK, PassOK, InStep, ControlOK, nx_usb_reset
  PROVE  ControlOK'
<1>1. /\ pass /\ pass' /\ "USBRst" \in int_status /\ int_status' = int_status \ {"USBRst"}
      /\ ep0_state' = "INIT"
      /\ UNCHANGED <<events, rx, tx, token, Current_ptr, Remain_size, speed>>
      /\ UNCHANGED <<phase, want, got>>
  BY DEF nx_usb_reset, Handles, core, host
<1>2. Waiting("USBRst") /\ (Waiting("EnumDone")' <=> Waiting("EnumDone"))
  BY <1>1 DEF Waiting, InStep, EventsOK
<1>3. Known' <=> Known
  BY <1>1, <1>2 DEF Known, Begun
<1>4. Quiet' /\ Due' = Due /\ Sent' = Sent /\ Asking' = Asking
  BY <1>1 DEF Quiet, Due, Sent, Asking
<1>5. TokensOK'
  BY <1>1, <1>4 DEF ControlOK, TokensOK
<1>6. DescriptorOK'
  BY <1>1, <1>2, <1>3, <1>4 DEF ControlOK, DescriptorOK
<1>7. AnswerOK'
  BY <1>1, <1>2, <1>3, <1>4 DEF ControlOK, AnswerOK
<1> QED
  BY <1>5, <1>6, <1>7 DEF ControlOK

LEMMA SetInitControl ==
  ASSUME TypeOK, PassOK, InStep, ControlOK, nx_usb_set_init
  PROVE  ControlOK'
<1>1. /\ pass /\ pass' /\ "EnumDone" \in int_status /\ "USBRst" \notin int_status
      /\ int_status' \in {{}, int_status \ {"EnumDone"}}
      /\ token' => token
      /\ UNCHANGED <<events, rx, tx, ep0>>
      /\ UNCHANGED <<phase, want, got>>
  BY DEF nx_usb_set_init, host
<1>2. ~Waiting("USBRst") /\ ~Waiting("USBRst")' /\ Waiting("EnumDone")
  BY <1>1 DEF Waiting, InStep, EventsOK
<1>3. ~Known
  BY <1>2 DEF Known
<1>4. Asking' = Asking /\ (Quiet => Quiet')
  BY <1>1, <1>2 DEF Asking, Quiet, ep0
<1>5. TokensOK'
  BY <1>1, <1>4 DEF ControlOK, TokensOK
<1>6. DescriptorOK'
  BY <1>1, <1>3, <1>4 DEF ControlOK, DescriptorOK
<1>7. AnswerOK'
  BY <1>1, <1>3, <1>4 DEF ControlOK, AnswerOK
<1> QED
  BY <1>5, <1>6, <1>7 DEF ControlOK

\* While a request is not answered there is nothing in the FIFO but it.
LEMMA RequestAlone ==
  ASSUME ControlOK, Asking, rx # <<>>
  PROVE  /\ \E request \in Requests, n \in WANTS : rx = <<Setup(request, n)>>
         /\ tx = NoPacket /\ Quiet
<1>1. CASE phase = "descriptor"
  BY <1>1 DEF ControlOK, DescriptorOK, Requests
<1>2. CASE phase = "answer"
  BY <1>2 DEF ControlOK, AnswerOK, Requests
<1> QED
  BY <1>1, <1>2 DEF Asking

\* Another packet is taken when there is no request.
LEMMA ReceivedControl ==
  ASSUME TypeOK, PassOK, InStep, ControlOK, ReceiveOther \/ ReceiveHeader \/ ReceiveBody
  PROVE  ControlOK'
<1>1. /\ Handles("RXFLvl", {"USBRst", "EnumDone"}) /\ rx' = Tail(rx) /\ Head(rx).kind # "SETUP"
      /\ UNCHANGED <<events, tx, token, pass, ep0>> /\ UNCHANGED phase
  BY DEF ReceiveOther, ReceiveHeader, ReceiveBody, Receives, Meets, host
<1>2. /\ rx # <<>> /\ Len(rx) \in Nat /\ int_status' = int_status \ {"RXFLvl"}
      /\ ~Waiting("USBRst") /\ ~Waiting("USBRst")'
      /\ Head(rx) = rx[1] /\ Tail(rx) \in Seq(Packets) /\ Len(Tail(rx)) = Len(rx) - 1
      /\ \A i \in 1 .. Len(rx) - 1 : Tail(rx)[i] = rx[i + 1]
  BY <1>1, Receiving
<1>3. ~Asking
  <2>1. ASSUME Asking
        PROVE  FALSE
    <3>1. PICK request \in Requests, n \in WANTS : rx = <<Setup(request, n)>>
      BY <1>2, <2>1, RequestAlone
    <3> QED
      BY <1>1, <1>2, <3>1 DEF Setup
  <2> QED
    BY <2>1
<1>4. /\ ~token /\ "IEPInt" \notin int_status /\ tx = NoPacket /\ Quiet
      /\ \A i \in 1 .. Len(rx) : rx[i].kind # "SETUP"
  BY <1>3 DEF ControlOK, TokensOK
<1>5. ~Asking' /\ Quiet'
  BY <1>1, <1>2, <1>3, <1>4 DEF Asking, Quiet, ep0
<1>6. ASSUME NEW i \in 1 .. Len(rx')
      PROVE  rx'[i].kind # "SETUP"
  <2>1. i \in 1 .. Len(rx) - 1 /\ i + 1 \in 1 .. Len(rx)
    BY <1>1, <1>2
  <2> QED
    BY <1>1, <1>2, <1>4, <2>1
<1> QED
  BY <1>1, <1>2, <1>4, <1>5, <1>6, NotAsking

LEMMA CountZero == Count(0) = <<>>
  BY CountSeq, EmptySeq

\* The request is read in the INIT state, and its answer begins.
LEMMA Ep0Control ==
  ASSUME TypeOK, PassOK, InStep, ControlOK, nx_usb_ep0_int_hndlr
  PROVE  ControlOK'
<1> USE UsbAssumption
<1>1. /\ Handles("RXFLvl", {"USBRst", "EnumDone"}) /\ Head(rx).kind = "SETUP"
      /\ UNCHANGED <<events, token, pass, speed>>
      /\ UNCHANGED <<phase, want, got>>
  BY DEF nx_usb_ep0_int_hndlr, Meets, host
<1>2. /\ rx # <<>> /\ Len(rx) \in Nat /\ Len(rx) > 0 /\ int_status' = int_status \ {"RXFLvl"}
      /\ ~Waiting("USBRst") /\ ~Waiting("USBRst")'
      /\ Known /\ Known' /\ Head(rx) = rx[1]
      /\ Tail(rx) \in Seq(Packets) /\ Len(Tail(rx)) = Len(rx) - 1
  BY <1>1, Receiving
<1>3. Asking
  <2>1. 1 \in 1 .. Len(rx)
    BY <1>2
  <2> QED
    BY <1>1, <1>2, <2>1 DEF ControlOK, TokensOK
<1>4. PICK request \in Requests, n \in WANTS : rx = <<Setup(request, n)>>
  BY <1>2, <1>3, RequestAlone
<1>5. tx = NoPacket /\ ep0_state = "INIT"
  BY <1>2, <1>3, RequestAlone DEF Quiet
<1>6. rx' = <<>> /\ Request(Head(rx))
  <2>1. rx' = Tail(rx) /\ Request(Head(rx))
    BY <1>5 DEF nx_usb_ep0_int_hndlr
  <2>2. Len(Tail(rx)) = 0
    BY <1>2, <1>4
  <2> QED
    BY <1>2, <2>1, <2>2, EmptySeq
<1>7. Head(rx) = Setup(request, n) /\ Head(rx).request = request /\ Head(rx).length = n
  BY <1>4 DEF Setup
<1>8. Asking'
  BY <1>1, <1>3 DEF Asking
<1>9. ASSUME UNCHANGED tx
      PROVE  TokensOK'
  BY <1>1, <1>2, <1>3, <1>5, <1>6, <1>8, <1>9 DEF ControlOK, TokensOK
<1>10. ASSUME phase = "descriptor"
       PROVE  ControlOK'
  <2>1. rx = <<Setup("descriptor", want)>> /\ got = <<>> /\ want \in WANTS
    BY <1>2, <1>10 DEF ControlOK, DescriptorOK
  <2>2. Head(rx).request = "descriptor" /\ Head(rx).length = want
    BY <2>1 DEF Setup
  <2>3. /\ ep0_state' = "GET_DSCPT" /\ Current_ptr' = 0 /\ Remain_size' = Due
        /\ UNCHANGED tx
    BY <1>6, <2>2 DEF Request, GetDescriptor, Due
  <2>4. want \in Nat \ {0}
    BY <2>1
  <2>5. Due \in Nat /\ Due > 0 /\ Due' = Due
    BY <1>1, <2>4 DEF Due
  <2>6. Sent' = Count(0)
    BY <1>1, <1>5, <2>1, <2>3, CountZero DEF Sent
  <2>7. Current_ptr' + Remain_size' = Due'
    BY <2>3, <2>5
  <2>8. DescriptorOK'
    BY <1>1, <1>2, <1>5, <1>6, <1>10, <2>1, <2>3, <2>5, <2>6, <2>7 DEF DescriptorOK
  <2>9. AnswerOK'
    BY <1>1, <1>10 DEF AnswerOK
  <2> QED
    BY <1>9, <2>3, <2>8, <2>9 DEF ControlOK
<1>11. ASSUME phase = "answer"
       PROVE  ControlOK'
  <2>1. got = <<>>
    BY <1>11 DEF ControlOK, AnswerOK
  <2>2. \/ request = "status" /\ want = 1
        \/ request = "plain" /\ want = 0
    <3>1. \/ (\E m \in WANTS : rx = <<Setup("status", m)>>) /\ want = 1
          \/ (\E m \in WANTS : rx = <<Setup("plain", m)>>) /\ want = 0
      BY <1>2, <1>11 DEF ControlOK, AnswerOK
    <3> QED
      BY <1>7, <3>1 DEF Setup
  <2>3. UNCHANGED tx
    BY <1>6, <1>7, <2>2 DEF Request
  <2>4. \/ ep0_state' = "GET_STATUS" /\ want = 1
        \/ ep0_state' = "INIT" /\ want = 0
    BY <1>5, <1>6, <1>7, <2>2 DEF Request, ep0
  <2>5. AnswerOK'
    BY <1>1, <1>2, <1>5, <1>6, <1>11, <2>1, <2>3, <2>4 DEF AnswerOK
  <2>6. DescriptorOK'
    BY <1>1, <1>11 DEF DescriptorOK
  <2> QED
    BY <1>9, <2>3, <2>5, <2>6 DEF ControlOK
<1> QED
  BY <1>3, <1>10, <1>11 DEF Asking

\* The next part of a descriptor continues it.
LEMMA DescriptorNext ==
  ASSUME TypeOK, NEW n \in Nat
  PROVE  /\ Count(Current_ptr) \o Descriptor(n) = Count(Current_ptr + n)
         /\ Descriptor(n) # NoPacket
<1> DEFINE m == Current_ptr
           f == Count(m + n)
<1>1. m \in Nat
  BY DEF TypeOK, LoaderTypeOK
<1>2. f \in [1 .. m + n -> Int]
  BY DEF Count
<1>3. Count(m) = [i \in 1 .. m |-> f[i]]
  BY <1>1 DEF Count
<1>4. Descriptor(n) = [i \in 1 .. n |-> f[m + i]]
  BY <1>1 DEF Count, Descriptor
<1>5. Descriptor(n) # NoPacket
  <2>1. CASE n = 0
    <3>1. Len(Descriptor(n)) = 0
      BY <2>1, DescriptorSeq
    <3> QED
      BY <3>1 DEF NoPacket
  <2>2. CASE n > 0
    <3>1. Descriptor(n)[1] = m + 1
      BY <2>2 DEF Descriptor
    <3> QED
      BY <1>1, <3>1 DEF NoPacket
  <2> QED
    BY <2>1, <2>2
<1> HIDE DEF f, m
<1>6. [i \in 1 .. m |-> f[i]] \o [i \in 1 .. n |-> f[m + i]] = f
  BY <1>1, <1>2, ConcatFunction
<1> QED
  BY <1>3, <1>4, <1>5, <1>6 DEF f, m


\* The packet that is sent is the next part of the answer, or its end.
LEMMA TransferControl ==
  ASSUME TypeOK, PassOK, InStep, ControlOK, left = <<>>, nx_usb_transfer_ep0
  PROVE  ControlOK'
<1> USE UsbAssumption
<1>1. /\ token /\ ~token' /\ pass /\ "IEPInt" \in int_status
      /\ "RXFLvl" \notin int_status /\ "EnumDone" \notin int_status
      /\ int_status' = int_status \ {"IEPInt"}
      /\ UNCHANGED <<events, rx, pass, speed>>
      /\ UNCHANGED <<phase, want, got>>
  BY DEF nx_usb_transfer_ep0, Handles, host
<1>2. Asking /\ tx = NoPacket /\ rx = <<>> /\ Sent = got
  BY <1>1 DEF ControlOK, TokensOK, Sent
<1>3. /\ Known /\ Known'
      /\ Waiting("USBRst")' <=> Waiting("USBRst")
  BY <1>1, <1>2 DEF Known, Begun, Asking, Waiting
<1>4. \A data \in Seq(Nat) : Send(data) => tx' = data
  BY <1>2, SendTyping
<1>5. TokensOK'
  BY <1>1, <1>2 DEF TokensOK, Asking
<1>6. <<>> \in Seq(Nat) /\ << 0 >> \in Seq(Nat)
  BY EmptySeq
<1>7. /\ Current_ptr \in Nat /\ Remain_size \in Nat /\ CtrlMax(speed) \in Nat \ {0}
      /\ CtrlMax(speed)' = CtrlMax(speed)
  BY <1>1 DEF TypeOK, LoaderTypeOK, CtrlMax
<1>8. Descriptor(Remain_size) \in Seq(Nat) /\ Descriptor(CtrlMax(speed)) \in Seq(Nat)
  BY <1>7, DescriptorSeq
<1>9. ASSUME phase = "descriptor"
      PROVE  ControlOK'
  <2>1. Due' = Due /\ want \in WANTS /\ got \in Seq(Int)
    BY <1>1, <1>9 DEF Due, ControlOK, DescriptorOK, TypeOK, HostTypeOK
  <2>2. AnswerOK'
    BY <1>1, <1>9 DEF AnswerOK
  <2>3. CASE ep0_state = "GET_DSCPT"
    <3>1. got = Count(Current_ptr) /\ Current_ptr + Remain_size = Due /\ ~Waiting("USBRst")'
      BY <1>2, <1>3, <1>9, <2>3 DEF ControlOK, DescriptorOK, Quiet
    <3>2. CASE CtrlMax(speed) >= Remain_size
      <4>1. tx' = Descriptor(Remain_size) /\ ep0_state' = "INIT"
        BY <1>4, <1>8, <2>3, <3>2 DEF nx_usb_transfer_ep0
      <4>2. Sent' = Count(Due)'
        BY <1>1, <1>7, <2>1, <3>1, <4>1, DescriptorNext DEF Sent
      <4>3. DescriptorOK'
        BY <1>1, <1>2, <1>3, <1>9, <2>1, <4>1, <4>2 DEF DescriptorOK
      <4> QED
        BY <1>5, <2>2, <4>3 DEF ControlOK
    <3>3. CASE ~(CtrlMax(speed) >= Remain_size)
      <4>1. /\ tx' = Descriptor(CtrlMax(speed)) /\ ep0_state' = "GET_DSCPT"
            /\ Remain_size' = Remain_size - CtrlMax(speed)
            /\ Current_ptr' = Current_ptr + CtrlMax(speed)
        BY <1>4, <1>8, <2>3, <3>3 DEF nx_usb_transfer_ep0
      <4>2. Sent' = Count(Current_ptr)'
        BY <1>1, <1>7, <3>1, <4>1, DescriptorNext DEF Sent
      <4>3. Current_ptr' + Remain_size' = Due' /\ Remain_size' > 0
        BY <1>7, <2>1, <3>1, <3>3, <4>1
      <4>4. Len(tx') = CtrlMax(speed)'
        BY <1>7, <4>1, DescriptorSeq
      <4>5. DescriptorOK'
        BY <1>1, <1>2, <1>3, <1>9, <2>1, <3>1, <4>1, <4>2, <4>3, <4>4 DEF DescriptorOK
      <4> QED
        BY <1>5, <2>2, <4>5 DEF ControlOK
    <3> QED
      BY <3>2, <3>3
  <2>4. CASE ep0_state = "INIT"
    <3>1. got = Count(Due)
      BY <1>2, <1>9, <2>4 DEF ControlOK, DescriptorOK
    <3>2. tx' = <<>> /\ ep0_state' = "INIT"
      BY <1>4, <1>6, <2>4 DEF nx_usb_transfer_ep0, ep0
    <3>3. Sent' = Count(Due)'
      <4>1. tx' # NoPacket /\ got \o <<>> = got
        BY <2>1, <3>2, ConcatEmptySeq DEF NoPacket
      <4> QED
        BY <1>1, <2>1, <3>1, <3>2, <4>1 DEF Sent
    <3>4. DescriptorOK'
      BY <1>1, <1>2, <1>3, <1>9, <2>1, <3>2, <3>3 DEF DescriptorOK
    <3> QED
      BY <1>5, <2>2, <3>4 DEF ControlOK
  <2> QED
    BY <1>2, <1>9, <2>3, <2>4 DEF ControlOK, DescriptorOK
<1>10. ASSUME phase = "answer"
       PROVE  ControlOK'
  <2>1. /\ got = <<>>
        /\ \/ ep0_state = "GET_STATUS" /\ want = 1
           \/ ep0_state = "INIT" /\ want = 0
    <3>1. \A p : rx # <<p>>
      BY <1>2
    <3>2. tx # << 0 >>
      BY <1>2 DEF NoPacket
    <3> QED
      BY <1>10, <3>1, <3>2, Zenon DEF ControlOK, AnswerOK
  <2>2. \/ ep0_state' = "INIT" /\ tx' = << 0 >> /\ want = 1
        \/ ep0_state' = "INIT" /\ tx' = <<>> /\ want = 0
    BY <1>4, <1>6, <2>1 DEF nx_usb_transfer_ep0, ep0
  <2>3. AnswerOK'
    BY <1>1, <1>2, <1>3, <1>10, <2>1, <2>2 DEF AnswerOK
  <2>4. DescriptorOK'
    BY <1>1, <1>10 DEF DescriptorOK
  <2> QED
    BY <1>5, <2>3, <2>4 DEF ControlOK
<1> QED
  BY <1>2, <1>9, <1>10 DEF Asking

-----------------------------------------------------------------------------
(* The invariant                                                           *)

LEMMA InitInStep == Init => InStep /\ ControlOK
<1> SUFFICES ASSUME Init
             PROVE  InStep /\ ControlOK
  OBVIOUS
<1> USE UsbAssumption
<1>1. /\ events = {} /\ rx = <<>> /\ tx = NoPacket /\ ~token /\ ~armed /\ ~pass /\ int_status = {}
      /\ ep0_state = "INIT" /\ bDownLoading /\ phase = "idle" /\ pos = 1
  BY DEF Init
<1>2. ~Known /\ Quiet /\ Len(rx) = 0
  BY <1>1, EmptySeq DEF Known, Begun, Quiet
<1>3. EventsOK
  BY <1>1, <1>2 DEF EventsOK
<1>4. ControlOK
  BY <1>1, <1>2 DEF ControlOK, TokensOK, DescriptorOK, AnswerOK, Asking
<1>5. BulkOK
  <2>1. Queue(0) /\ Len(rx) < 2 /\ 0 \in 0 .. pos - 1
    BY <1>1, <1>2 DEF Queue, Ahead
  <2>2. pos <= FileUnits + 1
    BY <1>1, InitTyping, FileSizes
  <2> QED
    BY <1>1, <1>2, <2>1, <2>2 DEF BulkOK
<1> QED
  BY <1>3, <1>4, <1>5 DEF InStep

LEMMA StutterKeeps ==
  ASSUME TypeOK, PassOK, InStep, UNCHANGED vars
  PROVE  InStep' /\ (ControlOK => ControlOK')
<1>1. UNCHANGED <<events, rx, tx, token, armed, pass, int_status, ep0, speed, download,
                  session, phase, file, want, got, pos>>
  BY DEF vars, core, loader, host
<1>2. /\ Waiting("USBRst")' <=> Waiting("USBRst")
      /\ Waiting("EnumDone")' <=> Waiting("EnumDone")
  BY <1>1 DEF Waiting
<1>3. Known' <=> Known
  BY <1>1, <1>2 DEF Known, Begun
<1>4. EventsOK'
  BY <1>1, <1>3 DEF InStep, EventsOK, Begun
<1>5. BulkOK'
  BY <1>1, <1>3, BulkSame DEF InStep
<1>6. ASSUME ControlOK
      PROVE  ControlOK'
  <2>1. /\ UNCHANGED <<rx, tx, got, want, phase, ep0, speed>>
        /\ UNCHANGED token /\ UNCHANGED int_status
    BY <1>1
  <2>2. "IEPInt" \in int_status' => \/ token /\ (rx = <<>> \/ "RXFLvl" \in int_status')
                                    \/ "IEPInt" \in int_status /\ ("RXFLvl" \in int_status => "RXFLvl" \in int_status')
    BY <2>1
  <2>3. token' => token \/ (Asking /\ tx = NoPacket)
    BY <2>1
  <2> QED
    BY <1>2, <1>3, <1>6, <2>1, <2>2, <2>3, ControlSame
<1> QED
  BY <1>4, <1>5, <1>6 DEF InStep

\* A history that rules a session out does so until the bus is reset.
LEMMA LagStays ==
  ASSUME [Next]_vars, ~BusReset, ~lag'
  PROVE  ~lag
<1>1. CASE Loader
  BY <1>1 DEF Loader, ReadStatus, nx_usb_reset, nx_usb_set_init, ReceiveOther,
              nx_usb_ep0_int_hndlr, ReceiveHeader, ReceiveBody, NothingToSend,
              nx_usb_transfer_ep0, ClearStatus
<1>2. CASE Host
  BY <1>2 DEF Host, Enumerated, SendSetup, TokenNoted, TokenAnswered, SendBulk
<1>3. CASE UNCHANGED vars
  BY <1>3 DEF vars
<1> QED
  BY <1>1, <1>2, <1>3 DEF Next

LEMMA CleanBefore ==
  ASSUME TypeOK, PassOK, [Next]_vars, ~BusReset, Clean'
  PROVE  Clean
<1>1. ~lag
  BY LagStays DEF Clean
<1>2. ~asked
  <2>1. CASE Loader
    BY <2>1 DEF Loader, ReadStatus, nx_usb_reset, nx_usb_set_init, ReceiveOther,
                nx_usb_ep0_int_hndlr, ReceiveHeader, ReceiveBody, NothingToSend,
                nx_usb_transfer_ep0, ClearStatus, host, Clean
  <2>2. CASE Host
    BY <2>2 DEF Host, Enumerated, SendSetup, TokenNoted, TokenAnswered, SendBulk, host, Clean
  <2>3. CASE UNCHANGED vars
    BY <2>3 DEF vars, host, Clean
  <2> QED
    BY <2>1, <2>2, <2>3 DEF Next
<1>3. left = <<>>
  <2>1. CASE nx_usb_transfer_ep0
    BY <2>1, TransferSends, SendTyping DEF Clean
  <2>2. CASE nx_usb_ep0_int_hndlr
    <3>1. rx # <<>> /\ Head(rx).kind = "SETUP"
      BY <2>2 DEF nx_usb_ep0_int_hndlr, Meets, Handles, PassOK
    <3>2. CASE Request(Head(rx))
      BY <3>1, <3>2, RequestTyping DEF Clean
    <3>3. CASE ~Request(Head(rx))
      BY <2>2, <3>3 DEF nx_usb_ep0_int_hndlr, Clean
    <3> QED
      BY <3>2, <3>3
  <2>3. ASSUME ~nx_usb_transfer_ep0, ~nx_usb_ep0_int_hndlr
        PROVE  UNCHANGED left
    BY <2>3 DEF Next, Loader, Host, ReadStatus, nx_usb_reset, nx_usb_set_init, ReceiveOther,
                ReceiveHeader, ReceiveBody, NothingToSend, ClearStatus, Enumerated, SendSetup,
                TokenNoted, TokenAnswered, SendBulk, core, vars
  <2> QED
    BY <2>1, <2>2, <2>3 DEF Clean
<1> QED
  BY <1>1, <1>2, <1>3 DEF Clean

LEMMA StepInStep ==
  ASSUME TypeOK, PassOK, TypeOK', ~lag => InStep, [Next]_vars, ~lag'
  PROVE  InStep'
<1>1. CASE BusReset
  BY <1>1, ResetStep
<1>2. CASE Loader /\ ~BusReset
  <2>1. InStep
    BY <1>2, LagStays DEF Next
  <2> QED
    BY <1>2, <2>1, PassStep, SetInitStep, EntryStep, HeaderStep, BodyStep, TransferStep DEF Loader
<1>3. CASE Host /\ ~BusReset
  <2>1. InStep
    BY <1>3, LagStays DEF Next
  <2> QED
    BY <1>3, <2>1, EnumeratedStep, SetupStep, NotedStep, AnsweredStep, BulkStep DEF Host
<1>4. CASE UNCHANGED vars /\ ~BusReset
  BY <1>4, LagStays, StutterKeeps
<1> QED
  BY <1>1, <1>2, <1>3, <1>4 DEF Next

LEMMA StepControl ==
  ASSUME IInv, [Next]_vars, Clean'
  PROVE  ControlOK'
<1>1. TypeOK /\ PassOK
  BY DEF IInv
<1>2. CASE BusReset
  BY <1>1, <1>2, ResetControl DEF Clean
<1>3. ASSUME ~BusReset
      PROVE  InStep /\ ControlOK /\ left = <<>> /\ ~asked' /\ ~lag'
  BY <1>1, <1>3, CleanBefore DEF IInv, Clean
<1>4. CASE Loader /\ ~BusReset
  BY <1>1, <1>3, <1>4, PassControl, UsbResetControl, SetInitControl, ReceivedControl, Ep0Control,
     TransferControl DEF Loader
<1>5. CASE Host /\ ~BusReset
  BY <1>1, <1>3, <1>5, EnumeratedControl, SetupControl, NotedControl, AnsweredControl, BulkControl
     DEF Host
<1>6. CASE UNCHANGED vars /\ ~BusReset
  BY <1>1, <1>3, <1>6, StutterKeeps
<1> QED
  BY <1>2, <1>4, <1>5, <1>6 DEF Next

LEMMA Invariance == Spec => []IInv
<1>1. Init => IInv
  BY InitTyping, InitInStep DEF IInv
<1>2. IInv /\ [Next]_vars => IInv'
  <2> SUFFICES ASSUME IInv, [Next]_vars
               PROVE  IInv'
    OBVIOUS
  <2>1. TypeOK' /\ PassOK'
    BY HostTyping, LoaderTyping, StutterTyping DEF Next, IInv
  <2>2. ~lag' => InStep'
    BY <2>1, StepInStep DEF IInv
  <2>3. Clean' => ControlOK'
    BY StepControl
  <2> QED
    BY <2>1, <2>2, <2>3 DEF IInv
<1> QED
  BY <1>1, <1>2, PTL DEF Spec

-----------------------------------------------------------------------------
(***************************************************************************)
(* The loader goes on with the body that its header announces, whole and   *)
(* from the file of this session (nx_usb_int_bulkout): for every header,   *)
(* file and number of bus resets.                                          *)
(***************************************************************************)
THEOREM BodyWhole == Spec => []BodyIsFile
<1>1. IInv => BodyIsFile
  <2> SUFFICES ASSUME IInv, ~bDownLoading, ~lag
               PROVE  stored = [i \in 1 .. file.size |-> <<session, HEADER + i>>]
    BY DEF BodyIsFile
  <2> USE UsbAssumption
  <2>1. PICK r \in 0 .. pos - 1 : BulkOK!(r)
    BY DEF IInv, InStep, BulkOK
  <2>2. BodyPart(r)
    BY <2>1
  <2>3. /\ stored = [i \in 1 .. r - HEADER |-> <<session, HEADER + i>>]
        /\ iRxSize = FileUnits - r /\ iRxSize = 0
    BY <2>2 DEF BodyPart
  <2>4. r - HEADER = file.size
    <3>1. file.size \in Nat /\ HEADER \in Nat /\ r \in Int
      BY FileSizes DEF IInv
    <3> QED
      BY <2>3, <3>1 DEF FileUnits
  <2> QED
    BY <2>3, <2>4
<1> QED
  BY <1>1, Invariance, PTL

(***************************************************************************)
(* A header is accepted (nx_usb_int_bulkout, header_check) only whole,     *)
(* signed and from the file of the session it is accepted in.              *)
(***************************************************************************)
THEOREM HeaderWhole == Spec => HeaderOfOneFile
<1> DEFINE Accepted == ~bHeaderReceived /\ bHeaderReceived' /\ ~lag =>
               /\ file.sort = "signed"
               /\ \A i \in 1 .. HEADER : header'[i] = FileUnit(i)
<1>1. IInv /\ IInv' /\ [Next]_vars => [Accepted]_vars
  <2> SUFFICES ASSUME IInv, IInv', Next, ~bHeaderReceived, bHeaderReceived', ~lag
               PROVE  /\ file.sort = "signed"
                      /\ \A i \in 1 .. HEADER : header'[i] = FileUnit(i)
    OBVIOUS
  <2>1. ReceiveHeader
    <3>1. ~BusReset /\ ~Host
      BY DEF BusReset, Host, Enumerated, SendSetup, TokenNoted, TokenAnswered, SendBulk, loader,
             download
    <3>2. Loader
      BY <3>1 DEF Next
    <3> QED
      BY <3>2 DEF Loader, ReadStatus, nx_usb_reset, nx_usb_set_init, ReceiveOther,
                  nx_usb_ep0_int_hndlr, ReceiveBody, NothingToSend, nx_usb_transfer_ep0,
                  ClearStatus, download
  <2> QED
    BY <2>1, HeaderStep DEF IInv
<1> QED
  BY <1>1, Invariance, PTL DEF Spec, HeaderOfOneFile

(***************************************************************************)
(* A host gets of a descriptor what it asked for, in order, and sees where *)
(* it ends (nx_usb_transfer_ep0): for every length it asks for, size of    *)
(* the descriptor and of the packets of endpoint 0, and any resets of the  *)
(* bus.  Of a session in which it did not outrun the loader and did not    *)
(* ask for the configuration, with nothing left in the transmit FIFO.      *)
(***************************************************************************)
THEOREM DescriptorSent == Spec => DescriptorWhole
<1> DEFINE Whole == ~lag /\ ~asked /\ left = <<>> => EndsWhole
<1>1. IInv /\ [Next]_vars => [Whole]_vars
  <2> SUFFICES ASSUME IInv, Next, Clean, Ends
               PROVE  got \o tx = [i \in 1 .. (IF want > DESC THEN DESC ELSE want) |-> i]
    BY DEF EndsWhole, Clean
  <2>1. TokenAnswered
    <3>1. ~Loader
      BY DEF Ends, Loader, ReadStatus, nx_usb_reset, nx_usb_set_init, ReceiveOther,
             nx_usb_ep0_int_hndlr, ReceiveHeader, ReceiveBody, NothingToSend,
             nx_usb_transfer_ep0, ClearStatus, host
    <3> QED
      BY <3>1 DEF Ends, Next, Host, BusReset, Enumerated, SendSetup, TokenNoted, SendBulk, host
  <2>2. Len(got \o tx) >= want \/ Len(tx) < CtrlMax(file.speed)
    BY <2>1 DEF TokenAnswered, Ends
  <2>3. got \o tx = Count(Due)
    BY <2>1, <2>2, AnswerWhole DEF IInv, Clean, Ends
  <2> QED
    BY <2>3 DEF Count, Due
<1> QED
  BY <1>1, Invariance, PTL DEF Spec, DescriptorWhole

=============================================================================
