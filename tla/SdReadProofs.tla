---------------------------- MODULE SdReadProofs ----------------------------
(***************************************************************************)
(* SdRead for every block length, FIFO depth, watermark and sequence of    *)
(* reads: type correctness however the controller behaves, and the order   *)
(* and completeness of the words for a controller that raises DTO after    *)
(* the last word is in the FIFO (LAG = FALSE).                             *)
(***************************************************************************)
EXTENDS SdRead, SequenceTheorems, TLAPS

Size == numberOfSector * BLOCK_LENGTH

\* The words of the read in progress, on their way from the card to the
\* buffer.
Stream ==
    /\ Len(buffer) + Len(fifo) + Len(pipe) = sent
    /\ \A i \in 1 .. Len(buffer) : buffer[i] = <<reads, i>>
    /\ \A i \in 1 .. Len(fifo) : fifo[i] = <<reads, Len(buffer) + i>>
    /\ \A i \in 1 .. Len(pipe) : pipe[i] = <<reads, sent>>
    /\ count = Size - Len(buffer)
    /\ numberOfSector > 0 => total = Size

\* What the driver concludes from RXDR, DTO and FIFOEMPTY.
Bell ==
    /\ "RXDR" \in RINTSTS /\ pc # "ack" => fifo # <<>>
    /\ "DTO" \in RINTSTS => ~ active /\ pipe = <<>>
    /\ pc \in {"wait", "drain"} => count > 0
    /\ pc = "wait" => IF fifo = <<>> THEN ~ active /\ pipe = <<>>
                      ELSE Timeout = NX_SDMMC_TIMEOUT

Done == pc \in {"end", "acd"} \/ (pc = "ok" /\ reads > 0)
Before == pc \in {"busy", "status", "read"} \/ (pc = "ok" /\ reads = 0)

Order ==
    /\ InLoop \/ Done => Stream
    /\ InLoop => Bell
    /\ Done => count = 0
    /\ Before => /\ buffer = <<>> /\ fifo = <<>> /\ pipe = <<>>
                 /\ sent = total
    /\ pc \in {"status", "read"} => ~ active
    /\ pc # "ok" => reads > 0

IInv == TypeOK /\ (LAG \/ Order)

LEMMA SizeFacts ==
    ASSUME TypeOK
    PROVE  /\ Size \in Nat /\ Size < WORD
           /\ numberOfSector \in Nat
           /\ numberOfSector = 0 => Size = 0
<1>1. numberOfSector \in Nat /\ BLOCK_LENGTH \in Nat /\ WORD \in Nat
  BY SdReadAssumption DEF TypeOK
<1>2. numberOfSector = 1 => Size = BLOCK_LENGTH
  BY <1>1 DEF Size
<1>3. numberOfSector \in Sectors => Size < WORD
  BY SdReadAssumption DEF Size
<1>4. Size \in Nat
  BY <1>1 DEF Size
<1> QED
  BY <1>1, <1>2, <1>3, <1>4, SdReadAssumption DEF TypeOK, Size

LEMMA AtMostOne ==
    ASSUME NEW n \in Nat, n <= 1
    PROVE  n \in 0 .. 1 /\ (n # 0 => n = 1)
  OBVIOUS

LEMMA Mod == ASSUME NEW w \in Nat, NEW x \in 0 .. w - 1 PROVE x % w = x
  OBVIOUS

LEMMA ModRange == ASSUME NEW w \in Nat \ {0}, NEW x \in Int PROVE x % w \in 0 .. w - 1
  OBVIOUS

-----------------------------------------------------------------------------
(* Type correctness                                                        *)

Words == Seq(Nat \X Nat)

LEMMA InitTypeOK == Init => TypeOK
<1> SUFFICES ASSUME Init PROVE TypeOK
  OBVIOUS
<1>1. buffer = <<>> /\ fifo = <<>> /\ pipe = <<>>
  BY DEF Init
<1>2. buffer \in Words /\ fifo \in Words /\ Len(fifo) <= FIFO_DEPTH
      /\ pipe \in Words /\ Len(pipe) <= 1
  BY <1>1, SdReadAssumption DEF Words
<1>3. /\ pc = "ok" /\ numberOfSector = 1 /\ RINTSTS = {}
      /\ active = FALSE /\ autostop = FALSE /\ bad = FALSE
      /\ sent \in 0 .. total /\ total \in Nat
  BY DEF Init
<1>4. count \in 0 .. WORD - 1 /\ Timeout \in 0 .. WORD - 1
      /\ reads \in 0 .. MAX_READS
  BY SdReadAssumption DEF Init
<1> QED
  BY <1>2, <1>3, <1>4 DEF TypeOK, InLoop, Bits, Words

LEMMA NextTypeOK == TypeOK /\ [Next]_vars => TypeOK'
<1> SUFFICES ASSUME TypeOK, [Next]_vars PROVE TypeOK'
  OBVIOUS
<1> USE DEF TypeOK, InLoop
<1> USE SdReadAssumption
<1>1. CASE Call
  BY <1>1 DEF Call, card
<1>2. CASE WaitWhileBusy
  BY <1>2 DEF WaitWhileBusy, card
<1>3. CASE SendStatus
  BY <1>3 DEF SendStatus, card
<1>4. CASE SendRead
  <2>1. count' \in 0 .. WORD - 1
    BY <1>4, SizeFacts DEF SendRead, Size
  <2>2. total' \in Nat /\ sent' = 0
    <3>1. CASE numberOfSector = 0
      BY <1>4, <3>1 DEF SendRead
    <3>2. CASE numberOfSector # 0
      BY <1>4, <3>2, SizeFacts DEF SendRead, Size
    <3> QED
      BY <3>1, <3>2
  <2>3. active' \in BOOLEAN /\ autostop' \in BOOLEAN /\ bad' \in BOOLEAN
    BY <1>4, Zenon DEF SendRead
  <2>4. /\ pc' \in {"loop", "stop"} /\ RINTSTS' = {}
        /\ UNCHANGED <<numberOfSector, Timeout, buffer, reads, fifo, pipe>>
    BY <1>4 DEF SendRead
  <2> QED
    BY <2>1, <2>2, <2>3, <2>4
<1>5. CASE WaitAutoStop
  BY <1>5 DEF WaitAutoStop, card
<1>6. CASE StopTransmission
  <2>1. pipe' \in Words /\ Len(pipe') <= 1
    <3>1. pipe' = <<>> \/ pipe' = pipe
      BY <1>6 DEF StopTransmission
    <3>2. <<>> \in Words
      BY DEF Words
    <3>3. pipe \in Words
      BY DEF Words
    <3> QED
      BY <3>1, <3>2, <3>3
  <2>2. active' \in BOOLEAN /\ autostop' \in BOOLEAN
    BY <1>6 DEF StopTransmission
  <2>3. /\ pc' = "reset" /\ RINTSTS' = {}
        /\ UNCHANGED <<numberOfSector, count, Timeout, buffer, reads>>
        /\ UNCHANGED <<fifo, sent, total, bad>>
    BY <1>6 DEF StopTransmission
  <2> QED
    BY <2>1, <2>2, <2>3 DEF Words
<1>7. CASE ResetFifo
  BY <1>7 DEF ResetFifo, card
<1>8. CASE LoopHead
  BY <1>8 DEF LoopHead, card
<1>9. CASE PollFifo
  BY <1>9 DEF PollFifo, card
<1>10. CASE DrainFifo
  <2>0. count - Len(fifo) \in Int /\ WORD \in Nat \ {0}
    OBVIOUS
  <2>1. count' \in 0 .. WORD - 1
    BY <1>10, <2>0, ModRange DEF DrainFifo
  <2>2. buffer' \in Words
    BY <1>10 DEF DrainFifo, Words
  <2> QED
    BY <1>10, <2>1, <2>2 DEF DrainFifo, card, Words
<1>11. CASE AckRxdr
  BY <1>11 DEF AckRxdr, card
<1>12. CASE CheckErrors
  BY <1>12 DEF CheckErrors, card
<1>13. CASE CheckDto
  BY <1>13 DEF CheckDto, card
<1>14. CASE CheckHto
  BY <1>14 DEF CheckHto, card
<1>15. CASE ReturnOne
  BY <1>15 DEF ReturnOne, card
<1>16. CASE SendWord
  <2>1. <<reads, sent + 1>> \in Nat \X Nat
    OBVIOUS
  <2> QED
    BY <1>16, <2>1 DEF SendWord, driver
<1>17. CASE PushWord
  <2>1. fifo' \in Words /\ Len(fifo') = Len(fifo) + Len(pipe)
    BY <1>17 DEF PushWord, Words
  <2> QED
    BY <1>17, <2>1 DEF PushWord, driver, card, Words
<1>18. CASE RaiseRxdr
  BY <1>18 DEF RaiseRxdr, driver, card, Bits
<1>19. CASE RaiseError
  BY <1>19 DEF RaiseError, driver, Bits
<1>20. CASE RaiseDto
  BY <1>20 DEF RaiseDto, driver, Bits
<1>21. CASE RaiseHto
  BY <1>21 DEF RaiseHto, driver, card, Bits
<1>22. CASE RaiseAcd
  BY <1>22 DEF RaiseAcd, driver, Bits
<1>23. CASE UNCHANGED vars
  BY <1>23 DEF vars, driver, card
<1> QED
  BY <1>1, <1>2, <1>3, <1>4, <1>5, <1>6, <1>7, <1>8, <1>9, <1>10, <1>11,
     <1>12, <1>13, <1>14, <1>15, <1>16, <1>17, <1>18, <1>19, <1>20, <1>21,
     <1>22, <1>23 DEF Next, Driver, Controller

-----------------------------------------------------------------------------
(* The order of the words                                                  *)

LEMMA InitIInv == Init => IInv
  BY InitTypeOK DEF IInv, Order, Init, InLoop, Done, Before

\* How the parts of TypeOK and of the stream bound each other.
LEMMA StreamFacts ==
    ASSUME TypeOK, Stream
    PROVE  /\ Len(buffer) \in Nat /\ Len(fifo) \in Nat /\ Len(pipe) \in 0 .. 1
           /\ sent \in Nat /\ total \in Nat /\ sent <= total /\ reads \in Nat
           /\ count \in Nat /\ Len(buffer) <= Size
           /\ numberOfSector > 0 => Len(fifo) <= count /\ sent <= Size
           /\ numberOfSector = 0 => count = 0 /\ buffer = <<>>
           /\ numberOfSector > 0 /\ count = 0 =>
                 fifo = <<>> /\ pipe = <<>> /\ sent = total
<1>0. Len(buffer) \in Nat /\ Len(fifo) \in Nat /\ Len(pipe) \in 0 .. 1
  <2>1. buffer \in Words /\ fifo \in Words /\ pipe \in Words /\ Len(pipe) <= 1
    BY DEF TypeOK, Words
  <2>2. Len(buffer) \in Nat /\ Len(fifo) \in Nat /\ Len(pipe) \in Nat
    BY <2>1, LenProperties DEF Words
  <2> QED
    BY <2>1, <2>2, AtMostOne
<1>1. /\ Len(buffer) \in Nat /\ Len(fifo) \in Nat /\ Len(pipe) \in 0 .. 1
      /\ sent \in Nat /\ total \in Nat /\ sent <= total /\ reads \in Nat
      /\ count \in Nat
  <2>1. sent \in 0 .. total /\ total \in Nat /\ reads \in 0 .. MAX_READS
        /\ count \in 0 .. WORD - 1
    BY DEF TypeOK
  <2> QED
    BY <2>1, <1>0, SdReadAssumption
<1>2. Size \in Nat /\ numberOfSector \in Nat /\ (numberOfSector = 0 => Size = 0)
  BY SizeFacts
<1>3. count = Size - Len(buffer) /\ Len(buffer) + Len(fifo) + Len(pipe) = sent
      /\ (numberOfSector > 0 => total = Size)
  BY DEF Stream
<1>4. Len(buffer) <= Size
  BY <1>1, <1>2, <1>3
<1>5. /\ numberOfSector > 0 => Len(fifo) <= count /\ sent <= Size
      /\ numberOfSector = 0 => count = 0 /\ Len(buffer) = 0
      /\ numberOfSector > 0 /\ count = 0 =>
            Len(fifo) = 0 /\ Len(pipe) = 0 /\ sent = total
  BY <1>1, <1>2, <1>3, <1>4
<1>6. /\ Len(buffer) = 0 => buffer = <<>>
      /\ Len(fifo) = 0 => fifo = <<>>
      /\ Len(pipe) = 0 => pipe = <<>>
  BY DEF TypeOK
<1> QED
  BY <1>1, <1>4, <1>5, <1>6

\* A step that moves no word keeps the stream.
LEMMA SameStream ==
    ASSUME Stream, UNCHANGED <<buffer, fifo, pipe, sent, total, count, reads,
                               numberOfSector>>
    PROVE  Stream'
<1>1. Size' = Size
  BY DEF Size
<1> QED
  BY <1>1 DEF Stream

LEMMA NextOrder == IInv /\ Next /\ ~ LAG => Order'
<1> SUFFICES ASSUME TypeOK, Order, Next, ~ LAG PROVE Order'
  BY DEF IInv
<1>T. TypeOK'
  BY NextTypeOK
<1> USE SdReadAssumption
<1> DEFINE still == UNCHANGED <<buffer, fifo, pipe, sent, total, count, reads,
                                numberOfSector>>
<1>1. CASE Call
  <2>1. fifo = <<>> /\ pipe = <<>> /\ sent = total
    BY <1>1, StreamFacts DEF Call, Order, Done, Before, TypeOK
  <2>2. reads' > 0
    BY <1>1 DEF Call, TypeOK
  <2> QED
    BY <1>1, <2>1, <2>2 DEF Call, card, Order, InLoop, Done, Before
<1>2. CASE WaitWhileBusy
  BY <1>2 DEF WaitWhileBusy, card, Order, InLoop, Done, Before
<1>3. CASE SendStatus
  BY <1>3 DEF SendStatus, card, Order, InLoop, Done, Before
<1>4. CASE SendRead
  <2>1. /\ buffer' = <<>> /\ fifo' = <<>> /\ pipe' = <<>> /\ sent' = 0
        /\ pc' \in {"loop", "stop"} /\ RINTSTS' = {}
        /\ count' = Size /\ numberOfSector' = numberOfSector
        /\ reads > 0 /\ reads' = reads
        /\ numberOfSector > 0 => total' = Size
    BY <1>4, SizeFacts DEF SendRead, Order, Before, Size
  <2>2. Size' = Size /\ Size \in Nat
    BY <2>1, SizeFacts DEF Size
  <2>3. Stream'
    BY <2>1, <2>2 DEF Stream
  <2> QED
    BY <2>1, <2>3 DEF Order, Bell, InLoop, Done, Before
<1>5. CASE WaitAutoStop
  <2>1. still
    BY <1>5 DEF WaitAutoStop, card
  <2> QED
    BY <1>5, <2>1, SameStream, <1>T DEF WaitAutoStop, card, Order, InLoop, Done, Before, TypeOK
<1>6. CASE StopTransmission
  BY <1>6 DEF StopTransmission, Order, InLoop, Done, Before
<1>7. CASE ResetFifo
  BY <1>7 DEF ResetFifo, Order, InLoop, Done, Before
<1>8. CASE LoopHead
  <2>1. still /\ Stream
    BY <1>8 DEF LoopHead, card, Order, InLoop
  <2>2. pc' = "wait" =>
           /\ RINTSTS \cap {"RXDR", "DTO"} # {} /\ count > 0
           /\ Timeout' = NX_SDMMC_TIMEOUT
    BY <1>8 DEF LoopHead
  <2> QED
    BY <1>8, <2>1, <2>2, SameStream DEF LoopHead, card, Order, Bell, InLoop, Done, Before
<1>9. CASE PollFifo
  <2>1. still /\ Stream
    BY <1>9 DEF PollFifo, card, Order, InLoop
  <2> QED
    BY <1>9, <2>1, SameStream DEF PollFifo, card, Order, Bell, InLoop, Done, Before
<1>10. CASE DrainFifo
  <2>1. Stream /\ Bell /\ pc = "drain" /\ count > 0
    BY <1>10 DEF DrainFifo, Order, InLoop, Bell
  <2>2. numberOfSector > 0 /\ Len(fifo) <= count /\ count \in 0 .. WORD - 1
        /\ WORD \in Nat
    BY <2>1, StreamFacts, SizeFacts DEF TypeOK
  <2>3. count' = count - Len(fifo)
    <3>1. count - Len(fifo) \in 0 .. WORD - 1
      BY <2>1, <2>2, StreamFacts
    <3> QED
      BY <1>10, <3>1, <2>2, Mod DEF DrainFifo
  <2>4. /\ buffer' = buffer \o fifo /\ fifo' = <<>>
        /\ UNCHANGED <<pipe, sent, total, reads, numberOfSector>>
    BY <1>10 DEF DrainFifo, card
  <2>5. Len(buffer') = Len(buffer) + Len(fifo)
    BY <2>4 DEF TypeOK
  <2>6. \A i \in 1 .. Len(buffer') : buffer'[i] = <<reads, i>>
    <3> TAKE i \in 1 .. Len(buffer')
    <3>1. CASE i <= Len(buffer)
      <4>1. buffer'[i] = buffer[i] /\ i \in 1 .. Len(buffer)
        BY <2>4, <2>5, <3>1 DEF TypeOK
      <4> QED
        BY <4>1, <2>1 DEF Stream
    <3>2. CASE i > Len(buffer)
      <4>1. /\ buffer'[i] = fifo[i - Len(buffer)]
            /\ i - Len(buffer) \in 1 .. Len(fifo)
            /\ Len(buffer) + (i - Len(buffer)) = i
        BY <2>4, <2>5, <3>2 DEF TypeOK
      <4> QED
        BY <4>1, <2>1 DEF Stream
    <3> QED
      BY <3>1, <3>2, <2>5, StreamFacts, <2>1
  <2>7. Size' = Size
    BY <2>4 DEF Size
  <2>8. Stream'
    <3>1. /\ Len(buffer') + Len(fifo') + Len(pipe') = sent'
          /\ count' = Size' - Len(buffer')
      BY <2>1, <2>3, <2>4, <2>5, <2>7, StreamFacts, SizeFacts DEF Stream
    <3>2. \A i \in 1 .. Len(pipe') : pipe'[i] = <<reads', sent'>>
      BY <2>1, <2>4 DEF Stream
    <3>3. \A i \in 1 .. Len(fifo') : fifo'[i] = <<reads', Len(buffer') + i>>
      BY <2>4
    <3> QED
      BY <2>1, <2>4, <2>6, <2>7, <3>1, <3>2, <3>3 DEF Stream
  <2> QED
    BY <1>10, <2>1, <2>8 DEF DrainFifo, card, Order, Bell, InLoop, Done, Before
<1>11. CASE AckRxdr
  <2>1. still /\ Stream
    BY <1>11 DEF AckRxdr, card, Order, InLoop
  <2> QED
    BY <1>11, <2>1, SameStream DEF AckRxdr, card, Order, Bell, InLoop, Done, Before
<1>12. CASE CheckErrors
  <2>1. still /\ Stream
    BY <1>12 DEF CheckErrors, card, Order, InLoop
  <2> QED
    BY <1>12, <2>1, SameStream DEF CheckErrors, card, Order, Bell, InLoop, Done, Before
<1>13. CASE CheckDto
  <2>1. still /\ Stream
    BY <1>13 DEF CheckDto, card, Order, InLoop
  <2> QED
    BY <1>13, <2>1, SameStream DEF CheckDto, card, Order, Bell, InLoop, Done, Before
<1>14. CASE CheckHto
  <2>1. still /\ Stream
    BY <1>14 DEF CheckHto, card, Order, InLoop
  <2> QED
    BY <1>14, <2>1, SameStream DEF CheckHto, card, Order, Bell, InLoop, Done, Before
<1>15. CASE ReturnOne
  <2>1. still /\ Stream
    BY <1>15 DEF ReturnOne, card, Order, Done
  <2> QED
    BY <1>15, <2>1, SameStream DEF ReturnOne, card, Order, InLoop, Done, Before
<1>16. CASE SendWord
  <2>1. /\ active /\ sent < total /\ pipe = <<>>
        /\ sent' = sent + 1 /\ pipe' = << <<reads, sent + 1>> >>
        /\ UNCHANGED <<driver, RINTSTS, fifo, total, active>>
    BY <1>16 DEF SendWord
  <2>2. ASSUME Stream PROVE Stream'
    <3>1. Len(pipe) = 0 /\ Len(pipe') = 1 /\ pipe'[1] = <<reads, sent + 1>>
      BY <2>1
    <3>2. Size' = Size
      BY <2>1 DEF Size, driver
    <3>3. Len(buffer') + Len(fifo') + Len(pipe') = sent'
      BY <2>1, <2>2, <3>1, StreamFacts DEF Stream, driver
    <3>4. \A i \in 1 .. Len(pipe') : pipe'[i] = <<reads', sent'>>
      BY <2>1, <3>1 DEF driver
    <3> QED
      BY <2>1, <2>2, <3>2, <3>3, <3>4 DEF Stream, driver
  <2>3. InLoop => Bell'
    BY <2>1 DEF Order, Bell, driver
  <2>4. ~ Before
    BY <2>1 DEF Order, TypeOK
  <2>5. pc' = pc /\ reads' = reads /\ count' = count
    BY <2>1 DEF driver
  <2>6. pc \notin {"status", "read"}
    BY <2>4 DEF Before
  <2> QED
    BY <2>2, <2>3, <2>4, <2>5, <2>6 DEF Order, InLoop, Done, Before
<1>17. CASE PushWord
  <2>1. /\ pipe # <<>> /\ fifo' = fifo \o pipe /\ pipe' = <<>>
        /\ UNCHANGED <<driver, RINTSTS, card>>
    BY <1>17 DEF PushWord
  <2>2. /\ Len(pipe) = 1 /\ Len(pipe') = 0
        /\ Len(fifo') = Len(fifo) + 1
        /\ \A i \in 1 .. Len(fifo) : fifo'[i] = fifo[i]
        /\ fifo'[Len(fifo) + 1] = pipe[1]
    <3>1. fifo \in Words /\ pipe \in Words /\ Len(pipe) <= 1
      BY DEF TypeOK, Words
    <3>2. Len(pipe) = 1
      <4>1. Len(pipe) # 0
        BY <2>1, <3>1, EmptySeq DEF Words
      <4>2. Len(pipe) \in Nat
        BY <3>1, LenProperties DEF Words
      <4> QED
        BY <3>1, <4>1, <4>2, AtMostOne
    <3>3. Len(fifo') = Len(fifo) + Len(pipe)
      BY <2>1, <3>1 DEF Words
    <3>4. \A i \in 1 .. Len(fifo) : fifo'[i] = fifo[i]
      BY <2>1, <3>1 DEF Words
    <3>5. fifo'[Len(fifo) + 1] = pipe[1]
      BY <2>1, <3>1, <3>2 DEF Words
    <3> QED
      BY <2>1, <3>2, <3>3, <3>4, <3>5
  <2>3. ASSUME Stream PROVE Stream'
    <3>1. Size' = Size
      BY <2>1 DEF Size, driver
    <3>2. Len(buffer') + Len(fifo') + Len(pipe') = sent'
      BY <2>1, <2>2, <2>3, StreamFacts DEF Stream, driver, card
    <3>3. \A i \in 1 .. Len(fifo') : fifo'[i] = <<reads', Len(buffer') + i>>
      <4> TAKE i \in 1 .. Len(fifo')
      <4>1. i \in 1 .. Len(fifo) \/ i = Len(fifo) + 1
        BY <2>2, <2>3, StreamFacts
      <4>2. Len(buffer) + (Len(fifo) + 1) = sent /\ pipe[1] = <<reads, sent>>
        BY <2>2, <2>3, StreamFacts DEF Stream
      <4> QED
        BY <2>1, <2>2, <2>3, <4>1, <4>2 DEF Stream, driver
    <3> QED
      BY <2>1, <2>2, <2>3, <3>1, <3>2, <3>3 DEF Stream, driver, card
  <2>4. fifo' # <<>>
    BY <2>2 DEF TypeOK
  <2>5. InLoop => Bell'
    BY <2>1, <2>4 DEF Order, Bell, driver, card
  <2> QED
    BY <2>1, <2>3, <2>5 DEF Order, InLoop, Done, Before, driver, card
<1>18. CASE RaiseRxdr
  <2>1. still /\ fifo # <<>>
    BY <1>18 DEF RaiseRxdr, driver, card, TypeOK
  <2>2. InLoop => Bell'
    BY <1>18, <2>1 DEF RaiseRxdr, Order, Bell, driver, card
  <2> QED
    BY <1>18, <2>1, <2>2, SameStream DEF RaiseRxdr, Order, InLoop, Done, Before, driver, card
<1>19. CASE RaiseError
  <2>1. still
    BY <1>19 DEF RaiseError, driver
  <2>2. InLoop => Bell'
    BY <1>19, <2>1 DEF RaiseError, Order, Bell, driver, DataErrors
  <2> QED
    BY <1>19, <2>1, <2>2, SameStream DEF RaiseError, Order, InLoop, Done, Before, driver
<1>20. CASE RaiseDto
  <2>1. still
    BY <1>20 DEF RaiseDto, driver
  <2>2. InLoop => Bell'
    BY <1>20, <2>1 DEF RaiseDto, Order, Bell, driver
  <2> QED
    BY <1>20, <2>1, <2>2, SameStream DEF RaiseDto, Order, InLoop, Done, Before, driver
<1>21. CASE RaiseHto
  <2>1. still
    BY <1>21 DEF RaiseHto, driver, card
  <2>2. InLoop => Bell'
    BY <1>21, <2>1 DEF RaiseHto, Order, Bell, driver, card
  <2> QED
    BY <1>21, <2>1, <2>2, SameStream DEF RaiseHto, Order, InLoop, Done, Before, driver, card
<1>22. CASE RaiseAcd
  <2>1. still
    BY <1>22 DEF RaiseAcd, driver
  <2>2. InLoop => Bell'
    BY <1>22, <2>1 DEF RaiseAcd, Order, Bell, driver
  <2> QED
    BY <1>22, <2>1, <2>2, SameStream DEF RaiseAcd, Order, InLoop, Done, Before, driver
<1> QED
  BY <1>1, <1>2, <1>3, <1>4, <1>5, <1>6, <1>7, <1>8, <1>9, <1>10, <1>11,
     <1>12, <1>13, <1>14, <1>15, <1>16, <1>17, <1>18, <1>19, <1>20, <1>21,
     <1>22 DEF Next, Driver, Controller

LEMMA StutterIInv == IInv /\ UNCHANGED vars => IInv'
<1> SUFFICES ASSUME IInv, UNCHANGED vars PROVE IInv'
  OBVIOUS
<1>1. TypeOK'
  BY NextTypeOK DEF IInv
<1>2. Size' = Size
  BY DEF Size, vars, driver
<1>3. Stream' = Stream
  BY <1>2 DEF Stream, vars, driver, card
<1> QED
  BY <1>1, <1>3 DEF IInv, Order, Bell, InLoop, Done, Before, vars, driver, card

LEMMA NextIInv == IInv /\ [Next]_vars => IInv'
  BY NextTypeOK, NextOrder, StutterIInv DEF IInv

-----------------------------------------------------------------------------
THEOREM Invariance == Spec => []IInv
  BY InitIInv, NextIInv, PTL DEF Spec

\* Type correctness, whatever the controller does: the unsigned counters stay
\* within a word and the FIFO within its depth.
THEOREM Typing == Spec => []TypeOK
<1>1. IInv => TypeOK
  BY DEF IInv
<1> QED
  BY <1>1, Invariance, PTL

LEMMA OrderIsInOrder == TypeOK /\ Order => InOrder
<1> SUFFICES ASSUME TypeOK, Order, InLoop \/ Succeeded
             PROVE  /\ Len(buffer) <= Size
                    /\ Succeeded => Len(buffer) = Size
                    /\ buffer = Wanted(Len(buffer))
  BY DEF InOrder, Size
<1>1. Stream /\ (Succeeded => count = 0)
  BY DEF Order, Succeeded, Done
<1>2. Len(buffer) <= Size /\ (Succeeded => Len(buffer) = Size)
  BY <1>1, StreamFacts, SizeFacts DEF Stream
<1>3. buffer = [i \in 1 .. Len(buffer) |-> buffer[i]]
  BY DEF TypeOK
<1>4. buffer = Wanted(Len(buffer))
  BY <1>1, <1>3 DEF Stream, Wanted
<1> QED
  BY <1>2, <1>4

\* With a controller that raises DTO last, every read stores the words of the
\* card in order, and a successful one all of them, for every block length,
\* FIFO depth and watermark.
THEOREM ReadsInOrder == ASSUME ~ LAG PROVE Spec => []InOrder
<1>1. IInv => InOrder
  BY OrderIsInOrder DEF IInv
<1> QED
  BY <1>1, Invariance, PTL

\* With such a controller every read command finds the last transfer over and
\* the FIFO empty, as the driver asserts.
THEOREM ReadsClean == ASSUME ~ LAG PROVE Spec => []CleanBeforeRead
<1>1. IInv => CleanBeforeRead
  BY DEF IInv, Order, Before, CleanBeforeRead
<1> QED
  BY <1>1, Invariance, PTL
=============================================================================
