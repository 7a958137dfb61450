---------------------------- MODULE SdOpenProofs ----------------------------
(***************************************************************************)
(* SdOpen for every set of cards, every number of tries, any losses and    *)
(* any damaged answers: an opened card is selected and set up, and it is   *)
(* addressed the way it counts if the answer that says so came through.    *)
(***************************************************************************)
EXTENDS SdOpen, TLAPS

Cards == [state : {"idle", "ready", "ident", "stby", "tran"},
          rca : {0, MmcRca, SdRca}, width : {1, 4},
          blklen : BOOLEAN, app : BOOLEAN, v2 : BOOLEAN]
Responses == [ready : BOOLEAN, hc : BOOLEAN, rca : {0, SdRca}, hurt : BOOLEAN]

\* The commands, each with the arguments the driver gives it.
Commands ==
    {"SEND_IF_COND", "APP_CMD", "SD_SEND_OP_COND", "SEND_OP_COND", "ALL_SEND_CID",
     "SEND_RELATIVE_ADDR", "SET_RELATIVE_ADDR", "SELECT_CARD", "SET_CLR_CARD_DETECT",
     "SET_BLOCKLEN", "SET_BUS_WIDTH", "SWITCH_FUNC"}

\* What the card tells about itself is true: only an SD card enters an
\* application command sequence, and its capacity is as it answers unless
\* the answer was damaged.
TrueCard(x) == x \in Cards /\ (x.app => IsSD(kind))
TrueResponse(r) ==
    r \in Responses /\ (r.ready => r.hurt \/ r.hc = IsHC(kind))

Args == {0, 1, MmcRca, SdRca, 4, 512}

\* The commands that change neither the card's state nor its address.
Quiet == {"APP_CMD", "SET_CLR_CARD_DETECT", "SET_BLOCKLEN", "SET_BUS_WIDTH",
          "SWITCH_FUNC"}

IsMMC(k) == k \in {"MMC", "MMCHC"}

Identified == {"ALL_SEND_CID", "RELATIVE_ADDR", "clock", "SELECT_CARD", "pullup", "pullup42",
               "SET_BLOCKLEN", "SWITCH_FUNC", "width", "SET_BUS_WIDTH", "opened"}
Selected == {"pullup", "pullup42", "SET_BLOCKLEN", "SWITCH_FUNC", "width", "SET_BUS_WIDTH", "opened"}
SetUp == {"SWITCH_FUNC", "width", "SET_BUS_WIDTH", "opened"}

\* What the driver knows of the card at each of its commands.
Knows ==
    /\ pc # "failed" => timeout >= 0
    /\ TrueCard(card) /\ TrueResponse(resp)
    /\ pc \in {"powerup", "powerup41"} => IsSD(kind)
    /\ pc \in Identified =>
          /\ resp.hurt \/ bHighCapacity = IsHC(kind)
          /\ CardType = IF IsSD(kind) THEN "SDMEM" ELSE "MMC"
    /\ pc \in {"clock", "SELECT_CARD"} => card.state = "stby" /\ card.rca = rca
    /\ pc \in Selected => card.state = "tran" /\ card.rca = rca
    /\ pc \in SetUp => card.blklen

IInv == TypeOK /\ Knows

USE DEF frame, status, slot, MmcRca, SdRca, NoResponse

-----------------------------------------------------------------------------
\* What a command does to the card: what holds of the card as the exchange
\* leaves it, and of the answer.
Promise(c, arg, x, r) ==
    /\ TrueCard(x) /\ TrueResponse(r)
    /\ c = "SD_SEND_OP_COND" => IsSD(kind)
    /\ c = "SEND_OP_COND" => IsMMC(kind)
    /\ c \in {"SEND_RELATIVE_ADDR", "SET_RELATIVE_ADDR"} => x.state = "stby"
    /\ c = "SEND_RELATIVE_ADDR" => x.rca = r.rca
    /\ c = "SET_RELATIVE_ADDR" => x.rca = arg
    /\ c = "SELECT_CARD" => x.state = "tran"
    /\ c \in Quiet => x.state = card.state
    /\ c \in Quiet \cup {"SELECT_CARD"} => x.rca = card.rca
    /\ c \in Quiet => (card.blklen => x.blklen)
    /\ c = "SET_BLOCKLEN" => x.blklen

LEMMA CardFields ==
    ASSUME NEW x \in Cards
    PROVE  /\ x.state \in {"idle", "ready", "ident", "stby", "tran"}
           /\ x.rca \in {0, MmcRca, SdRca} /\ x.width \in {1, 4}
           /\ x.blklen \in BOOLEAN /\ x.app \in BOOLEAN /\ x.v2 \in BOOLEAN
  BY DEF Cards

\* The card after a command, field by field.
LEMMA AfterFields ==
    ASSUME card \in Cards, NEW c \in Commands, NEW arg \in Args,
           c = "SET_RELATIVE_ADDR" => arg = MmcRca
    PROVE  /\ After(c, arg) \in Cards
           /\ After(c, arg).app = (c = "APP_CMD")
           /\ After(c, arg).width = IF c \in {"SET_BUS_WIDTH", "SWITCH_FUNC"} THEN 4
                                    ELSE card.width
           /\ After(c, arg).blklen = (card.blklen \/ c = "SET_BLOCKLEN")
           /\ After(c, arg).rca = IF c = "SEND_RELATIVE_ADDR" THEN SdRca
                                  ELSE IF c = "SET_RELATIVE_ADDR" THEN arg
                                  ELSE card.rca
           /\ After(c, arg).state =
                 IF c = "ALL_SEND_CID" THEN "ident"
                 ELSE IF c \in {"SEND_RELATIVE_ADDR", "SET_RELATIVE_ADDR"}
                      THEN "stby"
                 ELSE IF c = "SELECT_CARD" THEN "tran" ELSE card.state
  BY CardFields DEF Cards, After

LEMMA EffectsTrue ==
    ASSUME TrueCard(card), NEW c \in Commands, NEW arg \in Args,
           c = "SET_RELATIVE_ADDR" => arg = MmcRca,
           Answers(c, arg), NEW e \in Effects(c, arg)
    PROVE  Promise(c, arg, e.card, e.resp)
<1> DEFINE a == After(c, arg)
           r == IF c = "SEND_RELATIVE_ADDR" THEN AddressResponse ELSE NoResponse
           u == [a EXCEPT !.state = "ready"]
           v == PoweredUpResponse
<1>1. \/ e = [card |-> a, resp |-> r]
      \/ /\ e = [card |-> u, resp |-> v]
         /\ c \in {"SD_SEND_OP_COND", "SEND_OP_COND"}
  BY DEF Effects
<1>2. /\ TrueCard(a)
      /\ c = "SD_SEND_OP_COND" => IsSD(kind)
      /\ c = "SEND_OP_COND" => IsMMC(kind)
  BY AfterFields DEF TrueCard, Answers, IsMMC
<1>3. CASE e = [card |-> a, resp |-> r]
  <2>1. e.card = a /\ e.resp = r /\ TrueResponse(r)
        /\ (c = "SEND_RELATIVE_ADDR" => r.rca = SdRca)
    BY <1>3 DEF TrueResponse, Responses, AddressResponse
  <2>2. /\ c \in {"SEND_RELATIVE_ADDR", "SET_RELATIVE_ADDR"} => a.state = "stby"
        /\ c = "SEND_RELATIVE_ADDR" => a.rca = SdRca
        /\ c = "SET_RELATIVE_ADDR" => a.rca = arg
        /\ c = "SELECT_CARD" => a.state = "tran"
        /\ c \in Quiet => a.state = card.state
        /\ c \in Quiet \cup {"SELECT_CARD"} => a.rca = card.rca
    BY AfterFields DEF TrueCard, Quiet
  <2>3. (card.blklen => a.blklen) /\ (c = "SET_BLOCKLEN" => a.blklen)
    BY AfterFields, Zenon DEF TrueCard
  <2> HIDE DEF a, r
  <2> QED
    BY <2>1, <2>2, <2>3, <1>2 DEF Promise
<1>4. CASE /\ e = [card |-> u, resp |-> v]
           /\ c \in {"SD_SEND_OP_COND", "SEND_OP_COND"}
  <2>1. e.card = u /\ e.resp = v
    BY <1>4
  <2>2. TrueResponse(v)
    BY DEF TrueResponse, Responses, IsHC, PoweredUpResponse
  <2>3. TrueCard(u)
    BY <1>2 DEF TrueCard, Cards
  <2> HIDE DEF a, u, v
  <2> QED
    BY <1>4, <1>2, <2>1, <2>2, <2>3 DEF Promise, Quiet
<1> QED
  BY <1>1, <1>3, <1>4

\* An exchange: answered without error, or with one, and then the driver has
\* nothing new and the card may have carried the command out or not.
LEMMA Exchange ==
    ASSUME TrueCard(card), TrueResponse(resp),
           NEW c \in Commands, NEW arg \in Args,
           c = "SET_RELATIVE_ADDR" => arg = MmcRca,
           NEW o \in SendCommand(c, arg) \cup SendCommandInternal(c, arg)
    PROVE  /\ o.ok \in BOOLEAN
           /\ o.ok => Promise(c, arg, o.card, o.resp) /\ Answers(c, arg)
           /\ ~ o.ok => o.resp = resp
           /\ TrueCard(o.card) /\ TrueResponse(o.resp)
           /\ c \in Quiet => /\ o.card.state = card.state
                             /\ o.card.rca = card.rca
                             /\ card.blklen => o.card.blklen
<1> DEFINE Good(x) ==
           /\ x.ok \in BOOLEAN
           /\ x.ok => Promise(c, arg, x.card, x.resp) /\ Answers(c, arg)
           /\ ~ x.ok => x.resp = resp
           /\ TrueCard(x.card) /\ TrueResponse(x.resp)
           /\ c \in Quiet => /\ x.card.state = card.state
                             /\ x.card.rca = card.rca
                             /\ card.blklen => x.card.blklen
<1>1. ASSUME NEW x \in SendCommandInternal(c, arg)
      PROVE  Good(x) /\ x = [ok |-> x.ok, card |-> x.card, resp |-> x.resp]
  <2> DEFINE ignored == [card EXCEPT !.app = FALSE]
             error(y) == [ok |-> FALSE, card |-> y, resp |-> resp]
  <2>1. /\ TrueCard(ignored) /\ ignored.state = card.state
        /\ ignored.rca = card.rca /\ ignored.blklen = card.blklen
    BY DEF TrueCard, Cards
  <2>2. CASE x = error(ignored)
    BY <2>1, <2>2
  <2>3. CASE x = error(card)
    BY <2>3
  <2>4. ASSUME Answers(c, arg), NEW e \in Effects(c, arg),
               \/ x = [ok |-> TRUE, card |-> e.card, resp |-> e.resp]
               \/ x = error(e.card)
               \/ \E r \in Damaged(c) : x = [ok |-> TRUE, card |-> e.card, resp |-> r]
        PROVE  Good(x) /\ x = [ok |-> x.ok, card |-> x.card, resp |-> x.resp]
    <3>1. Promise(c, arg, e.card, e.resp)
      BY <2>4, EffectsTrue
    <3>2. CASE x = [ok |-> TRUE, card |-> e.card, resp |-> e.resp]
      BY <2>4, <3>1, <3>2 DEF Promise
    <3>3. CASE x = error(e.card)
      BY <2>4, <3>1, <3>3 DEF Promise
    <3>4. ASSUME NEW r \in Damaged(c), x = [ok |-> TRUE, card |-> e.card, resp |-> r]
          PROVE  Good(x) /\ x = [ok |-> x.ok, card |-> x.card, resp |-> x.resp]
      <4>1. c \in {"SD_SEND_OP_COND", "SEND_OP_COND"} /\ TrueResponse(r)
        BY <3>4 DEF Damaged, TrueResponse, Responses
      <4>2. Promise(c, arg, e.card, r)
        BY <3>1, <4>1 DEF Promise
      <4> QED
        BY <2>4, <3>4, <4>1, <4>2 DEF Promise, Quiet
    <3> QED
      BY <2>4, <3>2, <3>3, <3>4
  <2> HIDE DEF Good, ignored, error
  <2>5. \/ x = error(ignored) \/ x = error(card)
        \/ /\ Answers(c, arg)
           /\ \E e \in Effects(c, arg) :
                 \/ x = [ok |-> TRUE, card |-> e.card, resp |-> e.resp]
                 \/ x = error(e.card)
                 \/ \E r \in Damaged(c) :
                       x = [ok |-> TRUE, card |-> e.card, resp |-> r]
    BY SMTT(60) DEF SendCommandInternal, error, ignored
  <2> QED
    BY <2>2, <2>3, <2>4, <2>5
<1>2. ASSUME NEW x \in SendCommandInternal(c, arg), ~ x.ok
      PROVE  Good([ok |-> FALSE, resp |-> x.resp,
                   card |-> [x.card EXCEPT !.app = FALSE]])
  <2>1. Good(x)
    BY <1>1
  <2> DEFINE y == [x.card EXCEPT !.app = FALSE]
  <2>2. /\ TrueCard(y) /\ y.state = x.card.state
        /\ y.rca = x.card.rca /\ y.blklen = x.card.blklen
    BY <2>1 DEF TrueCard, Cards
  <2> HIDE DEF y
  <2>3. Good([ok |-> FALSE, resp |-> x.resp, card |-> y])
    BY <1>2, <2>1, <2>2
  <2> QED
    BY <2>3 DEF y
<1> QED
  BY <1>1, <1>2 DEF SendCommand

-----------------------------------------------------------------------------
LEMMA InitIInv == Init => IInv
<1> SUFFICES ASSUME Init PROVE IInv
  OBVIOUS
<1>1. Fresh \in Cards /\ Left(kind) \in Cards /\ ~ Fresh.app /\ ~ Left(kind).app
  BY DEF Fresh, Left, Cards
<1>2. TrueCard(card)
  BY <1>1 DEF Init, TrueCard
<1>3. TrueResponse(resp)
  BY DEF Init, TrueResponse, Responses
<1>4. TypeOK
  <2>1. card \in Cards /\ resp \in Responses
    BY <1>2, <1>3 DEF TrueCard, TrueResponse
  <2>2. timeout \in -1 .. NX_SDMMC_TIMEOUT_IDENTIFY
    BY SdOpenAssumption DEF Init
  <2>3. /\ HCS \in 0 .. 1 /\ CTYPE \in 0 .. 1 /\ rca \in {0, MmcRca, SdRca}
    BY DEF Init
  <2>4. /\ pc = "open" /\ CardType = "UNKNOWN" /\ bHighCapacity \in BOOLEAN
        /\ kind \in Kinds /\ lossy \in FAULTS
    BY DEF Init
  <2> QED
    BY <2>1, <2>2, <2>3, <2>4, Zenon DEF TypeOK, Cards, Responses
<1>5. Knows
  BY <1>2, <1>3, <1>4 DEF Init, Knows, Identified, Selected, SetUp
<1> QED
  BY <1>4, <1>5 DEF IInv

\* What IInv says of the variables, for the steps.
LEMMA Types ==
    ASSUME TypeOK
    PROVE  /\ HCS \in Args /\ rca \in Args /\ timeout \in Int
           /\ card \in Cards /\ resp \in Responses
  BY SdOpenAssumption DEF TypeOK, Args, Cards, Responses

\* TypeOK of the next state, from what an action assigns.
LEMMA TypeNext ==
    ASSUME TypeOK, Knows, TrueCard(card'), TrueResponse(resp'), kind' = kind, lossy' = lossy,
           pc' \in {"SEND_IF_COND", "APP_CMD", "SD_SEND_OP_COND", "powerup",
                    "powerup41", "GO_IDLE_STATE", "SEND_OP_COND", "ALL_SEND_CID",
                    "RELATIVE_ADDR", "clock", "SELECT_CARD", "pullup", "pullup42",
                    "SET_BLOCKLEN", "SWITCH_FUNC", "width", "SET_BUS_WIDTH",
                    "opened", "failed"},
           HCS' \in 0 .. 1, CTYPE' \in 0 .. 1, pc # "failed",
           timeout' \in {timeout, timeout - 1, NX_SDMMC_TIMEOUT_IDENTIFY},
           CardType' \in {"UNKNOWN", "SDMEM", "MMC"},
           rca' \in {0, MmcRca, SdRca}, bHighCapacity' \in BOOLEAN
    PROVE  TypeOK'
  BY SdOpenAssumption DEF TypeOK, Knows, TrueCard, TrueResponse, Cards, Responses

LEMMA GoIdleTrue == ASSUME TrueCard(card), GoIdle PROVE TrueCard(card')
<1>1. Fresh \in Cards /\ ~ Fresh.app
  BY DEF Fresh, Cards
<1> QED
  BY <1>1 DEF GoIdle, TrueCard

\* The truths about the card, in the next state.
LEMMA TrueNext ==
    ASSUME kind' = kind, TrueCard(card'), TrueResponse(resp')
    PROVE  TrueCard(card)' /\ TrueResponse(resp)'
  BY DEF TrueCard, TrueResponse

LEMMA NextIInv == IInv /\ [Next]_vars => IInv'
<1> SUFFICES ASSUME IInv, [Next]_vars PROVE IInv'
  OBVIOUS
<1>T. TypeOK /\ Knows /\ TrueCard(card) /\ TrueResponse(resp)
  BY DEF IInv, Knows
<1> USE DEF Commands, Args, Quiet
<1> DEFINE Learned(o, c, arg) ==
           /\ o.ok \in BOOLEAN
           /\ o.ok => Promise(c, arg, o.card, o.resp) /\ Answers(c, arg)
           /\ ~ o.ok => o.resp = resp
           /\ TrueCard(o.card) /\ TrueResponse(o.resp)
           /\ c \in Quiet => /\ o.card.state = card.state
                             /\ o.card.rca = card.rca
                             /\ card.blklen => o.card.blklen
<1>1. CASE Begin
  <2>1. TrueCard(card') /\ TrueResponse(resp')
    BY <1>1, <1>T, GoIdleTrue DEF Begin, TrueResponse
  <2>2. TypeOK'
    BY <1>1, <1>T, <2>1, TypeNext DEF Begin, TypeOK
  <2> QED
    BY <1>1, <1>T, TrueNext, <2>1, <2>2 DEF Begin, IInv, Knows, Identified, Selected, SetUp
<1>2. CASE SendIfCond
  <2>1. PICK o \in SendCommandInternal("SEND_IF_COND", 0) :
          /\ card' = o.card
          /\ HCS' = IF o.ok THEN 1 ELSE 0
          /\ pc' \in IF o.ok /\ lossy THEN {"APP_CMD", "failed"}
                     ELSE {"APP_CMD"}
    BY <1>2 DEF SendIfCond
  <2>2. Learned(o, "SEND_IF_COND", 0)
    BY <1>T, Exchange
  <2>3. TrueCard(card') /\ TrueResponse(resp')
    BY <1>2, <1>T, <2>1, <2>2 DEF SendIfCond, TrueResponse
  <2>4. TypeOK'
    BY <1>2, <1>T, <2>1, <2>3, TypeNext DEF SendIfCond, TypeOK
  <2> QED
    BY <1>2, <1>T, TrueNext, <2>1, <2>3, <2>4, SdOpenAssumption DEF SendIfCond, IInv, Knows, Identified, Selected, SetUp
<1>3. CASE AppCmd
  <2>1. PICK o \in SendCommandInternal("APP_CMD", rca) :
          Continue(o, "SD_SEND_OP_COND", "GO_IDLE_STATE")
    BY <1>3 DEF AppCmd
  <2>2. Learned(o, "APP_CMD", rca)
    BY <1>T, Exchange, Types
  <2>3. TrueCard(card') /\ TrueResponse(resp')
    BY <1>3, <1>T, <2>1, <2>2 DEF AppCmd, Continue, TrueResponse
  <2>4. TypeOK'
    BY <1>3, <1>T, <2>1, <2>3, TypeNext DEF AppCmd, Continue, TypeOK
  <2> QED
    BY <1>3, <1>T, TrueNext, <2>1, <2>3, <2>4 DEF AppCmd, Continue, IInv, Knows, Identified, Selected, SetUp
<1>4. CASE SdSendOpCond
  <2>1. PICK o \in SendCommandInternal("SD_SEND_OP_COND", HCS) :
          Continue(o, "powerup", "failed") /\ resp' = o.resp
    BY <1>4 DEF SdSendOpCond
  <2>2. Learned(o, "SD_SEND_OP_COND", HCS)
    BY <1>T, Exchange, Types
  <2>3. TrueCard(card') /\ TrueResponse(resp')
    BY <1>4, <1>T, <2>1, <2>2 DEF SdSendOpCond, Continue, TrueResponse
  <2>4. TypeOK'
    BY <1>4, <1>T, <2>1, <2>3, TypeNext DEF SdSendOpCond, Continue, TypeOK
  <2>5. pc' = "powerup" => IsSD(kind)
    BY <2>1, <2>2 DEF Continue, Promise
  <2> QED
    BY <1>4, <1>T, TrueNext, <2>1, <2>3, <2>4, <2>5 DEF SdSendOpCond, Continue, IInv, Knows, Identified, Selected, SetUp
<1>5. CASE PowerUpApp
  <2>1. PICK o \in SendCommandInternal("APP_CMD", rca) :
          Continue(o, "powerup41", "failed")
    BY <1>5 DEF PowerUpApp
  <2>2. Learned(o, "APP_CMD", rca)
    BY <1>T, Exchange, Types
  <2>3. TrueCard(card') /\ TrueResponse(resp')
    BY <1>5, <1>T, <2>1, <2>2 DEF PowerUpApp, Continue, TrueResponse
  <2>4. TypeOK'
    BY <1>5, <1>T, <2>1, <2>3, TypeNext DEF PowerUpApp, Continue, TypeOK
  <2> QED
    BY <1>5, <1>T, TrueNext, <2>1, <2>3, <2>4 DEF PowerUpApp, Continue, IInv, Knows, Identified, Selected, SetUp
<1>6. CASE PowerUpOpCond
  <2>1. PICK o \in SendCommand("SD_SEND_OP_COND", HCS) :
          card' = o.card /\ resp' = o.resp
    BY <1>6 DEF PowerUpOpCond
  <2>2. Learned(o, "SD_SEND_OP_COND", HCS)
    BY <1>T, Exchange, Types
  <2>3. TrueCard(card') /\ TrueResponse(resp')
    BY <1>6, <1>T, <2>1, <2>2 DEF PowerUpOpCond, TrueResponse
  <2>4. TypeOK'
    BY <1>6, <1>T, <2>1, <2>3, TypeNext DEF PowerUpOpCond, TypeOK
  <2> QED
    BY <1>6, <1>T, TrueNext, <2>3, <2>4, Types DEF PowerUpOpCond, IInv, Knows, Identified, Selected, SetUp
<1>7. CASE PoweredUp
  <2>1. TrueCard(card') /\ TrueResponse(resp')
    BY <1>7, <1>T DEF PoweredUp, TrueCard, TrueResponse
  <2>2. TypeOK'
    BY <1>7, <1>T, <2>1, TypeNext DEF PoweredUp, TypeOK, TrueResponse, Responses
  <2>3. resp.hurt \/ bHighCapacity' = IsHC(kind)
    BY <1>7, <1>T DEF PoweredUp, TrueResponse
  <2> QED
    BY <1>7, <1>T, TrueNext, <2>1, <2>2, <2>3 DEF PoweredUp, IInv, Knows, Identified, Selected, SetUp
<1>8. CASE MmcGoIdle
  <2>1. TrueCard(card') /\ TrueResponse(resp')
    BY <1>8, <1>T, GoIdleTrue DEF MmcGoIdle, TrueResponse
  <2>2. TypeOK'
    BY <1>8, <1>T, <2>1, TypeNext DEF MmcGoIdle, TypeOK
  <2> QED
    BY <1>8, <1>T, TrueNext, <2>1, <2>2 DEF MmcGoIdle, IInv, Knows, Identified, Selected, SetUp
<1>9. CASE MmcSendOpCond
  <2>1. PICK o \in SendCommand("SEND_OP_COND", 1) :
          /\ card' = o.card /\ resp' = o.resp
          /\ timeout' = IF o.ok THEN timeout - 1 ELSE timeout
          /\ pc' = IF ~ o.ok \/ timeout <= 0 THEN "failed"
                   ELSE IF o.resp.ready THEN "ALL_SEND_CID"
                   ELSE "SEND_OP_COND"
          /\ CardType' = IF pc' = "ALL_SEND_CID" THEN "MMC" ELSE CardType
          /\ bHighCapacity' = IF pc' = "ALL_SEND_CID" THEN o.resp.hc
                              ELSE bHighCapacity
    BY <1>9 DEF MmcSendOpCond
  <2>2. Learned(o, "SEND_OP_COND", 1)
    BY <1>T, Exchange
  <2>3. TrueCard(card') /\ TrueResponse(resp') /\ o.resp \in Responses
    BY <1>9, <1>T, <2>1, <2>2 DEF MmcSendOpCond, TrueResponse
  <2>4. TypeOK'
    BY <1>9, <1>T, <2>1, <2>3, TypeNext DEF MmcSendOpCond, TypeOK, Responses
  <2>5. pc' = "ALL_SEND_CID" =>
           o.ok /\ IsMMC(kind) /\ (resp'.hurt \/ bHighCapacity' = IsHC(kind)) /\ CardType' = "MMC"
    BY <2>1, <2>2 DEF Promise, TrueResponse
  <2>6. pc' # "failed" => timeout' >= 0
    BY <1>T, <2>1, <2>2, Types
  <2>7. IsMMC(kind) => ~ IsSD(kind)
    BY DEF IsMMC, IsSD
  <2> QED
    BY <1>9, <1>T, TrueNext, <2>1, <2>3, <2>4, <2>5, <2>6, <2>7 DEF MmcSendOpCond, IInv, Knows, Identified, Selected, SetUp
<1>10. CASE AllSendCid
  <2>1. PICK o \in SendCommand("ALL_SEND_CID", 0) :
          Continue(o, "RELATIVE_ADDR", "failed")
    BY <1>10 DEF AllSendCid
  <2>2. Learned(o, "ALL_SEND_CID", 0)
    BY <1>T, Exchange
  <2>3. TrueCard(card') /\ TrueResponse(resp')
    BY <1>10, <1>T, <2>1, <2>2 DEF AllSendCid, Continue, TrueResponse
  <2>4. TypeOK'
    BY <1>10, <1>T, <2>1, <2>3, TypeNext DEF AllSendCid, Continue, TypeOK
  <2> QED
    BY <1>10, <1>T, TrueNext, <2>1, <2>3, <2>4 DEF AllSendCid, Continue, IInv, Knows, Identified, Selected, SetUp
<1>11. CASE RelativeAddr
  <2>1. PICK o \in IF CardType = "SDMEM" THEN SendCommand("SEND_RELATIVE_ADDR", 0)
                ELSE SendCommand("SET_RELATIVE_ADDR", MmcRca) :
          /\ Continue(o, "clock", "failed")
          /\ rca' = IF ~ o.ok THEN rca
                    ELSE IF CardType = "SDMEM" THEN o.resp.rca ELSE MmcRca
    BY <1>11 DEF RelativeAddr
  <2>2. /\ TrueCard(o.card) /\ TrueResponse(o.resp) /\ o.ok \in BOOLEAN
        /\ o.ok => o.card.state = "stby" /\ o.card.rca = rca'
    <3>1. CASE CardType = "SDMEM"
      <4>1. Learned(o, "SEND_RELATIVE_ADDR", 0)
        BY <1>T, <2>1, <3>1, Exchange
      <4> QED
        BY <2>1, <3>1, <4>1 DEF Promise
    <3>2. CASE CardType # "SDMEM"
      <4>1. Learned(o, "SET_RELATIVE_ADDR", MmcRca)
        BY <1>T, <2>1, <3>2, Exchange
      <4> QED
        BY <2>1, <3>2, <4>1 DEF Promise
    <3> QED
      BY <3>1, <3>2
  <2>3. TrueCard(card') /\ TrueResponse(resp')
    BY <1>11, <1>T, <2>1, <2>2 DEF RelativeAddr, Continue, TrueResponse
  <2>4. TypeOK'
    BY <1>11, <1>T, <2>1, <2>2, <2>3, TypeNext DEF RelativeAddr, Continue, TypeOK, TrueResponse, Responses
  <2> QED
    BY <1>11, <1>T, TrueNext, <2>1, <2>2, <2>3, <2>4 DEF RelativeAddr, Continue, IInv, Knows, Identified, Selected, SetUp
<1>12. CASE FastClock
  <2>1. TrueCard(card') /\ TrueResponse(resp')
    BY <1>12, <1>T DEF FastClock, TrueCard, TrueResponse
  <2>2. TypeOK'
    BY <1>12, <1>T, <2>1, TypeNext DEF FastClock, TypeOK
  <2> QED
    BY <1>12, <1>T, TrueNext, <2>1, <2>2 DEF FastClock, IInv, Knows, Identified, Selected, SetUp
<1>13. CASE SelectCard
  <2>1. PICK o \in SendCommand("SELECT_CARD", rca) :
          Continue(o, IF CardType = "SDMEM" THEN "pullup" ELSE "SET_BLOCKLEN",
                   "failed")
    BY <1>13 DEF SelectCard
  <2>2. Learned(o, "SELECT_CARD", rca)
    BY <1>T, Exchange, Types
  <2>3. TrueCard(card') /\ TrueResponse(resp')
    BY <1>13, <1>T, <2>1, <2>2 DEF SelectCard, Continue, TrueResponse
  <2>4. TypeOK'
    BY <1>13, <1>T, <2>1, <2>3, TypeNext DEF SelectCard, Continue, TypeOK
  <2>5. o.ok => card'.state = "tran" /\ card'.rca = rca
    BY <1>13, <1>T, <2>1, <2>2 DEF SelectCard, Continue, Promise, Knows
  <2> QED
    BY <1>13, <1>T, TrueNext, <2>1, <2>3, <2>4, <2>5 DEF SelectCard, Continue, IInv, Knows, Identified, Selected, SetUp
<1>14. ASSUME NEW c \in Quiet, NEW arg \in Args,
              NEW o \in SendCommand(c, arg) \cup SendCommandInternal(c, arg),
              NEW ok, NEW err, Continue(o, ok, err),
              pc \in Selected, {ok, err} \subseteq Selected \cup {"failed"},
              o.ok /\ ok \in SetUp => pc \in SetUp \/ c = "SET_BLOCKLEN",
              ~ o.ok /\ err \in SetUp => pc \in SetUp,
              UNCHANGED <<frame, status, slot>>, CTYPE' \in 0 .. 1
       PROVE  IInv'
  <2>1. Learned(o, c, arg)
    BY <1>T, <1>14, Exchange
  <2>2. TrueCard(card') /\ TrueResponse(resp')
    BY <1>14, <1>T, <2>1 DEF Continue, TrueResponse
  <2>3. pc' \in Selected \cup {"failed"}
    BY <1>14, <2>1 DEF Continue
  <2>4. TypeOK'
    BY <1>14, <1>T, <2>2, <2>3, TypeNext DEF TypeOK, Selected
  <2>5. pc' \in SetUp => card'.blklen
    BY <1>14, <1>T, <2>1 DEF Continue, Knows, Promise
  <2>6. card'.state = "tran" /\ card'.rca = rca
    BY <1>14, <1>T, <2>1 DEF Continue, Knows
  <2> QED
    BY <1>14, <1>T, TrueNext, <2>2, <2>3, <2>4, <2>5, <2>6 DEF IInv, Knows, Identified, Selected
<1>15. CASE SetCardDetectPullUp
  <2>1. CASE pc = "pullup"
    BY <1>15, <2>1, <1>14, <1>T, Types DEF SetCardDetectPullUp, Selected, SetUp, TypeOK
  <2>2. CASE pc = "pullup42"
    BY <1>15, <2>2, <1>14, <1>T DEF SetCardDetectPullUp, Selected, SetUp, TypeOK
  <2> QED
    BY <1>15, <2>1, <2>2 DEF SetCardDetectPullUp
<1>16. CASE SetBlockLength
  BY <1>16, <1>14, <1>T DEF SetBlockLength, Selected, SetUp, TypeOK
<1>17. CASE SetBusWidthMmc
  BY <1>17, <1>14, <1>T DEF SetBusWidthMmc, Selected, SetUp, TypeOK
<1>18. CASE SetBusWidthApp
  BY <1>18, <1>14, <1>T, Types DEF SetBusWidthApp, Selected, SetUp, TypeOK
<1>19. CASE SetBusWidthSd
  BY <1>19, <1>14, <1>T DEF SetBusWidthSd, Selected, SetUp, TypeOK
<1>20. CASE UNCHANGED vars
  BY <1>20, <1>T DEF vars, IInv, TypeOK, Knows, TrueCard, TrueResponse
<1> QED
  BY <1>1, <1>2, <1>3, <1>4, <1>5, <1>6, <1>7, <1>8, <1>9, <1>10, <1>11,
     <1>12, <1>13, <1>15, <1>16, <1>17, <1>18, <1>19, <1>20 DEF Next

-----------------------------------------------------------------------------
\* The driver's knowledge of the card is right in every reachable state.
THEOREM Invariance == Spec => []IInv
  BY InitIInv, NextIInv, PTL DEF Spec

\* Type correctness, for every number of tries; timeout ends at -1.
THEOREM Typing == Spec => []TypeOK
<1>1. IInv => TypeOK
  BY DEF IInv
<1> QED
  BY <1>1, Invariance, PTL

\* Whatever was lost and whatever state the card was left in, NX_SDMMC_Open
\* reports success only for a card that is selected and set up.
THEOREM Ready == Spec => []OpenedReady
<1>1. IInv => OpenedReady
  BY DEF IInv, Knows, OpenedReady, Selected, SetUp
<1> QED
  BY <1>1, Invariance, PTL

\* An opened card is driven as the kind of card it is, and addressed in the
\* unit it counts in unless the answer that ended its power-up was damaged:
\* that answer has no CRC, and a wrong CCS bit in it is taken as it came.
THEOREM Addressing == Spec => []AddressingAgrees
<1>1. IInv => AddressingAgrees
  BY DEF IInv, Knows, AddressingAgrees, Identified
<1> QED
  BY <1>1, Invariance, PTL

-----------------------------------------------------------------------------
\* Where nothing is lost, the driver also knows in which state the card is at
\* each of its commands, so that the card answers it, and it has changed the
\* bus width of neither side before the last one.
Followed ==
    /\ pc \notin {"open", "opened", "failed"} => card.width = 1 /\ CTYPE = 0
    /\ pc \in {"SEND_IF_COND", "APP_CMD", "SD_SEND_OP_COND", "powerup", "powerup41"} =>
          rca = 0 /\ card.rca = 0
    /\ pc \in {"SEND_IF_COND", "APP_CMD", "SD_SEND_OP_COND", "powerup41", "SEND_OP_COND"} =>
          card.state = "idle"
    /\ pc = "powerup" => card.state = IF resp.ready THEN "ready" ELSE "idle"
    /\ pc = "powerup41" => ~ resp.ready
    /\ pc \in {"SD_SEND_OP_COND", "SET_BUS_WIDTH"} => card.app
    /\ pc \in {"GO_IDLE_STATE", "SEND_OP_COND", "SWITCH_FUNC"} => ~ IsSD(kind)
    /\ pc \in {"width", "SET_BUS_WIDTH"} => IsSD(kind)
    /\ pc = "ALL_SEND_CID" => card.state = "ready"
    /\ pc = "RELATIVE_ADDR" => card.state = "ident"
    /\ pc = "opened" => CTYPE = 1 /\ card.width = 4
    /\ pc = "failed" => kind = "none" \/ timeout < 0

Clean == ~ lossy => Followed
OpConds == {"SD_SEND_OP_COND", "SEND_OP_COND"}

\* An exchange where nothing is lost: the card gets the command and the driver
\* its answer; a card that does not answer has changed nothing that matters.
LEMMA CleanExchange ==
    ASSUME ~ lossy, TrueCard(card), TrueResponse(resp),
           NEW c \in Commands, NEW arg \in Args,
           c = "SET_RELATIVE_ADDR" => arg = MmcRca,
           NEW o \in SendCommand(c, arg) \cup SendCommandInternal(c, arg)
    PROVE  /\ o.ok \in BOOLEAN /\ (o.ok <=> Answers(c, arg))
           /\ ~ o.ok => /\ o.resp = resp /\ o.card.state = card.state
                        /\ o.card.rca = card.rca /\ o.card.width = card.width
           /\ o.ok /\ c \notin OpConds => o.card = After(c, arg)
           /\ o.ok /\ c \in OpConds =>
                 /\ o.card.rca = card.rca /\ o.card.width = card.width
                 /\ o.resp.ready \in BOOLEAN
                 /\ o.card.state = IF o.resp.ready THEN "ready" ELSE card.state
<1> DEFINE ignored == [card EXCEPT !.app = FALSE]
           a == After(c, arg)
           r == IF c = "SEND_RELATIVE_ADDR" THEN AddressResponse ELSE NoResponse
           u == [a EXCEPT !.state = "ready"]
<1>1. /\ ignored \in Cards /\ ignored.state = card.state /\ ignored.rca = card.rca
      /\ ignored.width = card.width /\ [ignored EXCEPT !.app = FALSE] = ignored
  BY DEF TrueCard, Cards
<1>2. CASE Answers(c, arg)
  <2>1. PICK e \in Effects(c, arg) : o = [ok |-> TRUE, card |-> e.card, resp |-> e.resp]
    BY <1>2 DEF SendCommand, SendCommandInternal
  <2>2. \/ e = [card |-> a, resp |-> r]
        \/ e = [card |-> u, resp |-> PoweredUpResponse] /\ c \in OpConds
    BY DEF Effects, OpConds
  <2>3. a \in Cards /\ (c \in OpConds => a.state = card.state /\ a.rca = card.rca /\ a.width = card.width)
    BY AfterFields DEF TrueCard, OpConds
  <2>4. u.state = "ready" /\ u.rca = a.rca /\ u.width = a.width
    BY <2>3 DEF Cards
  <2>5. c \in OpConds => r.ready = FALSE
    BY DEF OpConds
  <2>6. PoweredUpResponse.ready = TRUE
    BY DEF PoweredUpResponse
  <2>7. o.ok = TRUE /\ o.card = e.card /\ o.resp = e.resp
    BY <2>1
  <2> HIDE DEF a, r, u
  <2>8. \/ o.card = a /\ o.resp = r
        \/ o.card = u /\ o.resp = PoweredUpResponse /\ c \in OpConds
    BY <2>2, <2>7
  <2>9. /\ c \notin OpConds => o.card = a
        /\ c \in OpConds =>
                 /\ o.card.rca = card.rca /\ o.card.width = card.width
                 /\ o.resp.ready \in BOOLEAN
                 /\ o.card.state = IF o.resp.ready THEN "ready" ELSE card.state
    BY <2>3, <2>4, <2>5, <2>6, <2>8
  <2> QED
    BY <1>2, <2>7, <2>9 DEF a
<1>3. CASE ~ Answers(c, arg)
  <2>1. o = [ok |-> FALSE, card |-> ignored, resp |-> resp]
    <3>1. ASSUME NEW x \in SendCommandInternal(c, arg)
          PROVE  x = [ok |-> FALSE, card |-> ignored, resp |-> resp]
      BY <1>3 DEF SendCommandInternal
    <3>2. CASE o \in SendCommandInternal(c, arg)
      BY <3>1, <3>2
    <3>3. CASE o \in SendCommand(c, arg) /\ o \notin SendCommandInternal(c, arg)
      <4>1. PICK x \in SendCommandInternal(c, arg) :
               o = [ok |-> FALSE, resp |-> x.resp, card |-> [x.card EXCEPT !.app = FALSE]]
        BY <3>3 DEF SendCommand
      <4> HIDE DEF ignored
      <4>2. x.resp = resp /\ x.card = ignored
        BY <3>1
      <4> QED
        BY <4>1, <4>2, <1>1
    <3> QED
      BY <3>2, <3>3
  <2> HIDE DEF ignored
  <2>2. o.ok = FALSE /\ o.card = ignored /\ o.resp = resp
    BY <2>1
  <2> QED
    BY <1>1, <1>3, <2>2
<1> QED
  BY <1>2, <1>3

LEMMA CleanStep == IInv /\ IInv' /\ Clean /\ [Next]_vars => Clean'
<1> SUFFICES ASSUME IInv, IInv', Clean, [Next]_vars, ~ lossy' PROVE Followed'
  BY DEF Clean
<1>T. /\ TypeOK /\ Knows /\ TrueCard(card) /\ TrueResponse(resp)
      /\ TypeOK' /\ Knows'
  BY DEF IInv, Knows
<1>K. kind \in AllKinds
  BY <1>T, SdOpenAssumption DEF TypeOK
<1>L. ~ lossy /\ Followed
  BY DEF Clean, Next, vars, Begin, SendIfCond, AppCmd, SdSendOpCond, PowerUpApp, PowerUpOpCond,
     PoweredUp, MmcGoIdle, MmcSendOpCond, AllSendCid, RelativeAddr, FastClock, SelectCard,
     SetCardDetectPullUp, SetBlockLength, SetBusWidthMmc, SetBusWidthApp, SetBusWidthSd
<1> DEFINE Told(o, c, arg) ==
           /\ o.ok \in BOOLEAN /\ (o.ok <=> Answers(c, arg))
           /\ ~ o.ok => /\ o.resp = resp /\ o.card.state = card.state
                        /\ o.card.rca = card.rca /\ o.card.width = card.width
           /\ o.ok /\ c \notin OpConds => o.card = After(c, arg)
           /\ o.ok /\ c \in OpConds =>
                 /\ o.card.rca = card.rca /\ o.card.width = card.width
                 /\ o.resp.ready \in BOOLEAN
                 /\ o.card.state = IF o.resp.ready THEN "ready" ELSE card.state
<1>E. ASSUME NEW c \in Commands, NEW arg \in Args,
             c = "SET_RELATIVE_ADDR" => arg = MmcRca,
             NEW o \in SendCommand(c, arg) \cup SendCommandInternal(c, arg)
      PROVE  Told(o, c, arg) /\ (o.ok /\ c \notin OpConds =>
                /\ o.card.app = (c = "APP_CMD")
                /\ o.card.width = IF c \in {"SET_BUS_WIDTH", "SWITCH_FUNC"} THEN 4 ELSE card.width
                /\ o.card.rca = IF c = "SEND_RELATIVE_ADDR" THEN SdRca
                                ELSE IF c = "SET_RELATIVE_ADDR" THEN arg ELSE card.rca
                /\ o.card.state =
                      IF c = "ALL_SEND_CID" THEN "ident"
                      ELSE IF c \in {"SEND_RELATIVE_ADDR", "SET_RELATIVE_ADDR"} THEN "stby"
                      ELSE IF c = "SELECT_CARD" THEN "tran" ELSE card.state)
  <2>1. Told(o, c, arg)
    BY <1>E, <1>T, <1>L, CleanExchange
  <2>2. card \in Cards
    BY <1>T DEF TrueCard
  <2> QED
    BY <1>E, <2>1, <2>2, AfterFields
<1> HIDE DEF Told
<1> USE DEF Commands, Args, OpConds
<1>C. rca \in Args /\ HCS \in Args
  BY <1>T, Types
<1>1. CASE Begin
  <2>1. card' = Fresh /\ pc' = "SEND_IF_COND"
    BY <1>1, <1>L DEF Begin, GoIdle
  <2> QED
    BY <1>1, <2>1 DEF Begin, Fresh, Followed
<1>2. CASE SendIfCond
  <2>1. PICK o \in SendCommandInternal("SEND_IF_COND", 0) : card' = o.card
    BY <1>2 DEF SendIfCond
  <2>2. pc' = "APP_CMD"
    BY <1>2, <1>L DEF SendIfCond
  <2> QED
    BY <1>2, <1>L, <1>E, <2>1, <2>2 DEF SendIfCond, Told, Followed
<1>3. CASE AppCmd
  <2>1. PICK o \in SendCommandInternal("APP_CMD", rca) :
          Continue(o, "SD_SEND_OP_COND", "GO_IDLE_STATE")
    BY <1>3 DEF AppCmd
  <2>2. ~ o.ok => ~ IsSD(kind)
    BY <1>3, <1>L, <1>C, <1>E, <2>1 DEF AppCmd, Told, Answers, Followed
  <2> QED
    BY <1>3, <1>L, <1>C, <1>E, <2>1, <2>2 DEF AppCmd, Continue, Told, Followed
<1>4. CASE SdSendOpCond
  <2>1. PICK o \in SendCommandInternal("SD_SEND_OP_COND", HCS) :
          Continue(o, "powerup", "failed") /\ resp' = o.resp
    BY <1>4 DEF SdSendOpCond
  <2>2. o.ok
    BY <1>4, <1>L, <1>C, <1>E, <2>1 DEF SdSendOpCond, Told, Answers, Followed
  <2> QED
    BY <1>4, <1>L, <1>C, <1>E, <2>1, <2>2 DEF SdSendOpCond, Continue, Told, Followed
<1>5. CASE PowerUpApp
  <2>1. PICK o \in SendCommandInternal("APP_CMD", rca) :
          Continue(o, "powerup41", "failed")
    BY <1>5 DEF PowerUpApp
  <2>2. o.ok
    BY <1>5, <1>T, <1>L, <1>C, <1>E, <2>1 DEF PowerUpApp, Told, Answers, Followed, Knows
  <2> QED
    BY <1>5, <1>L, <1>C, <1>E, <2>1, <2>2 DEF PowerUpApp, Continue, Told, Followed
<1>6. CASE PowerUpOpCond
  <2>1. PICK o \in SendCommand("SD_SEND_OP_COND", HCS) :
          card' = o.card /\ resp' = o.resp
    BY <1>6 DEF PowerUpOpCond
  <2>2. timeout <= 0 => timeout' < 0
    BY <1>6, <1>T, Types DEF PowerUpOpCond
  <2> QED
    BY <1>6, <1>L, <1>C, <1>E, <2>1, <2>2 DEF PowerUpOpCond, Told, Followed
<1>7. CASE PoweredUp
  BY <1>7, <1>L DEF PoweredUp, Followed
<1>8. CASE MmcGoIdle
  <2>1. card' = Fresh /\ pc' = "SEND_OP_COND"
    BY <1>8, <1>L DEF MmcGoIdle, GoIdle
  <2> QED
    BY <1>8, <1>L, <2>1 DEF MmcGoIdle, Fresh, Followed, IsSD
<1>9. CASE MmcSendOpCond
  <2>1. PICK o \in SendCommand("SEND_OP_COND", 1) :
          /\ card' = o.card /\ resp' = o.resp
          /\ timeout' = IF o.ok THEN timeout - 1 ELSE timeout
          /\ pc' = IF ~ o.ok \/ timeout <= 0 THEN "failed"
                   ELSE IF o.resp.ready THEN "ALL_SEND_CID"
                   ELSE "SEND_OP_COND"
    BY <1>9 DEF MmcSendOpCond
  <2>2. ~ o.ok => kind = "none"
    BY <1>9, <1>K, <1>L, <1>C, <1>E, <2>1 DEF MmcSendOpCond, Told, Answers, Followed, IsSD, AllKinds
  <2>3. o.ok /\ timeout <= 0 => timeout' < 0
    BY <1>T, <2>1, Types
  <2> QED
    BY <1>9, <1>L, <1>C, <1>E, <2>1, <2>2, <2>3 DEF MmcSendOpCond, Told, Followed, IsSD
<1>10. CASE AllSendCid
  <2>1. PICK o \in SendCommand("ALL_SEND_CID", 0) :
          Continue(o, "RELATIVE_ADDR", "failed")
    BY <1>10 DEF AllSendCid
  <2>2. o.ok
    BY <1>10, <1>L, <1>E, <2>1 DEF AllSendCid, Told, Answers, Followed
  <2> QED
    BY <1>10, <1>L, <1>E, <2>1, <2>2 DEF AllSendCid, Continue, Told, Followed
<1>11. CASE RelativeAddr
  <2>1. PICK o \in IF CardType = "SDMEM" THEN SendCommand("SEND_RELATIVE_ADDR", 0)
                ELSE SendCommand("SET_RELATIVE_ADDR", MmcRca) : Continue(o, "clock", "failed")
    BY <1>11 DEF RelativeAddr
  <2>2. CardType = "SDMEM" <=> IsSD(kind)
    BY <1>11, <1>T DEF RelativeAddr, Knows, Identified
  <2>3. o.ok /\ o.card.width = card.width
    BY <1>11, <1>L, <1>E, <2>1, <2>2 DEF RelativeAddr, Told, Answers, Followed
  <2> QED
    BY <1>11, <1>L, <2>1, <2>3 DEF RelativeAddr, Continue, Followed
<1>12. CASE FastClock
  BY <1>12, <1>L DEF FastClock, Followed
<1>13. CASE SelectCard
  <2>1. PICK o \in SendCommand("SELECT_CARD", rca) :
          Continue(o, IF CardType = "SDMEM" THEN "pullup" ELSE "SET_BLOCKLEN", "failed")
    BY <1>13 DEF SelectCard
  <2>2. o.ok
    BY <1>13, <1>T, <1>L, <1>C, <1>E, <2>1 DEF SelectCard, Told, Answers, Knows
  <2> QED
    BY <1>13, <1>L, <1>C, <1>E, <2>1, <2>2 DEF SelectCard, Continue, Told, Followed
<1>14. CASE SetCardDetectPullUp
  <2>1. PICK o \in SendCommandInternal("APP_CMD", rca) \cup SendCommand("SET_CLR_CARD_DETECT", 0) :
           card' = o.card
    BY <1>14 DEF SetCardDetectPullUp, Continue
  <2>2. o.card.width = card.width
    BY <1>C, <1>E, <2>1 DEF Told
  <2>3. pc' \in {"pullup42", "SET_BLOCKLEN"} /\ CTYPE' = CTYPE /\ pc \in {"pullup", "pullup42"}
    BY <1>14 DEF SetCardDetectPullUp, Continue
  <2> QED
    BY <1>L, <2>1, <2>2, <2>3 DEF Followed
<1>15. CASE SetBlockLength
  <2>1. PICK o \in SendCommand("SET_BLOCKLEN", 512) :
          Continue(o, IF CardType = "SDMEM" THEN "width" ELSE "SWITCH_FUNC", "failed")
    BY <1>15 DEF SetBlockLength
  <2>2. CardType = "SDMEM" <=> IsSD(kind)
    BY <1>15, <1>T DEF SetBlockLength, Knows, Identified
  <2>3. o.ok
    BY <1>15, <1>T, <1>L, <1>E, <2>1 DEF SetBlockLength, Told, Answers, Knows, Selected
  <2> QED
    BY <1>15, <1>L, <1>E, <2>1, <2>2, <2>3 DEF SetBlockLength, Continue, Told, Followed, IsSD
<1>16. CASE SetBusWidthMmc
  <2>1. PICK o \in SendCommand("SWITCH_FUNC", 4) :
          /\ Continue(o, "opened", "opened")
          /\ CTYPE' = IF o.ok THEN 1 ELSE CTYPE
    BY <1>16 DEF SetBusWidthMmc
  <2>2. o.ok
    BY <1>16, <1>T, <1>L, <1>E, <2>1 DEF SetBusWidthMmc, Told, Answers, Knows, Selected, Followed
  <2> QED
    BY <1>16, <1>L, <1>E, <2>1, <2>2 DEF SetBusWidthMmc, Continue, Told, Followed
<1>17. CASE SetBusWidthApp
  <2>1. PICK o \in SendCommandInternal("APP_CMD", rca) :
          Continue(o, "SET_BUS_WIDTH", "opened")
    BY <1>17 DEF SetBusWidthApp
  <2>2. o.ok
    BY <1>17, <1>T, <1>L, <1>C, <1>E, <2>1 DEF SetBusWidthApp, Told, Answers, Knows, Selected, Followed
  <2> QED
    BY <1>17, <1>L, <1>C, <1>E, <2>1, <2>2 DEF SetBusWidthApp, Continue, Told, Followed, IsSD
<1>18. CASE SetBusWidthSd
  <2>1. PICK o \in SendCommand("SET_BUS_WIDTH", 4) : Continue(o, "opened", "opened")
    BY <1>18 DEF SetBusWidthSd
  <2>2. o.ok
    BY <1>18, <1>T, <1>L, <1>E, <2>1 DEF SetBusWidthSd, Told, Answers, Knows, Selected, Followed
  <2> QED
    BY <1>18, <1>L, <1>E, <2>1, <2>2 DEF SetBusWidthSd, Continue, Told, Followed
<1>19. CASE UNCHANGED vars
  BY <1>19, <1>L DEF vars, Followed, IsSD
<1> QED
  BY <1>1, <1>2, <1>3, <1>4, <1>5, <1>6, <1>7, <1>8, <1>9, <1>10, <1>11,
     <1>12, <1>13, <1>14, <1>15, <1>16, <1>17, <1>18, <1>19 DEF Next

LEMMA CleanInvariance == Spec => [](IInv /\ Clean)
<1>1. Init => Clean
  BY DEF Init, Clean, Followed
<1> QED
  BY <1>1, InitIInv, NextIInv, CleanStep, PTL DEF Spec

\* Where no command and no answer is lost, an opened card and the controller
\* drive the same number of data lines.
THEOREM WidthClean == Spec => []WidthAgreesClean
<1>1. Clean => WidthAgreesClean
  BY DEF Clean, Followed, WidthAgreesClean, WidthAgrees
<1> QED
  BY <1>1, CleanInvariance, PTL

\* ... and NX_SDMMC_Open fails only for an empty slot or a card that is busy to
\* the end, for every number of tries.
THEOREM FailsRightly == Spec => []FailsForAReason
<1>1. Clean => FailsForAReason
  BY DEF Clean, Followed, FailsForAReason
<1> QED
  BY <1>1, CleanInvariance, PTL
=============================================================================
