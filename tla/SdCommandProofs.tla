-------------------------- MODULE SdCommandProofs --------------------------
(***************************************************************************)
(* SdCommand for every number of polls, words and calls: a call that found *)
(* the controller idle has its own answer, and none sends its command      *)
(* twice, whatever the controller does and however long it takes.          *)
(***************************************************************************)
EXTENDS SdCommand, TLAPS

Errors == RINTSTS \cap ResponseErrors

\* The command of this call is waiting in CMD.
Waiting == START /\ loaded.call = calls

\* This call has yet to make the controller take its command: it has not
\* written it, or the write that it looks at was refused.
Unsent == pc = "write" \/ (pc \in {"start", "hle"} /\ "HLE" \in RINTSTS)

Once ==
    kind \notin Clock =>
        /\ sent <= 1
        /\ Waiting => sent = 0
        /\ Unsent => sent = 0 /\ ~ Waiting

\* Between a write and CD a quiet controller has this command and no other.
Alone ==
    quiet /\ kind \in Responding =>
        /\ pc = "write" => ~ START /\ executing = None /\ "CD" \notin RINTSTS
        /\ pc \in {"start", "hle"} => "HLE" \notin RINTSTS
        /\ START => loaded = Current /\ executing = None
        /\ START \/ executing # None => "CD" \notin RINTSTS
        /\ executing # None => executing = Current
        /\ "CD" \notin RINTSTS => Errors = {}

\* After CD the registers hold its answer.
Answered ==
    quiet /\ kind \in Responding /\ "CD" \in RINTSTS =>
        /\ failed = Errors
        /\ Errors = {} => RESP = calls

Took ==
    quiet /\ kind \in Responding =>
        /\ pc = "response" => "CD" \in RINTSTS
        /\ pc = "busy" \/ (pc = "return" /\ status = "NOERROR") =>
              "CD" \in RINTSTS /\ Errors = {} /\ response = calls

StatusOK == pc # "return" => status = "NOERROR"

USE DEF Kinds, Responding, StopAbort, Clock, ResponseErrors, None, Current,
        driver, command, data, history

-----------------------------------------------------------------------------
\* Until a call returns it has polls left.
PollsLeft == pc # "return" => timeout <= NX_SDMMC_TIMEOUT

TypeInv == TypeOK /\ PollsLeft

\* TypeOK in two parts.
TypeDriver ==
    /\ pc \in {"write", "start", "hle", "cd", "hto", "drain", "response",
               "busy", "return"}
    /\ calls \in 0 .. MAX_CALLS /\ kind \in Kinds
    /\ timeout \in 0 .. NX_SDMMC_TIMEOUT + 1
    /\ status \in {"NOERROR", "CMDBUSY", "CMDTOUT", "RESPONSE", "DATABUSY"}
    /\ response \in 0 .. calls

TypeController ==
    /\ RINTSTS \subseteq {"CD", "HLE", "HTO"} \cup ResponseErrors
    /\ START \in BOOLEAN /\ DATABUSY \in BOOLEAN
    /\ loaded \in [call : Nat, kind : Kinds] /\ loaded.call <= calls
    /\ executing \in [call : Nat, kind : Kinds] /\ executing.call <= calls
    /\ RESP \in 0 .. calls
    /\ fifo \in 0 .. FIFO_DEPTH /\ left \in 0 .. WORDS
    /\ quiet \in BOOLEAN /\ sent \in Nat /\ failed \subseteq ResponseErrors

LEMMA NoneType == None \in [call : Nat, kind : Kinds] /\ None.call = 0
  OBVIOUS

LEMMA TypeParts == TypeInv <=> TypeDriver /\ PollsLeft /\ TypeController
  BY DEF TypeInv, TypeOK, TypeDriver, TypeController

\* A step keeps every variable in its range.
LEMMA DriverType == TypeDriver /\ PollsLeft /\ TypeController /\ [Next]_vars => TypeDriver' /\ PollsLeft'
<1> SUFFICES ASSUME TypeDriver, PollsLeft, TypeController, [Next]_vars
             PROVE  TypeDriver' /\ PollsLeft'
  OBVIOUS
<1> USE SdCommandAssumption DEF TypeDriver, PollsLeft
<1>1. ASSUME NEW k \in Kinds \ {"on"}, Call(k)
      PROVE  TypeDriver' /\ PollsLeft'
  BY <1>1 DEF Call
<1>2. CASE WriteCommand
  BY <1>2 DEF WriteCommand
<1>3. CASE PollStart
  BY <1>3 DEF PollStart, CountPoll
<1>4. CASE CheckHle
  BY <1>4 DEF CheckHle
<1>5. CASE CheckHleClock
  BY <1>5 DEF CheckHleClock
<1>6. CASE PollDone
  BY <1>6 DEF PollDone, CountPoll
<1>7. CASE CheckHto
  BY <1>7 DEF CheckHto
<1>8. CASE DrainFifo
  BY <1>8 DEF DrainFifo
<1>9. CASE CheckResponse
  BY <1>9 DEF CheckResponse, TypeController
<1>10. CASE PollBusy
  BY <1>10 DEF PollBusy
<1>11. CASE TakeCommand
  BY <1>11 DEF TakeCommand
<1>12. CASE Complete
  BY <1>12 DEF Complete
<1>13. CASE PushWord
  BY <1>13 DEF PushWord
<1>14. CASE RaiseHto
  BY <1>14 DEF RaiseHto
<1>15. CASE CardReady
  BY <1>15 DEF CardReady
<1>16. CASE UNCHANGED vars
  BY <1>16 DEF vars
<1> QED
  BY <1>1, <1>2, <1>3, <1>4, <1>5, <1>6, <1>7, <1>8, <1>9, <1>10, <1>11,
     <1>12, <1>13, <1>14, <1>15, <1>16 DEF Next, Driver, Controller

\* The same for the controller.
LEMMA ControllerType == TypeDriver /\ PollsLeft /\ TypeController /\ [Next]_vars => TypeController'
<1> SUFFICES ASSUME TypeDriver, PollsLeft, TypeController, [Next]_vars
             PROVE  TypeController'
  OBVIOUS
<1> USE SdCommandAssumption DEF TypeDriver, TypeController
<1>1. ASSUME NEW k \in Kinds \ {"on"}, Call(k)
      PROVE  TypeController'
  <2>1. quiet' \in BOOLEAN
    BY <1>1, Zenon DEF Call
  <2>2. calls' = calls + 1 /\ RINTSTS' \in {RINTSTS, {}}
    BY <1>1 DEF Call
  <2>3. /\ START' = START /\ DATABUSY' = DATABUSY /\ loaded' = loaded
        /\ executing' = executing /\ RESP' = RESP
        /\ fifo' = fifo /\ left' = left /\ sent' = 0 /\ failed' = {}
    BY <1>1 DEF Call
  <2> QED
    BY <2>1, <2>2, <2>3
<1>2. CASE WriteCommand
  BY <1>2 DEF WriteCommand
<1>3. CASE PollStart
  BY <1>3 DEF PollStart, CountPoll
<1>4. CASE CheckHle
  BY <1>4 DEF CheckHle
<1>5. CASE CheckHleClock
  BY <1>5 DEF CheckHleClock
<1>6. CASE PollDone
  BY <1>6 DEF PollDone, CountPoll
<1>7. CASE CheckHto
  BY <1>7 DEF CheckHto
<1>8. CASE DrainFifo
  BY <1>8 DEF DrainFifo
<1>9. CASE CheckResponse
  BY <1>9 DEF CheckResponse
<1>10. CASE PollBusy
  BY <1>10 DEF PollBusy
<1>11. CASE TakeCommand
  <2>1. executing' = None \/ executing' = loaded
    BY <1>11 DEF TakeCommand
  <2>2. START' = FALSE /\ sent' \in {sent, sent + 1}
    BY <1>11 DEF TakeCommand
  <2>3. /\ calls' = calls /\ RINTSTS' = RINTSTS /\ DATABUSY' = DATABUSY
        /\ loaded' = loaded /\ RESP' = RESP /\ fifo' = fifo /\ left' = left
        /\ quiet' = quiet /\ failed' = failed
    BY <1>11 DEF TakeCommand
  <2>4. executing' \in [call : Nat, kind : Kinds] /\ executing'.call <= calls
    BY <2>1, NoneType
  <2>5. loaded' \in [call : Nat, kind : Kinds] /\ loaded'.call <= calls'
    BY <2>3
  <2>6. sent' \in Nat
    BY <2>2
  <2> HIDE DEF Kinds
  <2> QED
    BY <2>2, <2>3, <2>4, <2>5, <2>6
<1>12. CASE Complete
  <2>1. PICK e \in SUBSET ResponseErrors :
            /\ RINTSTS' = RINTSTS \cup {"CD"} \cup e
            /\ RESP' \in {executing.call, RESP}
            /\ failed' \in {e, failed}
    BY <1>12 DEF Complete
  <2>2. DATABUSY' \in BOOLEAN /\ left' \in {WORDS, 0, left}
    BY <1>12 DEF Complete
  <2>3. executing' = None /\ UNCHANGED <<calls, START, loaded, fifo, quiet, sent>>
    BY <1>12 DEF Complete
  <2>4. executing' \in [call : Nat, kind : Kinds] /\ executing'.call <= calls
    BY <2>3, NoneType
  <2> QED
    BY <2>1, <2>2, <2>3, <2>4
<1>13. CASE PushWord
  BY <1>13 DEF PushWord
<1>14. CASE RaiseHto
  BY <1>14 DEF RaiseHto
<1>15. CASE CardReady
  BY <1>15 DEF CardReady
<1>16. CASE UNCHANGED vars
  BY <1>16 DEF vars
<1> QED
  BY <1>1, <1>2, <1>3, <1>4, <1>5, <1>6, <1>7, <1>8, <1>9, <1>10, <1>11,
     <1>12, <1>13, <1>14, <1>15, <1>16 DEF Next, Driver, Controller

(***************************************************************************)
(* Every variable keeps to its range; in particular no loop counts past    *)
(* one poll more than its limit and the FIFO is never read when empty.     *)
(***************************************************************************)
THEOREM Typing == Spec => []TypeOK
<1>1. Init => TypeInv
  <2> SUFFICES ASSUME Init
               PROVE  TypeDriver /\ PollsLeft /\ TypeController
    BY TypeParts
  <2>1. TypeDriver /\ PollsLeft
    BY SdCommandAssumption DEF Init, TypeDriver, PollsLeft
  <2>2. loaded \in [call : Nat, kind : Kinds] /\ loaded.call <= calls
    BY NoneType DEF Init
  <2>3. executing \in [call : Nat, kind : Kinds] /\ executing.call <= calls
    BY NoneType DEF Init
  <2>4. START \in BOOLEAN /\ DATABUSY \in BOOLEAN /\ quiet \in BOOLEAN
    BY Zenon DEF Init
  <2>5. /\ fifo \in 0 .. FIFO_DEPTH /\ left \in 0 .. WORDS /\ sent \in Nat
        /\ RESP \in 0 .. calls
    BY SdCommandAssumption DEF Init
  <2>6. /\ RINTSTS \subseteq {"CD", "HLE", "HTO"} \cup ResponseErrors
        /\ failed \subseteq ResponseErrors
    BY DEF Init
  <2> HIDE DEF Kinds, ResponseErrors
  <2> QED
    BY <2>1, <2>2, <2>3, <2>4, <2>5, <2>6 DEF TypeController
<1>2. TypeInv /\ [Next]_vars => TypeInv'
  BY DriverType, ControllerType, TypeParts DEF TypeInv, TypeOK, TypeDriver, TypeController
<1>3. TypeInv => TypeOK
  BY DEF TypeInv
<1> QED
  BY <1>1, <1>2, <1>3, PTL DEF Spec

-----------------------------------------------------------------------------
\* A step keeps the count of executions.
LEMMA OnceStep == TypeOK /\ Once /\ [Next]_vars => Once'
<1> SUFFICES ASSUME TypeOK, Once, [Next]_vars
             PROVE  Once'
  OBVIOUS
<1> USE DEF TypeOK, Once, Unsent, Waiting
<1>1. ASSUME NEW k \in Kinds \ {"on"}, Call(k)
      PROVE  Once'
  BY <1>1 DEF Call
<1>2. CASE WriteCommand
  BY <1>2 DEF WriteCommand
<1>3. CASE PollStart
  BY <1>3 DEF PollStart, CountPoll
<1>4. CASE CheckHle
  BY <1>4 DEF CheckHle
<1>5. CASE CheckHleClock
  BY <1>5 DEF CheckHleClock
<1>6. CASE PollDone
  BY <1>6 DEF PollDone, CountPoll
<1>7. CASE CheckHto
  BY <1>7 DEF CheckHto
<1>8. CASE DrainFifo
  BY <1>8 DEF DrainFifo
<1>9. CASE CheckResponse
  BY <1>9 DEF CheckResponse
<1>10. CASE PollBusy
  BY <1>10 DEF PollBusy
<1>11. CASE TakeCommand
  BY <1>11 DEF TakeCommand
<1>12. CASE Complete
  BY <1>12 DEF Complete
<1>13. CASE PushWord
  BY <1>13 DEF PushWord
<1>14. CASE RaiseHto
  BY <1>14 DEF RaiseHto
<1>15. CASE CardReady
  BY <1>15 DEF CardReady
<1>16. CASE UNCHANGED vars
  BY <1>16 DEF vars
<1> QED
  BY <1>1, <1>2, <1>3, <1>4, <1>5, <1>6, <1>7, <1>8, <1>9, <1>10, <1>11,
     <1>12, <1>13, <1>14, <1>15, <1>16 DEF Next, Driver, Controller

-----------------------------------------------------------------------------
Own == Alone /\ Answered /\ Took /\ StatusOK

\* A step keeps what the registers hold to this call's command.
LEMMA OwnStep == TypeOK /\ Own /\ [Next]_vars => Own'
<1> SUFFICES ASSUME TypeOK, Own, [Next]_vars
             PROVE  Own'
  OBVIOUS
<1> USE DEF TypeOK, Own, Alone, Answered, Took, StatusOK, Errors
<1>1. ASSUME NEW k \in Kinds \ {"on"}, Call(k)
      PROVE  Own'
  BY <1>1 DEF Call
<1>2. CASE WriteCommand
  BY <1>2 DEF WriteCommand
<1>3. CASE PollStart
  BY <1>3 DEF PollStart, CountPoll
<1>4. CASE CheckHle
  BY <1>4 DEF CheckHle
<1>5. CASE CheckHleClock
  BY <1>5 DEF CheckHleClock
<1>6. CASE PollDone
  BY <1>6 DEF PollDone, CountPoll
<1>7. CASE CheckHto
  BY <1>7 DEF CheckHto
<1>8. CASE DrainFifo
  BY <1>8 DEF DrainFifo
<1>9. CASE CheckResponse
  BY <1>9 DEF CheckResponse
<1>10. CASE PollBusy
  BY <1>10 DEF PollBusy
<1>11. CASE TakeCommand
  BY <1>11 DEF TakeCommand
<1>12. CASE Complete
  <2>1. PICK e \in SUBSET ResponseErrors :
            /\ RINTSTS' = RINTSTS \cup {"CD"} \cup e
            /\ executing.kind \in Responding /\ "RTO" \notin e =>
                  RESP' = executing.call
            /\ executing.call = calls => failed' = e
    BY <1>12 DEF Complete
  <2>2. /\ executing # None /\ executing' = None
        /\ UNCHANGED <<pc, calls, kind, status, response, START, loaded, quiet>>
    BY <1>12 DEF Complete
  <2>3. CASE quiet /\ kind \in Responding
    <3>1. executing = Current /\ ~ START /\ "CD" \notin RINTSTS /\ Errors = {}
      BY <2>2, <2>3
    <3>2. "CD" \in RINTSTS' /\ Errors' = e /\ failed' = e
      BY <2>1, <3>1
    <3>3. e = {} => RESP' = calls
      BY <2>1, <2>3, <3>1
    <3> QED
      <4>1. pc' # "write" /\ ~ START' /\ executing' = None
        BY <2>2, <2>3
      <4>2. pc' \in {"start", "hle"} => "HLE" \notin RINTSTS'
        BY <2>1, <2>2, <2>3
      <4>3. Alone'
        BY <3>2, <4>1, <4>2
      <4>4. Answered'
        BY <3>2, <3>3, <2>2
      <4>5. Took' /\ StatusOK'
        BY <2>2, <2>3, <3>1, <3>2, <3>3
      <4> QED
        BY <4>3, <4>4, <4>5
  <2>4. CASE ~ (quiet /\ kind \in Responding)
    BY <2>2, <2>4
  <2> QED
    BY <2>3, <2>4
<1>13. CASE PushWord
  BY <1>13 DEF PushWord
<1>14. CASE RaiseHto
  BY <1>14 DEF RaiseHto
<1>15. CASE CardReady
  BY <1>15 DEF CardReady
<1>16. CASE UNCHANGED vars
  BY <1>16 DEF vars
<1> QED
  BY <1>1, <1>2, <1>3, <1>4, <1>5, <1>6, <1>7, <1>8, <1>9, <1>10, <1>11,
     <1>12, <1>13, <1>14, <1>15, <1>16 DEF Next, Driver, Controller

-----------------------------------------------------------------------------
\* The inductive invariant holds throughout.
LEMMA Invariance == Spec => [](TypeOK /\ Once /\ Own)
<1>1. Init => Once /\ Own
  BY DEF Init, Once, Own, Alone, Answered, Took, StatusOK, Errors, Waiting,
         Unsent
<1> QED
  BY <1>1, Typing, OnceStep, OwnStep, PTL DEF Spec

(***************************************************************************)
(* A call that found the controller idle and returns without error has the *)
(* undamaged response of its own command: with no limit on the polls, the  *)
(* calls before it or the moment at which the controller does what it does.*)
(***************************************************************************)
THEOREM AnswerIsOwn == Spec => []OwnAnswer
<1>1. TypeOK /\ Own => OwnAnswer
  BY DEF TypeOK, Own, Took, Answered, OwnAnswer
<1> QED
  BY <1>1, Invariance, PTL

(***************************************************************************)
(* However often HLE makes the driver write a command, and whatever an     *)
(* abandoned call left in the controller, it is executed at most once.     *)
(***************************************************************************)
THEOREM ExecutedOnce == Spec => []SentOnce
<1>1. Once => SentOnce
  BY DEF Once, SentOnce
<1> QED
  BY <1>1, Invariance, PTL

-----------------------------------------------------------------------------
(* SdCommand implements CommandPromise                                     *)

\* Past the polls of the start bit it is clear; and it is when a call has
\* returned with any other status than CMDBUSY.  Only commands have answers.
Started ==
    /\ pc \in {"cd", "hto", "drain", "response", "busy"} => kind \notin Clock
    /\ pc \notin {"write", "start", "return"} => ~ START
    /\ pc = "return" /\ status # "CMDBUSY" => ~ START

\* A command that the controller accepted is waiting or has been executed;
\* the status CMDBUSY says that it has not.
Accepted ==
    /\ loaded.call = calls => (loaded.kind \in Clock <=> kind \in Clock)
    /\ kind \notin Clock =>
        /\ pc \in {"start", "hle"} /\ "HLE" \notin RINTSTS =>
              Waiting \/ sent = 1
        /\ pc \in {"cd", "hto", "drain", "response", "busy"} => sent = 1
        /\ pc = "return" /\ status # "CMDBUSY" /\ calls > 0 => sent = 1
        /\ START => sent = 0

\* A call that began with an idle controller shares it with no other, and
\* leaves it idle unless it gives up.
Sole ==
    quiet =>
        /\ pc = "write" => ~ START
        /\ START => loaded.call = calls /\ (loaded.kind \in Clock <=> kind \in Clock)
        /\ kind \in Clock \/ START => executing = None
        /\ kind \notin Clock /\ pc = "write" =>
              executing = None /\ "CD" \notin RINTSTS
        /\ kind \notin Clock /\ pc \in {"start", "hle"} =>
              "HLE" \notin RINTSTS
        /\ kind \notin Clock /\ (START \/ executing # None) =>
              "CD" \notin RINTSTS
        /\ kind \notin Clock /\ pc \in {"response", "busy"} =>
              "CD" \in RINTSTS
        /\ pc = "return" /\ status \notin {"CMDBUSY", "CMDTOUT"} =>
              ~ START /\ executing = None

Refine == Started /\ Accepted /\ Sole

\* A step keeps what is known of the start bit and of a command's execution.
LEMMA AcceptedStep ==
    TypeOK /\ Once /\ Started /\ Accepted /\ [Next]_vars => Started' /\ Accepted'
<1> SUFFICES ASSUME TypeOK, Once, Started, Accepted, [Next]_vars
             PROVE  Started' /\ Accepted'
  OBVIOUS
<1> USE DEF TypeOK, Once, Unsent, Waiting, Started, Accepted
<1>1. ASSUME NEW k \in Kinds \ {"on"}, Call(k)
      PROVE  Started' /\ Accepted'
  BY <1>1 DEF Call
<1>2. CASE WriteCommand
  BY <1>2 DEF WriteCommand
<1>3. CASE PollStart
  BY <1>3 DEF PollStart, CountPoll
<1>4. CASE CheckHle
  BY <1>4 DEF CheckHle
<1>5. CASE CheckHleClock
  BY <1>5 DEF CheckHleClock
<1>6. CASE PollDone
  BY <1>6 DEF PollDone, CountPoll
<1>7. CASE CheckHto
  BY <1>7 DEF CheckHto
<1>8. CASE DrainFifo
  BY <1>8 DEF DrainFifo
<1>9. CASE CheckResponse
  BY <1>9 DEF CheckResponse
<1>10. CASE PollBusy
  BY <1>10 DEF PollBusy
<1>11. CASE TakeCommand
  BY <1>11 DEF TakeCommand
<1>12. CASE Complete
  BY <1>12 DEF Complete
<1>13. CASE PushWord
  BY <1>13 DEF PushWord
<1>14. CASE RaiseHto
  BY <1>14 DEF RaiseHto
<1>15. CASE CardReady
  BY <1>15 DEF CardReady
<1>16. CASE UNCHANGED vars
  BY <1>16 DEF vars
<1> QED
  BY <1>1, <1>2, <1>3, <1>4, <1>5, <1>6, <1>7, <1>8, <1>9, <1>10, <1>11,
     <1>12, <1>13, <1>14, <1>15, <1>16 DEF Next, Driver, Controller

\* A step keeps the controller to a call that found it idle.
LEMMA SoleStep == TypeOK /\ Started /\ Sole /\ [Next]_vars => Sole'
<1> SUFFICES ASSUME TypeOK, Started, Sole, [Next]_vars
             PROVE  Sole'
  OBVIOUS
<1> USE DEF TypeOK, Started, Sole
<1>1. ASSUME NEW k \in Kinds \ {"on"}, Call(k)
      PROVE  Sole'
  BY <1>1 DEF Call
<1>2. CASE WriteCommand
  BY <1>2 DEF WriteCommand
<1>3. CASE PollStart
  BY <1>3 DEF PollStart, CountPoll
<1>4. CASE CheckHle
  BY <1>4 DEF CheckHle
<1>5. CASE CheckHleClock
  BY <1>5 DEF CheckHleClock
<1>6. CASE PollDone
  BY <1>6 DEF PollDone, CountPoll
<1>7. CASE CheckHto
  BY <1>7 DEF CheckHto
<1>8. CASE DrainFifo
  BY <1>8 DEF DrainFifo
<1>9. CASE CheckResponse
  BY <1>9 DEF CheckResponse
<1>10. CASE PollBusy
  BY <1>10 DEF PollBusy
<1>11. CASE TakeCommand
  BY <1>11 DEF TakeCommand
<1>12. CASE Complete
  BY <1>12 DEF Complete
<1>13. CASE PushWord
  BY <1>13 DEF PushWord
<1>14. CASE RaiseHto
  BY <1>14 DEF RaiseHto
<1>15. CASE CardReady
  BY <1>15 DEF CardReady
<1>16. CASE UNCHANGED vars
  BY <1>16 DEF vars
<1> QED
  BY <1>1, <1>2, <1>3, <1>4, <1>5, <1>6, <1>7, <1>8, <1>9, <1>10, <1>11,
     <1>12, <1>13, <1>14, <1>15, <1>16 DEF Next, Driver, Controller

LEMMA RefineInvariance == Spec => [](TypeOK /\ Once /\ Own /\ Refine)
<1>1. Init => Refine
  BY DEF Init, Refine, Started, Accepted, Sole, Waiting
<1>2. TypeOK /\ Once /\ Refine /\ [Next]_vars => Refine'
  BY AcceptedStep, SoleStep DEF Refine
<1> QED
  BY <1>1, <1>2, Invariance, PTL DEF Spec

\* The command of an earlier call is waiting.
Late == START /\ loaded.kind \notin Clock /\ loaded.call # calls

\* A step of the driver starts the call, ends it, or is not seen; one of the
\* controller executes the command or is not seen.
LEMMA PromiseStep ==
    ASSUME TypeOK, TypeOK', Once, Own, Own', Refine, [Next]_vars
    PROVE  [Promise!Next]_(Promise!vars)
<1> USE DEF TypeOK, Refine
<1>1. ASSUME NEW k \in Kinds \ {"on"}, Call(k)
      PROVE  Promise!Begin
  <2>1. (quiet /\ status \notin {"CMDBUSY", "CMDTOUT"}) => quiet'
    BY <1>1 DEF Call, Sole
  <2>2. Late' => Late \/ (kind \notin Clock /\ status = "CMDBUSY" /\ sent = 0)
    BY <1>1 DEF Call, Late, Accepted, Started
  <2>3. quiet' => ~ Late'
    BY <1>1 DEF Call, Late
  <2> QED
    BY <1>1, <2>1, <2>2, <2>3 DEF Call, Promise!Begin, Promise!GivesUp,
       Promise!Abandoned, Late
<1>2. ASSUME pc # "return", pc' = "return", kind' \in Clock <=> kind \in Clock,
             UNCHANGED <<quiet, sent>>,
             UNCHANGED <<START, loaded, calls>>,
             START => status' = "CMDBUSY",
             kind \notin Clock => (sent = 0 <=> status' = "CMDBUSY"),
             kind \in Clock => status' \in {"NOERROR", "CMDBUSY"}
      PROVE  Promise!Next
  BY <1>2 DEF Promise!Next, Promise!Return, Promise!Results, Promise!GivesUp, Own, Took
<1>3. ASSUME (pc' = "return") <=> (pc = "return"),
             kind' \in Clock <=> kind \in Clock, UNCHANGED <<status, quiet>>,
             kind \in Clock \/ UNCHANGED sent, Late' <=> Late,
             pc # "return" \/ UNCHANGED <<kind, response, calls>>
      PROVE  UNCHANGED Promise!vars
  BY <1>3 DEF Promise!vars, Late
<1>4. CASE WriteCommand
  BY <1>3, <1>4 DEF WriteCommand, Late
<1>5. CASE PollStart
  <2>1. CASE pc' = "return"
    BY <1>2, <1>5, <2>1 DEF PollStart, CountPoll, Accepted, Late
  <2>2. CASE pc' # "return"
    BY <1>3, <1>5, <2>2 DEF PollStart, CountPoll, Late
  <2> QED
    BY <2>1, <2>2
<1>6. CASE CheckHle
  BY <1>3, <1>6 DEF CheckHle, Late
<1>7. CASE CheckHleClock
  <2>1. CASE pc' = "return"
    BY <1>2, <1>7, <2>1 DEF CheckHleClock, Started, Own, StatusOK, Late
  <2>2. CASE pc' # "return"
    BY <1>3, <1>7, <2>2 DEF CheckHleClock, Late
  <2> QED
    BY <2>1, <2>2
<1>8. CASE PollDone
  <2>1. CASE pc' = "return"
    BY <1>2, <1>8, <2>1 DEF PollDone, CountPoll, Accepted, Started, Late
  <2>2. CASE pc' # "return"
    BY <1>3, <1>8, <2>2 DEF PollDone, CountPoll, Accepted, Started, Late
  <2> QED
    BY <2>1, <2>2
<1>9. CASE CheckHto \/ DrainFifo
  BY <1>3, <1>9 DEF CheckHto, DrainFifo, Late
<1>10. CASE CheckResponse
  <2>1. CASE pc' = "return"
    BY <1>2, <1>10, <2>1 DEF CheckResponse, Accepted, Started, Own, StatusOK, Late
  <2>2. CASE pc' # "return"
    BY <1>3, <1>10, <2>2 DEF CheckResponse, Accepted, Started, Own, StatusOK, Late
  <2> QED
    BY <2>1, <2>2
<1>11. CASE PollBusy
  <2>1. CASE pc' = "return"
    BY <1>2, <1>11, <2>1 DEF PollBusy, Accepted, Started, Own, StatusOK, Late
  <2>2. CASE pc' # "return"
    BY <1>3, <1>11, <2>2 DEF PollBusy, Accepted, Started, Own, StatusOK, Late
  <2> QED
    BY <2>1, <2>2
<1>12. CASE TakeCommand
  <2>1. CASE kind \notin Clock /\ loaded.call = calls
    <3>1. sent = 0 /\ sent' = 1 /\ START /\ ~ START'
      BY <1>12, <2>1 DEF TakeCommand, Accepted
    <3>2. pc = "return" => status = "CMDBUSY"
      BY <1>12 DEF TakeCommand, Started
    <3>3. UNCHANGED <<pc, kind, status, quiet, response, calls, loaded>>
      BY <1>12 DEF TakeCommand
    <3>4. Promise!Execute
      BY <2>1, <3>1, <3>2, <3>3 DEF Promise!Execute, Promise!Abandoned
    <3> QED
      BY <3>4 DEF Promise!Next
  <2>2. CASE loaded.kind \notin Clock /\ loaded.call # calls
    <3>1. START /\ ~ START' /\ sent' = sent /\ (kind \notin Clock => sent = 0)
      BY <1>12, <2>2 DEF TakeCommand, Accepted
    <3>2. UNCHANGED <<pc, kind, status, quiet, response, calls, loaded>>
      BY <1>12 DEF TakeCommand
    <3>3. Promise!ExecuteLate
      BY <2>2, <3>1, <3>2 DEF Promise!ExecuteLate
    <3> QED
      BY <3>3 DEF Promise!Next
  <2>3. CASE loaded.kind \in Clock
    BY <1>3, <1>12, <2>3 DEF TakeCommand, Accepted, Late
  <2> QED
    BY <2>1, <2>2, <2>3 DEF Accepted
<1>13. CASE Complete \/ PushWord \/ RaiseHto \/ CardReady
  BY <1>3, <1>13 DEF Complete, PushWord, RaiseHto, CardReady, Late
<1>14. CASE UNCHANGED vars
  BY <1>3, <1>14 DEF vars, Late
<1> QED
  BY <1>1, <1>4, <1>5, <1>6, <1>7, <1>8, <1>9, <1>10, <1>11, <1>12, <1>13,
     <1>14 DEF Next, Driver, Controller, Promise!Next

(***************************************************************************)
(* The driver implements CommandPromise: its caller learns from the status *)
(* whether the command has been executed, and until a call gives up every  *)
(* command has the controller to itself - whatever the limits of the polls *)
(* and however late the controller is.                                     *)
(***************************************************************************)
THEOREM Implements == Spec => KeepsCommandPromise
<1>1. Init => Promise!Init
  BY DEF Init, Promise!Init
<1>2. TypeOK /\ Once /\ Own /\ Refine /\ TypeOK' /\ Own' /\ [Next]_vars =>
        [Promise!Next]_(Promise!vars)
  <2> SUFFICES ASSUME TypeOK, Once, Own, Refine, TypeOK', Own', [Next]_vars
               PROVE  [Promise!Next]_(Promise!vars)
    OBVIOUS
  <2> QED
    BY PromiseStep
<1> QED
  BY <1>1, <1>2, RefineInvariance, PTL DEF Spec, KeepsCommandPromise, Promise!Spec

=============================================================================
