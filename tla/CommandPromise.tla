--------------------------- MODULE CommandPromise ---------------------------
(***************************************************************************)
(* What a caller of the SD/MMC driver may rely on when it sends commands   *)
(* one after the other.  Each is executed at most once, and in the order   *)
(* of the calls.  A call that returns CMDBUSY has not executed its command *)
(* and may leave it waiting; every other call has executed it, and nothing *)
(* waits any more.  A call that has the controller to itself succeeds only *)
(* with its own answer, and as long as no call gives up (CMDBUSY, CMDTOUT) *)
(* every call has.  A clock change is a call that sends the card nothing.  *)
(***************************************************************************)
EXTENDS Naturals

VARIABLES phase,    \* "calling" or "returned"
          clock,    \* the call changes the clock
          result,   \* its status when it has returned
          alone,    \* nothing of an earlier call was under way when it began
          late,     \* the command of an earlier call is still waiting
          executed, \* times the command of this call was executed
          own       \* it succeeded, and with the answer to its own command

vars == <<phase, clock, result, alone, late, executed, own>>

GivesUp == {"CMDBUSY", "CMDTOUT"}
Results == GivesUp \cup {"NOERROR", "RESPONSE", "DATABUSY"}

\* This call has returned and its command may still be executed.
Abandoned == ~ clock /\ result = "CMDBUSY" /\ executed = 0

Init ==
    /\ phase = "returned" /\ result = "NOERROR" /\ clock = FALSE
    /\ alone = TRUE /\ late = FALSE /\ executed = 0 /\ own = TRUE

Begin ==
    /\ phase = "returned" /\ phase' = "calling"
    /\ clock' \in BOOLEAN
    /\ late' \in BOOLEAN /\ (late' => late \/ Abandoned)
    /\ alone' \in BOOLEAN /\ (alone' => ~ late')
    /\ alone /\ result \notin GivesUp => alone'
    /\ result' = "NOERROR" /\ executed' = 0 /\ own' = FALSE

\* The command that waits is executed first.
ExecuteLate ==
    /\ late /\ executed = 0
    /\ late' = FALSE
    /\ UNCHANGED <<phase, clock, result, alone, executed, own>>

\* In the call, or after a call that could not hand the command over.
Execute ==
    /\ ~ late /\ ~ clock /\ executed = 0
    /\ phase = "calling" \/ Abandoned
    /\ executed' = 1
    /\ UNCHANGED <<phase, clock, result, alone, late, own>>

Return ==
    /\ phase = "calling" /\ phase' = "returned"
    /\ result' \in IF clock THEN {"NOERROR", "CMDBUSY"} ELSE Results
    /\ ~ clock => (executed = 0 <=> result' = "CMDBUSY")
    /\ late => result' = "CMDBUSY"
    /\ own' \in BOOLEAN
    /\ ~ clock /\ alone /\ result' = "NOERROR" => own'
    /\ UNCHANGED <<clock, alone, late, executed>>

Next == Begin \/ ExecuteLate \/ Execute \/ Return

Spec == Init /\ [][Next]_vars
=============================================================================
