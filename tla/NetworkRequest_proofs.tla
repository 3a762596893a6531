------------------------ MODULE NetworkRequest_proofs ------------------------
(* Cancel and the back-off of a network request, for every chain of http     *)
(* requests, every number of configurations, rounds and calls, and every     *)
(* choice of delays that satisfies DelayAssumption; and what the web         *)
(* services client makes of the X-Retry-After its network requests receive.  *)
EXTENDS WebServicesClient, TLAPS

\* A leaf is given to Zenon, then to the SMT solver, unless it names one of them.
USE ZenonT(30), SMTT(30)

\* The places inside a round, and those inside its loops.
Round == {"wait", "detect", "request", "send", "sending", "answered", "configured", "sent"}
Loops == {"request", "send", "sending", "answered", "configured"}

\* Where the loops are: TypeOK alone does not say that they begin at 1, nor that
\* a round is only begun while retries are left.
LoopInv ==
  /\ pc \notin Loops => i = 1
  /\ pc \notin Loops \ {"configured"} => j = 1
  /\ pc \in Round => count <= NumRetries

\* The three parts of Cancel, in their order.
CancelInv ==
  /\ isCanceled <=> canceller # "idle"
  /\ eventCancel <=> canceller \in {"chain", "done"}
  /\ requestCanceled # {} => canceller # "idle"

\* A request that is about to be sent was checked, and the check of every later
\* one fails.
LateInv == lateSends \in {0, 1} /\ (lateSends = 1 => eventCancel /\ pc # "send")

\* Nothing the loops have saved says "cancelled" unless somebody called Cancel.
ErrorInv ==
  /\ last.hr = "cancelled" => isCanceled
  /\ chainError.hr = "cancelled" => isCanceled
  /\ configError.hr = "cancelled" => isCanceled

\* A delay above the limit ends the call before it is doubled again.
DelayInv ==
  /\ InitialDelay <= delay /\ delay <= 2 * MaxDelay + Jitter
  /\ pc \in Round => delay <= MaxDelay

\* The inductive invariant of a network request.
IInv == TypeOK /\ LoopInv /\ CancelInv /\ LateInv /\ ErrorInv /\ DelayInv

-----------------------------------------------------------------------------
\* What ComputeNextRetryDelay chooses from a delay within the limit.
LEMMA NextDelaysGrow ==
  ASSUME NEW status, delay \in Nat, InitialDelay <= delay, delay <= MaxDelay,
         NEW d \in NextDelays(status)
  PROVE  d \in Nat /\ delay < d /\ d <= 2 * MaxDelay + Jitter
<1> DEFINE base == IF ServerError(status) /\ delay < ServerErrDelay
                   THEN ServerErrDelay ELSE delay
<1>1. base \in Nat /\ delay <= base /\ base <= MaxDelay /\ Jitter < base
  BY DelayAssumption, SMTT(30)
<1>2. ~(base > IntMax \div 2)
  BY <1>1, DelayAssumption, SMTT(30)
<1>3. CASE Jitter > 0 /\ 2 * base >= Jitter
  <2>1. PICK n \in 0..(2 * Jitter - 1) : d = 2 * base + n - Jitter
    BY <1>2, <1>3 DEF NextDelays
  <2> QED
    BY <1>1, <2>1, DelayAssumption, SMTT(30)
<1>4. CASE ~(Jitter > 0 /\ 2 * base >= Jitter)
  <2>1. d = 2 * base
    BY <1>2, <1>4 DEF NextDelays
  <2> QED
    BY <1>1, <2>1, DelayAssumption, SMTT(30)
<1> QED
  BY <1>3, <1>4

\* The initial states.
LEMMA InitIInv == Init => IInv
<1> SUFFICES ASSUME Init PROVE IInv
  OBVIOUS
<1>1. TypeOK
  <2>1. Nothing \in Responses
    BY DEF Nothing, Responses, Outcomes
  <2>2. InitialDelay \in Nat /\ 0 \in 0..MaxCalls /\ 0 \in 0..(NumRetries + 1)
        /\ 1 \in 1..1 /\ 1 \in 1..Configs /\ 1 \in 1..Len(Chain) /\ 0 \in Nat
    BY DelayAssumption, ChainAssumption, SMTT(30)
  <2> QED
    BY <2>1, <2>2 DEF Init, TypeOK, NoError
<1>2. LoopInv /\ CancelInv /\ LateInv /\ ErrorInv
  BY ChainAssumption, SMTT(30) DEF Init, LoopInv, CancelInv, LateInv, ErrorInv, Round, Loops, Nothing, NoError
<1>3. DelayInv
  BY DelayAssumption, SMTT(30) DEF Init, DelayInv, Round
<1> QED
  BY <1>1, <1>2, <1>3 DEF IInv

-----------------------------------------------------------------------------
(* The steps *)

\* Return, from a place of DoSendWithRetries.
LEMMA ReturnStep ==
  ASSUME IInv, pc \notin Loops, NEW hr \in Outcomes, NEW r \in Responses, Return(hr, r)
  PROVE  IInv'
<1>1. published' \in Responses
  BY DEF Return, Responses
<1>2. TypeOK'
  BY <1>1 DEF IInv, TypeOK, Return, Goto, callVars, loopVars, cancelVars, history
<1>3. LoopInv' /\ CancelInv' /\ LateInv' /\ ErrorInv' /\ DelayInv'
  BY DEF IInv, LoopInv, CancelInv, LateInv, ErrorInv, DelayInv, Round, Loops,
         Return, Goto, callVars, loopVars, cancelVars, history
<1> QED
  BY <1>2, <1>3 DEF IInv

\* A new call keeps the invariant.
LEMMA PostStep == IInv /\ Post => IInv'
<1> SUFFICES ASSUME IInv, Post PROVE IInv'
  OBVIOUS
<1>1. Nothing \in Responses
  BY DEF Nothing, Responses, Outcomes
<1>2. TypeOK'
  <2>1. InitialDelay \in Nat /\ calls' \in 0..MaxCalls /\ 0 \in 0..(NumRetries + 1)
    BY DelayAssumption, ChainAssumption, SMTT(30) DEF IInv, TypeOK, Post
  <2> QED
    BY <1>1, <2>1 DEF IInv, TypeOK, Post, Goto, NoError, cancelVars
<1>3. LoopInv' /\ CancelInv' /\ LateInv' /\ ErrorInv'
  BY DEF IInv, LoopInv, CancelInv, LateInv, ErrorInv, Round, Loops, Post, Goto,
         Nothing, cancelVars
<1>4. DelayInv'
  BY DelayAssumption, SMTT(30) DEF DelayInv, Round, Post, Goto
<1> QED
  BY <1>2, <1>3, <1>4 DEF IInv

\* So do the steps that begin a round.
LEMMA RoundBegins == IInv /\ (BeginRound \/ DoWaitBetweenRetries \/ DetectProxyConfiguration) => IInv'
<1> SUFFICES ASSUME IInv, BeginRound \/ DoWaitBetweenRetries \/ DetectProxyConfiguration
             PROVE  IInv'
  OBVIOUS
<1>1. Nothing \in Responses
  BY DEF Nothing, Responses, Outcomes
<1>2. CASE \E hr \in Outcomes : pc \notin Loops /\ Return(hr, Nothing)
  BY <1>1, <1>2, ReturnStep
<1>3. CASE BeginRound /\ ~eventCancel
  <2>1. TypeOK' /\ LoopInv'
    BY <1>3 DEF IInv, TypeOK, LoopInv, Round, Loops, BeginRound, CanRetryRequest, Goto,
                callVars, loopVars, cancelVars, history
  <2>2. CancelInv' /\ LateInv' /\ ErrorInv' /\ DelayInv'
    BY <1>3, SMTT(30) DEF IInv, CancelInv, LateInv, ErrorInv, DelayInv, Round, BeginRound,
                CanRetryRequest, Goto, callVars, loopVars, cancelVars, history
  <2> QED
    BY <2>1, <2>2 DEF IInv
<1>4. CASE DoWaitBetweenRetries /\ ~eventCancel /\ pc' = "detect"
  <2>1. TypeOK' /\ LoopInv'
    BY <1>4 DEF IInv, TypeOK, LoopInv, Round, Loops, DoWaitBetweenRetries, Goto, Return,
                callVars, loopVars, cancelVars, history
  <2>2. CancelInv' /\ LateInv' /\ ErrorInv' /\ DelayInv'
    BY <1>4, SMTT(30) DEF IInv, CancelInv, LateInv, ErrorInv, DelayInv, Round,
                DoWaitBetweenRetries, Goto, Return, callVars, loopVars, cancelVars, history
  <2> QED
    BY <2>1, <2>2 DEF IInv
<1>5. CASE DetectProxyConfiguration
  <2>1. TypeOK' /\ LoopInv'
    BY <1>1, <1>5, ChainAssumption, SMTT(30)
    DEF IInv, TypeOK, LoopInv, Round, Loops, DetectProxyConfiguration, Goto, NoError,
        callVars, cancelVars
  <2>2. CancelInv' /\ LateInv' /\ ErrorInv' /\ DelayInv'
    BY <1>5 DEF IInv, CancelInv, LateInv, ErrorInv, DelayInv, Round,
                DetectProxyConfiguration, Goto, callVars, cancelVars
  <2> QED
    BY <2>1, <2>2 DEF IInv
<1>6. "cancelled" \in Outcomes /\ "wait_failed" \in Outcomes
  BY DEF Outcomes
<1> QED
  BY <1>2, <1>3, <1>4, <1>5, <1>6
  DEF BeginRound, DoWaitBetweenRetries, Loops, Goto

\* So does the check before an http request is sent.
LEMMA CheckBeforeSendStep == IInv /\ CheckBeforeSend => IInv'
<1> SUFFICES ASSUME IInv, CheckBeforeSend PROVE IInv'
  OBVIOUS
<1>1. last' \in Responses /\ (last'.hr = "cancelled" => last.hr = "cancelled" \/ eventCancel)
  BY DEF IInv, TypeOK, Responses, Outcomes, CheckBeforeSend
<1>2. TypeOK'
  BY <1>1 DEF IInv, TypeOK, CheckBeforeSend, Goto, callVars, cancelVars, history
<1>3. LoopInv' /\ CancelInv' /\ DelayInv'
  BY DEF IInv, LoopInv, CancelInv, DelayInv, Round, Loops, CheckBeforeSend, Goto,
         callVars, cancelVars, history
<1>4. LateInv'
  BY DEF IInv, LateInv, CheckBeforeSend, Goto, cancelVars, history
<1>5. ErrorInv'
  BY <1>1 DEF IInv, ErrorInv, CancelInv, CheckBeforeSend, cancelVars
<1> QED
  BY <1>2, <1>3, <1>4, <1>5 DEF IInv

\* The one place where a late request is counted.
LEMMA SendStep == IInv /\ Send => IInv'
<1> SUFFICES ASSUME IInv, Send PROVE IInv'
  OBVIOUS
<1>1. lateSends = 0 /\ lateSends' \in {0, 1}
  BY SMTT(30) DEF IInv, LateInv, Send
<1>2. lateSends' = 1 => eventCancel
  BY <1>1, SMTT(30) DEF IInv, CancelInv, Send
<1>3. TypeOK'
  BY <1>1, SMTT(30) DEF IInv, TypeOK, Send, Goto, callVars, loopVars, cancelVars
<1>4. LoopInv' /\ CancelInv' /\ ErrorInv' /\ DelayInv'
  BY DEF IInv, LoopInv, CancelInv, ErrorInv, DelayInv, Round, Loops, Send, Goto,
         callVars, loopVars, cancelVars
<1>5. LateInv'
  BY <1>1, <1>2 DEF LateInv, Send, Goto, cancelVars
<1> QED
  BY <1>3, <1>4, <1>5 DEF IInv

\* So do sending it and its answer.
LEMMA AnswerStep ==
  ASSUME IInv, NEW a \in Answers(j), NEW connected \in BOOLEAN, DoSendHttpRequest(a, connected)
  PROVE  IInv'
<1>1. a \in Responses /\ (a.hr = "cancelled" => requestCanceled # {})
  BY DEF Answers, Responses, Outcomes
<1>2. a.hr # "cancelled" => ResultOf(a, connected) \in Outcomes \ {"cancelled"}
  BY <1>1 DEF ResultOf, Responses, Outcomes
<1>3. last' \in Responses /\ (last'.hr = "cancelled" => requestCanceled # {})
  BY <1>1, <1>2 DEF IInv, TypeOK, Responses, Outcomes, DoSendHttpRequest
<1>4. firstError' \in Responses
  BY <1>3 DEF IInv, TypeOK, DoSendHttpRequest
<1>5. retryAfter' \in BOOLEAN
  BY DEF DoSendHttpRequest
<1>6. TypeOK'
  BY <1>3, <1>4, <1>5 DEF IInv, TypeOK, DoSendHttpRequest, Goto, callVars, cancelVars
<1>7. LoopInv' /\ CancelInv' /\ LateInv' /\ DelayInv'
  BY DEF IInv, LoopInv, CancelInv, LateInv, DelayInv, Round, Loops, DoSendHttpRequest, Goto,
         callVars, cancelVars
<1>8. ErrorInv'
  BY <1>3 DEF IInv, ErrorInv, CancelInv, DoSendHttpRequest, cancelVars
<1> QED
  BY <1>6, <1>7, <1>8 DEF IInv

\* So does the loop over the http requests.
LEMMA DoSendWithConfigStep == IInv /\ DoSendWithConfig => IInv'
<1> SUFFICES ASSUME IInv, DoSendWithConfig PROVE IInv'
  OBVIOUS
<1>1. FirstActiveError \in {last, chainError}
  BY DEF FirstActiveError
<1>2. /\ last' \in Responses /\ (last'.hr = "cancelled" => isCanceled)
      /\ chainError' \in Responses /\ (chainError'.hr = "cancelled" => isCanceled)
  <2>1. /\ last' \in {last, FirstActiveError, [last EXCEPT !.hr = "unexpected"]}
        /\ chainError' \in {NoError, FirstActiveError}
    BY DEF DoSendWithConfig
  <2>2. {last, chainError, NoError, [last EXCEPT !.hr = "unexpected"]} \subseteq Responses
    BY SMTT(30) DEF IInv, TypeOK, Responses, Outcomes, NoError, Nothing
  <2>3. [last EXCEPT !.hr = "unexpected"].hr = "unexpected" /\ NoError.hr = "ok"
    BY DEF IInv, TypeOK, Responses, NoError, Nothing
  <2> QED
    BY <1>1, <2>1, <2>2, <2>3 DEF IInv, ErrorInv
<1>3. j' \in 1..Len(Chain)
  <2>1. j' = 1 \/ (j # Len(Chain) /\ j' = j + 1)
    BY DEF DoSendWithConfig
  <2> QED
    BY <2>1, ChainAssumption, SMTT(30) DEF IInv, TypeOK
<1>4. TypeOK'
  BY <1>2, <1>3 DEF IInv, TypeOK, DoSendWithConfig, Goto, callVars, cancelVars, history
<1>5. LoopInv' /\ CancelInv' /\ LateInv' /\ DelayInv'
  BY DEF IInv, LoopInv, CancelInv, LateInv, DelayInv, Round, Loops, DoSendWithConfig, Goto,
         callVars, cancelVars, history
<1>6. ErrorInv'
  BY <1>2 DEF IInv, ErrorInv, DoSendWithConfig, cancelVars
<1> QED
  BY <1>4, <1>5, <1>6 DEF IInv

\* So does the loop over the configurations.
LEMMA DoSendStep == IInv /\ DoSend => IInv'
<1> SUFFICES ASSUME IInv, DoSend PROVE IInv'
  OBVIOUS
<1>1. /\ last' \in Responses /\ (last'.hr = "cancelled" => isCanceled)
      /\ configError' \in Responses /\ (configError'.hr = "cancelled" => isCanceled)
  <2>1. last' \in {last, configError} /\ configError' \in {NoError, last, configError}
    BY DEF DoSend
  <2>2. {last, configError, NoError} \subseteq Responses /\ NoError.hr = "ok"
    BY SMTT(30) DEF IInv, TypeOK, Responses, Outcomes, NoError, Nothing
  <2> QED
    BY <2>1, <2>2 DEF IInv, ErrorInv
<1>2. configs' \in 1..Configs /\ i' \in 1..configs'
  BY ChainAssumption, SMTT(30) DEF IInv, TypeOK, DoSend
<1>3. TypeOK'
  BY <1>1, <1>2, SMTT(30) DEF IInv, TypeOK, DoSend, Goto, callVars, cancelVars, history
<1>4. LoopInv' /\ CancelInv' /\ LateInv' /\ DelayInv'
  BY DEF IInv, LoopInv, CancelInv, LateInv, DelayInv, Round, Loops, DoSend, Goto,
         callVars, cancelVars, history
<1>5. ErrorInv'
  BY <1>1 DEF IInv, ErrorInv, DoSend, cancelVars
<1> QED
  BY <1>3, <1>4, <1>5 DEF IInv

\* So does the end of a round, which computes the next delay.
LEMMA EndOfRoundStep == IInv /\ EndOfRound => IInv'
<1> SUFFICES ASSUME IInv, EndOfRound PROVE IInv'
  OBVIOUS
<1>1. \/ pc' = "finish" /\ count' = count /\ delay' = delay
      \/ pc' = "loop" /\ count' = count + 1 /\ delay' \in NextDelays(last.status)
  BY DEF EndOfRound, Goto
<1>2. delay \in Nat /\ InitialDelay <= delay /\ delay <= MaxDelay /\ count <= NumRetries
  BY DEF IInv, TypeOK, LoopInv, DelayInv, Round, EndOfRound
<1>3. /\ delay' \in Nat /\ InitialDelay <= delay' /\ delay' <= 2 * MaxDelay + Jitter
      /\ count' \in 0..(NumRetries + 1)
  <2>1. CASE pc' = "finish" /\ count' = count /\ delay' = delay
    BY <1>2, <2>1 DEF IInv, TypeOK, DelayInv
  <2>2. CASE pc' = "loop" /\ count' = count + 1 /\ delay' \in NextDelays(last.status)
    <3>1. delay' \in Nat /\ delay < delay' /\ delay' <= 2 * MaxDelay + Jitter
      BY <1>2, <2>2, NextDelaysGrow
    <3> QED
      BY <1>2, <2>2, <3>1, DelayAssumption, ChainAssumption, SMTT(30) DEF IInv, TypeOK
  <2> QED
    BY <1>1, <2>1, <2>2
<1>4. TypeOK'
  BY <1>1, <1>3 DEF IInv, TypeOK, EndOfRound, callVars, cancelVars, history
<1>5. LoopInv' /\ DelayInv'
  BY <1>1, <1>3 DEF IInv, LoopInv, DelayInv, Round, Loops, EndOfRound
<1>6. CancelInv' /\ LateInv' /\ ErrorInv'
  BY <1>1 DEF IInv, CancelInv, LateInv, ErrorInv, EndOfRound, cancelVars, history
<1> QED
  BY <1>4, <1>5, <1>6 DEF IInv

\* So does the return.
LEMMA FinishStep == IInv /\ Finish => IInv'
<1> SUFFICES ASSUME IInv, Finish PROVE IInv'
  OBVIOUS
<1>1. Nothing \in Responses /\ last \in Responses /\ last.hr \in Outcomes
  BY DEF IInv, TypeOK, Nothing, Responses, Outcomes
<1>2. "cancelled" \in Outcomes /\ "exceeded" \in Outcomes
  BY DEF Outcomes
<1>3. pc \notin Loops
  BY DEF Finish, Loops
<1> QED
  BY <1>1, <1>2, <1>3, ReturnStep DEF Finish

\* So does every part of Cancel.
LEMMA CancelStep == IInv /\ Cancel => IInv'
<1> SUFFICES ASSUME IInv, Cancel PROVE IInv'
  OBVIOUS
<1>1. requestCanceled' \subseteq 1..Len(Chain)
  BY DEF IInv, TypeOK, Cancel, CancelFlag, CancelEvent, CancelRequest
<1>2. TypeOK'
  BY <1>1 DEF IInv, TypeOK, Cancel, CancelFlag, CancelEvent, CancelRequest,
              callVars, loopVars, history
<1>3. CancelInv'
  BY SMTT(30) DEF IInv, CancelInv, Cancel, CancelFlag, CancelEvent, CancelRequest
<1>4. isCanceled' = isCanceled \/ isCanceled' = TRUE
  BY DEF Cancel, CancelFlag, CancelEvent, CancelRequest
<1>5. LoopInv' /\ LateInv' /\ ErrorInv' /\ DelayInv'
  BY <1>4 DEF IInv, LoopInv, LateInv, ErrorInv, DelayInv, Cancel, CancelFlag, CancelEvent,
              CancelRequest, callVars, loopVars, history
<1> QED
  BY <1>2, <1>3, <1>5 DEF IInv

\* Every step keeps the invariant.
LEMMA NextIInv == IInv /\ [Next]_vars => IInv'
<1> SUFFICES ASSUME IInv, [Next]_vars PROVE IInv'
  OBVIOUS
<1>1. CASE Next
  BY <1>1, PostStep, RoundBegins, CheckBeforeSendStep, SendStep, AnswerStep,
     DoSendWithConfigStep, DoSendStep, EndOfRoundStep, FinishStep, CancelStep
  DEF Next, Request
<1>2. CASE UNCHANGED vars
  BY <1>2, SMTT(30) DEF IInv, TypeOK, LoopInv, CancelInv, LateInv, ErrorInv, DelayInv,
              vars, callVars, loopVars, cancelVars, history
<1> QED
  BY <1>1, <1>2

-----------------------------------------------------------------------------
(* The theorems *)

\* IInv holds in every state of a network request, whenever Cancel comes
\* (network_request_impl.cc, DoSendWithRetries, DoSend, DoSendWithConfig, Cancel).
THEOREM Inductive == Spec => []IInv
BY InitIInv, NextIInv, PTL DEF Spec

\* The request object cannot leave more than one http request behind after
\* Cancel has signalled its event, over all its calls (network_request_impl.cc,
\* Cancel and DoSendHttpRequest).
THEOREM LateSendTheorem == Spec => []AtMostOneLateSend
<1>1. IInv => AtMostOneLateSend
  BY SMTT(30) DEF IInv, LateInv, AtMostOneLateSend
<1> QED
  BY <1>1, Inductive, PTL

\* The delays stay in range whatever the jitter draws, and the doubling in
\* ComputeNextRetryDelay never meets its overflow branch.
THEOREM DelayTheorem == Spec => []DelayInRange
<1>1. IInv => DelayInRange
  BY DelayAssumption, SMTT(30) DEF IInv, TypeOK, DelayInv, Round, DelayInRange
<1> QED
  BY <1>1, Inductive, PTL

\* Every wait is longer than the one before: the jitter never eats the doubling.
THEOREM BackoffTheorem == Spec => BackoffGrows
<1>1. IInv /\ [Next]_vars => [pc = "sent" /\ pc' = "loop" => delay' > delay]_vars
  <2> SUFFICES ASSUME IInv, Next, pc = "sent", pc' = "loop"
               PROVE  delay' > delay
    OBVIOUS
  <2>1. EndOfRound
    BY DEF Next, Post, Request, Cancel, BeginRound, DoWaitBetweenRetries,
           DetectProxyConfiguration, CheckBeforeSend, Send, DoSendHttpRequest,
           DoSendWithConfig, DoSend, Finish, CancelFlag, CancelEvent, CancelRequest
  <2>2. delay' \in NextDelays(last.status)
    BY <2>1 DEF EndOfRound, Goto
  <2>3. delay \in Nat /\ InitialDelay <= delay /\ delay <= MaxDelay
    BY DEF IInv, TypeOK, DelayInv, Round
  <2>4. delay' \in Nat /\ delay < delay'
    BY <2>2, <2>3, NextDelaysGrow
  <2> QED
    BY <2>3, <2>4
<1> QED
  BY <1>1, Inductive, PTL DEF Spec, BackoffGrows

\* A call that returns says "cancelled" exactly if Cancel has begun.
THEOREM CancelTheorem == Spec => CancelWins
<1>1. IInv /\ [Next]_vars =>
        [Returns /\ published'.hr # "wait_failed" =>
           (published'.hr = "cancelled" <=> canceller # "idle")]_vars
  <2> SUFFICES ASSUME IInv, Next, Returns, published'.hr # "wait_failed"
               PROVE  published'.hr = "cancelled" <=> canceller # "idle"
    OBVIOUS
  <2>1. BeginRound \/ DoWaitBetweenRetries \/ Finish
    BY DEF Returns, Next, Post, Request, Cancel, DetectProxyConfiguration,
           CheckBeforeSend, Send, DoSendHttpRequest, DoSendWithConfig, DoSend, EndOfRound,
           CancelFlag, CancelEvent, CancelRequest, Goto
  <2>2. last \in Responses /\ Nothing \in Responses
    BY DEF IInv, TypeOK, Nothing, Responses, Outcomes
  <2>3. ASSUME NEW hr, NEW r \in Responses, Return(hr, r) PROVE published'.hr = hr
    BY <2>3 DEF Return, Responses
  <2>4. CASE BeginRound \/ DoWaitBetweenRetries
    <3>1. eventCancel /\ Return("cancelled", Nothing)
      BY <2>2, <2>3, <2>4 DEF Returns, BeginRound, DoWaitBetweenRetries, Goto
    <3> QED
      BY <3>1, <2>2, <2>3 DEF IInv, CancelInv
  <2>5. CASE Finish
    <3>1. CASE isCanceled /\ Return("cancelled", Nothing)
      BY <3>1, <2>2, <2>3 DEF IInv, CancelInv
    <3>2. CASE ~isCanceled /\ Return("exceeded", Nothing)
      BY <3>2, <2>2, <2>3 DEF IInv, CancelInv
    <3>3. CASE ~isCanceled /\ Return(last.hr, last)
      BY <3>3, <2>2, <2>3 DEF IInv, CancelInv, ErrorInv
    <3> QED
      BY <2>5, <3>1, <3>2, <3>3 DEF Finish
  <2> QED
    BY <2>1, <2>4, <2>5
<1> QED
  BY <1>1, Inductive, PTL DEF Spec, CancelWins

-----------------------------------------------------------------------------
(* What a call reports *)

\* What the call may report: a success, or the first error of the first configuration.
Reported ==
  \/ last.hr = "ok" /\ Success(last.status)
  \/ Failed(last) /\ last = firstError

\* Until Cancel is called: how the two loops carry the first error of the
\* preferred configuration to the caller.  A disabled BITS is never the last
\* of the chain, so its answer never is what the chain ends with.
ReportInv ==
  ~isCanceled =>
    /\ pc \notin {"answered", "configured", "sent", "finish", "idle"} => ~retryAfter
    /\ pc \notin Loops \ {"configured"} => chainError = NoError
    /\ chainError.hr # "bits_disabled"
    /\ pc \in {"request", "send", "sending"} /\ i = 1 => firstError = chainError
    /\ pc \in {"answered", "configured"} /\ last.hr = "ok" => Success(last.status)
    /\ pc = "answered" /\ last.hr = "bits_disabled" =>
         Chain[j] = "bits" /\ ~retryAfter /\ last.status # 404
    /\ pc = "answered" /\ i = 1 /\ Failed(last) => firstError = FirstActiveError
    /\ pc = "configured" => last.hr # "bits_disabled"
    /\ pc = "configured" /\ i = 1 /\ Failed(last) => last = firstError
    /\ pc \in Loops /\ i > 1 => Failed(firstError) /\ configError = firstError
    /\ pc \in {"sent", "finish"} \/ (pc = "loop" /\ count > 0) => Reported

\* ReportInv holds at first.
LEMMA InitReport == Init => ReportInv
BY SMTT(30) DEF Init, ReportInv, Loops, Reported, NoError, Nothing

\* The steps that touch no answer.
LEMMA OtherReport ==
  ASSUME IInv, ReportInv,
         Post \/ BeginRound \/ DoWaitBetweenRetries \/ DetectProxyConfiguration \/ Send
           \/ EndOfRound \/ Finish \/ Cancel
  PROVE  ReportInv'
<1>1. CASE Post
  BY <1>1, SMTT(30) DEF IInv, LoopInv, ReportInv, Reported, Loops, Post, Goto, cancelVars
<1>2. CASE BeginRound \/ DoWaitBetweenRetries \/ Finish
  <2>1. /\ pc \in {"loop", "wait", "finish"} /\ pc' \in {"idle", "detect", "wait"}
        /\ UNCHANGED <<callVars, loopVars, cancelVars, history>>
        /\ pc' = "idle" \/ pc \in {"loop", "wait"}
    BY <1>2 DEF BeginRound, DoWaitBetweenRetries, Finish, Return, Goto
  <2> QED
    BY <2>1, SMTT(30) DEF IInv, LoopInv, ReportInv, Reported, Loops, callVars, loopVars,
                          cancelVars, history
<1>3. CASE DetectProxyConfiguration
  BY <1>3, SMTT(30) DEF IInv, LoopInv, ReportInv, Reported, Loops, DetectProxyConfiguration, Goto,
              callVars, cancelVars
<1>4. CASE Send
  BY <1>4 DEF ReportInv, Reported, Loops, Send, Goto, callVars, loopVars, cancelVars
<1>5. CASE EndOfRound
  <2>1. pc = "sent" /\ (pc' = "finish" \/ (pc' = "loop" /\ ~retryAfter))
    BY <1>5 DEF EndOfRound, Goto
  <2> QED
    BY <1>5, <2>1, SMTT(30) DEF ReportInv, Reported, Loops, EndOfRound, callVars, cancelVars, history
<1>6. CASE Cancel
  BY <1>6, SMTT(30) DEF ReportInv, Reported, FirstActiveError, Cancel, CancelFlag, CancelEvent,
              CancelRequest, callVars, loopVars, history
<1> QED
  BY <1>1, <1>2, <1>3, <1>4, <1>5, <1>6

\* The check before an http request keeps ReportInv.
LEMMA CheckReport == IInv /\ ReportInv /\ CheckBeforeSend => ReportInv'
<1> SUFFICES ASSUME IInv, ReportInv, CheckBeforeSend, ~isCanceled PROVE ReportInv'
  BY SMTT(30) DEF ReportInv, CheckBeforeSend, cancelVars
<1>1. last' = last /\ pc = "request" /\ pc' = "send"
  BY DEF IInv, CancelInv, CheckBeforeSend, Goto
<1> QED
  BY <1>1 DEF ReportInv, Reported, Loops, CheckBeforeSend, callVars, cancelVars, history

\* An answer becomes the first error only if none came before it.
LEMMA AnswerReport ==
  ASSUME IInv, ReportInv, NEW a \in Answers(j), NEW connected \in BOOLEAN,
         DoSendHttpRequest(a, connected)
  PROVE  ReportInv'
<1> SUFFICES ASSUME ~isCanceled PROVE ReportInv'
  BY DEF ReportInv, DoSendHttpRequest, cancelVars
<1>1. requestCanceled = {}
  BY DEF IInv, CancelInv
<1>2. /\ a \in Responses /\ a.hr # "cancelled"
      /\ a.hr = "bits_disabled" => Chain[j] = "bits" /\ a.status = 0 /\ a.retry = FALSE
  BY <1>1 DEF Answers, Responses, Outcomes
<1>3. last' = [a EXCEPT !.hr = ResultOf(a, connected)]
  BY <1>2 DEF DoSendHttpRequest
<1>4. last'.hr = ResultOf(a, connected) /\ last'.status = a.status
  BY <1>2, <1>3 DEF Responses
<1>5. /\ last'.hr = "ok" => Success(last'.status)
      /\ last'.hr = "bits_disabled" => a.hr = "bits_disabled"
  BY <1>4 DEF ResultOf
<1>6. pc = "sending" /\ pc' = "answered" /\ ~retryAfter
  BY DEF ReportInv, DoSendHttpRequest, Goto
<1>7. last'.hr = "bits_disabled" => Chain[j]' = "bits" /\ ~retryAfter' /\ last'.status # 404
  <2>1. ASSUME a.hr = "bits_disabled" PROVE ~retryAfter'
    BY <1>2, <1>6, <2>1 DEF DoSendHttpRequest
  <2>2. j' = j
    BY DEF DoSendHttpRequest
  <2> QED
    BY <1>2, <1>4, <1>5, <2>1, <2>2, SMTT(30)
<1>8. (i = 1 /\ Failed(last) => firstError = FirstActiveError)'
  BY <1>6, SMTT(30) DEF ReportInv, FirstActiveError, Failed, DoSendHttpRequest
<1>9. (pc \in Loops /\ i > 1 => Failed(firstError) /\ configError = firstError)'
  BY <1>6 DEF IInv, TypeOK, ReportInv, Loops, Failed, DoSendHttpRequest
<1> QED
  BY <1>5, <1>6, <1>7, <1>8, <1>9 DEF ReportInv, Loops, DoSendHttpRequest, cancelVars

\* So does the loop over the http requests.
LEMMA ConfigReport == IInv /\ ReportInv /\ DoSendWithConfig => ReportInv'
<1> SUFFICES ASSUME IInv, ReportInv, DoSendWithConfig, ~isCanceled PROVE ReportInv'
  BY SMTT(30) DEF ReportInv, DoSendWithConfig, cancelVars
<1>1. /\ pc = "answered" /\ last.hr # "cancelled" /\ (Final(last) <=> ~Failed(last))
      /\ FirstActiveError.hr # "bits_disabled"
  BY DEF IInv, ErrorInv, ReportInv, FirstActiveError, Final, Failed, DoSendWithConfig
<1>2. CASE pc' = "configured"
  <2>1. /\ j' = 1 /\ chainError' = NoError
        /\ Final(last) \/ last.status = 404 \/ retryAfter \/ j = Len(Chain)
    BY <1>2 DEF DoSendWithConfig, Goto
  <2>2. Failed(last) => Failed(FirstActiveError)
    BY <1>1, <2>1, ChainAssumption DEF ReportInv, FirstActiveError, Failed
  <2>3. last' = IF Failed(last) THEN FirstActiveError ELSE last
    BY <1>1, <1>2, <2>2 DEF DoSendWithConfig, Goto
  <2>4. /\ last'.hr = "ok" => Success(last'.status)
        /\ last'.hr # "bits_disabled"
        /\ i = 1 /\ Failed(last') => last' = firstError
    BY <1>1, <2>2, <2>3 DEF ReportInv, Failed
  <2> QED
    BY <1>1, <1>2, <2>1, <2>4
    DEF ReportInv, Loops, Failed, NoError, Nothing, DoSendWithConfig, cancelVars, history
<1>3. CASE pc' = "request"
  <2>1. chainError' = FirstActiveError /\ last' = last /\ Failed(last) /\ ~retryAfter
    BY <1>1, <1>3 DEF DoSendWithConfig, Goto
  <2> QED
    BY <1>1, <1>3, <2>1
    DEF ReportInv, Loops, Failed, DoSendWithConfig, cancelVars, history
<1> QED
  BY <1>2, <1>3 DEF DoSendWithConfig, Goto

\* So does the loop over the configurations.
LEMMA SendReport == IInv /\ ReportInv /\ DoSend => ReportInv'
<1> SUFFICES ASSUME IInv, ReportInv, DoSend, ~isCanceled PROVE ReportInv'
  BY SMTT(30) DEF ReportInv, DoSend, cancelVars
<1>1. /\ pc = "configured" /\ last.hr # "cancelled" /\ last.hr # "bits_disabled"
      /\ i \in Nat /\ i >= 1
  BY SMTT(30) DEF IInv, TypeOK, ErrorInv, ReportInv, DoSend
<1>2. (Final(last) \/ last.hr = "bits_disabled") <=> ~Failed(last)
  BY <1>1 DEF Final, Failed
<1> DEFINE error == IF i = 1 /\ Failed(last) THEN last ELSE configError
<1>3. Failed(last) => error = firstError /\ Failed(firstError)
  BY <1>1, SMTT(30) DEF ReportInv, Loops
<1>4. CASE pc' = "sent"
  <2>1. last' = IF Failed(last) THEN error ELSE last
    BY <1>2, <1>4 DEF DoSend, Goto
  <2>2. Reported'
    BY <1>1, <1>3, <2>1 DEF ReportInv, Reported, Failed, DoSend, history
  <2> QED
    BY <1>1, <1>4, <2>2 DEF ReportInv, Loops, DoSend, cancelVars, history
<1>5. CASE pc' = "request"
  <2>1. /\ i' = i + 1 /\ configError' = error /\ last' = last /\ Failed(last) /\ ~retryAfter
        /\ configs' = configs
    BY <1>2, <1>5 DEF DoSend, Goto
  <2> QED
    BY <1>1, <1>3, <1>5, <2>1, SMTT(30) DEF ReportInv, Loops, DoSend, Failed, cancelVars, history
<1> QED
  BY <1>4, <1>5 DEF DoSend, Goto

\* Every step keeps ReportInv.
LEMMA NextReport == IInv /\ ReportInv /\ [Next]_vars => ReportInv'
<1> SUFFICES ASSUME IInv, ReportInv, [Next]_vars PROVE ReportInv'
  OBVIOUS
<1>1. CASE Next
  BY <1>1, OtherReport, CheckReport, AnswerReport, ConfigReport, SendReport DEF Next, Request
<1>2. CASE UNCHANGED vars
  BY <1>2, SMTT(30) DEF ReportInv, Reported, FirstActiveError, vars, callVars, loopVars, cancelVars, history
<1> QED
  BY <1>1, <1>2

\* What a call leaves for its caller is a success, or the first error of the
\* preferred configuration with the response that belongs to it, for every
\* chain that ends with WinHTTP (network_request_impl.cc, DoSend and
\* DoSendWithConfig).
THEOREM ReportTheorem == Spec => ReportsFirstError
<1>1. Spec => [](IInv /\ ReportInv)
  BY InitIInv, InitReport, NextIInv, NextReport, PTL DEF Spec
<1>2. IInv /\ ReportInv /\ [Next]_vars =>
        [Returns /\ published'.hr \notin {"cancelled", "exceeded", "wait_failed"} =>
           \/ published'.hr = "ok" /\ Success(published'.status)
           \/ published'.hr # "ok" /\ published' = firstError]_vars
  <2> SUFFICES ASSUME IInv, ReportInv, Next, Returns,
                      published'.hr \notin {"cancelled", "exceeded", "wait_failed"}
               PROVE  \/ published'.hr = "ok" /\ Success(published'.status)
                      \/ published'.hr # "ok" /\ published' = firstError
    OBVIOUS
  <2>1. last \in Responses /\ Nothing \in Responses
    BY DEF IInv, TypeOK, Nothing, Responses, Outcomes
  <2>2. ASSUME NEW hr \in Outcomes, NEW r \in Responses, Return(hr, r) PROVE published'.hr = hr
    BY <2>2 DEF Return, Responses
  <2>3. "cancelled" \in Outcomes /\ "exceeded" \in Outcomes /\ "wait_failed" \in Outcomes
    BY DEF Outcomes
  <2>4. BeginRound \/ DoWaitBetweenRetries \/ Finish
    BY DEF Returns, Next, Post, Request, Cancel, DetectProxyConfiguration,
           CheckBeforeSend, Send, DoSendHttpRequest, DoSendWithConfig, DoSend, EndOfRound,
           CancelFlag, CancelEvent, CancelRequest, Goto
  <2>5. Finish /\ ~isCanceled /\ delay <= MaxDelay /\ Return(last.hr, last)
    BY <2>1, <2>2, <2>3, <2>4
    DEF Returns, BeginRound, DoWaitBetweenRetries, Finish, Goto
  <2>6. Reported
    BY <2>5, ChainAssumption, SMTT(30) DEF IInv, TypeOK, ReportInv, Finish, CanRetryRequest
  <2>7. published' = last
    BY <2>1, <2>5 DEF Return, Responses
  <2> QED
    BY <2>6, <2>7 DEF Reported, Failed
<1> QED
  BY <1>1, <1>2, PTL DEF Spec, ReportsFirstError

-----------------------------------------------------------------------------
(* The client of the web services *)

\* The responses an attempt has at hand.
Kept == {last, chainError, configError, published}

\* The types the argument needs.
KeptType == Kept \subseteq Responses /\ https \in BOOLEAN /\ retryAfter \in BOOLEAN

\* Over https no response that is kept has the header X-Retry-After unless the
\* request has seen it.
KeptSeen == https => \A r \in Kept : r.retry => retryAfter

\* Outside the loops they have saved no error: the answers of an earlier attempt
\* are gone when the next one begins.
SavedInv ==
  /\ pc \notin Loops \ {"configured"} => chainError = NoError
  /\ pc \notin Loops => configError = NoError

\* During an attempt the url is the one of the attempt, and the header the
\* request has seen is one the server sent over https during this Send.
RetryInv ==
  wpc = "posting" => (https <=> ActualHttps) /\ (retryAfter => httpsRetry) /\ KeptSeen

\* The inductive invariant of the client and its network request.
WInv == KeptType /\ SavedInv /\ RetryInv

\* An empty response has no header.
LEMMA NothingSaid == Nothing \in Responses /\ Nothing.retry = FALSE
BY DEF Nothing, Responses, Outcomes

\* It holds at first.
LEMMA InitW == WInit => WInv
BY NothingSaid DEF WInit, Init, WInv, KeptType, SavedInv, RetryInv, Kept, NoError

\* Another hr leaves the header of a response alone.
LEMMA OnlyHr ==
  ASSUME NEW r \in Responses, NEW hr \in Outcomes
  PROVE  [r EXCEPT !.hr = hr] \in Responses /\ [r EXCEPT !.hr = hr].retry = r.retry
BY DEF Responses

\* What a step of the request keeps was kept before, but for its hr, or is empty,
\* or is the answer in which the request looks for the header.
LEMMA RequestKeeps ==
  ASSUME KeptType, KeptSeen, Request
  PROVE  KeptType' /\ KeptSeen' /\ https' = https
<1> USE DEF Kept
<1>1. /\ "cancelled" \in Outcomes /\ "wait_failed" \in Outcomes /\ "exceeded" \in Outcomes
      /\ "unexpected" \in Outcomes /\ last.hr \in Outcomes
  BY DEF KeptType, Responses, Outcomes
<1>2. ASSUME NEW hr \in Outcomes, NEW r \in {last, Nothing}, Return(hr, r)
      PROVE  KeptType' /\ KeptSeen' /\ https' = https
  <2>1. r \in Responses /\ (https => (r.retry => retryAfter))
    BY NothingSaid DEF KeptType, KeptSeen
  <2> QED
    BY <1>2, <2>1, OnlyHr DEF Return, KeptType, KeptSeen, callVars, loopVars
<1>3. CASE BeginRound \/ DoWaitBetweenRetries
  <2>1. CASE \E hr \in Outcomes : Return(hr, Nothing)
    BY <1>2, <2>1
  <2>2. CASE UNCHANGED <<callVars, loopVars, published>>
    BY <2>2 DEF KeptType, KeptSeen, callVars, loopVars
  <2> QED
    BY <1>1, <1>3, <2>1, <2>2 DEF BeginRound, DoWaitBetweenRetries
<1>4. CASE Finish
  <2>1. \E hr \in Outcomes, r \in {last, Nothing} : Return(hr, r)
    BY <1>1, <1>4 DEF Finish
  <2> QED
    BY <1>2, <2>1
<1>5. CASE DetectProxyConfiguration \/ Send \/ EndOfRound
  <2>1. UNCHANGED <<https, retryAfter, last, chainError, configError, published>>
    BY <1>5 DEF DetectProxyConfiguration, Send, EndOfRound, callVars, loopVars
  <2> QED
    BY <2>1 DEF KeptType, KeptSeen
<1>6. CASE CheckBeforeSend
  <2>1. /\ UNCHANGED <<https, retryAfter, chainError, configError, published>>
        /\ last' \in {last, [last EXCEPT !.hr = "cancelled"]}
    BY <1>6 DEF CheckBeforeSend, callVars
  <2>2. last' \in Responses /\ last'.retry = last.retry
    BY <2>1, SMTT(30) DEF KeptType, Responses, Outcomes
  <2> QED
    BY <2>1, <2>2 DEF KeptType, KeptSeen
<1>7. CASE \E a \in Answers(j), connected \in BOOLEAN : DoSendHttpRequest(a, connected)
  <2>1. PICK a \in Answers(j), connected \in BOOLEAN : DoSendHttpRequest(a, connected)
    BY <1>7
  <2>2. a \in Responses
    BY DEF Answers, Responses, Outcomes
  <2>3. a.hr # "cancelled" => ResultOf(a, connected) \in Outcomes
    BY <2>2 DEF ResultOf, Responses, Outcomes
  <2>4. last' \in Responses /\ last'.retry \in {last.retry, a.retry}
    BY <1>1, <2>1, <2>2, <2>3, OnlyHr DEF DoSendHttpRequest, KeptType
  <2>5. /\ UNCHANGED <<https, chainError, configError, published>>
        /\ retryAfter' = (retryAfter \/ (https /\ a.retry))
    BY <2>1 DEF DoSendHttpRequest, callVars
  <2>6. a.retry \in BOOLEAN /\ last.retry \in BOOLEAN
    BY <2>2 DEF KeptType, Responses
  <2> QED
    BY <2>4, <2>5, <2>6 DEF KeptType, KeptSeen
<1>8. CASE DoSendWithConfig
  <2>1. /\ UNCHANGED <<https, retryAfter, configError, published>>
        /\ last' \in {last, chainError, [last EXCEPT !.hr = "unexpected"]}
        /\ chainError' \in {last, chainError, NoError}
    BY <1>8 DEF DoSendWithConfig, FirstActiveError, callVars
  <2>2. last' \in Responses /\ last'.retry \in {last.retry, chainError.retry}
    BY <2>1, SMTT(30) DEF KeptType, Responses, Outcomes
  <2> QED
    BY <2>1, <2>2, NothingSaid DEF KeptType, KeptSeen, NoError
<1>9. CASE DoSend
  <2>1. /\ UNCHANGED <<https, retryAfter, chainError, published>>
        /\ last' \in {last, configError} /\ configError' \in {last, configError, NoError}
    BY <1>9 DEF DoSend, callVars
  <2> QED
    BY <2>1, NothingSaid DEF KeptType, KeptSeen, NoError
<1> QED
  BY <1>3, <1>4, <1>5, <1>6, <1>7, <1>8, <1>9 DEF Request

\* The loops clear what they have saved when they are left.
LEMMA RequestClears == SavedInv /\ Request => SavedInv'
<1> SUFFICES ASSUME SavedInv, Request PROVE SavedInv'
  OBVIOUS
<1> USE DEF SavedInv, Loops
<1>1. CASE BeginRound \/ DoWaitBetweenRetries \/ Finish
  BY <1>1 DEF BeginRound, DoWaitBetweenRetries, Finish, Return, Goto, loopVars
<1>2. CASE DetectProxyConfiguration \/ CheckBeforeSend \/ Send \/ EndOfRound
  BY <1>2 DEF DetectProxyConfiguration, CheckBeforeSend, Send, EndOfRound, Goto, loopVars
<1>3. CASE \E a \in Answers(j), connected \in BOOLEAN : DoSendHttpRequest(a, connected)
  BY <1>3 DEF DoSendHttpRequest, Goto
<1>4. CASE DoSendWithConfig \/ DoSend
  BY <1>4 DEF DoSendWithConfig, DoSend, Goto
<1> QED
  BY <1>1, <1>2, <1>3, <1>4 DEF Request

\* Every step of the client, of its request and of Cancel keeps it.
LEMMA NextW == WInv /\ [WNext]_wvars => WInv'
<1> SUFFICES ASSUME WInv, [WNext]_wvars PROVE WInv'
  OBVIOUS
<1>1. CASE RequestStep
  <2>1. wpc = "posting" /\ wpc' = "posting" /\ fallback' = fallback /\ KeptSeen
    BY <1>1 DEF WInv, RetryInv, RequestStep
  <2>2. KeptType' /\ KeptSeen' /\ https' = https /\ SavedInv'
    BY <1>1, <2>1, RequestKeeps, RequestClears DEF WInv, RequestStep
  <2>3. retryAfter' => httpsRetry'
    BY <1>1 DEF RequestStep
  <2> QED
    BY <2>1, <2>2, <2>3 DEF WInv, RetryInv, ActualHttps
<1>2. CASE PostUtf8String
  <2>1. /\ pc = "idle" /\ pc' = "loop" /\ https' = ActualHttps /\ https' \in BOOLEAN
        /\ retryAfter' = FALSE
        /\ last' = Nothing /\ published' = Nothing
        /\ chainError' = NoError /\ configError' = NoError /\ fallback' = fallback
    BY <1>2 DEF WInv, SavedInv, Loops, PostUtf8String, Post, Goto, clientVars
  <2> QED
    BY <2>1, NothingSaid
    DEF WInv, KeptType, KeptSeen, Kept, SavedInv, RetryInv, ActualHttps, NoError, Loops
<1>3. CASE WSend \/ DeleteRequest \/ CreateRequest \/ SendStringInternal
  <2>1. /\ wpc' # "posting"
        /\ UNCHANGED <<pc, last, chainError, configError, published, https, retryAfter>>
    BY <1>3 DEF WSend, DeleteRequest, CreateRequest, SendStringInternal, AttemptReturns, WGoto,
                vars, callVars, loopVars
  <2> QED
    BY <2>1 DEF WInv, KeptType, Kept, SavedInv, RetryInv
<1>4. CASE WCancel \/ WCancelStep \/ UNCHANGED wvars
  <2>1. UNCHANGED <<pc, last, chainError, configError, published, https, retryAfter,
                    wpc, fallback, httpsRetry>>
    BY <1>4 DEF WCancel, WCancelStep, wvars, clientVars, CancelFlag, CancelEvent, CancelRequest,
                vars, callVars, loopVars
  <2> QED
    BY <2>1 DEF WInv, KeptType, KeptSeen, Kept, SavedInv, RetryInv, ActualHttps
<1> QED
  BY <1>1, <1>2, <1>3, <1>4 DEF WNext, Client

\* The time of the next check that the client reports was said by the server
\* over https, in a response to this Send, whatever the fallback over http and
\* the retries have received (web_services_client.cc, SendStringInternal;
\* network_request_impl.cc, DoSendHttpRequest).
THEOREM RetryAfterTheorem == WSpec => RetryAfterTrusted
<1>1. WInv /\ [WNext]_wvars => [retryAfterSec' /\ ~retryAfterSec => httpsRetry /\ https]_wvars
  <2> SUFFICES ASSUME WInv, WNext, retryAfterSec', ~retryAfterSec PROVE httpsRetry /\ https
    OBVIOUS
  <2>1. SendStringInternal
    BY DEF WNext, WSend, Client, DeleteRequest, CreateRequest, PostUtf8String, RequestStep,
           WCancel, WCancelStep, clientVars
  <2>2. wpc = "posting" /\ ActualHttps /\ published.retry
    BY <2>1 DEF SendStringInternal, RetryAfterOfResponse
  <2> QED
    BY <2>2 DEF WInv, RetryInv, KeptSeen, Kept
<1> QED
  BY <1>1, InitW, NextW, PTL DEF WSpec, RetryAfterTrusted

-----------------------------------------------------------------------------
(* Calls end *)

\* A measure is below another one from the first place where they differ.
LEMMA FirstDifference ==
  ASSUME NEW a, NEW b, NEW c, NEW d, NEW e, NEW f,
         NEW a1, NEW b1, NEW c1, NEW d1, NEW e1, NEW f1,
         \/ a1 < a
         \/ a1 = a /\ b1 < b
         \/ a1 = a /\ b1 = b /\ c1 < c
         \/ a1 = a /\ b1 = b /\ c1 = c /\ d1 < d
         \/ a1 = a /\ b1 = b /\ c1 = c /\ d1 = d /\ e1 < e
         \/ a1 = a /\ b1 = b /\ c1 = c /\ d1 = d /\ e1 = e /\ f1 < f
  PROVE  Below(<<a1, b1, c1, d1, e1, f1>>, <<a, b, c, d, e, f>>)
<1> DEFINE s == <<a1, b1, c1, d1, e1, f1>>
           t == <<a, b, c, d, e, f>>
<1>1. /\ DOMAIN t = 1..6
      /\ s[1] = a1 /\ s[2] = b1 /\ s[3] = c1 /\ s[4] = d1 /\ s[5] = e1 /\ s[6] = f1
      /\ t[1] = a /\ t[2] = b /\ t[3] = c /\ t[4] = d /\ t[5] = e /\ t[6] = f
  BY SMTT(30)
<1>2. PICK k \in 1..6 : /\ s[k] < t[k]
                        /\ k > 1 => s[1] = t[1]
                        /\ k > 2 => s[2] = t[2]
                        /\ k > 3 => s[3] = t[3]
                        /\ k > 4 => s[4] = t[4]
                        /\ k > 5 => s[5] = t[5]
  <2> HIDE DEF s, t
  <2> QED  BY <1>1, SMTT(30)
<1>3. \A m \in 1..(k - 1) : s[m] = t[m]
  <2> HIDE DEF s, t
  <2> QED  BY <1>2, SMTT(30)
<1> HIDE DEF s, t
<1>4. Below(s, t)  BY <1>1, <1>2, <1>3, SMTT(30) DEF Below
<1> QED  BY <1>4 DEF s, t

\* What the measure of a call needs: it is part of IInv, and holds also of the
\* request objects that WebServicesClient replaces.
MeasureInv ==
  /\ pc \in Round \cup {"idle", "loop", "finish"}
  /\ count \in 0..(NumRetries + 1)
  /\ configs \in 1..Configs /\ i \in 1..configs /\ j \in 1..Len(Chain)
  /\ LoopInv

\* The measure is one.
LEMMA CallMeasured == MeasureInv => CallLeft \in Measure(6)
<1> SUFFICES ASSUME MeasureInv PROVE CallLeft \in Measure(6)  OBVIOUS
<1>1. /\ (NumRetries + 1) - count \in Nat /\ configs - i \in Nat /\ Len(Chain) - j \in Nat
  BY ChainAssumption, SMTT(30) DEF MeasureInv
<1>2. Phase[pc] \in Nat
  BY SMTT(30) DEF MeasureInv, Phase, Round
<1>3. (IF Trying THEN RequestPhase[pc] ELSE 0) \in Nat
  BY SMTT(30) DEF MeasureInv, Trying, RequestPhase, Round
<1>4. (IF Trying /\ pc # "configured" THEN 1 ELSE 0) \in Nat
  BY SMTT(30)
<1> QED  BY <1>1, <1>2, <1>3, <1>4, SMTT(30) DEF CallLeft, Measure

\* Where the phases of a call stand.
LEMMA Phases ==
  /\ Phase["idle"] = 0 /\ Phase["finish"] = 1 /\ Phase["sent"] = 2
  /\ Phase["configured"] = 3 /\ Phase["answered"] = 3 /\ Phase["sending"] = 3
  /\ Phase["send"] = 3 /\ Phase["request"] = 3 /\ Phase["detect"] = 4
  /\ Phase["wait"] = 5 /\ Phase["loop"] = 6
  /\ RequestPhase["configured"] = 0 /\ RequestPhase["answered"] = 1
  /\ RequestPhase["sending"] = 2 /\ RequestPhase["send"] = 3 /\ RequestPhase["request"] = 4
  /\ DOMAIN RequestPhase = Loops
BY SMTT(30) DEF Phase, RequestPhase, Loops

\* A larger index leaves less to do.
LEMMA LessLeft ==
  ASSUME NEW n \in Int, NEW a \in Int, NEW b \in Int, b > a
  PROVE  n - b < n - a
BY SMTT(30)

\* The measure comes down with the rounds, or else with the phases.
LEMMA PhaseShrinks ==
  ASSUME MeasureInv, MeasureInv',
         \/ count' > count
         \/ count' = count /\ Phase[pc'] < Phase[pc]
  PROVE  Below(CallLeft', CallLeft)
<1> DEFINE rounds == NumRetries + 1
<1>1. rounds \in Int /\ count \in Int /\ count' \in Int
  BY ChainAssumption, SMTT(30) DEF MeasureInv
<1>2. count' > count => rounds - count' < rounds - count
  <2> HIDE DEF rounds
  <2> QED  BY <1>1, LessLeft, Zenon
<1> DEFINE one == IF Trying /\ pc # "configured" THEN 1 ELSE 0
           step == IF Trying THEN RequestPhase[pc] ELSE 0
<1>3. CallLeft = <<rounds - count, Phase[pc], configs - i, one, Len(Chain) - j, step>>
  BY Zenon DEF CallLeft
<1>4. CallLeft' = <<rounds - count', Phase[pc'], configs' - i', one', Len(Chain) - j', step'>>
  BY Zenon DEF CallLeft
<1>5. \/ rounds - count' < rounds - count
      \/ rounds - count' = rounds - count /\ Phase[pc'] < Phase[pc]
  BY <1>2, Zenon
<1> HIDE DEF rounds, one, step
<1> QED  BY <1>3, <1>4, <1>5, FirstDifference, Zenon

\* The measure comes down with the loops of a round: the configurations, the
\* requests of the chain, or the steps of one.
LEMMA LoopShrinks ==
  ASSUME MeasureInv, MeasureInv', count' = count, pc \in Loops, pc' \in Loops,
         configs' = configs,
         \/ i' > i
         \/ i' = i /\ pc # "configured" /\ pc' = "configured"
         \/ i' = i /\ pc # "configured" /\ pc' # "configured" /\ j' > j
         \/ /\ i' = i /\ pc # "configured" /\ pc' # "configured" /\ j' = j
            /\ RequestPhase[pc'] < RequestPhase[pc]
  PROVE  Below(CallLeft', CallLeft)
<1>1. Phase[pc] = 3 /\ Phase[pc'] = 3  BY Phases, SMTT(30) DEF Loops
<1>2. Trying /\ Trying'  BY Phases, Zenon DEF Trying
<1>3. configs \in Int /\ i \in Int /\ i' \in Int
  BY ChainAssumption, SMTT(30) DEF MeasureInv
<1>4. Len(Chain) \in Int /\ j \in Int /\ j' \in Int
  BY ChainAssumption, SMTT(30) DEF MeasureInv
<1>5. /\ i' > i => configs' - i' < configs - i
      /\ j' > j => Len(Chain) - j' < Len(Chain) - j
  BY <1>3, <1>4, LessLeft, Zenon
<1> DEFINE one == IF Trying /\ pc # "configured" THEN 1 ELSE 0
           step == IF Trying THEN RequestPhase[pc] ELSE 0
<1>6. /\ pc = "configured" => one = 0
      /\ pc # "configured" => one = 1
      /\ pc' = "configured" => one' = 0
      /\ pc' # "configured" => one' = 1
      /\ step = RequestPhase[pc] /\ step' = RequestPhase[pc']
  BY <1>2, Zenon
<1>7. \/ configs' - i' < configs - i
      \/ configs' - i' = configs - i /\ one' < one
      \/ configs' - i' = configs - i /\ one' = one /\ Len(Chain) - j' < Len(Chain) - j
      \/ /\ configs' - i' = configs - i /\ one' = one /\ Len(Chain) - j' = Len(Chain) - j
         /\ step' < step
  <2>1. 0 < 1  BY SMTT(30)
  <2> HIDE DEF one, step
  <2> QED  BY <1>5, <1>6, <2>1, Zenon
<1>8. CallLeft = <<(NumRetries + 1) - count, Phase[pc], configs - i, one, Len(Chain) - j, step>>
  BY Zenon DEF CallLeft
<1>9. CallLeft' = <<(NumRetries + 1) - count', Phase[pc'], configs' - i', one', Len(Chain) - j',
                    step'>>
  BY Zenon DEF CallLeft
<1> HIDE DEF one, step
<1> QED  BY <1>1, <1>7, <1>8, <1>9, FirstDifference, Zenon

\* Each step of a call brings its measure down.
LEMMA RequestShrinks ==
  ASSUME MeasureInv, Request
  PROVE  pc # "idle" /\ MeasureInv' /\ Below(CallLeft', CallLeft)
<1> USE DEF MeasureInv, LoopInv, Goto, loopVars, Return
<1>1. CASE BeginRound \/ DoWaitBetweenRetries \/ DetectProxyConfiguration
  <2>1. pc \in {"loop", "wait", "detect"} /\ pc' \in {"idle", "wait", "detect", "request"}
    BY <1>1, Zenon DEF BeginRound, DoWaitBetweenRetries, DetectProxyConfiguration
  <2>2. MeasureInv'
    BY <1>1, ChainAssumption, SMTT(30)
       DEF BeginRound, DoWaitBetweenRetries, DetectProxyConfiguration, Round, Loops,
           CanRetryRequest
  <2>3. count' = count
    BY <1>1, Zenon DEF BeginRound, DoWaitBetweenRetries, DetectProxyConfiguration
  <2>4. Phase[pc'] < Phase[pc]
    BY <1>1, Phases, SMTT(30) DEF BeginRound, DoWaitBetweenRetries, DetectProxyConfiguration
  <2> QED  BY <2>1, <2>2, <2>3, <2>4, PhaseShrinks, Zenon
<1>2. CASE \/ CheckBeforeSend \/ Send
           \/ \E a \in Answers(j), connected \in BOOLEAN : DoSendHttpRequest(a, connected)
  <2>1. /\ <<pc, pc'>> \in {<<"request", "send">>, <<"request", "answered">>,
                            <<"send", "sending">>, <<"sending", "answered">>}
        /\ UNCHANGED <<count, configs, i, j>>
    BY <1>2, Zenon DEF CheckBeforeSend, Send, DoSendHttpRequest
  <2>2. MeasureInv'  BY <2>1, SMTT(30) DEF Round, Loops
  <2>3. pc \in Loops \ {"configured"} /\ pc' \in Loops \ {"configured"}
    BY <2>1, SMTT(30) DEF Loops
  <2>4. RequestPhase[pc'] < RequestPhase[pc]  BY <2>1, Phases, SMTT(30)
  <2> QED  BY <2>1, <2>2, <2>3, <2>4, LoopShrinks, SMTT(30) DEF Loops
<1>3. CASE DoSendWithConfig
  <2>1. /\ pc = "answered" /\ UNCHANGED <<count, configs, i>>
        /\ \/ pc' = "configured" /\ j' = 1
           \/ pc' = "request" /\ j' = j + 1 /\ j # Len(Chain)
    BY <1>3, Zenon DEF DoSendWithConfig
  <2>2. MeasureInv'  BY <2>1, ChainAssumption, SMTT(30) DEF Round, Loops
  <2>3. pc' = "configured" \/ j' > j  BY <2>1, ChainAssumption, SMTT(30)
  <2>4. pc \in Loops /\ pc' \in Loops  BY <2>1, SMTT(30) DEF Loops
  <2>5. pc # "idle" /\ pc # "configured"  BY <2>1, SMTT(30)
  <2>6. pc' = "configured" \/ pc' # "configured"  OBVIOUS
  <2> QED  BY <2>1, <2>2, <2>3, <2>4, <2>5, <2>6, LoopShrinks, Zenon
<1>4. CASE DoSend
  <2>1. /\ pc = "configured" /\ UNCHANGED <<count, j>>
        /\ \/ pc' = "sent" /\ i' = 1 /\ configs' = 1
           \/ pc' = "request" /\ i' = i + 1 /\ i # configs /\ configs' = configs
    BY <1>4, Zenon DEF DoSend
  <2>2. MeasureInv'  BY <2>1, ChainAssumption, SMTT(30) DEF Round, Loops
  <2>3. pc # "idle"  BY <2>1, SMTT(30)
  <2>4. CASE pc' = "sent"
    <3>1. Phase[pc'] < Phase[pc]  BY <2>1, <2>4, Phases, SMTT(30)
    <3> QED  BY <2>1, <2>2, <2>3, <3>1, PhaseShrinks, Zenon
  <2>5. CASE pc' = "request" /\ i' = i + 1 /\ configs' = configs
    <3>1. i' > i  BY <2>5, ChainAssumption, SMTT(30)
    <3>2. pc \in Loops /\ pc' \in Loops  BY <2>1, <2>5, SMTT(30) DEF Loops
    <3> QED  BY <2>1, <2>2, <2>3, <2>5, <3>1, <3>2, LoopShrinks, Zenon
  <2> QED  BY <2>1, <2>4, <2>5, Zenon
<1>5. CASE EndOfRound
  <2>1. /\ pc = "sent" /\ UNCHANGED <<configs, i, j>>
        /\ \/ pc' = "finish" /\ count' = count
           \/ pc' = "loop" /\ count' = count + 1
    BY <1>5, Zenon DEF EndOfRound
  <2>2. MeasureInv'  BY <2>1, ChainAssumption, SMTT(30) DEF Round, Loops
  <2>3. count' > count \/ (count' = count /\ Phase[pc'] < Phase[pc])
    BY <2>1, Phases, ChainAssumption, SMTT(30)
  <2>4. pc # "idle"  BY <2>1, SMTT(30)
  <2> QED  BY <2>2, <2>3, <2>4, PhaseShrinks, Zenon
<1>6. CASE Finish
  <2>1. pc \in {"finish", "loop"} /\ pc' = "idle" /\ UNCHANGED <<count, configs, i, j>>
    BY <1>6, Zenon DEF Finish
  <2>2. MeasureInv'  BY <2>1, SMTT(30) DEF Round, Loops
  <2>3. Phase[pc'] < Phase[pc]  BY <2>1, Phases, SMTT(30)
  <2>4. pc # "idle"  BY <2>1, SMTT(30)
  <2> QED  BY <2>1, <2>2, <2>3, <2>4, PhaseShrinks, Zenon
<1> QED  BY <1>1, <1>2, <1>3, <1>4, <1>5, <1>6, Zenon DEF Request

\* What a call does not change when another thread is at work.
LEMMA OthersWait ==
  ASSUME MeasureInv, Cancel \/ UNCHANGED vars
  PROVE  MeasureInv' /\ CallLeft' = CallLeft
<1>1. UNCHANGED <<pc, count, configs, i, j>>
  BY Zenon DEF Cancel, CancelFlag, CancelEvent, CancelRequest, loopVars, vars
<1> QED  BY <1>1, Zenon DEF MeasureInv, LoopInv, CallLeft, Trying

\* Post begins a call.
LEMMA PostMeasured ==
  ASSUME MeasureInv, Post
  PROVE  pc = "idle" /\ MeasureInv'
<1>1. pc = "idle" /\ pc' = "loop" /\ count' = 0 /\ UNCHANGED <<configs, i, j>>
  BY Zenon DEF Post, Goto
<1> QED  BY <1>1, ChainAssumption, SMTT(30) DEF MeasureInv, LoopInv, Round, Loops

\* A step, as RequestEnds describes it.
MeasuredStep ==
  /\ CallLeft' \in Measure(6)
  /\ pc # "idle" => IF Request THEN Below(CallLeft', CallLeft) ELSE CallLeft' = CallLeft

\* The same of every step that changes something.
LEMMA MeasuredForm == RequestEnds <=> [][MeasuredStep]_vars
BY DEF RequestEnds, MeasuredStep

\* A call of a network request, with http requests that fail as they like and a
\* Cancel at any moment, ends after finitely many of its steps: RequestEnds, for
\* every chain, every number of configurations and every number of retries
\* (DoSendWithRetries, DoSend and DoSendWithConfig).
THEOREM RequestEndsTheorem == Spec => RequestEnds
<1>1. Init => MeasureInv
  BY ChainAssumption, SMTT(30) DEF Init, MeasureInv, LoopInv, Round, Loops
<1>2. (MeasureInv => CallLeft \in Measure(6))'
  BY CallMeasured, PTL
<1>3. MeasureInv /\ [Next]_vars => MeasureInv' /\ [MeasuredStep]_vars
  BY <1>2, RequestShrinks, OthersWait, PostMeasured, Zenon DEF Next, MeasuredStep
<1> QED  BY <1>1, <1>3, MeasuredForm, PTL DEF Spec

\* The same of two numbers.
LEMMA FirstOfTwo ==
  ASSUME NEW a \in Nat, NEW b \in Nat, NEW a1 \in Nat, NEW b1 \in Nat,
         a1 < a \/ (a1 = a /\ b1 < b)
  PROVE  Below(<<a1, b1>>, <<a, b>>)
<1> DEFINE s == <<a1, b1>>
           t == <<a, b>>
<1>1. DOMAIN t = 1..2 /\ s[1] = a1 /\ s[2] = b1 /\ t[1] = a /\ t[2] = b  BY SMTT(30)
<1> HIDE DEF s, t
<1>2. PICK k \in 1..2 : s[k] < t[k] /\ (k > 1 => s[1] = t[1])  BY <1>1, SMTT(30)
<1>3. \A m \in 1..(k - 1) : s[m] = t[m]  BY <1>2, SMTT(30)
<1>4. Below(s, t)  BY <1>1, <1>2, <1>3, SMTT(30) DEF Below
<1> QED  BY <1>4 DEF s, t

\* Where the phases of Send stand.
LEMMA ClientPhases ==
  /\ ClientPhase["idle"] = 0 /\ ClientPhase["posting"] = 1 /\ ClientPhase["post"] = 2
  /\ ClientPhase["creating"] = 3 /\ ClientPhase["create"] = 4
BY SMTT(30) DEF ClientPhase

\* What the measure of Send needs.
ClientInv ==
  /\ wpc \in {"idle", "posting", "post", "creating", "create"} /\ fallback \in BOOLEAN
  /\ MeasureInv

\* The measure is one.
LEMMA SendMeasured == ClientInv => SendLeft \in Measure(2) /\ CallLeft \in Measure(6)
<1> SUFFICES ASSUME ClientInv PROVE SendLeft \in Measure(2)
  BY CallMeasured, Zenon DEF ClientInv
<1>1. ClientPhase[wpc] \in Nat  BY ClientPhases, SMTT(30) DEF ClientInv
<1>2. (IF fallback THEN 0 ELSE 1) \in Nat  BY SMTT(30)
<1> QED  BY <1>1, <1>2, SMTT(30) DEF SendLeft, Measure

\* The measure of Send comes down with the attempts, or else with their parts.
LEMMA AttemptShrinks ==
  ASSUME ClientInv, ClientInv',
         \/ fallback' /\ ~fallback
         \/ fallback' = fallback /\ ClientPhase[wpc'] < ClientPhase[wpc]
  PROVE  Below(SendLeft', SendLeft)
<1> DEFINE left == IF fallback THEN 0 ELSE 1
<1>1. ClientPhase[wpc] \in Nat /\ ClientPhase[wpc'] \in Nat
  BY ClientPhases, SMTT(30) DEF ClientInv
<1>2. left \in Nat /\ left' \in Nat  BY SMTT(30)
<1>3. 0 < 1  BY SMTT(30)
<1>4. left' < left \/ (left' = left /\ ClientPhase[wpc'] < ClientPhase[wpc])
  <2>1. fallback' /\ ~fallback => left' = 0 /\ left = 1  BY Zenon
  <2>2. ASSUME fallback' = fallback PROVE left' = left
    <3>1. (fallback => left = 0) /\ (~fallback => left = 1)  BY Zenon
    <3>2. (fallback' => left' = 0) /\ (~fallback' => left' = 1)  BY Zenon
    <3> HIDE DEF left
    <3> QED  BY <2>2, <3>1, <3>2, Zenon
  <2> HIDE DEF left
  <2> QED  BY <1>3, <2>1, <2>2, Zenon
<1>5. SendLeft = <<left, ClientPhase[wpc]>> /\ SendLeft' = <<left', ClientPhase[wpc']>>
  BY Zenon DEF SendLeft
<1> HIDE DEF left
<1> QED  BY <1>1, <1>2, <1>4, <1>5, FirstOfTwo, Zenon

\* The fallback is tried once.
LEMMA AttemptEnds ==
  ASSUME ClientInv, NEW hr, NEW retry, AttemptReturns(hr, retry)
  PROVE  /\ wpc' \in {"idle", "create"} /\ fallback' \in BOOLEAN
         /\ \/ fallback' /\ ~fallback
            \/ fallback' = fallback /\ wpc' = "idle"
BY Zenon DEF ClientInv, AttemptReturns, WGoto

\* Each step of Send brings its measure down, or that of its call.
LEMMA ClientShrinks ==
  ASSUME ClientInv, Client
  PROVE  /\ ClientInv'
         /\ \/ Below(SendLeft', SendLeft)
            \/ SendLeft' = SendLeft /\ Below(CallLeft', CallLeft)
<1> DEFINE kept == UNCHANGED <<pc, count, configs, i, j>>
           closer == \/ fallback' /\ ~fallback
                     \/ fallback' = fallback /\ ClientPhase[wpc'] < ClientPhase[wpc]
<1>1. kept => MeasureInv'  BY Zenon DEF ClientInv, MeasureInv, LoopInv
<1>2. CASE DeleteRequest
  <2>1. wpc = "create" /\ wpc' = "creating" /\ fallback' = fallback /\ kept
    BY <1>2, Zenon DEF DeleteRequest, WGoto, loopVars
  <2>2. ClientPhase[wpc'] < ClientPhase[wpc]  BY <2>1, ClientPhases, SMTT(30)
  <2>3. ClientInv'  BY <1>1, <2>1, Zenon DEF ClientInv
  <2> QED  BY <2>1, <2>2, <2>3, AttemptShrinks, Zenon
<1>3. CASE CreateRequest
  <2>1. kept /\ wpc = "creating"  BY <1>3, Zenon DEF CreateRequest, loopVars
  <2>2. CASE wpc' = "post" /\ fallback' = fallback
    <3>1. ClientPhase[wpc'] < ClientPhase[wpc]  BY <2>1, <2>2, ClientPhases, SMTT(30)
    <3>2. ClientInv'  BY <1>1, <2>1, <2>2, Zenon DEF ClientInv
    <3> QED  BY <2>2, <3>1, <3>2, AttemptShrinks, Zenon
  <2>3. CASE AttemptReturns("no_config", retryAfterSec)
    <3>1. closer
      <4>1. ClientPhase["idle"] < ClientPhase["creating"]  BY ClientPhases, SMTT(30)
      <4> QED  BY <2>1, <2>3, <4>1, AttemptEnds, Zenon
    <3>2. ClientInv'  BY <1>1, <2>1, <2>3, AttemptEnds, Zenon DEF ClientInv
    <3> QED  BY <3>1, <3>2, AttemptShrinks, Zenon
  <2> QED  BY <1>3, <2>2, <2>3, Zenon DEF CreateRequest, WGoto
<1>4. CASE PostUtf8String
  <2>1. wpc = "post" /\ wpc' = "posting" /\ fallback' = fallback /\ Post
    BY <1>4, Zenon DEF PostUtf8String, WGoto, clientVars
  <2>2. ClientPhase[wpc'] < ClientPhase[wpc]  BY <2>1, ClientPhases, SMTT(30)
  <2>3. MeasureInv'  BY <2>1, PostMeasured, Zenon DEF ClientInv
  <2>4. ClientInv'  BY <2>1, <2>3, Zenon DEF ClientInv
  <2> QED  BY <2>1, <2>2, <2>4, AttemptShrinks, Zenon
<1>5. CASE RequestStep
  <2>1. Request /\ UNCHANGED <<wpc, fallback>>  BY <1>5, Zenon DEF RequestStep
  <2>2. MeasureInv' /\ Below(CallLeft', CallLeft)  BY <2>1, RequestShrinks, Zenon DEF ClientInv
  <2>3. ClientInv'  BY <2>1, <2>2, Zenon DEF ClientInv
  <2>4. SendLeft' = SendLeft  BY <2>1, Zenon DEF SendLeft
  <2> QED  BY <2>2, <2>3, <2>4, Zenon
<1>6. CASE SendStringInternal
  <2>1. kept /\ wpc = "posting"  BY <1>6, Zenon DEF SendStringInternal, vars, loopVars
  <2>2. PICK hr : AttemptReturns(hr, RetryAfterOfResponse)
    BY <1>6, Zenon DEF SendStringInternal
  <2>3. closer
    <3>1. ClientPhase["idle"] < ClientPhase["posting"]  BY ClientPhases, SMTT(30)
    <3> QED  BY <2>1, <2>2, <3>1, AttemptEnds, Zenon
  <2>4. ClientInv'  BY <1>1, <2>1, <2>2, AttemptEnds, Zenon DEF ClientInv
  <2> QED  BY <2>3, <2>4, AttemptShrinks, Zenon
<1> QED  BY <1>2, <1>3, <1>4, <1>5, <1>6, Zenon DEF Client

\* What other threads leave of Send.
LEMMA ClientWaits ==
  ASSUME ClientInv, WCancel \/ WCancelStep \/ UNCHANGED wvars
  PROVE  ClientInv' /\ UNCHANGED <<SendLeft, CallLeft>>
<1>1. UNCHANGED <<wpc, fallback, pc, count, configs, i, j>>
  BY Zenon DEF WCancel, WCancelStep, CancelFlag, CancelEvent, CancelRequest, loopVars, vars,
               wvars, clientVars
<1> QED
  BY <1>1, Zenon DEF ClientInv, MeasureInv, LoopInv, SendLeft, CallLeft, Trying

\* Send begins.
LEMMA SendBegins ==
  ASSUME ClientInv, WSend
  PROVE  wpc = "idle" /\ ClientInv'
<1>1. /\ wpc = "idle" /\ wpc' \in {"create", "idle"} /\ fallback' = FALSE
      /\ UNCHANGED <<pc, count, configs, i, j>>
  BY Zenon DEF WSend, WGoto, vars, loopVars
<1> QED  BY <1>1, Zenon DEF ClientInv, MeasureInv, LoopInv

\* A step, as ClientEnds describes it.
ClientStep ==
  /\ SendLeft' \in Measure(2) /\ CallLeft' \in Measure(6)
  /\ wpc # "idle" =>
       IF Client THEN \/ Below(SendLeft', SendLeft)
                      \/ SendLeft' = SendLeft /\ Below(CallLeft', CallLeft)
       ELSE UNCHANGED <<SendLeft, CallLeft>>

\* The same of every step that changes something.
LEMMA ClientForm == ClientEnds <=> [][ClientStep]_wvars
BY DEF ClientEnds, ClientStep

\* Send of the web services client ends after finitely many steps of its thread,
\* with at most one fallback from https to http, whatever its network requests
\* answer and whatever Cancel does: ClientEnds, for every chain and every number of
\* retries (SendStringWithFallback, SendStringInternal).
THEOREM ClientEndsTheorem == WSpec => ClientEnds
<1>1. Init => MeasureInv
  BY ChainAssumption, SMTT(30) DEF Init, MeasureInv, LoopInv, Round, Loops
<1>2. WInit => ClientInv
  BY <1>1, Zenon DEF WInit, ClientInv
<1>3. (ClientInv => SendLeft \in Measure(2) /\ CallLeft \in Measure(6))'
  BY SendMeasured, PTL
<1>4. ClientInv /\ [WNext]_wvars => ClientInv' /\ [ClientStep]_wvars
  BY <1>3, ClientShrinks, ClientWaits, SendBegins, Zenon DEF WNext, ClientStep
<1> QED  BY <1>2, <1>4, ClientForm, PTL DEF WSpec

-----------------------------------------------------------------------------
(* The requests of the chain *)

\* What a network request expects of a WinHTTP request, cancelled or not, is what
\* HttpRequest promises and SimpleRequest implements, no less and no more
\* (network_request_impl.cc, DoSendHttpRequest; http_request.h).
LEMMA AnswersAsPromised == AnswersPromised
<1>1. ASSUME NEW n \in 1..Len(Chain), Chain[n] = "winhttp"
      PROVE  {a.hr : a \in Answers(n)} = Http(n)!Results(n \in requestCanceled)
  <2>1. CASE n \in requestCanceled
    <3>1. Answers(n) = [hr : {"cancelled", "fail"}, status : {0}, retry : {FALSE}]
      BY <2>1, Zenon DEF Answers
    <3>2. \A a \in Answers(n) : a.hr \in {"cancelled", "fail"}  BY <3>1, SMTT(30)
    <3>3. \A h \in {"cancelled", "fail"} :
            /\ [hr |-> h, status |-> 0, retry |-> FALSE] \in Answers(n)
            /\ [hr |-> h, status |-> 0, retry |-> FALSE].hr = h
      BY <3>1, SMTT(30)
    <3>4. {a.hr : a \in Answers(n)} = {"cancelled", "fail"}  BY <3>2, <3>3, Zenon
    <3>5. Http(n)!Results(n \in requestCanceled) = {"cancelled", "fail"}
      BY <2>1, SMTT(30) DEF Http!Results
    <3> QED  BY <3>4, <3>5, Zenon
  <2>2. CASE n \notin requestCanceled
    <3>1. Answers(n) = [hr : {"ok"}, status : Statuses, retry : BOOLEAN]
                       \cup [hr : {"fail"}, status : Statuses \cup {0}, retry : {FALSE}]
                       \cup {}
      BY <1>1, <2>2, SMTT(30) DEF Answers
    <3>2. ASSUME NEW a \in Answers(n) PROVE a.hr \in {"ok", "fail"}
      <4>1. CASE a \in [hr : {"ok"}, status : Statuses, retry : BOOLEAN]
        BY <4>1, SMTT(30)
      <4>2. CASE a \in [hr : {"fail"}, status : Statuses \cup {0}, retry : {FALSE}]
        BY <4>2, SMTT(30)
      <4> QED  BY <3>1, <4>1, <4>2, Zenon
    <3>3. PICK s : s \in Statuses  BY ChainAssumption, Zenon
    <3>4. \A h \in {"ok", "fail"} :
            /\ [hr |-> h, status |-> s, retry |-> FALSE] \in Answers(n)
            /\ [hr |-> h, status |-> s, retry |-> FALSE].hr = h
      BY <3>1, <3>3, SMTT(30)
    <3>5. {a.hr : a \in Answers(n)} = {"ok", "fail"}  BY <3>2, <3>4, Zenon
    <3>6. Http(n)!Results(n \in requestCanceled) = {"ok", "fail"}
      BY <2>2, SMTT(30) DEF Http!Results
    <3> QED  BY <3>5, <3>6, Zenon
  <2> QED  BY <2>1, <2>2, Zenon
<1> QED  BY <1>1, Zenon DEF AnswersPromised
=============================================================================
