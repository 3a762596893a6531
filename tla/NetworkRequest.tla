--------------------------- MODULE NetworkRequest ---------------------------
(* A network request: one thread calls Post, Get or DownloadFile, again and  *)
(* again if it has several URLs; another may call Cancel once, at any time.  *)
(* A call makes rounds with a growing delay between them; a round tries the  *)
(* proxy configurations, and each of them the chain of http requests.        *)
EXTENDS Integers, Sequences, Measures

CONSTANTS Chain,           \* http_request_chain_: a sequence of "bits", "winhttp"
          Configs,         \* the most proxy configurations that are detected
          NumRetries,      \* num_retries_
          InitialDelay, ServerErrDelay, MaxDelay, Jitter,  \* in a unit of time
          IntMax,
          Statuses,        \* http status codes a server answers with
          MaxCalls,        \* bound on the calls of one request object
          Faults           \* subset of {"wait"}

ASSUME DelayAssumption ==
  /\ InitialDelay \in Nat /\ ServerErrDelay \in Nat /\ MaxDelay \in Nat /\ Jitter \in Nat
  /\ Jitter < InitialDelay /\ InitialDelay <= MaxDelay /\ ServerErrDelay <= MaxDelay
  /\ IntMax \in Nat /\ 2 * MaxDelay + 2 * Jitter <= IntMax

ASSUME ChainAssumption ==
  /\ Chain \in Seq({"bits", "winhttp"}) /\ Len(Chain) > 0
  /\ Chain[Len(Chain)] = "winhttp"
  /\ Configs \in Nat \ {0} /\ NumRetries \in Nat /\ MaxCalls \in Nat
  /\ Statuses \subseteq 100..599 /\ Statuses # {}

VARIABLES pc, calls, https,
          count, delay, retryAfter,      \* members of the request
          configs, i, j,                 \* indices of the two loops
          last,                          \* hr and response of the request at hand
          chainError, configError,       \* the errors the loops have saved
          published,                     \* what the call has left for its caller
          isCanceled, eventCancel, requestCanceled,
          canceller,                     \* the other thread, in Cancel
          lateSends, firstError  \* history

callVars == <<calls, https>>
loopVars == <<count, delay, retryAfter, configs, i, j, last, chainError, configError>>
cancelVars == <<isCanceled, eventCancel, requestCanceled, canceller>>
history == <<lateSends, firstError>>
vars == <<pc, callVars, loopVars, published, cancelVars, history>>

Outcomes == {"ok", "fail", "http", "no_network", "bits_disabled", "cancelled",
             "unexpected", "exceeded", "wait_failed"}
Nothing == [hr |-> "ok", status |-> 0, retry |-> FALSE]
NoError == Nothing

Init ==
  /\ pc = "idle" /\ calls = 0 /\ https = FALSE
  /\ count = 0 /\ delay = InitialDelay /\ retryAfter = FALSE
  /\ configs = 1 /\ i = 1 /\ j = 1
  /\ last = Nothing /\ chainError = NoError /\ configError = NoError
  /\ published = Nothing
  /\ isCanceled = FALSE /\ eventCancel = FALSE /\ requestCanceled = {}
  /\ canceller = "idle"
  /\ lateSends = 0 /\ firstError = NoError

Failed(r) == r.hr # "ok"
Goto(place) == pc' = place

-----------------------------------------------------------------------------
(* The http requests at the end of the chain *)

\* A request that was cancelled says so, unless it fails before it looks.  Only
\* WinHTTP lets its caller see headers.
Answers(n) ==
  IF n \in requestCanceled
  THEN [hr : {"cancelled", "fail"}, status : {0}, retry : {FALSE}]
  ELSE [hr : {"ok"}, status : Statuses, retry : IF Chain[n] = "bits" THEN {FALSE} ELSE BOOLEAN]
       \cup [hr : {"fail"}, status : Statuses \cup {0}, retry : {FALSE}]
       \cup IF Chain[n] = "bits" THEN [hr : {"bits_disabled"}, status : {0}, retry : {FALSE}]
            ELSE {}

Success(status) == status \in {200, 204, 206, 304}
ClientError(status) == status \in 400..499
ServerError(status) == status \in 500..599

-----------------------------------------------------------------------------
(* Calls *)

\* Bug variant: Reset clears the cancellation as well.
PostClearsCancel ==
  /\ pc = "idle" /\ calls < MaxCalls /\ calls' = calls + 1
  /\ https' \in BOOLEAN
  /\ count' = 0 /\ delay' = InitialDelay /\ retryAfter' = FALSE
  /\ last' = Nothing /\ published' = Nothing
  /\ firstError' = NoError
  /\ isCanceled' = FALSE /\ eventCancel' = FALSE
  /\ Goto("loop")
  /\ UNCHANGED <<configs, i, j, chainError, configError, requestCanceled, canceller,
                 lateSends>>

\* Post, Get and DownloadFile: Reset clears everything but the cancellation.
Post ==
  /\ pc = "idle" /\ calls < MaxCalls /\ calls' = calls + 1
  /\ https' \in BOOLEAN
  /\ count' = 0 /\ delay' = InitialDelay /\ retryAfter' = FALSE
  /\ last' = Nothing /\ published' = Nothing
  /\ firstError' = NoError
  /\ Goto("loop")
  /\ UNCHANGED <<configs, i, j, chainError, configError, cancelVars, lateSends>>

\* Bug variant: only the number of rounds is limited.
CanRetryAnyDelay == count <= NumRetries

CanRetryRequest == count <= NumRetries /\ delay <= MaxDelay

Return(hr, response) ==
  /\ Goto("idle")
  /\ published' = [response EXCEPT !.hr = hr]
  /\ UNCHANGED <<callVars, loopVars, cancelVars, history>>

\* The head of the loop of DoSendWithRetries.
BeginRound ==
  /\ pc = "loop" /\ CanRetryRequest
  /\ \/ eventCancel /\ Return("cancelled", Nothing)
     \/ /\ ~eventCancel /\ Goto(IF count = 0 THEN "detect" ELSE "wait")
        /\ UNCHANGED <<callVars, loopVars, published, cancelVars, history>>

DoWaitBetweenRetries ==
  /\ pc = "wait"
  /\ \/ eventCancel /\ Return("cancelled", Nothing)
     \/ "wait" \in Faults /\ Return("wait_failed", Nothing)
     \/ /\ ~eventCancel /\ Goto("detect")
        /\ UNCHANGED <<callVars, loopVars, published, cancelVars, history>>

DetectProxyConfiguration ==
  /\ pc = "detect"
  /\ configs' \in 1..Configs
  /\ firstError' = NoError
  /\ Goto("request")
  /\ UNCHANGED <<callVars, count, delay, retryAfter, i, j, last, chainError,
                 configError, published, cancelVars, lateSends>>

\* Bug variant: the event is not looked at.
SendUnchecked ==
  /\ pc = "request" /\ Goto("send")
  /\ UNCHANGED <<callVars, loopVars, published, cancelVars, history>>

\* DoSendHttpRequest looks at the event and then calls Send.
CheckBeforeSend ==
  /\ pc = "request"
  /\ \/ eventCancel /\ last' = [last EXCEPT !.hr = "cancelled"] /\ Goto("answered")
     \/ ~eventCancel /\ UNCHANGED last /\ Goto("send")
  /\ UNCHANGED <<callVars, count, delay, retryAfter, configs, i, j, chainError,
                 configError, published, cancelVars, history>>

Send ==
  /\ pc = "send" /\ Goto("sending")
  /\ lateSends' = IF canceller \in {"chain", "done"} THEN lateSends + 1 ELSE lateSends
  /\ UNCHANGED <<callVars, loopVars, published, cancelVars, firstError>>

\* What DoSendHttpRequest makes of an answer.
ResultOf(a, connected) ==
  IF a.hr = "ok" THEN IF Success(a.status) THEN "ok" ELSE "http"
  ELSE IF connected THEN a.hr ELSE "no_network"

DoSendHttpRequest(a, connected) ==
  /\ pc = "sending" /\ Goto("answered")
  /\ last' = IF a.hr = "cancelled" THEN [last EXCEPT !.hr = "cancelled"]
             ELSE [a EXCEPT !.hr = ResultOf(a, connected)]
  /\ retryAfter' = (retryAfter \/ (https /\ a.retry))
  /\ firstError' = IF i = 1 /\ ~Failed(firstError) /\ last'.hr # "bits_disabled"
                   THEN last' ELSE firstError
  /\ UNCHANGED <<callVars, count, delay, configs, i, j, chainError, configError,
                 published, cancelVars, lateSends>>

\* The tail of the loops over the chain and over the configurations; none of it
\* looks at what Cancel does.  Locals are cleared where they die.
Final(r) == r.hr \in {"ok", "cancelled"}

\* Bug variant: the last error of the chain is saved, not the first.
FirstActiveErrorIsLast ==
  IF Failed(last) /\ last.hr # "bits_disabled" THEN last ELSE chainError

FirstActiveError ==
  IF ~Failed(chainError) /\ Failed(last) /\ last.hr # "bits_disabled"
  THEN last ELSE chainError

DoSendWithConfig ==
  /\ pc = "answered"
  /\ IF Final(last) \/ last.status = 404 \/ retryAfter \/ j = Len(Chain)
     THEN /\ Goto("configured") /\ j' = 1 /\ chainError' = NoError
          /\ last' = IF Final(last) THEN last
                     ELSE IF Failed(FirstActiveError) THEN FirstActiveError
                     ELSE [last EXCEPT !.hr = "unexpected"]
     ELSE /\ Goto("request") /\ j' = j + 1 /\ chainError' = FirstActiveError
          /\ UNCHANGED last
  /\ UNCHANGED <<callVars, count, delay, retryAfter, configs, i, configError,
                 published, cancelVars, history>>

DoSend ==
  LET done == Final(last) \/ last.hr = "bits_disabled"
      error == IF i = 1 /\ Failed(last) THEN last ELSE configError
  IN  /\ pc = "configured"
      /\ IF done \/ last.status = 404 \/ retryAfter \/ i = configs
         THEN /\ Goto("sent") /\ i' = 1 /\ configs' = 1 /\ configError' = NoError
              /\ last' = IF done THEN last ELSE error
         ELSE /\ Goto("request") /\ i' = i + 1 /\ configError' = error
              /\ UNCHANGED <<configs, last>>
      /\ UNCHANGED <<callVars, count, delay, retryAfter, j, chainError, published,
                     cancelVars, history>>

\* The delays ComputeNextRetryDelay may choose.
NextDelays(status) ==
  LET d == IF ServerError(status) /\ delay < ServerErrDelay THEN ServerErrDelay ELSE delay
  IN  IF d > IntMax \div 2 THEN {MaxDelay}
      ELSE IF Jitter > 0 /\ 2 * d >= Jitter
           THEN {2 * d + n - Jitter : n \in 0..(2 * Jitter - 1)}
           ELSE {2 * d}

\* The end of a round, in DoSendWithRetries.
EndOfRound ==
  /\ pc = "sent"
  /\ IF Final(last) \/ ClientError(last.status) \/ retryAfter
     THEN Goto("finish") /\ UNCHANGED <<count, delay>>
     ELSE Goto("loop") /\ delay' \in NextDelays(last.status) /\ count' = count + 1
  /\ UNCHANGED <<callVars, retryAfter, configs, i, j, last, chainError, configError,
                 published, cancelVars, history>>

\* What follows the loop: a cancellation overrides even a success.
Finish ==
  /\ pc = "finish" \/ (pc = "loop" /\ ~CanRetryRequest)
  /\ \/ isCanceled /\ Return("cancelled", Nothing)
     \/ ~isCanceled /\ delay > MaxDelay /\ Return("exceeded", Nothing)
     \/ ~isCanceled /\ delay <= MaxDelay /\ Return(last.hr, last)

-----------------------------------------------------------------------------
(* Cancel, on another thread *)

CancelFlag ==
  /\ canceller = "idle" /\ canceller' = "event"
  /\ isCanceled' = TRUE
  /\ UNCHANGED <<pc, callVars, loopVars, published, eventCancel, requestCanceled, history>>

CancelEvent ==
  /\ canceller = "event" /\ canceller' = "chain"
  /\ eventCancel' = TRUE
  /\ UNCHANGED <<pc, callVars, loopVars, published, isCanceled, requestCanceled, history>>

\* Cancels the requests of the chain in their order.
CancelRequest(n) ==
  /\ canceller = "chain" /\ requestCanceled = 1..(n - 1)
  /\ requestCanceled' = requestCanceled \cup {n}
  /\ canceller' = IF n = Len(Chain) THEN "done" ELSE "chain"
  /\ UNCHANGED <<pc, callVars, loopVars, published, isCanceled, eventCancel, history>>

Cancel == CancelFlag \/ CancelEvent \/ \E n \in 1..Len(Chain) : CancelRequest(n)

Request ==
  \/ BeginRound \/ DoWaitBetweenRetries \/ DetectProxyConfiguration
  \/ CheckBeforeSend \/ Send
  \/ \E a \in Answers(j), connected \in BOOLEAN : DoSendHttpRequest(a, connected)
  \/ DoSendWithConfig \/ DoSend \/ EndOfRound \/ Finish

Next == Post \/ Request \/ Cancel

Spec == Init /\ [][Next]_vars

-----------------------------------------------------------------------------
(* Properties *)

Responses == [hr : Outcomes, status : Statuses \cup {0}, retry : BOOLEAN]

\* Every variable keeps its type: the counter never passes the number of
\* retries and the two loops never leave their lists.
TypeOK ==
  /\ pc \in {"idle", "loop", "wait", "detect", "request", "send", "sending",
             "answered", "configured", "sent", "finish"}
  /\ calls \in 0..MaxCalls /\ https \in BOOLEAN
  /\ count \in 0..(NumRetries + 1) /\ delay \in Nat /\ retryAfter \in BOOLEAN
  /\ configs \in 1..Configs /\ i \in 1..configs /\ j \in 1..Len(Chain)
  /\ {last, chainError, configError, published, firstError} \subseteq Responses
  /\ isCanceled \in BOOLEAN /\ eventCancel \in BOOLEAN
  /\ requestCanceled \subseteq 1..Len(Chain)
  /\ canceller \in {"idle", "event", "chain", "done"}
  /\ lateSends \in Nat

\* Once Cancel has signalled its event, at most the one http request whose check
\* came before it is still sent, however many calls the request object is used
\* for afterwards: Reset leaves the cancellation in place.
AtMostOneLateSend == lateSends <= 1

Returns == pc # "idle" /\ pc' = "idle"

\* A call that returns after Cancel has begun says that it was cancelled, even
\* if its transfer has succeeded, and no other call says so (a failing wait is
\* reported as what it is).
CancelWins ==
  [][Returns /\ published'.hr # "wait_failed" =>
       (published'.hr = "cancelled" <=> canceller # "idle")]_vars

\* What a call reports: a success comes with a status of success; an error is
\* that of the preferred configuration and of its first request that is not
\* disabled, in the last round, with the response that belongs to it.
ReportsFirstError ==
  [][Returns /\ published'.hr \notin {"cancelled", "exceeded", "wait_failed"} =>
       \/ published'.hr = "ok" /\ Success(published'.status)
       \/ published'.hr # "ok" /\ published' = firstError]_vars

\* The delays between rounds are positive, within the limit when they are
\* waited for, and double without overflow.
DelayInRange ==
  /\ delay > 0 /\ delay <= IntMax
  /\ pc = "wait" => delay <= MaxDelay
  /\ pc = "sent" => delay <= IntMax \div 2

\* Every wait of a call is longer than the one before, jitter or not.
BackoffGrows == [][pc = "sent" /\ pc' = "loop" => delay' > delay]_vars

\* A request of the chain, as NetworkRequest uses it.
Http(n) == INSTANCE HttpRequest WITH
  state <- IF pc = "sending" /\ j = n THEN "sending" ELSE "idle",
  canceled <- n \in requestCanceled, result <- last.hr

\* A call expects of a WinHTTP request exactly what HttpRequest promises.
AnswersPromised ==
  \A n \in 1..Len(Chain) :
    Chain[n] = "winhttp" => {a.hr : a \in Answers(n)} = Http(n)!Results(n \in requestCanceled)

\* How far a call is from its end: the rounds, the parts of a round, the
\* configurations, whether the chain is still tried, its requests, and the steps
\* of a request.
Phase ==
  [idle |-> 0, finish |-> 1, sent |-> 2, configured |-> 3, answered |-> 3, sending |-> 3,
   send |-> 3, request |-> 3, detect |-> 4, wait |-> 5, loop |-> 6]
RequestPhase == [configured |-> 0, answered |-> 1, sending |-> 2, send |-> 3, request |-> 4]

Trying == pc \in DOMAIN RequestPhase
CallLeft ==
  <<(NumRetries + 1) - count, Phase[pc], configs - i,
    IF Trying /\ pc # "configured" THEN 1 ELSE 0, Len(Chain) - j,
    IF Trying THEN RequestPhase[pc] ELSE 0>>

\* A call ends after finitely many of its steps, whatever the http requests answer
\* and whatever Cancel does meanwhile: each step brings the measure down, in
\* DoSendWithRetries, DoSend and DoSendWithConfig, and Cancel leaves it.
RequestEnds ==
  [][/\ CallLeft' \in Measure(6)
     /\ pc # "idle" => IF Request THEN Below(CallLeft', CallLeft) ELSE CallLeft' = CallLeft]_vars
=============================================================================
