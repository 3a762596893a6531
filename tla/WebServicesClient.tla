------------------------- MODULE WebServicesClient --------------------------
(* The client of the web services on top of NetworkRequest: every attempt    *)
(* has a request object of its own, and after an https attempt that failed   *)
(* one over http may follow.  Cancel runs on another thread without the lock *)
(* of the client and finds the request object of the moment, if any.         *)
EXTENDS NetworkRequest

CONSTANTS OriginalHttps,  \* the url the client was initialized with is https
          MaxSends,       \* bound on the calls of Send
          ClientFaults    \* subset of {"network", "config", "parse"}

VARIABLES wpc, sends, encrypted, fallback,
          hasRequest,      \* network_request_ is not NULL
          retryAfterSec,   \* retry_after_sec_ > 0
          firstHr,         \* hr of SendStringWithFallback
          result,
          cancelled,       \* Cancel was called
          httpsRetry       \* history: this Send was answered with X-Retry-After over https

clientVars == <<sends, encrypted, fallback, hasRequest, retryAfterSec, firstHr, result,
                cancelled, httpsRetry>>
wvars == <<vars, wpc, clientVars>>

WInit ==
  /\ Init
  /\ wpc = "idle" /\ sends = 0 /\ encrypted = FALSE /\ fallback = FALSE
  /\ hasRequest = FALSE /\ retryAfterSec = FALSE
  /\ firstHr = "none" /\ result = "none"
  /\ cancelled = FALSE /\ httpsRetry = FALSE

WGoto(place) == wpc' = place

\* The url of the attempt at hand.
ActualHttps == OriginalHttps /\ ~fallback

\* Send; a request with a tt_token must be encrypted.
WSend ==
  /\ wpc = "idle" /\ sends < MaxSends /\ sends' = sends + 1
  /\ \/ /\ WGoto("create") /\ result' = "none"
        /\ encrypted' \in BOOLEAN
     \/ /\ "network" \in ClientFaults
        /\ WGoto("idle") /\ result' = "cannot_use_network" /\ UNCHANGED encrypted
  /\ fallback' = FALSE /\ firstHr' = "none" /\ httpsRetry' = FALSE
  /\ UNCHANGED <<vars, hasRequest, retryAfterSec, cancelled>>

\* CreateRequest deletes the old request object first.  A Cancel that is at work
\* on it has no effect any more.
DeleteRequest ==
  /\ wpc = "create" /\ WGoto("creating")
  /\ hasRequest' = FALSE
  /\ canceller' = IF canceller \in {"event", "chain"} THEN "done" ELSE canceller
  /\ UNCHANGED <<pc, callVars, loopVars, published, isCanceled, eventCancel,
                 requestCanceled, history, sends, encrypted, fallback, retryAfterSec,
                 firstHr, result, cancelled, httpsRetry>>

FallbackAllowed(hr, retry) ==
  ~retry /\ hr # "cancelled" /\ OriginalHttps /\ ~encrypted

\* Bug variant: the fallback is an attempt like any other.
AttemptReturnsAgain(hr, retry) ==
  LET first == IF fallback THEN firstHr ELSE hr
  IN  IF hr # "ok" /\ FallbackAllowed(hr, retry)
      THEN WGoto("create") /\ fallback' = TRUE /\ firstHr' = first /\ UNCHANGED result
      ELSE /\ WGoto("idle") /\ UNCHANGED <<fallback, firstHr>>
           /\ result' = IF fallback /\ hr # "ok" THEN firstHr ELSE hr

\* What SendStringWithFallback does with the result of an attempt.
AttemptReturns(hr, retry) ==
  IF ~fallback /\ hr # "ok" /\ FallbackAllowed(hr, retry)
  THEN WGoto("create") /\ fallback' = TRUE /\ firstHr' = hr /\ UNCHANGED result
  ELSE /\ WGoto("idle") /\ UNCHANGED <<fallback, firstHr>>
       /\ result' = IF fallback /\ hr # "ok" THEN firstHr ELSE hr

\* The new request object, which nobody has cancelled.
CreateRequest ==
  /\ wpc = "creating"
  /\ \/ /\ WGoto("post")
        /\ hasRequest' = TRUE
        /\ isCanceled' = FALSE /\ eventCancel' = FALSE /\ requestCanceled' = {}
        /\ calls' = 0 /\ UNCHANGED <<fallback, firstHr, result>>
     \/ /\ "config" \in ClientFaults
        /\ AttemptReturns("no_config", retryAfterSec)
        /\ UNCHANGED <<hasRequest, calls, isCanceled, eventCancel, requestCanceled>>
  /\ UNCHANGED <<pc, https, loopVars, published, canceller, history, sends, encrypted,
                 retryAfterSec, cancelled, httpsRetry>>

PostUtf8String ==
  /\ wpc = "post" /\ WGoto("posting")
  /\ Post /\ https' = ActualHttps
  /\ UNCHANGED clientVars

\* A step of the request; httpsRetry remembers what the server said.
RequestStep ==
  /\ wpc = "posting" /\ pc # "idle" /\ Request
  /\ httpsRetry' = (httpsRetry \/ retryAfter')
  /\ UNCHANGED <<wpc, sends, encrypted, fallback, hasRequest, retryAfterSec, firstHr,
                 result, cancelled>>

\* Bug variant: X-Retry-After is taken from every response.
RetryAfterOfResponseAny == published.retry

\* X-Retry-After is only trusted in a response over https.
RetryAfterOfResponse == IF ActualHttps THEN published.retry ELSE retryAfterSec

\* The tail of SendStringInternal; a response may not parse.
SendStringInternal ==
  /\ wpc = "posting" /\ pc = "idle"
  /\ retryAfterSec' = RetryAfterOfResponse
  /\ \E hr \in {published.hr} \cup
               IF published.hr = "ok" /\ "parse" \in ClientFaults THEN {"parse"} ELSE {} :
       AttemptReturns(hr, RetryAfterOfResponse)
  /\ UNCHANGED <<vars, sends, encrypted, hasRequest, cancelled, httpsRetry>>

WCancel ==
  /\ ~cancelled /\ cancelled' = TRUE
  /\ \/ hasRequest /\ CancelFlag
     \/ ~hasRequest /\ UNCHANGED vars
  /\ UNCHANGED <<wpc, sends, encrypted, fallback, hasRequest, retryAfterSec, firstHr,
                 result, httpsRetry>>

WCancelStep ==
  /\ CancelEvent \/ \E n \in 1..Len(Chain) : CancelRequest(n)
  /\ UNCHANGED <<wpc, clientVars>>

Client == DeleteRequest \/ CreateRequest \/ PostUtf8String \/ RequestStep \/ SendStringInternal

WNext == WSend \/ Client \/ WCancel \/ WCancelStep

WSpec == WInit /\ [][WNext]_wvars

\* Every http request ends by itself: WinHTTP has timeouts.
WFairSpec == WSpec /\ WF_wvars(Client)

-----------------------------------------------------------------------------
(* Properties *)

\* What Worker stores as the time of the next check was said by the server over
\* https: neither the fallback nor a proxy on the way over http can set it.
RetryAfterTrusted ==
  [][retryAfterSec' /\ ~retryAfterSec => httpsRetry /\ https]_wvars

\* Send returns: neither the fallback nor the retries go on for ever.
SendReturns == wpc # "idle" ~> wpc = "idle"

\* How far Send is from its end: the attempts and the parts of one.
ClientPhase == [idle |-> 0, posting |-> 1, post |-> 2, creating |-> 3, create |-> 4]
SendLeft == <<IF fallback THEN 0 ELSE 1, ClientPhase[wpc]>>

\* Send ends after finitely many steps of its own thread, whatever Cancel does: the
\* fallback is tried once, and each attempt is one call of the network request,
\* whose measure comes down while the attempt waits for it.
ClientEnds ==
  [][/\ SendLeft' \in Measure(2) /\ CallLeft' \in Measure(6)
     /\ wpc # "idle" =>
          IF Client THEN \/ Below(SendLeft', SendLeft)
                         \/ SendLeft' = SendLeft /\ Below(CallLeft', CallLeft)
          ELSE UNCHANGED <<SendLeft, CallLeft>>]_wvars

-----------------------------------------------------------------------------
(* What comments and assertions say and the code does not do *)

\* "Cancels update check client": an attempt that begins after Cancel has
\* returned is a cancelled one and sends nothing.
CancelStopsClient ==
  [][(wpc = "post" /\ wpc' = "posting" /\ cancelled /\ canceller \in {"idle", "done"})
       => eventCancel]_wvars

\* "The server uses the optional X-Retry-After header to indicate that the
\* current request should not be attempted again."
RetryAfterStops == httpsRetry /\ fallback => wpc = "idle"
=============================================================================
