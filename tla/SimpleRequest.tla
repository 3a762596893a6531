---------------------------- MODULE SimpleRequest ----------------------------
(***************************************************************************)
(* The WinHTTP request at the end of the chain of NetworkRequest: one      *)
(* thread calls Send, again and again, Close and the destructor; another   *)
(* calls Cancel once.  WinHttpAdapter makes the asynchronous calls of      *)
(* WinHTTP synchronous: it issues a call under its lock and waits for the  *)
(* callback; Cancel closes the handles under that lock, from its thread.   *)
(* WinHTTP itself is external: every call it takes is answered by one      *)
(* callback, and the last callback of a handle says that it is closing.    *)
(*                                                                         *)
(* IsPauseSupported returns false, so that Pause and Resume do nothing,    *)
(* and the loop of DoSend prepares and sends once and then checks for      *)
(* Cancel.                                                                 *)
(***************************************************************************)
EXTENDS Naturals, Measures

CONSTANTS
  Files,               \* file names
  Memory,              \* no file name
  kMaxResendAttempts,
  MaxBody,             \* bound on the blocks of a response
  MaxSends,            \* bound on the calls of Send
  Faults               \* subset of {"session", "adapter", "file", "winhttp",
                       \* "resend", "proxy", "short", "timeout"}

ASSUME RequestAssumption == kMaxResendAttempts \in Nat /\ MaxBody \in Nat

VARIABLES
  pc, hr, result,      \* the thread in Send, hr of DoSend, what Send returned
  lock_,               \* that thread holds lock_ between two steps
  is_canceled_, download_completed_, resend_count_, filename_,
  request_state_,
  proxy,               \* locals of SendRequest
  adapter, connection_handle_, request_handle_,  \* not NULL
  call, completion, is_error,   \* the call of the adapter, its event, its result
  handle,              \* the request handle as WinHTTP has it
  pending,             \* a call WinHTTP has not answered
  body,                \* blocks of the response the server sends
  disk,                \* blocks of each file that exists
  sends,
  orphan, timedOut, cut, late, begunLate  \* history

sender == <<pc, hr, result, sends>>
members == <<download_completed_, resend_count_, filename_>>
handles == <<connection_handle_, request_handle_, handle>>
async == <<call, completion, is_error, pending>>
history == <<orphan, timedOut, cut, late, begunLate>>
vars == <<sender, lock_, is_canceled_, members, request_state_, proxy, adapter,
          handles, async, body, disk, history>>

NoState == [exists |-> FALSE, status |-> 0, length |-> 0, bytes |-> 0]
NewState == [NoState EXCEPT !.exists = TRUE]
NoProxy == [retries |-> 0, max |-> 1, scheme |-> "none"]
Absent == MaxBody + 1
Statuses == {200, 204, 404, 407}

Init ==
  /\ pc = "idle" /\ hr = "ok" /\ result = "none" /\ sends = 0
  /\ lock_ = FALSE /\ is_canceled_ = FALSE
  /\ download_completed_ = FALSE /\ resend_count_ = 0 /\ filename_ = Memory
  /\ request_state_ = NoState /\ proxy = NoProxy
  /\ adapter = FALSE /\ connection_handle_ = FALSE /\ request_handle_ = FALSE
  /\ call = "none" /\ completion = FALSE /\ is_error = "no"
  /\ handle = "none" /\ pending = FALSE
  /\ body = 0 /\ disk = [f \in Files |-> Absent]
  /\ orphan = FALSE /\ timedOut = FALSE /\ cut = FALSE /\ late = 0
  /\ begunLate = FALSE

Goto(place) == pc' = place /\ UNCHANGED <<hr, result, sends>>

\* DoSend goes round its loop with this result.
Leave(h) == pc' = "check" /\ hr' = h /\ UNCHANGED <<result, sends>>

Return(h) == pc' = "idle" /\ hr' = "ok" /\ result' = h /\ UNCHANGED sends

-----------------------------------------------------------------------------
(* The adapter                                                             *)

\* WinHTTP closes the request handle and says so later.
CloseHandles ==
  /\ connection_handle_' = FALSE /\ request_handle_' = FALSE
  /\ handle' = IF request_handle_ THEN "closing" ELSE handle

\* Bug variant: the destructor does not wait.
NeverWaits == TRUE

\* The destructor has seen the closing of the handle, or there was none.
ClosingSeen == handle \in {"none", "closed"}

\* The end of the destructor, after two minutes if WinHTTP does not answer.
AdapterDestroyed ==
  /\ \/ ClosingSeen /\ UNCHANGED timedOut
     \/ "timeout" \in Faults /\ timedOut' = TRUE
  /\ orphan' = (orphan \/ handle = "closing")
  /\ handle' = "none"
  /\ UNCHANGED <<connection_handle_, request_handle_, cut, late, begunLate>>

\* AsyncCallBegin and the call of WinHTTP, which fails on a handle that was
\* closed.
AsyncCall(c) ==
  /\ request_handle_
  /\ call' = c /\ completion' = FALSE /\ is_error' = "no" /\ pending' = TRUE

CallFails == (~request_handle_ \/ "winhttp" \in Faults) /\ UNCHANGED async

\* AsyncCallEnd: the event is signaled.
AsyncCallEnd(c) == call = c /\ completion /\ UNCHANGED async

\* WinHTTP answers the call it has.
StatusCallback ==
  /\ pending /\ pending' = FALSE /\ completion' = TRUE
  /\ \/ handle = "open" /\ is_error' = "no"
     \/ handle = "open" /\ "winhttp" \in Faults /\ is_error' = "fail"
     \/ handle = "open" /\ "resend" \in Faults /\ call = "receive" /\ is_error' = "resend"
     \/ handle = "closing" /\ is_error' = "fail"
  /\ UNCHANGED <<call, sender, lock_, is_canceled_, members, request_state_, proxy,
                 adapter, handles, body, disk, history>>

\* The last callback of a handle.
HandleClosing ==
  /\ handle = "closing" /\ ~pending /\ handle' = "closed"
  /\ UNCHANGED <<sender, lock_, is_canceled_, members, request_state_, proxy, adapter,
                 connection_handle_, request_handle_, async, body, disk, history>>

-----------------------------------------------------------------------------
(* Send                                                                    *)

\* set_url and set_filename, of an object that downloads or of one that posts.
\* A new value closes the handles and forgets the last response.
SetUrlAndFilename ==
  /\ pc = "idle" /\ sends < MaxSends /\ sends' = sends + 1
  /\ pc' = "send" /\ UNCHANGED <<hr, result>>
  /\ filename_' \in Files \cup {Memory}
  /\ sends > 0 => (filename_ = Memory <=> filename_' = Memory)
  /\ \/ CloseHandles /\ request_state_' = NoState
     \/ UNCHANGED <<filename_, handles, request_state_>>
  /\ begunLate' = is_canceled_ /\ cut' = FALSE /\ late' = 0
  /\ UNCHANGED <<lock_, is_canceled_, download_completed_, resend_count_, proxy,
                 adapter, async, body, disk, orphan, timedOut>>

\* Without a session nothing is sent, and the last response stays.
SendWithoutSession ==
  /\ pc = "send" /\ "session" \in Faults
  /\ Return("fail")
  /\ UNCHANGED <<lock_, is_canceled_, members, request_state_, proxy, adapter, handles,
                 async, body, disk, history>>

\* winhttp_adapter_.reset, which destroys the last adapter with lock_ held.
Send ==
  /\ pc = "send" /\ Goto("replace") /\ lock_' = TRUE
  /\ CloseHandles
  /\ UNCHANGED <<is_canceled_, members, request_state_, proxy, adapter, async, body,
                 disk, history>>

\* The new adapter is initialized; if that fails the last response stays.
Initialize ==
  /\ pc = "replace" /\ AdapterDestroyed
  /\ adapter' = TRUE /\ lock_' = FALSE
  /\ \/ Goto("open") /\ request_state_' = NewState
     \/ "adapter" \in Faults /\ Return("fail") /\ UNCHANGED request_state_
  /\ UNCHANGED <<is_canceled_, members, proxy, async, body, disk>>

\* Bug variant: the file is opened as it is.
OpenExistingFile ==
  disk' = [disk EXCEPT ![filename_] = IF @ = Absent THEN 0 ELSE @]

\* CREATE_ALWAYS, since nothing is known of the length yet.
CreateFile == disk' = [disk EXCEPT ![filename_] = 0]

OpenDestinationFile ==
  /\ pc = "open"
  /\ \/ filename_ = Memory /\ Goto("connect") /\ UNCHANGED disk
     \/ filename_ # Memory /\ Goto("connect") /\ CreateFile
     \/ filename_ # Memory /\ "file" \in Faults /\ Leave("fail") /\ UNCHANGED disk
  /\ UNCHANGED <<lock_, is_canceled_, members, request_state_, proxy, adapter, handles,
                 async, body, history>>

\* A connection is made whether Cancel has come or not.
Connect ==
  /\ pc = "connect"
  /\ \/ Goto("openrequest") /\ connection_handle_' = TRUE
     \/ "winhttp" \in Faults /\ Leave("fail") /\ UNCHANGED connection_handle_
  /\ UNCHANGED <<lock_, is_canceled_, members, request_state_, proxy, adapter,
                 request_handle_, handle, async, body, disk, history>>

OpenRequest ==
  /\ pc = "openrequest"
  /\ \/ /\ connection_handle_ /\ Goto("configure")
        /\ request_handle_' = TRUE /\ handle' = "open"
     \/ /\ ~connection_handle_ \/ "winhttp" \in Faults
        /\ Leave("fail") /\ UNCHANGED <<request_handle_, handle>>
  /\ UNCHANGED <<lock_, is_canceled_, members, request_state_, proxy, adapter,
                 connection_handle_, async, body, disk, history>>

\* Headers and proxy, of which there may be none.
SetProxyInformation ==
  /\ pc = "configure"
  /\ \/ Goto("sendrequest")
     \/ (~request_handle_ \/ "winhttp" \in Faults) /\ Leave("fail")
  /\ UNCHANGED <<lock_, is_canceled_, members, request_state_, proxy, adapter, handles,
                 async, body, disk, history>>

\* The four asynchronous calls: where each is made and waited for.
Begin(at, c, wait) ==
  /\ pc = at
  /\ \/ AsyncCall(c) /\ Goto(wait)
     \/ CallFails /\ Leave("fail")
  /\ UNCHANGED <<lock_, is_canceled_, members, request_state_, proxy, adapter, handles,
                 body, disk, history>>

SendRequest == Begin("sendrequest", "send", "sending")
ReceiveResponse == Begin("receive", "receive", "receiving")
ReadData == Begin("read", "read", "reading")

\* The result of QueryDataAvailable is not looked at: ReadData will fail too.
QueryDataAvailable ==
  /\ pc = "query"
  /\ \/ AsyncCall("query") /\ Goto("querying")
     \/ CallFails /\ Goto("read")
  /\ UNCHANGED <<lock_, is_canceled_, members, request_state_, proxy, adapter, handles,
                 body, disk, history>>

\* Bug variant: a resend is not counted.
Uncounted(count) == count

Counted(count) == count + 1

Sent ==
  /\ pc = "sending" /\ AsyncCallEnd("send")
  /\ IF is_error = "no" THEN Goto("receive") ELSE Leave("fail")
  /\ UNCHANGED <<lock_, is_canceled_, members, request_state_, proxy, adapter, handles,
                 body, disk, history>>

\* The count of resends is kept until a response has come, also from one Send to
\* the next.  The status can be asked for only while the handle is open.
Received ==
  /\ pc = "receiving" /\ AsyncCallEnd("receive")
  /\ \/ /\ is_error = "resend" /\ resend_count_' = Counted(resend_count_)
        /\ IF resend_count_' < kMaxResendAttempts THEN Goto("sendrequest") ELSE Leave("fail")
        /\ UNCHANGED request_state_
     \/ is_error = "fail" /\ Leave("fail") /\ UNCHANGED <<resend_count_, request_state_>>
     \/ /\ is_error = "no" /\ resend_count_' = 0
        /\ \/ /\ request_handle_
              /\ \E status \in Statuses :
                   /\ status = 407 => "proxy" \in Faults
                   /\ request_state_' = [request_state_ EXCEPT !.status = status]
                   /\ Goto(IF status = 407 THEN "proxy" ELSE "headers")
           \/ ~request_handle_ /\ Leave("fail") /\ UNCHANGED request_state_
  /\ UNCHANGED <<lock_, is_canceled_, download_completed_, filename_, proxy, adapter,
                 handles, body, disk, history>>

\* A proxy wants to know who asks.  Negotiate and NTLM are tried without a name
\* first; then credentials are asked for, which may bring another scheme.
ProxyAuthentication ==
  /\ pc = "proxy"
  /\ LET again == [proxy EXCEPT !.retries = @ + 1] IN
     \/ again.retries > again.max /\ Goto("headers") /\ proxy' = again
     \/ /\ again.retries <= again.max /\ proxy.scheme = "none"
        /\ \/ /\ request_handle_ /\ Goto("sendrequest")
              /\ proxy' = [again EXCEPT !.scheme = "auto", !.max = @ + 1]
           \/ ~request_handle_ /\ Leave("fail") /\ proxy' = again
     \/ /\ again.retries <= again.max /\ (proxy.scheme = "none" => request_handle_)
        /\ \/ /\ Goto("sendrequest")
              /\ \E scheme \in {"auto", "basic"} : proxy' = [again EXCEPT !.scheme = scheme]
           \/ Goto("headers") /\ proxy' = again   \* no credentials
           \/ Leave("fail") /\ proxy' = again     \* no network configuration
  /\ UNCHANGED <<lock_, is_canceled_, members, request_state_, adapter, handles, async,
                 body, disk, history>>

\* The beginning of ReceiveData.  A length that the server does not send, or that
\* can be asked for no more, is 0.
ReceiveData ==
  /\ pc = "headers"
  /\ \/ /\ request_state_.status = 204 /\ Leave("ok")
        /\ UNCHANGED <<request_state_, body>>
     \/ /\ request_state_.status # 204 /\ Goto("query")
        /\ body' \in 0..MaxBody
        /\ \E length \in IF request_handle_ THEN {0, body'} ELSE {0} :
             request_state_' = [request_state_ EXCEPT !.length = length]
  /\ UNCHANGED <<lock_, is_canceled_, members, proxy, adapter, handles, async, disk,
                 history>>

DataAvailable ==
  /\ pc = "querying" /\ AsyncCallEnd("query") /\ Goto("read")
  /\ UNCHANGED <<lock_, is_canceled_, members, request_state_, proxy, adapter, handles,
                 body, disk, history>>

\* A block is written, and then counted.
ReceiveBlock ==
  /\ pc = "reading" /\ AsyncCallEnd("read") /\ is_error = "no"
  /\ request_state_.bytes < body
  /\ \/ /\ Goto("query")
        /\ disk' = IF filename_ = Memory THEN disk ELSE [disk EXCEPT ![filename_] = @ + 1]
        /\ request_state_' = [request_state_ EXCEPT !.bytes = @ + 1]
        /\ late' = IF cut THEN late + 1 ELSE late
     \/ /\ filename_ # Memory /\ "file" \in Faults /\ Leave("fail")
        /\ UNCHANGED <<disk, request_state_, late>>
  /\ UNCHANGED <<lock_, is_canceled_, members, proxy, adapter, handles, body, orphan,
                 timedOut, cut, begunLate>>

\* What was received is as long as was announced.
LengthAsAnnounced == request_state_.length \in {0, request_state_.bytes}

\* An empty read ends the response, or a connection that broke.
ReceiveEnd ==
  /\ pc = "reading" /\ AsyncCallEnd("read")
  /\ \/ /\ is_error = "no"
        /\ request_state_.bytes = body \/ "short" \in Faults
        /\ IF LengthAsAnnounced
           THEN Leave("ok") /\ download_completed_' = TRUE
           ELSE Leave("fail") /\ UNCHANGED download_completed_
     \/ is_error # "no" /\ Leave("fail") /\ UNCHANGED download_completed_
  /\ UNCHANGED <<lock_, is_canceled_, resend_count_, filename_, request_state_, proxy,
                 adapter, handles, body, disk, history>>

\* The second round of the loop of DoSend.
DoSend ==
  /\ pc = "check" /\ Return(IF is_canceled_ THEN "cancelled" ELSE hr)
  /\ proxy' = NoProxy
  /\ UNCHANGED <<lock_, is_canceled_, members, request_state_, adapter, handles, async,
                 body, disk, history>>

-----------------------------------------------------------------------------
(* Close, the destructor and Cancel                                        *)

\* Close, by itself or in the destructor: the adapter goes with lock_ held.
Close ==
  /\ pc = "idle"
  /\ (adapter /\ Goto("close")) \/ Goto("destroy")
  /\ lock_' = TRUE /\ CloseHandles /\ request_state_' = NoState
  /\ UNCHANGED <<is_canceled_, members, proxy, adapter, async, body, disk, history>>

Closed ==
  /\ pc \in {"close", "destroy"} /\ AdapterDestroyed
  /\ adapter' = FALSE /\ lock_' = FALSE
  /\ Goto(IF pc = "close" THEN "idle" ELSE "delete")
  /\ UNCHANGED <<is_canceled_, members, request_state_, proxy, async, body, disk>>

\* The rest of the destructor: the file of a download that was not completed.
DeleteTarget ==
  /\ pc = "delete" /\ Goto("destroyed")
  /\ disk' = IF ~download_completed_ /\ filename_ # Memory
             THEN [disk EXCEPT ![filename_] = Absent] ELSE disk
  /\ UNCHANGED <<lock_, is_canceled_, members, request_state_, proxy, adapter, handles,
                 async, body, history>>

\* Bug variant: Cancel leaves the handles to Send.
CancelOnlySays ==
  /\ ~is_canceled_ /\ ~lock_ /\ pc \notin {"delete", "destroyed"}
  /\ is_canceled_' = TRUE /\ cut' = (request_handle_ /\ pc # "send")
  /\ UNCHANGED <<sender, lock_, members, request_state_, proxy, adapter, handles, async,
                 body, disk, orphan, timedOut, late, begunLate>>

\* Cancel waits for lock_.
Cancel ==
  /\ ~is_canceled_ /\ ~lock_ /\ pc \notin {"delete", "destroyed"}
  /\ is_canceled_' = TRUE /\ cut' = (request_handle_ /\ pc # "send")
  /\ CloseHandles
  /\ UNCHANGED <<sender, lock_, members, request_state_, proxy, adapter, async, body,
                 disk, orphan, timedOut, late, begunLate>>

SendStep ==
  \/ SendWithoutSession \/ Send \/ Initialize \/ OpenDestinationFile \/ Connect
  \/ OpenRequest \/ SetProxyInformation \/ SendRequest \/ Sent \/ ReceiveResponse
  \/ Received \/ ProxyAuthentication \/ ReceiveData \/ QueryDataAvailable
  \/ DataAvailable \/ ReadData \/ ReceiveBlock \/ ReceiveEnd \/ DoSend
  \/ Closed \/ DeleteTarget

WinHttp == StatusCallback \/ HandleClosing

Next == SetUrlAndFilename \/ SendStep \/ Close \/ Cancel \/ WinHttp

\* The thread runs, and WinHTTP, which has timeouts for every phase of a request,
\* calls back.
Spec == Init /\ [][Next]_vars /\ WF_vars(SendStep) /\ WF_vars(WinHttp)

-----------------------------------------------------------------------------
(* Properties                                                              *)

\* The asynchronous calls of the adapter, against a Cancel that closes the handle
\* at any moment: no callback comes for an adapter that is destroyed, unless the
\* destructor gave up waiting; a callback finds its event reset and the thread
\* waiting for that very call (the assertions of StatusCallback and of the
\* destructor of WinHttpAdapter).
CallbacksExpected ==
  /\ orphan => timedOut
  /\ pending => /\ ~completion /\ handle \in {"open", "closing"}
                /\ <<call, pc>> \in {<<"send", "sending">>, <<"receive", "receiving">>,
                                     <<"query", "querying">>, <<"read", "reading">>}

\* Once Cancel has closed an open request, at most the block that had arrived is
\* still written: Cancel ends a transfer, however much of it is left
\* (SimpleRequest::Cancel, "reliably canceling of WinHttp calls by closing the
\* handles").
CancelEndsTransfer == late <= 1

\* What NetworkRequest assumes of an answer: success is never said of a request
\* that had been cancelled before it was sent, nor of a file that is not exactly
\* what the server announced; "cancelled" is said only after Cancel.
AnswerTrue ==
  pc = "idle" =>
    /\ result = "cancelled" => is_canceled_
    /\ result = "ok" =>
         /\ ~begunLate
         /\ request_state_.exists /\ filename_ # Memory /\ request_state_.status # 204 =>
              /\ disk[filename_] = request_state_.bytes
              /\ request_state_.length # 0 => disk[filename_] = body

\* Send, Close and the destructor return: what WinHTTP and proxies ask for again
\* is bounded, and nobody waits for a callback that does not come, whenever
\* Cancel closes the handle.
SendEnds == pc # "idle" ~> pc \in {"idle", "destroyed"}

\* Close and the destructor are none of the business of NetworkRequest.
Http == INSTANCE HttpRequest WITH
  state <- IF pc \in {"idle", "close", "destroy", "delete", "destroyed"} THEN "idle"
           ELSE "sending",
  canceled <- is_canceled_

\* The request is what NetworkRequest takes it for: however the two threads and
\* WinHTTP interleave, Send looks for Cancel once more after all else, so that no
\* Send succeeds that ends after Cancel, and only such a Send says "cancelled".
ImplementsHttpRequest == Http!Safety

\* How far the thread is from its end: the parts of Send, Close and the
\* destructor; the times a proxy may ask again, and whether it has asked; the
\* resends; the blocks; and the steps for each of them.
Phase ==
  [idle |-> 0, destroyed |-> 0, delete |-> 1, close |-> 2, destroy |-> 2, check |-> 3,
   query |-> 4, querying |-> 4, read |-> 4, reading |-> 4, headers |-> 5,
   sendrequest |-> 6, sending |-> 6, receive |-> 6, receiving |-> 6, proxy |-> 6,
   configure |-> 7, openrequest |-> 8, connect |-> 9, open |-> 10, replace |-> 11,
   send |-> 12]
CallPhase ==
  [sendrequest |-> 3, sending |-> 2, receive |-> 1, receiving |-> 0,
   query |-> 3, querying |-> 2, read |-> 1, reading |-> 0]
SendLeft ==
  <<Phase[pc], 3 - proxy.retries, IF pc = "proxy" THEN 0 ELSE 1,
    IF resend_count_ < kMaxResendAttempts THEN kMaxResendAttempts - resend_count_ ELSE 0,
    body - request_state_.bytes, IF pc \in DOMAIN CallPhase THEN CallPhase[pc] ELSE 0>>

\* Send, Close and the destructor end after finitely many of their steps, whatever
\* WinHTTP answers and whenever Cancel closes the handles: a proxy asks three times
\* at most, resends are counted until a response comes, and a block is read once.
SendShrinks ==
  [][/\ SendLeft' \in Measure(6)
     /\ pc \notin {"idle", "destroyed"} =>
          IF SendStep THEN Below(SendLeft', SendLeft) ELSE SendLeft' = SendLeft]_vars

\* The thread never waits for what does not come: in AsyncCallEnd the event of its
\* very call is signaled, or WinHTTP has the call and the handle it was made on;
\* in the destructor of the adapter the last callback of the handle has come, or
\* is all that WinHTTP still has to say.
AnswerComes ==
  /\ pc \in {"sending", "receiving", "querying", "reading"} =>
       /\ <<call, pc>> \in {<<"send", "sending">>, <<"receive", "receiving">>,
                            <<"query", "querying">>, <<"read", "reading">>}
       /\ completion \/ (pending /\ handle \in {"open", "closing"})
  /\ pc \in {"replace", "close", "destroy"} => ClosingSeen \/ (handle = "closing" /\ ~pending)

-----------------------------------------------------------------------------
(* What a comment and a test say, and the code does not do.                *)

\* simple_request.cc: "If download failed, try to clean up the target file."
FailedFileDeleted ==
  pc = "destroyed" /\ result \in {"fail", "cancelled"} /\ filename_ # Memory =>
    disk[filename_] = Absent

=============================================================================
