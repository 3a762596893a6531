------------------------ MODULE SimpleRequest_proofs ------------------------
(* The WinHTTP request against a Cancel at any moment, for every number of   *)
(* files, blocks, resends and calls of Send, and every choice of faults.     *)
EXTENDS SimpleRequest, TLAPS

\* A leaf is given to Zenon, then to the SMT solver, unless it names one of them.
USE ZenonT(30), SMTT(30)

\* Before the request handle of a Send is opened.
Before == {"replace", "open", "connect", "openrequest"}

\* After the file is opened, until the answer is complete.
Transfer == {"connect", "openrequest", "configure", "sendrequest", "sending", "receive",
             "receiving", "proxy", "headers", "query", "querying", "read", "reading"}

\* The member request_handle_ and the handle WinHTTP has: they agree whatever
\* Cancel does, and an adapter that is destroyed has closed its handle.
HandleInv ==
  /\ request_handle_ \in BOOLEAN
  /\ request_handle_ <=> handle = "open"
  /\ pc \in Before \cup {"close", "destroy"} => ~request_handle_

\* A Cancel that has closed an open request: nothing opens it again before the
\* next Send, and the thread that has written a late block cannot read another.
CutInv ==
  /\ cut \in BOOLEAN /\ is_canceled_ \in BOOLEAN
  /\ cut => is_canceled_ /\ ~request_handle_ /\ pc \notin Before \cup {"send"}
  /\ late \in {0, 1}
  /\ late = 1 => cut /\ pc \in {"query", "read", "check", "idle", "close", "destroy",
                                "delete", "destroyed"}

\* What is returned, and what is about to be.
ResultInv ==
  /\ hr \in {"ok", "fail"}
  /\ result = "cancelled" => is_canceled_
  /\ begunLate => is_canceled_
  /\ pc \in {"idle", "close"} /\ result = "ok" => ~begunLate

\* The type of a request_state_.
States == [exists : BOOLEAN, status : Nat, length : Nat, bytes : Nat]

\* The response as long as it was announced.
Whole == request_state_.length # 0 => request_state_.bytes = body

\* The file has the blocks that were counted.
Written == filename_ # Memory => disk[filename_] = request_state_.bytes

\* The file and the response, from one end of a Send to the next.
ResponseInv ==
  /\ request_state_ \in States /\ DOMAIN disk = Files /\ filename_ \in Files \cup {Memory}
  /\ pc = "open" => request_state_.bytes = 0
  /\ pc = "close" => ~request_state_.exists
  /\ pc \in Transfer => Written
  /\ pc \in {"query", "querying", "read", "reading"} => request_state_.length \in {0, body}
  /\ pc = "check" /\ hr = "ok" => Written /\ (request_state_.status # 204 => Whole)
  /\ pc = "idle" /\ result = "ok" /\ request_state_.exists =>
       Written /\ (request_state_.status # 204 => Whole)

\* The inductive invariant of the request.
IInv == HandleInv /\ CallbacksExpected /\ CutInv /\ ResultInv /\ ResponseInv

-----------------------------------------------------------------------------
\* It holds at first.
LEMMA InitIInv == Init => IInv
<1> SUFFICES ASSUME Init PROVE IInv
  OBVIOUS
<1>1. NoState \in States /\ NoState.exists = FALSE
  BY SMTT(30) DEF NoState, States
<1>2. HandleInv
  BY DEF Init, HandleInv, Before
<1>3. CallbacksExpected
  BY DEF Init, CallbacksExpected
<1>6. CutInv
  <2>1. cut \in BOOLEAN /\ is_canceled_ \in BOOLEAN /\ ~cut /\ late = 0
    BY DEF Init
  <2> QED
    BY <2>1, SMTT(30) DEF CutInv
<1>4. ResultInv
  BY DEF Init, ResultInv
<1>5. ResponseInv
  BY <1>1 DEF Init, ResponseInv, Transfer
<1> QED
  BY <1>2, <1>3, <1>4, <1>5, <1>6 DEF IInv

\* The actions by what they leave alone: most of them touch no handle.
LEMMA NextHandle == HandleInv /\ [Next]_vars => HandleInv'
<1> SUFFICES ASSUME HandleInv, [Next]_vars PROVE HandleInv'
  OBVIOUS
<1>1. CASE SetUrlAndFilename \/ Send \/ Close \/ Cancel
  <2>1. CASE CloseHandles
    BY <2>1 DEF HandleInv, CloseHandles
  <2>2. CASE SetUrlAndFilename /\ UNCHANGED handles
    BY <2>2 DEF HandleInv, Before, SetUrlAndFilename, handles
  <2> QED
    BY <1>1, <2>1, <2>2 DEF SetUrlAndFilename, Send, Close, Cancel, handles
<1>2. CASE Initialize \/ Closed
  BY <1>2, SMTT(30) DEF HandleInv, Before, Initialize, Closed, AdapterDestroyed, Goto, Return
<1>3. CASE OpenRequest
  <2>1. \/ request_handle_' = TRUE /\ handle' = "open" /\ pc' = "configure"
        \/ UNCHANGED <<request_handle_, handle>> /\ pc' = "check"
    BY <1>3 DEF OpenRequest, Goto, Leave
  <2>2. CASE request_handle_' = TRUE /\ handle' = "open" /\ pc' = "configure"
    BY <2>2 DEF HandleInv, Before
  <2>3. CASE UNCHANGED <<request_handle_, handle>> /\ pc' = "check"
    BY <2>3 DEF HandleInv, Before
  <2> QED
    BY <2>1, <2>2, <2>3
<1>4. CASE SendWithoutSession \/ OpenDestinationFile \/ Connect \/ SetProxyInformation
            \/ DoSend \/ DeleteTarget
  BY <1>4, SMTT(30) DEF HandleInv, Before, SendWithoutSession, OpenDestinationFile, Connect,
              SetProxyInformation, DoSend, DeleteTarget, Goto, Leave, Return, handles
<1>5. CASE SendRequest \/ ReceiveResponse \/ ReadData \/ QueryDataAvailable
  BY <1>5, SMTT(30) DEF HandleInv, Before, SendRequest, ReceiveResponse, ReadData, Begin,
              QueryDataAvailable, Goto, Leave, handles
<1>6. CASE Sent \/ Received \/ ProxyAuthentication \/ ReceiveData \/ DataAvailable
            \/ ReceiveBlock \/ ReceiveEnd
  BY <1>6, SMTT(30) DEF HandleInv, Before, Sent, Received, ProxyAuthentication, ReceiveData, DataAvailable,
              ReceiveBlock, ReceiveEnd, Goto, Leave, handles
<1>7. CASE StatusCallback \/ HandleClosing \/ UNCHANGED vars
  BY <1>7, SMTT(30) DEF HandleInv, StatusCallback, HandleClosing, vars, sender, handles
<1> QED
  BY <1>1, <1>2, <1>3, <1>4, <1>5, <1>6, <1>7 DEF Next, SendStep, WinHttp

\* A call is answered while the thread waits for it, and a thread that does not
\* wait has no call that is not answered.
LEMMA NextCallbacks ==
  HandleInv /\ CallbacksExpected /\ [Next]_vars => CallbacksExpected'
<1> SUFFICES ASSUME HandleInv, CallbacksExpected, [Next]_vars PROVE CallbacksExpected'
  OBVIOUS
<1> DEFINE Waits == {"sending", "receiving", "querying", "reading"}
<1>1. pending => pc \in Waits /\ ~completion
  BY DEF CallbacksExpected
<1>2. ASSUME ~pending \/ pc \notin Waits \/ completion, UNCHANGED pending,
             UNCHANGED <<orphan, timedOut>>
      PROVE  CallbacksExpected'
  BY <1>1, <1>2 DEF CallbacksExpected
<1>3. CASE SetUrlAndFilename \/ SendWithoutSession \/ Send \/ OpenDestinationFile \/ Connect
            \/ OpenRequest \/ SetProxyInformation \/ ProxyAuthentication \/ ReceiveData
            \/ DoSend \/ DeleteTarget \/ Close
  <2>1. pc \notin Waits
    BY <1>3 DEF SetUrlAndFilename, SendWithoutSession, Send, OpenDestinationFile, Connect,
                OpenRequest, SetProxyInformation, ProxyAuthentication, ReceiveData, DoSend,
                DeleteTarget, Close
  <2>2. UNCHANGED <<pending, orphan, timedOut>>
    BY <1>3 DEF SetUrlAndFilename, SendWithoutSession, Send, OpenDestinationFile, Connect,
                OpenRequest, SetProxyInformation, ProxyAuthentication, ReceiveData, DoSend,
                DeleteTarget, Close, async, history
  <2> QED
    BY <1>2, <2>1, <2>2
<1>4. CASE Sent \/ Received \/ DataAvailable \/ ReceiveBlock \/ ReceiveEnd
  <2>1. completion /\ UNCHANGED <<pending, orphan, timedOut>>
    BY <1>4 DEF Sent, Received, DataAvailable, ReceiveBlock, ReceiveEnd, AsyncCallEnd, async,
                history
  <2> QED
    BY <1>2, <2>1
<1>5. CASE SendRequest \/ ReceiveResponse \/ ReadData \/ QueryDataAvailable
  <2>1. pc \notin Waits /\ UNCHANGED <<orphan, timedOut, handle>>
    BY <1>5 DEF SendRequest, ReceiveResponse, ReadData, QueryDataAvailable, Begin, handles, history
  <2>2. CASE CallFails
    BY <1>2, <2>1, <2>2 DEF CallFails, async
  <2>3. CASE ~CallFails
    <3>1. /\ request_handle_ /\ ~completion'
          /\ <<call', pc'>> \in {<<"send", "sending">>, <<"receive", "receiving">>,
                                 <<"query", "querying">>, <<"read", "reading">>}
      BY <1>5, <2>3 DEF SendRequest, ReceiveResponse, ReadData, QueryDataAvailable, Begin,
                        AsyncCall, Goto
    <3>2. handle' = "open"
      BY <2>1, <3>1 DEF HandleInv
    <3> QED
      BY <2>1, <3>1, <3>2 DEF CallbacksExpected
  <2> QED
    BY <2>2, <2>3
<1>6. CASE Initialize \/ Closed
  <2>1. pc \notin Waits /\ UNCHANGED pending /\ AdapterDestroyed
    BY <1>6 DEF Initialize, Closed, async
  <2>2. ~pending'
    BY <1>1, <2>1
  <2>3. orphan' => timedOut'
    <3>1. CASE ClosingSeen /\ UNCHANGED timedOut
      <4>1. orphan' => orphan
        BY <2>1, <3>1 DEF AdapterDestroyed, ClosingSeen
      <4> QED
        BY <3>1, <4>1 DEF CallbacksExpected
    <3>2. CASE timedOut' = TRUE
      BY <3>2
    <3> QED
      BY <2>1, <3>1, <3>2 DEF AdapterDestroyed
  <2> QED
    BY <2>2, <2>3 DEF CallbacksExpected
<1>7. CASE Cancel
  <2>1. /\ UNCHANGED <<pending, completion, call, pc, orphan, timedOut>>
        /\ handle' \in {handle, "closing"}
    BY <1>7 DEF Cancel, CloseHandles, async, sender
  <2> QED
    BY <2>1 DEF CallbacksExpected
<1>8. CASE StatusCallback
  <2>1. pending' = FALSE /\ UNCHANGED <<orphan, timedOut>>
    BY <1>8 DEF StatusCallback, history
  <2> QED
    BY <2>1 DEF CallbacksExpected
<1>9. CASE HandleClosing
  BY <1>2, <1>9 DEF HandleClosing, async, history
<1>10. CASE UNCHANGED vars
  BY <1>10 DEF CallbacksExpected, vars, sender, handles, async, history
<1> QED
  BY <1>3, <1>4, <1>5, <1>6, <1>7, <1>8, <1>9, <1>10 DEF Next, SendStep, WinHttp

\* After a Cancel that closed the request, every new call of WinHTTP fails.
LEMMA NextCut == HandleInv /\ CutInv /\ [Next]_vars => CutInv'
<1> SUFFICES ASSUME HandleInv, CutInv, [Next]_vars PROVE CutInv'
  OBVIOUS
<1> DEFINE Late == {"query", "read", "check", "idle", "close", "destroy", "delete", "destroyed"}
<1>1. CASE SetUrlAndFilename
  <2>1. cut' \in BOOLEAN /\ ~cut' /\ late' = 0 /\ is_canceled_' \in BOOLEAN
    BY <1>1 DEF CutInv, SetUrlAndFilename
  <2> QED
    BY <2>1, SMTT(30) DEF CutInv
<1>2. CASE Cancel
  <2>1. /\ cut' = (request_handle_ /\ pc # "send") /\ is_canceled_' = TRUE
        /\ request_handle_' = FALSE /\ late' = late /\ pc' = pc /\ ~is_canceled_
    BY <1>2 DEF Cancel, CloseHandles, sender
  <2>2. late = 0
    BY <2>1 DEF CutInv
  <2>3. cut' => pc' \notin Before \cup {"send"}
    BY <2>1 DEF HandleInv
  <2>4. late' = 0 /\ cut' \in BOOLEAN /\ is_canceled_' \in BOOLEAN /\ is_canceled_' /\ ~request_handle_'
    BY <2>1, <2>2
  <2> QED
    BY <2>3, <2>4, SMTT(30) DEF CutInv
<1>3. CASE ReceiveBlock
  <2>1. pc = "reading" /\ pc' \in {"query", "check"} /\ UNCHANGED <<cut, is_canceled_, request_handle_>>
    BY <1>3 DEF ReceiveBlock, Goto, Leave, handles
  <2>2. late' = late \/ (cut /\ late' = late + 1)
    BY <1>3 DEF ReceiveBlock
  <2>3. late = 0
    BY <2>1, SMTT(30) DEF CutInv
  <2>4. late' = 0 \/ (cut /\ late' = 1)
    BY <2>2, <2>3, SMTT(30)
  <2>5. cut' => is_canceled_' /\ ~request_handle_' /\ pc' \notin Before \cup {"send"}
    BY <2>1 DEF CutInv, Before
  <2>6. late' \in {0, 1} /\ (late' = 1 => cut' /\ pc' \in Late)
    BY <2>1, <2>4, SMTT(30)
  <2> QED
    BY <2>1, <2>5, <2>6 DEF CutInv
<1>4. ASSUME UNCHANGED <<cut, late, is_canceled_>>, cut => ~request_handle_',
             cut => pc' \notin Before \cup {"send"}, cut /\ pc \in Late => pc' \in Late
      PROVE  CutInv'
  BY <1>4 DEF CutInv
<1>5. CASE Send \/ Close
  BY <1>4, <1>5 DEF CutInv, Before, Send, Close, CloseHandles, Goto, history
<1>6. CASE SendWithoutSession \/ Initialize \/ OpenDestinationFile \/ Connect \/ OpenRequest
  <2>1. pc \in Before \cup {"send"} /\ UNCHANGED <<cut, late, is_canceled_>>
    BY <1>6 DEF Before, SendWithoutSession, Initialize, OpenDestinationFile, Connect, OpenRequest,
                AdapterDestroyed, history
  <2>2. ~cut
    BY <2>1 DEF CutInv
  <2> QED
    BY <1>4, <2>1, <2>2
<1>7. CASE SendRequest \/ ReceiveResponse \/ ReadData \/ QueryDataAvailable
  <2>1. /\ UNCHANGED <<cut, late, is_canceled_, request_handle_>>
        /\ pc' \notin Before \cup {"send"}
        /\ request_handle_ \/ pc' \in {"check", "read"}
    BY <1>7 DEF SendRequest, ReceiveResponse, ReadData, QueryDataAvailable, Begin, AsyncCall,
                CallFails, Goto, Leave, Before, handles, history
  <2> QED
    BY <1>4, <2>1 DEF CutInv
<1>8. CASE SetProxyInformation \/ Sent \/ Received \/ ProxyAuthentication \/ ReceiveData
            \/ DataAvailable \/ ReceiveEnd
  <2>1. /\ UNCHANGED <<cut, late, is_canceled_, request_handle_>>
        /\ pc' \notin Before \cup {"send"} /\ pc \notin Late
    BY <1>8 DEF SetProxyInformation, Sent, Received, ProxyAuthentication, ReceiveData,
                DataAvailable, ReceiveEnd, Goto, Leave, Before, handles, history
  <2> QED
    BY <1>4, <2>1 DEF CutInv
<1>9. CASE DoSend \/ Closed \/ DeleteTarget
  <2>1. /\ UNCHANGED <<cut, late, is_canceled_, request_handle_>>
        /\ pc' \in Late /\ pc' \notin Before \cup {"send"}
    BY <1>9 DEF DoSend, Closed, DeleteTarget, AdapterDestroyed, Return, Goto, Before, handles,
                history
  <2> QED
    BY <1>4, <2>1 DEF CutInv
<1>10. CASE StatusCallback \/ HandleClosing \/ UNCHANGED vars
  <2>1. UNCHANGED <<cut, late, is_canceled_, request_handle_, pc>>
    BY <1>10 DEF StatusCallback, HandleClosing, vars, sender, handles, history
  <2> QED
    BY <1>4, <2>1 DEF CutInv
<1> QED
  BY <1>1, <1>2, <1>3, <1>5, <1>6, <1>7, <1>8, <1>9, <1>10 DEF Next, SendStep, WinHttp

\* Success is returned only by a Send that has not seen Cancel.
LEMMA NextResult == CutInv /\ ResultInv /\ [Next]_vars => ResultInv'
<1> SUFFICES ASSUME CutInv, ResultInv, [Next]_vars PROVE ResultInv'
  OBVIOUS
<1>1. CASE SetUrlAndFilename
  <2>1. /\ pc' = "send" /\ UNCHANGED <<hr, result, is_canceled_>> /\ begunLate' = is_canceled_
    BY <1>1 DEF SetUrlAndFilename
  <2> QED
    BY <2>1 DEF CutInv, ResultInv
<1>2. CASE DoSend
  <2>1. /\ hr' = "ok" /\ UNCHANGED <<is_canceled_, begunLate>>
        /\ result' = IF is_canceled_ THEN "cancelled" ELSE hr
    BY <1>2 DEF DoSend, Return, history
  <2> QED
    BY <2>1 DEF CutInv, ResultInv
<1>3. CASE Cancel
  <2>1. UNCHANGED <<hr, result, pc, begunLate>> /\ is_canceled_' = TRUE
    BY <1>3 DEF Cancel, sender
  <2> QED
    BY <2>1 DEF ResultInv
<1>4. CASE Close \/ Closed
  <2>1. UNCHANGED <<hr, result, begunLate, is_canceled_>> /\ pc \in {"idle", "close", "destroy"}
        /\ (pc = "destroy" => pc' = "delete")
    BY <1>4 DEF Close, Closed, AdapterDestroyed, Goto, history
  <2> QED
    BY <2>1 DEF CutInv, ResultInv
<1>5. CASE SendWithoutSession \/ Initialize
  <2>1. /\ UNCHANGED <<begunLate, is_canceled_>>
        /\ \/ result' = "fail" /\ hr' = "ok"
           \/ pc' = "open" /\ UNCHANGED <<hr, result>>
    BY <1>5 DEF SendWithoutSession, Initialize, AdapterDestroyed, Return, Goto, history
  <2> QED
    BY <2>1 DEF CutInv, ResultInv
<1>6. ASSUME UNCHANGED <<result, begunLate, is_canceled_>>, pc' \notin {"idle", "close"},
             hr' \in {hr, "ok", "fail"}
      PROVE  ResultInv'
  BY <1>6 DEF CutInv, ResultInv
<1>7. CASE Send \/ OpenDestinationFile \/ Connect \/ OpenRequest \/ SetProxyInformation
            \/ SendRequest \/ Sent \/ ReceiveResponse \/ QueryDataAvailable \/ ReadData
  BY <1>6, <1>7 DEF Send, OpenDestinationFile, Connect, OpenRequest, SetProxyInformation,
                SendRequest, Sent, ReceiveResponse, QueryDataAvailable, ReadData, Begin, Goto,
                Leave, history
<1>8. CASE Received \/ ProxyAuthentication \/ ReceiveData \/ DataAvailable \/ ReceiveBlock
            \/ ReceiveEnd \/ DeleteTarget
  BY <1>6, <1>8 DEF Received, ProxyAuthentication, ReceiveData, DataAvailable, ReceiveBlock,
                ReceiveEnd, DeleteTarget, Goto, Leave, history
<1>9. CASE StatusCallback \/ HandleClosing \/ UNCHANGED vars
  <2>1. UNCHANGED <<hr, result, pc, begunLate, is_canceled_>>
    BY <1>9 DEF StatusCallback, HandleClosing, vars, sender, history
  <2> QED
    BY <2>1 DEF CutInv, ResultInv
<1> QED
  BY <1>1, <1>2, <1>3, <1>4, <1>5, <1>7, <1>8, <1>9 DEF Next, SendStep, WinHttp

\* A response of which nothing is known yet.
LEMMA EmptyStates ==
  /\ NoState \in States /\ NoState.exists = FALSE /\ NoState.bytes = 0
  /\ NewState \in States /\ NewState.bytes = 0
<1>1. NoState \in States /\ NoState.exists = FALSE /\ NoState.bytes = 0
  BY SMTT(30) DEF NoState, States
<1> QED
  BY <1>1 DEF NewState, States

\* The blocks in the file are those that were counted, in every Send.
LEMMA NextResponse == ResultInv /\ ResponseInv /\ [Next]_vars => ResponseInv'
<1> SUFFICES ASSUME ResultInv, ResponseInv, [Next]_vars PROVE ResponseInv'
  OBVIOUS
<1> DEFINE Complete == Written /\ (request_state_.status # 204 => Whole)
           Types == request_state_ \in States /\ DOMAIN disk = Files /\ filename_ \in Files \cup {Memory}
<1>0. Types
  BY DEF ResponseInv
<1>1. /\ NoState \in States /\ NoState.exists = FALSE
      /\ NewState \in States /\ NewState.bytes = 0
  BY EmptyStates, Zenon
<1>2. CASE SetUrlAndFilename
  <2>1. pc' = "send" /\ Types'
    BY <1>0, <1>1, <1>2 DEF SetUrlAndFilename
  <2> QED
    BY <2>1 DEF ResponseInv, Transfer
<1>3. CASE Close
  <2>1. pc' \in {"close", "destroy"} /\ request_state_' = NoState /\ UNCHANGED <<disk, filename_>>
    BY <1>3 DEF Close, Goto, members
  <2> QED
    BY <1>0, <1>1, <2>1 DEF ResponseInv, Transfer
<1>4. CASE Closed
  <2>1. /\ UNCHANGED <<disk, filename_, request_state_, result>>
        /\ \/ pc = "close" /\ pc' = "idle"
           \/ pc' = "delete"
    BY <1>4 DEF Closed, Goto, members
  <2> QED
    BY <2>1 DEF ResponseInv, Transfer
<1>5. CASE DeleteTarget
  <2>1. pc' = "destroyed" /\ UNCHANGED <<filename_, request_state_>> /\ DOMAIN disk' = DOMAIN disk
    BY <1>5 DEF DeleteTarget, Goto, members
  <2> QED
    BY <1>0, <2>1 DEF ResponseInv, Transfer
<1>6. CASE DoSend
  <2>1. /\ UNCHANGED <<disk, filename_, request_state_, body>>
        /\ pc = "check" /\ pc' = "idle" /\ result' \in {"cancelled", hr}
    BY <1>6 DEF DoSend, Return, members
  <2>2. result' = "ok" => Complete
    BY <2>1 DEF ResponseInv
  <2>3. Complete => Complete'
    BY <2>1 DEF Written, Whole
  <2> QED
    BY <1>0, <2>1, <2>2, <2>3 DEF ResponseInv, Transfer
<1>7. CASE SendWithoutSession \/ Send \/ Initialize
  <2>1. /\ UNCHANGED <<disk, filename_>>
        /\ \/ pc' = "idle" /\ result' = "fail" /\ UNCHANGED request_state_
           \/ pc' = "replace" /\ UNCHANGED request_state_
           \/ pc' = "open" /\ request_state_' = NewState
    BY <1>7 DEF SendWithoutSession, Send, Initialize, Return, Goto, members
  <2> QED
    BY <1>0, <1>1, <2>1 DEF ResponseInv, Transfer
<1>8. CASE OpenDestinationFile
  <2>1. pc = "open" /\ UNCHANGED <<filename_, request_state_, body>>
    BY <1>8 DEF OpenDestinationFile, members
  <2>2. CASE pc' = "check" /\ hr' = "fail" /\ UNCHANGED disk
    BY <1>0, <2>1, <2>2 DEF ResponseInv, Transfer
  <2>3. CASE /\ pc' = "connect"
             /\ \/ filename_ = Memory /\ UNCHANGED disk
                \/ disk' = [disk EXCEPT ![filename_] = 0]
    <3>1. Written' /\ DOMAIN disk' = Files
      BY <1>0, <2>1, <2>3 DEF ResponseInv, Written
    <3> QED
      BY <1>0, <2>1, <2>3, <3>1 DEF ResponseInv
  <2> QED
    BY <1>8, <2>2, <2>3 DEF OpenDestinationFile, CreateFile, Goto, Leave
<1>9. ASSUME UNCHANGED <<disk, filename_, request_state_, body>>, pc \in Transfer,
             \/ pc' = "check" /\ hr' = "fail"
             \/ pc' \in Transfer \ {"query", "querying", "read", "reading"}
             \/ pc' \in Transfer /\ pc \in {"query", "querying", "read", "reading"}
      PROVE  ResponseInv'
  <2>1. Written'
    BY <1>9 DEF ResponseInv, Written
  <2> QED
    BY <1>0, <1>9, <2>1 DEF ResponseInv, Transfer
<1>10. CASE Connect \/ OpenRequest \/ SetProxyInformation \/ SendRequest \/ Sent
             \/ ReceiveResponse \/ ProxyAuthentication
  BY <1>9, <1>10 DEF Transfer, Connect, OpenRequest, SetProxyInformation, SendRequest, Sent,
                 ReceiveResponse, ProxyAuthentication, Begin, Goto, Leave, members
<1>11. CASE QueryDataAvailable \/ DataAvailable \/ ReadData
  BY <1>9, <1>11 DEF Transfer, QueryDataAvailable, DataAvailable, ReadData, Begin, Goto, Leave,
                 members
<1>12. CASE Received
  <2>1. pc = "receiving" /\ UNCHANGED <<disk, filename_, body>>
    BY <1>12 DEF Received
  <2>2. CASE UNCHANGED request_state_
    BY <1>9, <1>12, <2>1, <2>2 DEF Received, Transfer, Goto, Leave
  <2>3. CASE \E status \in Statuses :
               /\ request_state_' = [request_state_ EXCEPT !.status = status]
               /\ pc' \in {"proxy", "headers"}
    <3>1. request_state_' \in States /\ request_state_'.bytes = request_state_.bytes
      BY <1>0, <2>3, SMTT(30) DEF States, Statuses
    <3>2. Written'
      BY <2>1, <3>1 DEF ResponseInv, Transfer, Written
    <3> QED
      BY <1>0, <2>1, <2>3, <3>1, <3>2 DEF ResponseInv
  <2> QED
    BY <1>12, <2>2, <2>3 DEF Received, Goto, Leave
<1>13. CASE ReceiveData
  <2>1. pc = "headers" /\ UNCHANGED <<disk, filename_>> /\ Written
    BY <1>13 DEF ReceiveData, members, ResponseInv, Transfer
  <2>2. CASE request_state_.status = 204 /\ pc' = "check" /\ UNCHANGED <<request_state_, body>>
    BY <1>0, <2>1, <2>2 DEF ResponseInv, Transfer, Written
  <2>3. CASE /\ pc' = "query" /\ body' \in 0..MaxBody
             /\ \E length \in {0, body'} :
                  request_state_' = [request_state_ EXCEPT !.length = length]
    <3>1. /\ request_state_' \in States /\ request_state_'.bytes = request_state_.bytes
          /\ request_state_'.length \in {0, body'}
      BY <1>0, <2>3, SMTT(30) DEF States
    <3>2. Written'
      BY <2>1, <3>1 DEF Written
    <3> QED
      BY <1>0, <2>1, <2>3, <3>1, <3>2 DEF ResponseInv
  <2> QED
    BY <1>13, <2>2, <2>3 DEF ReceiveData, Goto, Leave
<1>14. CASE ReceiveBlock
  <2>1. pc = "reading" /\ UNCHANGED <<filename_, body>> /\ Written
    BY <1>14 DEF ReceiveBlock, members, ResponseInv, Transfer
  <2>2. CASE pc' = "check" /\ hr' = "fail" /\ UNCHANGED <<disk, request_state_>>
    BY <1>9, <2>1, <2>2 DEF Transfer
  <2>3. CASE /\ pc' = "query"
             /\ disk' = IF filename_ = Memory THEN disk ELSE [disk EXCEPT ![filename_] = @ + 1]
             /\ request_state_' = [request_state_ EXCEPT !.bytes = @ + 1]
    <3>1. /\ request_state_' \in States /\ request_state_'.bytes = request_state_.bytes + 1
          /\ request_state_'.length = request_state_.length
      BY <1>0, <2>3, SMTT(30) DEF States
    <3>2. DOMAIN disk' = Files /\ (filename_ # Memory => disk'[filename_] = disk[filename_] + 1)
      BY <1>0, <2>3
    <3>3. Written'
      BY <2>1, <3>1, <3>2 DEF Written
    <3> QED
      BY <1>0, <2>1, <2>3, <3>1, <3>2, <3>3 DEF ResponseInv
  <2> QED
    BY <1>14, <2>2, <2>3 DEF ReceiveBlock, Goto, Leave
<1>15. CASE ReceiveEnd
  <2>1. pc = "reading" /\ UNCHANGED <<disk, filename_, request_state_, body>>
    BY <1>15 DEF ReceiveEnd
  <2>2. CASE pc' = "check" /\ hr' = "fail"
    BY <1>9, <2>1, <2>2 DEF Transfer
  <2>3. CASE pc' = "check" /\ hr' = "ok" /\ LengthAsAnnounced
    <3>1. Written' /\ Whole'
      BY <2>1, <2>3 DEF ResponseInv, Transfer, Written, Whole, LengthAsAnnounced
    <3> QED
      BY <1>0, <2>1, <2>3, <3>1 DEF ResponseInv, Transfer
  <2> QED
    BY <1>15, <2>2, <2>3 DEF ReceiveEnd, Leave
<1>16. CASE Cancel \/ StatusCallback \/ HandleClosing \/ UNCHANGED vars
  <2>1. UNCHANGED <<pc, hr, result, disk, filename_, request_state_, body>>
    BY <1>16 DEF Cancel, StatusCallback, HandleClosing, vars, sender, members
  <2> QED
    BY <2>1 DEF ResponseInv, Written, Whole
<1> QED
  BY <1>2, <1>3, <1>4, <1>5, <1>6, <1>7, <1>8, <1>10, <1>11, <1>12, <1>13, <1>14, <1>15, <1>16
  DEF Next, SendStep, WinHttp

-----------------------------------------------------------------------------
\* The inductive invariant holds, whatever the two threads and WinHTTP do
\* (simple_request.cc; winhttp_adapter.cc).
THEOREM Inductive == Spec => []IInv
<1>1. IInv /\ [Next]_vars => IInv'
  BY NextHandle, NextCallbacks, NextCut, NextResult, NextResponse DEF IInv
<1> QED
  BY <1>1, InitIInv, PTL DEF Spec

\* No callback comes for an adapter that is destroyed, unless the destructor gave
\* up waiting, and each finds the thread waiting for the call it answers
\* (winhttp_adapter.cc, StatusCallback and the destructor).
THEOREM CallbacksTheorem == Spec => []CallbacksExpected
BY Inductive, PTL DEF IInv

\* At most one block is written after Cancel has closed an open request
\* (simple_request.cc, Cancel and ReceiveData).
THEOREM TransferTheorem == Spec => []CancelEndsTransfer
<1>1. IInv => CancelEndsTransfer
  BY SMTT(30) DEF IInv, CutInv, CancelEndsTransfer
<1> QED
  BY <1>1, Inductive, PTL

\* A Send that says success was not cancelled before it began, and its file is
\* what was received and announced (simple_request.cc, DoSend and ReceiveData).
THEOREM AnswerTheorem == Spec => []AnswerTrue
<1>1. IInv => AnswerTrue
  BY DEF IInv, ResultInv, ResponseInv, Written, Whole, AnswerTrue
<1> QED
  BY <1>1, Inductive, PTL

-----------------------------------------------------------------------------
(* Send ends *)

\* The places where the thread waits for a callback, with the calls it made.
Waits == {"sending", "receiving", "querying", "reading"}
Calls == {<<"send", "sending">>, <<"receive", "receiving">>, <<"query", "querying">>,
          <<"read", "reading">>}

\* A thread that waits has made its call, and the answer has come or will.
WaitInv ==
  /\ handle \in {"none", "open", "closing", "closed"}
  /\ pc \in Waits => <<call, pc>> \in Calls /\ (completion \/ pending)

\* Nothing but the callback takes a call from WinHTTP.
LEMMA NextWait == WaitInv /\ [Next]_vars => WaitInv'
<1> SUFFICES ASSUME WaitInv, [Next]_vars PROVE WaitInv'
  OBVIOUS
<1>1. CASE SetUrlAndFilename \/ Send \/ Close
  <2>1. pc' \notin Waits
    BY <1>1, Zenon DEF SetUrlAndFilename, Send, Close, Goto, Waits
  <2>2. handle' \in {handle, "closing"}
    BY <1>1, Zenon DEF SetUrlAndFilename, Send, Close, CloseHandles, handles
  <2> QED  BY <2>1, <2>2, Zenon DEF WaitInv
<1>2. CASE Initialize \/ Closed
  <2>1. pc' \notin Waits
    BY <1>2, SMTT(30) DEF Initialize, Closed, Goto, Return, Waits
  <2>2. handle' = "none"
    BY <1>2, Zenon DEF Initialize, Closed, AdapterDestroyed
  <2> QED  BY <2>1, <2>2, Zenon DEF WaitInv
<1>3. CASE OpenRequest \/ SendWithoutSession \/ OpenDestinationFile \/ Connect
            \/ SetProxyInformation \/ DoSend \/ DeleteTarget
  <2>1. pc' \notin Waits
    BY <1>3, Zenon DEF OpenRequest, SendWithoutSession, OpenDestinationFile, Connect,
         SetProxyInformation, DoSend, DeleteTarget, Goto, Leave, Return, Waits
  <2>2. handle' \in {handle, "open"}
    BY <1>3, Zenon DEF OpenRequest, SendWithoutSession, OpenDestinationFile, Connect,
         SetProxyInformation, DoSend, DeleteTarget, handles
  <2> QED  BY <2>1, <2>2, Zenon DEF WaitInv
<1>4. CASE Sent \/ Received \/ ProxyAuthentication \/ ReceiveData \/ DataAvailable
            \/ ReceiveBlock \/ ReceiveEnd
  <2>1. pc' \notin Waits
    BY <1>4, SMTT(30) DEF Sent, Received, ProxyAuthentication, ReceiveData, DataAvailable,
         ReceiveBlock, ReceiveEnd, Goto, Leave, Waits
  <2>2. handle' = handle
    BY <1>4, Zenon DEF Sent, Received, ProxyAuthentication, ReceiveData, DataAvailable,
         ReceiveBlock, ReceiveEnd, handles
  <2> QED  BY <2>1, <2>2, Zenon DEF WaitInv
<1>5. CASE SendRequest \/ ReceiveResponse \/ ReadData \/ QueryDataAvailable
  <2>1. handle' = handle
    BY <1>5, Zenon DEF SendRequest, ReceiveResponse, ReadData, QueryDataAvailable, Begin, handles
  <2>2. pc' \notin Waits \/ (<<call', pc'>> \in Calls /\ pending')
    BY <1>5, Zenon DEF SendRequest, ReceiveResponse, ReadData, QueryDataAvailable, Begin,
         AsyncCall, Goto, Leave, Waits, Calls
  <2> QED  BY <2>1, <2>2, Zenon DEF WaitInv
<1>6. CASE Cancel
  <2>1. UNCHANGED <<pending, completion, call, pc>> /\ handle' \in {handle, "closing"}
    BY <1>6, Zenon DEF Cancel, CloseHandles, async, sender
  <2> QED  BY <2>1, Zenon DEF WaitInv
<1>7. CASE StatusCallback
  <2>1. completion' = TRUE /\ UNCHANGED <<call, pc, handle>>
    BY <1>7, Zenon DEF StatusCallback, sender, handles
  <2> QED  BY <2>1, Zenon DEF WaitInv
<1>8. CASE HandleClosing
  <2>1. handle' = "closed" /\ UNCHANGED <<pending, completion, call, pc>>
    BY <1>8, Zenon DEF HandleClosing, sender, async
  <2> QED  BY <2>1, Zenon DEF WaitInv
<1>9. CASE UNCHANGED vars
  BY <1>9, Zenon DEF WaitInv, vars, sender, handles, async
<1> QED
  BY <1>1, <1>2, <1>3, <1>4, <1>5, <1>6, <1>7, <1>8, <1>9, Zenon DEF Next, SendStep, WinHttp

\* The thread that calls Send, Close or the destructor never waits for a callback
\* that does not come, whenever Cancel closes the handles
\* (winhttp_adapter.cc, AsyncCallEnd and the destructor).
THEOREM AnswerComesTheorem == Spec => []AnswerComes
<1>1. Init => WaitInv
  BY Zenon DEF Init, WaitInv, Waits
<1>2. IInv /\ WaitInv => AnswerComes
  <2> SUFFICES ASSUME IInv, WaitInv PROVE AnswerComes
    OBVIOUS
  <2>1. ASSUME pc \in Waits
        PROVE  <<call, pc>> \in Calls /\ (completion \/ (pending /\ handle \in {"open", "closing"}))
    BY <2>1, Zenon DEF IInv, CallbacksExpected, WaitInv
  <2>2. ASSUME pc \in {"replace", "close", "destroy"}
        PROVE  ClosingSeen \/ (handle = "closing" /\ ~pending)
    <3>1. ~pending
      BY <2>2, SMTT(30) DEF IInv, CallbacksExpected
    <3>2. handle # "open"
      BY <2>2, Zenon DEF IInv, HandleInv, Before
    <3> QED  BY <3>1, <3>2, Zenon DEF WaitInv, ClosingSeen
  <2> QED  BY <2>1, <2>2, Zenon DEF AnswerComes, Waits, Calls
<1> QED  BY <1>1, <1>2, Inductive, NextWait, PTL DEF Spec

\* A measure is below another one from the first place where they differ.
LEMMA FirstDifference ==
  ASSUME NEW a, NEW b, NEW c, NEW d, NEW e, NEW f,
         NEW a1, NEW b1, NEW c1, NEW d1, NEW e1, NEW f1,
         \/ a1 < a
         \/ a1 = a /\ b1 < b
         \/ a1 = a /\ b1 = b /\ c1 < c
         \/ a1 = a /\ b1 = b /\ c1 = c /\ d1 < d
         \/ a1 = a /\ b1 = b /\ c1 = c /\ d1 = d /\ e1 < e
         \/ a1 = a /\ b1 = b /\ c1 = c /\ d1 = d /\ e1 = e /\ f1 < f
  PROVE  Below(<<a1, b1, c1, d1, e1, f1>>, <<a, b, c, d, e, f>>)
<1> DEFINE s == <<a1, b1, c1, d1, e1, f1>>
           t == <<a, b, c, d, e, f>>
<1>1. /\ DOMAIN t = 1..6
      /\ s[1] = a1 /\ s[2] = b1 /\ s[3] = c1 /\ s[4] = d1 /\ s[5] = e1 /\ s[6] = f1
      /\ t[1] = a /\ t[2] = b /\ t[3] = c /\ t[4] = d /\ t[5] = e /\ t[6] = f
  BY SMTT(30)
<1>2. PICK k \in 1..6 : /\ s[k] < t[k]
                        /\ k > 1 => s[1] = t[1]
                        /\ k > 2 => s[2] = t[2]
                        /\ k > 3 => s[3] = t[3]
                        /\ k > 4 => s[4] = t[4]
                        /\ k > 5 => s[5] = t[5]
  <2> HIDE DEF s, t
  <2> QED  BY <1>1, SMTT(30)
<1>3. \A m \in 1..(k - 1) : s[m] = t[m]
  <2> HIDE DEF s, t
  <2> QED  BY <1>2, SMTT(30)
<1> HIDE DEF s, t
<1>4. Below(s, t)  BY <1>1, <1>2, <1>3, SMTT(30) DEF Below
<1> QED  BY <1>4 DEF s, t

\* The parts of Send before there is a request, while it is sent for an answer and
\* while the body is read; and the places at its ends.
Early == {"open", "connect", "openrequest", "configure"}
Exchange == {"sendrequest", "sending", "receive", "receiving", "proxy"}
Body == {"query", "querying", "read", "reading"}
Ends == {"idle", "destroyed", "delete", "close", "destroy", "send", "replace"}

\* What the measure needs: how often a proxy may still ask, and that what was
\* received is no more than what the server sends.
MeasureInv ==
  /\ pc \in Early \cup Exchange \cup Body \cup Ends \cup {"headers", "check"}
  /\ proxy.retries \in 0..3 /\ proxy.max \in {1, 2}
  /\ proxy \in [retries : Nat, max : Nat, scheme : {"none", "auto", "basic"}]
  /\ proxy.scheme = "none" => proxy.max = 1
  /\ pc \in Exchange => proxy.retries <= proxy.max
  /\ pc \in Early \cup Ends => proxy = NoProxy
  /\ resend_count_ \in Nat /\ body \in Nat
  /\ request_state_ \in States /\ request_state_.bytes <= body
  /\ pc \in Early \cup Exchange \cup {"headers"} => request_state_.bytes = 0

\* The times a request may be sent again.
Resends == IF resend_count_ < kMaxResendAttempts THEN kMaxResendAttempts - resend_count_ ELSE 0

\* The measure is one.
LEMMA SendMeasured == MeasureInv => SendLeft \in Measure(6)
<1> SUFFICES ASSUME MeasureInv PROVE SendLeft \in Measure(6)  OBVIOUS
<1>1. Phase[pc] \in Nat
  BY SMTT(30) DEF MeasureInv, Phase, Early, Exchange, Body, Ends
<1>2. (IF pc \in DOMAIN CallPhase THEN CallPhase[pc] ELSE 0) \in Nat
  BY SMTT(30) DEF CallPhase
<1>3. (IF pc = "proxy" THEN 0 ELSE 1) \in Nat  BY SMTT(30)
<1>4. 3 - proxy.retries \in Nat  BY SMTT(30) DEF MeasureInv
<1>5. Resends \in Nat
  <2>1. resend_count_ \in Nat  BY Zenon DEF MeasureInv
  <2> QED  BY <2>1, RequestAssumption, SMTT(30) DEF Resends
<1>6. body - request_state_.bytes \in Nat
  <2>1. body \in Nat /\ request_state_.bytes \in Nat /\ request_state_.bytes <= body
    BY SMTT(30) DEF MeasureInv, States
  <2> QED  BY <2>1, SMTT(30)
<1> QED
  BY <1>1, <1>2, <1>3, <1>4, <1>5, <1>6, SMTT(30) DEF SendLeft, Measure, Resends

\* Where the phases stand.
LEMMA Phases ==
  /\ Phase["idle"] = 0 /\ Phase["destroyed"] = 0 /\ Phase["delete"] = 1
  /\ Phase["close"] = 2 /\ Phase["destroy"] = 2 /\ Phase["check"] = 3
  /\ \A p \in Body : Phase[p] = 4
  /\ Phase["headers"] = 5
  /\ \A p \in Exchange : Phase[p] = 6
  /\ Phase["configure"] = 7 /\ Phase["openrequest"] = 8 /\ Phase["connect"] = 9
  /\ Phase["open"] = 10 /\ Phase["replace"] = 11 /\ Phase["send"] = 12
BY SMTT(30) DEF Phase, Body, Exchange

\* Where the steps of an asynchronous call stand.
LEMMA CallPhases ==
  /\ CallPhase["sendrequest"] = 3 /\ CallPhase["sending"] = 2 /\ CallPhase["receive"] = 1
  /\ CallPhase["receiving"] = 0 /\ CallPhase["query"] = 3 /\ CallPhase["querying"] = 2
  /\ CallPhase["read"] = 1 /\ CallPhase["reading"] = 0
  /\ DOMAIN CallPhase = (Exchange \ {"proxy"}) \cup Body
BY SMTT(30) DEF CallPhase, Exchange, Body

\* The parts of the measure.
Asks == 3 - proxy.retries
Unasked == IF pc = "proxy" THEN 0 ELSE 1
Blocks == body - request_state_.bytes
Steps == IF pc \in DOMAIN CallPhase THEN CallPhase[pc] ELSE 0

\* The measure by its parts, before and after a step.
LEMMA Lefts ==
  /\ SendLeft = <<Phase[pc], Asks, Unasked, Resends, Blocks, Steps>>
  /\ SendLeft' = <<Phase[pc'], Asks', Unasked', Resends', Blocks', Steps'>>
<1>1. SendLeft = <<Phase[pc], Asks, Unasked, Resends, Blocks, Steps>>
  BY Zenon DEF SendLeft, Asks, Unasked, Resends, Blocks, Steps
<1>2. SendLeft' = <<Phase[pc'], Asks', Unasked', Resends', Blocks', Steps'>>
  BY Zenon DEF SendLeft, Asks, Unasked, Resends, Blocks, Steps
<1> QED  BY <1>1, <1>2, Zenon

\* Where the measure comes down.
LEMMA PartsShrink ==
  ASSUME \/ Phase[pc'] < Phase[pc]
         \/ /\ Phase[pc'] = Phase[pc]
            /\ \/ Asks' < Asks
               \/ Asks' = Asks /\ Unasked' < Unasked
               \/ Asks' = Asks /\ Unasked' = Unasked /\ Resends' < Resends
               \/ /\ Asks' = Asks /\ Unasked' = Unasked /\ Resends' = Resends
                  /\ Blocks' < Blocks
               \/ /\ Asks' = Asks /\ Unasked' = Unasked /\ Resends' = Resends
                  /\ Blocks' = Blocks /\ Steps' < Steps
  PROVE  Below(SendLeft', SendLeft)
BY Lefts, FirstDifference, Zenon

\* It comes down with the parts of Send.
LEMMA PhaseShrinks ==
  ASSUME Phase[pc'] < Phase[pc]
  PROVE  Below(SendLeft', SendLeft)
BY PartsShrink, Zenon

\* The measure comes down while a request is sent again: with what a proxy asks,
\* with the answer, with the resends, or with the steps of a call.
LEMMA ExchangeShrinks ==
  ASSUME MeasureInv, pc \in Exchange, pc' \in Exchange,
         \/ proxy'.retries = proxy.retries + 1
         \/ /\ proxy' = proxy /\ pc # "proxy"
            /\ \/ pc' = "proxy"
               \/ pc' # "proxy" /\ Resends' < Resends
               \/ /\ pc' # "proxy" /\ Resends' = Resends
                  /\ UNCHANGED <<body, request_state_>> /\ CallPhase[pc'] < CallPhase[pc]
  PROVE  Below(SendLeft', SendLeft)
<1>1. Phase[pc'] = Phase[pc]  BY Phases, Zenon
<1>2. CASE proxy'.retries = proxy.retries + 1
  <2> DEFINE r == proxy.retries
             r1 == proxy'.retries
  <2>1. r \in Nat /\ r1 = r + 1  BY <1>2, SMTT(30) DEF MeasureInv
  <2>2. 3 - r1 < 3 - r
    <3> HIDE DEF r, r1
    <3> QED  BY <2>1, SMTT(30)
  <2>3. Asks' < Asks  BY <2>2, Zenon DEF Asks
  <2> QED  BY <1>1, <2>3, PartsShrink, Zenon
<1>3. CASE proxy' = proxy /\ pc # "proxy" /\ pc' = "proxy"
  <2>1. 0 < 1  BY SMTT(30)
  <2>2. Asks' = Asks  BY <1>3, Zenon DEF Asks
  <2>3. Unasked' < Unasked  BY <1>3, <2>1, Zenon DEF Unasked
  <2> QED  BY <1>1, <2>2, <2>3, PartsShrink, Zenon
<1>4. CASE proxy' = proxy /\ pc # "proxy" /\ pc' # "proxy"
  <2>1. Asks' = Asks /\ Unasked' = Unasked  BY <1>4, Zenon DEF Asks, Unasked
  <2>2. CASE Resends' < Resends  BY <1>1, <2>1, <2>2, PartsShrink, Zenon
  <2>3. CASE /\ Resends' = Resends
             /\ UNCHANGED <<body, request_state_>> /\ CallPhase[pc'] < CallPhase[pc]
    <3>1. pc \in DOMAIN CallPhase /\ pc' \in DOMAIN CallPhase  BY <1>4, CallPhases, Zenon
    <3>2. Blocks' = Blocks  BY <2>3, Zenon DEF Blocks
    <3>3. Steps' < Steps  BY <2>3, <3>1, Zenon DEF Steps
    <3> QED  BY <1>1, <2>1, <2>3, <3>2, <3>3, PartsShrink, Zenon
  <2> QED  BY <1>4, <2>2, <2>3, <1>2, Zenon
<1> QED  BY <1>2, <1>3, <1>4, Zenon

\* The measure comes down while the body is received: with the blocks, or with the
\* steps for one.
LEMMA BodyShrinks ==
  ASSUME MeasureInv, pc \in Body, pc' \in Body, UNCHANGED <<proxy, resend_count_, body>>,
         \/ request_state_'.bytes = request_state_.bytes + 1
         \/ request_state_' = request_state_ /\ CallPhase[pc'] < CallPhase[pc]
  PROVE  Below(SendLeft', SendLeft)
<1>1. Phase[pc'] = Phase[pc]  BY Phases, Zenon
<1>2. pc # "proxy" /\ pc' # "proxy"  BY Zenon DEF Body
<1>3. Asks' = Asks /\ Unasked' = Unasked /\ Resends' = Resends
  BY <1>2, Zenon DEF Asks, Unasked, Resends
<1>4. CASE request_state_'.bytes = request_state_.bytes + 1
  <2> DEFINE b == request_state_.bytes
             b1 == request_state_'.bytes
  <2>1. b \in Nat /\ body \in Nat /\ b1 = b + 1  BY <1>4, SMTT(30) DEF MeasureInv, States
  <2>2. body - b1 < body - b
    <3> HIDE DEF b, b1
    <3> QED  BY <2>1, SMTT(30)
  <2>3. Blocks' < Blocks  BY <2>2, Zenon DEF Blocks
  <2> QED  BY <1>1, <1>3, <2>3, PartsShrink, Zenon
<1>5. CASE request_state_' = request_state_ /\ CallPhase[pc'] < CallPhase[pc]
  <2>1. pc \in DOMAIN CallPhase /\ pc' \in DOMAIN CallPhase  BY CallPhases, Zenon
  <2>2. Blocks' = Blocks  BY <1>5, Zenon DEF Blocks
  <2>3. Steps' < Steps  BY <1>5, <2>1, Zenon DEF Steps
  <2> QED  BY <1>1, <1>3, <2>2, <2>3, PartsShrink, Zenon
<1> QED  BY <1>4, <1>5, Zenon

\* The steps that leave what the measure counts alone.
Untouched == UNCHANGED <<proxy, resend_count_, body, request_state_>>

\* The parts of Send that are passed once.
LEMMA PartsPassed ==
  ASSUME MeasureInv,
         \/ SendWithoutSession \/ Send \/ Initialize \/ OpenDestinationFile \/ Connect
         \/ OpenRequest \/ SetProxyInformation \/ DoSend \/ Closed \/ DeleteTarget
  PROVE  MeasureInv' /\ Below(SendLeft', SendLeft)
<1> USE DEF Goto, Leave, Return
<1>1. CASE SendWithoutSession \/ Send \/ Closed \/ DeleteTarget
  <2>1. /\ Untouched
        /\ <<pc, pc'>> \in {<<"send", "idle">>, <<"send", "replace">>, <<"close", "idle">>,
                            <<"destroy", "delete">>, <<"delete", "destroyed">>}
    BY <1>1, SMTT(30) DEF SendWithoutSession, Send, Closed, DeleteTarget, Untouched, members
  <2>2. pc \in Ends /\ pc' \in Ends /\ Phase[pc'] < Phase[pc]
    BY <2>1, Phases, SMTT(30) DEF Ends
  <2>3. pc' \notin Early \cup Exchange \cup {"headers"}
    BY <2>1, SMTT(30) DEF Early, Exchange
  <2>4. MeasureInv'
    BY <2>1, <2>2, <2>3, Zenon DEF MeasureInv, Untouched
  <2> QED  BY <2>2, <2>4, PhaseShrinks, Zenon
<1>2. CASE Initialize
  <2>1. /\ pc = "replace" /\ UNCHANGED <<proxy, resend_count_, body>>
        /\ \/ pc' = "open" /\ request_state_' = NewState
           \/ pc' = "idle" /\ request_state_' = request_state_
    BY <1>2, Zenon DEF Initialize, members
  <2>2. Phase[pc'] < Phase[pc]  BY <2>1, Phases, SMTT(30)
  <2>3. request_state_' \in States /\ request_state_'.bytes <= body
    <3>1. NewState \in States /\ NewState.bytes = 0
      BY EmptyStates, Zenon
    <3>2. body \in Nat  BY Zenon DEF MeasureInv
    <3>3. 0 <= body  BY <3>2, SMTT(30)
    <3> QED  BY <2>1, <3>1, <3>3, Zenon DEF MeasureInv
  <2>4. pc' = "open" => request_state_'.bytes = 0
    BY <2>1, SMTT(30) DEF NewState, NoState
  <2>5. pc \in Ends /\ pc' \in Early \cup Ends /\ pc' \notin Exchange
        /\ (pc' \in Early => pc' = "open") /\ pc' # "headers"
    BY <2>1, SMTT(30) DEF Early, Ends, Exchange
  <2>6. MeasureInv'
    BY <2>1, <2>3, <2>4, <2>5, Zenon DEF MeasureInv
  <2> QED  BY <2>2, <2>6, PhaseShrinks, Zenon
<1>3. CASE OpenDestinationFile \/ Connect \/ OpenRequest \/ SetProxyInformation
  <2>1. /\ Untouched /\ pc \in Early
        /\ <<pc, pc'>> \in {<<"open", "connect">>, <<"connect", "openrequest">>,
                            <<"openrequest", "configure">>, <<"configure", "sendrequest">>}
           \/ pc' = "check"
    BY <1>3, SMTT(30) DEF OpenDestinationFile, Connect, OpenRequest, SetProxyInformation,
         Untouched, members, Early
  <2>2. Phase[pc'] < Phase[pc]  BY <2>1, Phases, SMTT(30) DEF Early, Exchange
  <2>3. NoProxy.retries <= NoProxy.max  BY SMTT(30) DEF NoProxy
  <2>4. pc' \in Early \cup {"sendrequest", "check"} /\ pc' \notin Ends
    BY <2>1, SMTT(30) DEF Early, Ends
  <2>5. "sendrequest" \in Exchange /\ "check" \notin Exchange \cup Early \cup Ends \cup {"headers"}
        /\ "sendrequest" \notin Early \cup Ends
    BY SMTT(30) DEF Exchange, Early, Ends
  <2>6. MeasureInv'
    BY <2>1, <2>3, <2>4, <2>5, Zenon DEF MeasureInv, Untouched
  <2> QED  BY <2>2, <2>6, PhaseShrinks, Zenon
<1>4. CASE DoSend
  <2>1. pc = "check" /\ pc' = "idle" /\ proxy' = NoProxy
        /\ UNCHANGED <<resend_count_, body, request_state_>>
    BY <1>4, Zenon DEF DoSend, members
  <2>2. Phase[pc'] < Phase[pc]  BY <2>1, Phases, SMTT(30)
  <2>3. /\ NoProxy.retries \in 0..3 /\ NoProxy.max \in {1, 2}
        /\ NoProxy \in [retries : Nat, max : Nat, scheme : {"none", "auto", "basic"}]
        /\ NoProxy.max = 1
    BY SMTT(30) DEF NoProxy
  <2>4. pc' \in Ends /\ pc' \notin Early \cup Exchange \cup {"headers"}
    BY <2>1, SMTT(30) DEF Ends, Early, Exchange
  <2>5. MeasureInv'
    BY <2>1, <2>3, <2>4, Zenon DEF MeasureInv
  <2> QED  BY <2>2, <2>5, PhaseShrinks, Zenon
<1> QED  BY <1>1, <1>2, <1>3, <1>4, Zenon

\* The steps that send a request and may send it again.
LEMMA ExchangePassed ==
  ASSUME MeasureInv, SendRequest \/ Sent \/ ReceiveResponse \/ Received
  PROVE  MeasureInv' /\ Below(SendLeft', SendLeft)
<1> USE DEF Goto, Leave
<1> DEFINE Out == {"check", "headers"}
<1>1. /\ Exchange \cap Early = {} /\ Exchange \cap Ends = {} /\ Exchange \cap Out = {}
      /\ Out \cap (Early \cup Ends) = {}
  BY SMTT(30) DEF Exchange, Early, Ends
<1>2. \A p \in Out, q \in Exchange : Phase[p] < Phase[q]
  BY Phases, SMTT(30)
<1>3. ASSUME UNCHANGED <<proxy, body>>, pc \in Exchange, pc' \in Exchange \cup Out,
             request_state_' \in States, request_state_'.bytes = request_state_.bytes,
             resend_count_' \in Nat
      PROVE  MeasureInv'
  BY <1>1, <1>3, Zenon DEF MeasureInv
<1>4. CASE SendRequest \/ Sent \/ ReceiveResponse
  <2>1. /\ Untouched
        /\ \/ <<pc, pc'>> \in {<<"sendrequest", "sending">>, <<"sending", "receive">>,
                               <<"receive", "receiving">>}
           \/ pc \in {"sendrequest", "sending", "receive"} /\ pc' = "check"
    BY <1>4, SMTT(30) DEF SendRequest, Sent, ReceiveResponse, Begin, Untouched, members
  <2>2. pc \in Exchange /\ pc' \in Exchange \cup Out
    BY <2>1, SMTT(30) DEF Exchange
  <2>3. request_state_' \in States /\ resend_count_' \in Nat
        /\ request_state_'.bytes = request_state_.bytes
    BY <2>1, Zenon DEF Untouched, MeasureInv
  <2>4. MeasureInv'
    BY <1>3, <2>1, <2>2, <2>3, Zenon DEF Untouched
  <2>5. CASE pc' \in Out
    BY <1>2, <2>2, <2>4, <2>5, PhaseShrinks, Zenon
  <2>6. CASE pc' \notin Out
    <3>1. CallPhase[pc'] < CallPhase[pc] /\ pc # "proxy" /\ pc' # "proxy"
      BY <2>1, <2>6, CallPhases, SMTT(30)
    <3>2. Resends' = Resends  BY <2>1, Zenon DEF Untouched, Resends
    <3>3. pc' \in Exchange  BY <2>2, <2>6, Zenon
    <3> QED  BY <2>1, <2>2, <2>4, <3>1, <3>2, <3>3, ExchangeShrinks, Zenon DEF Untouched
  <2> QED  BY <2>5, <2>6, Zenon
<1>5. CASE Received
  <2>1. pc = "receiving" /\ UNCHANGED <<proxy, body>>
    BY <1>5, Zenon DEF Received
  <2>2. pc \in Exchange /\ pc # "proxy"  BY <2>1, SMTT(30) DEF Exchange
  <2>3. resend_count_ \in Nat /\ request_state_ \in States
    BY Zenon DEF MeasureInv
  <2>4. CASE resend_count_' = Counted(resend_count_) /\ UNCHANGED request_state_
             /\ (IF resend_count_' < kMaxResendAttempts THEN pc' = "sendrequest"
                 ELSE pc' = "check")
    <3>1. resend_count_' = resend_count_ + 1  BY <2>4, Zenon DEF Counted
    <3>2. resend_count_' \in Nat  BY <2>3, <3>1, SMTT(30)
    <3>3. pc' \in Exchange \cup Out  BY <2>4, SMTT(30) DEF Exchange
    <3>4. MeasureInv'  BY <1>3, <2>1, <2>2, <2>3, <2>4, <3>2, <3>3, Zenon
    <3>5. CASE pc' = "check"  BY <1>2, <2>2, <3>4, <3>5, PhaseShrinks, Zenon
    <3>6. CASE pc' = "sendrequest" /\ resend_count_' < kMaxResendAttempts
      <4>1. Resends' < Resends
        BY <2>3, <3>1, <3>6, RequestAssumption, SMTT(30) DEF Resends
      <4>2. pc' \in Exchange /\ pc' # "proxy"  BY <3>6, SMTT(30) DEF Exchange
      <4> QED  BY <2>1, <2>2, <3>4, <4>1, <4>2, ExchangeShrinks, Zenon
    <3> QED  BY <2>4, <3>5, <3>6, Zenon
  <2>5. CASE pc' = "check" /\ resend_count_' \in {resend_count_, 0} /\ UNCHANGED request_state_
    <3>1. resend_count_' \in Nat  BY <2>3, <2>5, SMTT(30)
    <3>2. MeasureInv'  BY <1>3, <2>1, <2>2, <2>3, <2>5, <3>1, Zenon
    <3> QED  BY <1>2, <2>2, <2>5, <3>2, PhaseShrinks, Zenon
  <2>6. CASE /\ resend_count_' = 0
             /\ \E status \in Statuses :
                  /\ request_state_' = [request_state_ EXCEPT !.status = status]
                  /\ pc' = IF status = 407 THEN "proxy" ELSE "headers"
    <3>1. resend_count_' \in Nat  BY <2>6, SMTT(30)
    <3>2. PICK status \in Statuses :
                  /\ request_state_' = [request_state_ EXCEPT !.status = status]
                  /\ pc' = IF status = 407 THEN "proxy" ELSE "headers"
      BY <2>6, Zenon
    <3>3. status \in Nat  BY SMTT(30) DEF Statuses
    <3>4. request_state_' \in States /\ request_state_'.bytes = request_state_.bytes
      BY <2>3, <3>2, <3>3, SMTT(30) DEF States
    <3>5. pc' = "proxy" \/ pc' = "headers"  BY <3>2, Zenon
    <3>6. pc' \in Exchange \cup Out  BY <3>5, SMTT(30) DEF Exchange
    <3>7. MeasureInv'  BY <1>3, <2>1, <2>2, <3>1, <3>4, <3>6, Zenon
    <3>8. CASE pc' = "headers"  BY <1>2, <2>2, <3>7, <3>8, PhaseShrinks, Zenon
    <3>9. CASE pc' = "proxy"
      <4>1. pc' \in Exchange  BY <3>9, SMTT(30) DEF Exchange
      <4> QED  BY <2>1, <2>2, <3>7, <3>9, <4>1, ExchangeShrinks, Zenon
    <3> QED  BY <3>5, <3>8, <3>9, Zenon
  <2> QED  BY <1>5, <2>4, <2>5, <2>6, Zenon DEF Received
<1> QED  BY <1>4, <1>5, Zenon

\* A proxy asks again at most three times.
LEMMA ProxyPassed ==
  ASSUME MeasureInv, ProxyAuthentication
  PROVE  MeasureInv' /\ Below(SendLeft', SendLeft)
<1> USE DEF Goto, Leave
<1> DEFINE again == [proxy EXCEPT !.retries = @ + 1]
           Records == [retries : Nat, max : Nat, scheme : {"none", "auto", "basic"}]
<1>1. pc = "proxy" /\ UNCHANGED <<resend_count_, body, request_state_>>
  BY Zenon DEF ProxyAuthentication, members
<1>2. pc \in Exchange  BY <1>1, SMTT(30) DEF Exchange
<1>3. /\ proxy \in Records /\ proxy.retries \in 0..2 /\ proxy.retries <= proxy.max
      /\ proxy.max \in {1, 2} /\ (proxy.scheme = "none" => proxy.max = 1)
  BY <1>2, SMTT(30) DEF MeasureInv
<1>4. /\ again \in Records /\ again.retries = proxy.retries + 1
      /\ again.max = proxy.max /\ again.scheme = proxy.scheme
  BY <1>3, SMTT(30)
<1>5. /\ proxy' \in Records /\ proxy'.retries = proxy.retries + 1
      /\ proxy'.max \in {1, 2} /\ (proxy'.scheme = "none" => proxy'.max = 1)
      /\ \/ pc' = "sendrequest" /\ proxy'.retries <= proxy'.max
         \/ pc' \in {"headers", "check"}
  <2>1. CASE pc' \in {"headers", "check"} /\ proxy' = again
    BY <1>3, <1>4, <2>1, Zenon
  <2>2. CASE /\ again.retries <= again.max /\ proxy.scheme = "none" /\ pc' = "sendrequest"
             /\ proxy' = [again EXCEPT !.scheme = "auto", !.max = @ + 1]
    <3>1. /\ proxy' \in Records /\ proxy'.retries = again.retries
          /\ proxy'.max = again.max + 1 /\ proxy'.scheme = "auto"
      <4> DEFINE named == [again EXCEPT !.scheme = "auto"]
      <4> HIDE DEF again
      <4>1. /\ named \in Records /\ named.retries = again.retries
            /\ named.max = again.max /\ named.scheme = "auto"
        BY <1>4, SMTT(30)
      <4>2. proxy' = [named EXCEPT !.max = @ + 1]  BY <2>2
      <4> HIDE DEF named
      <4> QED  BY <4>1, <4>2, SMTT(30)
    <3>2. proxy'.max = 2  BY <1>3, <1>4, <2>2, <3>1, SMTT(30)
    <3>3. proxy'.retries <= 2  BY <1>3, <1>4, <2>2, <3>1, SMTT(30)
    <3> QED  BY <1>4, <2>2, <3>1, <3>2, <3>3, SMTT(30)
  <2>3. CASE /\ again.retries <= again.max /\ pc' = "sendrequest"
             /\ \E scheme \in {"auto", "basic"} : proxy' = [again EXCEPT !.scheme = scheme]
    <3>1. PICK scheme \in {"auto", "basic"} : proxy' = [again EXCEPT !.scheme = scheme]
      BY <2>3, Zenon
    <3>2. /\ proxy' \in Records /\ proxy'.retries = again.retries
          /\ proxy'.max = again.max /\ proxy'.scheme = scheme
      <4> HIDE DEF again
      <4> QED  BY <1>4, <3>1, SMTT(30)
    <3>3. proxy'.scheme # "none"  BY <3>2, SMTT(30)
    <3> QED  BY <1>3, <1>4, <2>3, <3>2, <3>3, Zenon
  <2> QED  BY <2>1, <2>2, <2>3, Zenon DEF ProxyAuthentication
<1> HIDE DEF again
<1>6. proxy'.retries \in 0..3
  BY <1>3, <1>5, SMTT(30)
<1>7. /\ pc' \in Exchange \cup {"headers", "check"} /\ pc' \notin Early \cup Ends
      /\ pc' \in Exchange => pc' = "sendrequest"
  BY <1>5, SMTT(30) DEF Exchange, Early, Ends
<1>8. pc' = "sendrequest" => proxy'.retries <= proxy'.max
  BY <1>5, SMTT(30)
<1>9. MeasureInv'
  BY <1>1, <1>2, <1>5, <1>6, <1>7, <1>8, Zenon DEF MeasureInv
<1>10. CASE pc' \in Exchange  BY <1>2, <1>5, <1>10, ExchangeShrinks, <1>9, Zenon
<1>11. CASE pc' \in {"headers", "check"}
  <2>1. Phase[pc'] < Phase[pc]  BY <1>2, <1>11, Phases, SMTT(30)
  <2> QED  BY <1>9, <2>1, PhaseShrinks, Zenon
<1> QED  BY <1>7, <1>10, <1>11, Zenon

\* The answer is read block by block.
LEMMA BodyPassed ==
  ASSUME MeasureInv,
         \/ ReceiveData \/ QueryDataAvailable \/ DataAvailable \/ ReadData \/ ReceiveBlock
         \/ ReceiveEnd
  PROVE  MeasureInv' /\ Below(SendLeft', SendLeft)
<1> USE DEF Goto, Leave
<1>1. /\ Body \cap (Early \cup Exchange \cup Ends \cup {"headers", "check"}) = {}
      /\ "check" \notin Early \cup Exchange \cup Ends \cup {"headers"}
  BY SMTT(30) DEF Body, Early, Exchange, Ends
<1>2. ASSUME UNCHANGED <<proxy, resend_count_>>, pc' \in Body \cup {"check"},
             body' \in Nat, request_state_' \in States, request_state_'.bytes <= body'
      PROVE  MeasureInv'
  BY <1>1, <1>2, Zenon DEF MeasureInv
<1>3. request_state_ \in States /\ body \in Nat /\ request_state_.bytes <= body
  BY Zenon DEF MeasureInv
<1>4. CASE ReceiveData
  <2>1. pc = "headers" /\ UNCHANGED <<proxy, resend_count_>>
    BY <1>4, Zenon DEF ReceiveData, members
  <2>2. request_state_.bytes = 0  BY <2>1, Zenon DEF MeasureInv
  <2>3. CASE pc' = "check" /\ UNCHANGED <<request_state_, body>>
    <3>1. MeasureInv'  BY <1>2, <1>3, <2>1, <2>3, Zenon
    <3>2. Phase[pc'] < Phase[pc]  BY <2>1, <2>3, Phases, SMTT(30)
    <3> QED  BY <3>1, <3>2, PhaseShrinks, Zenon
  <2>4. CASE /\ pc' = "query" /\ body' \in 0..MaxBody
             /\ \E length \in {0, body'} :
                  request_state_' = [request_state_ EXCEPT !.length = length]
    <3>1. PICK length \in {0, body'} :
                  request_state_' = [request_state_ EXCEPT !.length = length]
      BY <2>4, Zenon
    <3>2. body' \in Nat /\ length \in Nat /\ 0 <= body'
      BY <2>4, RequestAssumption, SMTT(30)
    <3>3. request_state_' \in States /\ request_state_'.bytes = request_state_.bytes
      BY <1>3, <3>1, <3>2, SMTT(30) DEF States
    <3>4. pc' \in Body  BY <2>4, SMTT(30) DEF Body
    <3>5. MeasureInv'  BY <1>2, <2>1, <2>2, <3>2, <3>3, <3>4, Zenon
    <3>6. Phase[pc'] < Phase[pc]  BY <2>1, <3>4, Phases, SMTT(30)
    <3> QED  BY <3>5, <3>6, PhaseShrinks, Zenon
  <2> QED  BY <1>4, <2>3, <2>4, Zenon DEF ReceiveData
<1>5. CASE QueryDataAvailable \/ DataAvailable \/ ReadData
  <2>1. /\ Untouched
        /\ <<pc, pc'>> \in {<<"query", "querying">>, <<"query", "read">>, <<"querying", "read">>,
                            <<"read", "reading">>, <<"read", "check">>}
    BY <1>5, SMTT(30) DEF QueryDataAvailable, DataAvailable, ReadData, Begin, Untouched, members
  <2>2. pc \in Body /\ pc' \in Body \cup {"check"}  BY <2>1, SMTT(30) DEF Body
  <2>3. MeasureInv'  BY <1>2, <1>3, <2>1, <2>2, Zenon DEF Untouched
  <2>4. CASE pc' = "check"
    <3>1. Phase[pc'] < Phase[pc]  BY <2>2, <2>4, Phases, SMTT(30)
    <3> QED  BY <2>3, <3>1, PhaseShrinks, Zenon
  <2>5. CASE pc' # "check"
    <3>1. CallPhase[pc'] < CallPhase[pc]  BY <2>1, <2>5, CallPhases, SMTT(30)
    <3>2. pc' \in Body  BY <2>2, <2>5, Zenon
    <3> QED  BY <2>1, <2>2, <2>3, <3>1, <3>2, BodyShrinks, Zenon DEF Untouched
  <2> QED  BY <2>4, <2>5, Zenon
<1>6. CASE ReceiveBlock
  <2>1. pc = "reading" /\ request_state_.bytes < body
        /\ UNCHANGED <<proxy, resend_count_, body>>
    BY <1>6, Zenon DEF ReceiveBlock, members
  <2>2. pc \in Body  BY <2>1, SMTT(30) DEF Body
  <2>3. CASE pc' = "query" /\ request_state_' = [request_state_ EXCEPT !.bytes = @ + 1]
    <3>1. request_state_' \in States /\ request_state_'.bytes = request_state_.bytes + 1
      BY <1>3, <2>3, SMTT(30) DEF States
    <3>2. request_state_'.bytes <= body'
      BY <1>3, <2>1, <3>1, SMTT(30) DEF States
    <3>3. pc' \in Body  BY <2>3, SMTT(30) DEF Body
    <3>4. MeasureInv'  BY <1>2, <1>3, <2>1, <3>1, <3>2, <3>3, Zenon
    <3> QED  BY <2>1, <2>2, <3>1, <3>3, <3>4, BodyShrinks, Zenon
  <2>4. CASE pc' = "check" /\ UNCHANGED request_state_
    <3>1. MeasureInv'  BY <1>2, <1>3, <2>1, <2>4, Zenon
    <3>2. Phase[pc'] < Phase[pc]  BY <2>2, <2>4, Phases, SMTT(30)
    <3> QED  BY <3>1, <3>2, PhaseShrinks, Zenon
  <2> QED  BY <1>6, <2>3, <2>4, Zenon DEF ReceiveBlock
<1>7. CASE ReceiveEnd
  <2>1. pc = "reading" /\ pc' = "check" /\ Untouched
    BY <1>7, Zenon DEF ReceiveEnd, Untouched
  <2>2. MeasureInv'  BY <1>2, <1>3, <2>1, Zenon DEF Untouched
  <2>3. Phase[pc'] < Phase[pc]  BY <2>1, Phases, SMTT(30) DEF Body
  <2> QED  BY <2>2, <2>3, PhaseShrinks, Zenon
<1> QED  BY <1>4, <1>5, <1>6, <1>7, Zenon

\* What begins, and what the others do meanwhile.
LEMMA OthersMeasured ==
  ASSUME MeasureInv, SetUrlAndFilename \/ Close \/ Cancel \/ WinHttp \/ UNCHANGED vars
  PROVE  /\ MeasureInv'
         /\ pc \notin {"idle", "destroyed"} => SendLeft' = SendLeft
<1>1. CASE SetUrlAndFilename \/ Close
  <2>1. /\ pc = "idle" /\ pc' \in {"send", "close", "destroy"}
        /\ UNCHANGED <<proxy, resend_count_, body>>
        /\ request_state_' \in {request_state_, NoState}
    BY <1>1, Zenon DEF SetUrlAndFilename, Close, Goto, members
  <2>2. pc \in Ends /\ pc' \in Ends /\ pc' \notin Early \cup Exchange \cup {"headers"}
    BY <2>1, SMTT(30) DEF Ends, Early, Exchange
  <2>3. request_state_' \in States /\ request_state_'.bytes <= body
    <3>1. body \in Nat  BY Zenon DEF MeasureInv
    <3>2. 0 <= body  BY <3>1, SMTT(30)
    <3> QED  BY <2>1, <3>2, EmptyStates, Zenon DEF MeasureInv
  <2> QED  BY <2>1, <2>2, <2>3, Zenon DEF MeasureInv
<1>2. CASE Cancel \/ WinHttp \/ UNCHANGED vars
  <2>1. pc' = pc /\ Untouched
    BY <1>2, Zenon DEF Cancel, WinHttp, StatusCallback, HandleClosing, vars, sender, members,
         Untouched
  <2> QED  BY <2>1, Zenon DEF MeasureInv, Untouched, SendLeft
<1> QED  BY <1>1, <1>2, Zenon

\* A step, as SendShrinks describes it.
MeasuredStep ==
  /\ SendLeft' \in Measure(6)
  /\ pc \notin {"idle", "destroyed"} =>
       IF SendStep THEN Below(SendLeft', SendLeft) ELSE SendLeft' = SendLeft

\* The same of every step that changes something.
LEMMA MeasuredForm == SendShrinks <=> [][MeasuredStep]_vars
BY DEF SendShrinks, MeasuredStep

\* Send, Close and the destructor end after finitely many steps of their thread,
\* however often WinHTTP and proxies ask for the request again, however long the
\* response is and whenever Cancel comes: with AnswerComes, they do end
\* (simple_request.cc, DoSend, SendRequest and ReceiveData).
THEOREM SendShrinksTheorem == Spec => SendShrinks
<1>1. Init => MeasureInv
  <2> SUFFICES ASSUME Init PROVE MeasureInv  OBVIOUS
  <2>1. /\ pc = "idle" /\ proxy = NoProxy /\ resend_count_ = 0 /\ body = 0
        /\ request_state_ = NoState
    BY Zenon DEF Init
  <2>2. pc \in Ends /\ pc \notin Early \cup Exchange \cup {"headers"}
    BY <2>1, SMTT(30) DEF Ends, Early, Exchange
  <2>3. /\ NoProxy.retries \in 0..3 /\ NoProxy.max \in {1, 2}
        /\ NoProxy \in [retries : Nat, max : Nat, scheme : {"none", "auto", "basic"}]
        /\ NoProxy.max = 1
    BY SMTT(30) DEF NoProxy
  <2>4. resend_count_ \in Nat /\ body \in Nat /\ 0 <= body  BY <2>1, SMTT(30)
  <2> QED  BY <2>1, <2>2, <2>3, <2>4, EmptyStates, Zenon DEF MeasureInv
<1>2. (MeasureInv => SendLeft \in Measure(6))'
  BY SendMeasured, PTL
<1>3. MeasureInv /\ SendStep => MeasureInv' /\ Below(SendLeft', SendLeft)
  BY PartsPassed, ExchangePassed, ProxyPassed, BodyPassed, Zenon DEF SendStep
<1>4. MeasureInv /\ [Next]_vars => MeasureInv' /\ [MeasuredStep]_vars
  BY <1>2, <1>3, OthersMeasured, Zenon DEF Next, MeasuredStep
<1> QED  BY <1>1, <1>4, MeasuredForm, PTL DEF Spec

-----------------------------------------------------------------------------
(* What NetworkRequest takes the request for *)

\* Where no Send is at work.
Rest == {"idle", "close", "destroy", "delete", "destroyed"}

\* The variables of HttpRequest.
httpState == IF pc \in Rest THEN "idle" ELSE "sending"
httpVars == <<httpState, is_canceled_, result>>

\* A step of Send and of the other threads, as a step of HttpRequest.
LEMMA StepHttp ==
  ASSUME ResultInv, CutInv, [Next]_vars
  PROVE  [Http!Next]_httpVars
<1>1. (pc \in Rest => httpState = "idle") /\ (pc \notin Rest => httpState = "sending")
  BY Zenon DEF httpState
<1>2. (pc' \in Rest => httpState' = "idle") /\ (pc' \notin Rest => httpState' = "sending")
  BY Zenon DEF httpState
<1>3. ASSUME UNCHANGED <<is_canceled_, result>>, pc \in Rest <=> pc' \in Rest
      PROVE  UNCHANGED httpVars
  BY <1>1, <1>2, <1>3, Zenon DEF httpVars
<1>4. ASSUME pc \notin Rest, pc' \in Rest, result' \in Http!Results(is_canceled_),
             UNCHANGED is_canceled_
      PROVE  Http!Return
  BY <1>1, <1>2, <1>4, Zenon DEF Http!Return, httpState, Rest
<1>5. CASE SetUrlAndFilename
  <2>1. pc = "idle" /\ pc' = "send" /\ UNCHANGED <<is_canceled_, result>>
    BY <1>5, Zenon DEF SetUrlAndFilename
  <2>2. Http!Send
    BY <2>1, SMTT(30) DEF Http!Send
  <2> QED  BY <2>2, Zenon DEF Http!Next
<1>6. CASE SendWithoutSession
  <2>1. pc = "send" /\ pc' = "idle" /\ result' = "fail" /\ UNCHANGED is_canceled_
    BY <1>6, Zenon DEF SendWithoutSession, Return
  <2>2. pc \notin Rest /\ pc' \in Rest  BY <2>1, SMTT(30) DEF Rest
  <2>3. result' \in Http!Results(is_canceled_)  BY <2>1, Zenon DEF Http!Results
  <2> QED  BY <1>4, <2>1, <2>2, <2>3, Zenon DEF Http!Next
<1>7. CASE Initialize
  <2>1. /\ pc = "replace" /\ UNCHANGED is_canceled_
        /\ \/ pc' = "idle" /\ result' = "fail"
           \/ pc' = "open" /\ result' = result
    BY <1>7, Zenon DEF Initialize, Return, Goto
  <2>2. CASE pc' = "idle" /\ result' = "fail"
    <3>1. pc \notin Rest /\ pc' \in Rest  BY <2>1, <2>2, SMTT(30) DEF Rest
    <3>2. result' \in Http!Results(is_canceled_)  BY <2>2, Zenon DEF Http!Results
    <3> QED  BY <1>4, <2>1, <3>1, <3>2, Zenon DEF Http!Next
  <2>3. CASE pc' = "open" /\ result' = result
    <3>1. pc \notin Rest /\ pc' \notin Rest  BY <2>1, <2>3, SMTT(30) DEF Rest
    <3> QED  BY <1>3, <2>1, <2>3, <3>1, Zenon
  <2> QED  BY <2>1, <2>2, <2>3, Zenon
<1>8. CASE DoSend
  <2>1. /\ pc = "check" /\ pc' = "idle" /\ UNCHANGED is_canceled_
        /\ result' = IF is_canceled_ THEN "cancelled" ELSE hr
    BY <1>8, Zenon DEF DoSend, Return
  <2>2. pc \notin Rest /\ pc' \in Rest  BY <2>1, SMTT(30) DEF Rest
  <2>3. hr \in {"ok", "fail"}  BY Zenon DEF ResultInv
  <2>4. result' \in Http!Results(is_canceled_)  BY <2>1, <2>3, Zenon DEF Http!Results
  <2> QED  BY <1>4, <2>1, <2>2, <2>4, Zenon DEF Http!Next
<1>9. CASE Cancel
  <2>1. ~is_canceled_ /\ is_canceled_' = TRUE /\ UNCHANGED <<pc, result>>
    BY <1>9, Zenon DEF Cancel, sender
  <2>2. Http!Cancel  BY <2>1, Zenon DEF Http!Cancel
  <2> QED  BY <2>2, Zenon DEF Http!Next
<1>10. CASE Close \/ Closed \/ DeleteTarget
  <2>1. /\ pc \in {"idle", "close", "destroy", "delete"}
        /\ pc' \in {"close", "destroy", "idle", "delete", "destroyed"}
        /\ UNCHANGED <<is_canceled_, result>>
    BY <1>10, SMTT(30) DEF Close, Closed, DeleteTarget, Goto
  <2>2. pc \in Rest /\ pc' \in Rest  BY <2>1, SMTT(30) DEF Rest
  <2> QED  BY <1>3, <2>1, <2>2, Zenon
<1>11. CASE WinHttp \/ UNCHANGED vars
  <2>1. UNCHANGED <<pc, is_canceled_, result>>
    BY <1>11, Zenon DEF WinHttp, StatusCallback, HandleClosing, vars, sender
  <2> QED  BY <1>3, <2>1, Zenon
<1>12. CASE \/ Send \/ OpenDestinationFile \/ Connect \/ OpenRequest \/ SetProxyInformation
            \/ SendRequest \/ Sent \/ ReceiveResponse \/ Received \/ ProxyAuthentication
            \/ ReceiveData \/ QueryDataAvailable \/ DataAvailable \/ ReadData \/ ReceiveBlock
            \/ ReceiveEnd
  <2>1. UNCHANGED <<is_canceled_, result>>
    BY <1>12, Zenon DEF Send, OpenDestinationFile, Connect, OpenRequest, SetProxyInformation,
         SendRequest, Sent, ReceiveResponse, Received, ProxyAuthentication, ReceiveData,
         QueryDataAvailable, DataAvailable, ReadData, ReceiveBlock, ReceiveEnd, Begin, Goto, Leave
  <2>2. pc \notin Rest
    BY <1>12, Zenon DEF Send, OpenDestinationFile, Connect, OpenRequest, SetProxyInformation,
         SendRequest, Sent, ReceiveResponse, Received, ProxyAuthentication, ReceiveData,
         QueryDataAvailable, DataAvailable, ReadData, ReceiveBlock, ReceiveEnd, Begin, Rest
  <2>3. pc' \notin Rest
    <3>1. CASE \/ Send \/ OpenDestinationFile \/ Connect \/ OpenRequest
               \/ SetProxyInformation \/ SendRequest \/ ReceiveResponse \/ ReadData
               \/ QueryDataAvailable \/ DataAvailable
      BY <3>1, Zenon DEF Send, OpenDestinationFile, Connect, OpenRequest,
           SetProxyInformation, SendRequest, ReceiveResponse, ReadData, QueryDataAvailable,
           DataAvailable, Begin, Goto, Leave, Rest
    <3>2. CASE Sent \/ Received \/ ReceiveData \/ ReceiveBlock \/ ReceiveEnd
      BY <3>2, SMTT(30) DEF Sent, Received, ReceiveData, ReceiveBlock, ReceiveEnd, Goto,
           Leave, Rest
    <3>3. CASE ProxyAuthentication
      BY <3>3, Zenon DEF ProxyAuthentication, Goto, Leave, Rest
    <3> QED  BY <1>12, <3>1, <3>2, <3>3, Zenon
  <2> QED  BY <1>3, <2>1, <2>2, <2>3, Zenon
<1> QED
  BY <1>5, <1>6, <1>7, <1>8, <1>9, <1>10, <1>11, <1>12, Zenon DEF Next, SendStep

\* The WinHTTP request implements the interface NetworkRequest is written against:
\* whatever Cancel and WinHTTP do, a Send that ends after Cancel does not succeed
\* (http_request.h; simple_request.cc, DoSend and Cancel).
THEOREM HttpRequestImplemented == Spec => ImplementsHttpRequest
<1>1. Init => Http!Init
  BY SMTT(30) DEF Init, Http!Init
<1>2. IInv /\ [Next]_vars => [Http!Next]_httpVars
  BY StepHttp, Zenon DEF IInv
<1>3. Http!Safety <=> Http!Init /\ [][Http!Next]_httpVars
  BY DEF Http!Safety, httpVars, httpState, Rest
<1> QED
  BY <1>1, <1>2, <1>3, Inductive, PTL DEF Spec, ImplementsHttpRequest
=============================================================================
