---------------------------- MODULE Pings_proofs ----------------------------
(* Pings are sent or kept, for every set of senders, every set of events and *)
(* every number of crashes.                                                  *)
EXTENDS Pings, TLAPS

\* A leaf is given to Zenon, then to the SMT solver, unless it names one of them.
USE ZenonT(30), SMTT(30)

\* The places of a sender whose ping has not left it.
Early == {"new", "string", "time", "remove", "live", "send"}

\* One sender.  Its events do not change once it has begun to send them, so
\* that what the /ping process has sent is all of them.
SenderInv(i) ==
  /\ reg[i].str \subseteq events[i]
  /\ pc[i] = "new" => events[i] = {}
  /\ pc[i] \notin {"new", "dead"} => events[i] # {}
  /\ pc[i] \in Early => child[i] = "none" /\ result[i] = "none"
  /\ pc[i] \in {"wait", "inprocess", "delete"} => result[i] = "none"
  /\ pc[i] = "time" => stamp[i] # 0
  /\ pc[i] \in {"remove", "live"} => i \in Bundles
  /\ pc[i] = "remove" => "uninstall" \in events[i]
  /\ pc[i] = "clear" => i \in OemPings
  /\ i \in OemPings => events[i] \subseteq {"oem"}
  /\ i \notin ForgetPings /\ (child[i] = "ok" \/ pc[i] \in {"delete", "clear"} \/ result[i] = "S_OK")
       => events[i] \subseteq server[i]

\* Every sender agrees with its /ping process and the server.
SendersInv == \A i \in Ids : SenderInv(i)

\* Without failures of the registry and without a /ua process beside it, a
\* sender has its ping in the registry until it was sent ...
KeptInv ==
  \A i \in Ids :
    /\ pc[i] \in {"time", "remove", "live", "send", "wait", "inprocess"} => reg[i].str = events[i]
    /\ pc[i] \in {"remove", "live", "send", "wait", "inprocess"} => Loadable(i)

\* ... and what /ua has loaded, or is about to delete, is what is there.
UaInv ==
  /\ ua # "idle" => \A i \in Ids : pc[i] \in {"new", "done", "dead"}
  /\ ua = "idle" => list = {}
  /\ ua # "deleting" => cur = {}
  /\ \A r \in list : Loadable(r.id) /\ reg[r.id].str = r.str
  /\ \A r, s \in list : r.id = s.id => r = s
  /\ \A i \in cur : /\ \A r \in list : r.id # i
                    /\ reg[i].str \subseteq server[i] \/ i \in dropped

\* No registry access fails and no bundle runs beside /ua.
NoTrouble == env.faults \cap {"registry", "overlap"} = {}

\* Then the registry holds what its senders have, and /ua what the registry holds.
QuietInv == NoTrouble => KeptInv /\ UaInv

\* The inductive invariant of the pings.
IInv == TypeOK /\ SendersInv

-----------------------------------------------------------------------------
(* One step of one sender *)

\* A sender that takes no step, while the server may learn more.
Same(j) ==
  /\ pc'[j] = pc[j] /\ stamp'[j] = stamp[j] /\ events'[j] = events[j] /\ reg'[j] = reg[j]
  /\ result'[j] = result[j] /\ child'[j] = child[j] /\ server[j] \subseteq server'[j]

\* A step that leaves a sender alone leaves what is said of it.
LEMMA SameInv == ASSUME NEW j, SenderInv(j), Same(j) PROVE SenderInv(j)'
BY DEF SenderInv, Same, Early

\* SendString adds to what the server has, and adds everything if it succeeds.
LEMMA SendAdds ==
  ASSUME TypeOK, NEW i \in Ids, NEW str \in SUBSET Events, NEW ok \in BOOLEAN, SendString(i, str, ok)
  PROVE  /\ server' \in [Ids -> SUBSET Events]
         /\ \A j \in Ids : server[j] \subseteq server'[j]
         /\ ok => str \subseteq server'[i]
<1>1. server' = server \/ server' = [server EXCEPT ![i] = @ \cup str]
  BY DEF SendString
<1>2. ok => server' = [server EXCEPT ![i] = @ \cup str]
  BY DEF SendString
<1> QED
  BY <1>1, <1>2, SMTT(30) DEF TypeOK

\* A new ping keeps the invariant.
LEMMA BeginStep ==
  ASSUME IInv, NEW i \in Ids, AddPingEvent(i) \/ SendReliablePing(i)
  PROVE  IInv'
<1>1. /\ pc[i] \in {"new", "live"} /\ pc' = [pc EXCEPT ![i] = "string"]
      /\ events' \in [Ids -> SUBSET Events]
      /\ \A j \in Ids \ {i} : events'[j] = events[j]
      /\ events[i] \subseteq events'[i] /\ events'[i] # {}
      /\ i \in OemPings => events'[i] \subseteq {"oem"}
  <2>1. CASE AddPingEvent(i)
    BY <2>1, SenderAssumption, SMTT(30) DEF IInv, TypeOK, AddPingEvent, NewEvents, Events
  <2>2. CASE SendReliablePing(i)
    <3>1. PICK e \in {"oem", "install"} :
            events' = [events EXCEPT ![i] = {e}] /\ (i \in OemPings => e = "oem")
      BY <2>2, SenderAssumption DEF SendReliablePing
    <3>2. events[i] = {} /\ pc[i] = "new" /\ pc' = [pc EXCEPT ![i] = "string"]
      BY <2>2 DEF IInv, SendersInv, SenderInv, SendReliablePing, Goto
    <3>3. {e} \in SUBSET Events
      BY DEF Events
    <3> QED
      BY <3>1, <3>2, <3>3 DEF IInv, TypeOK
  <2> QED
    BY <2>1, <2>2
<1>2. UNCHANGED <<now, stamp, registry, result, child, server, uaVars>>
  BY DEF AddPingEvent, SendReliablePing
<1>3. TypeOK'
  BY <1>1, <1>2 DEF IInv, TypeOK, registry, uaVars
<1>4. \A j \in Ids \ {i} : Same(j)
  BY <1>1, <1>2 DEF IInv, TypeOK, Same, registry
<1>5. SenderInv(i)'
  BY <1>1, <1>2 DEF IInv, TypeOK, SendersInv, SenderInv, Early, registry
<1> QED
  BY <1>3, <1>4, <1>5, SameInv DEF IInv, SendersInv

\* So do persisting it and removing the ClientState key.
LEMMA PersistStep ==
  ASSUME IInv, NEW i \in Ids, PersistString(i) \/ PersistTime(i) \/ RemoveClientState(i)
  PROVE  IInv'
<1>1. pc[i] \in {"string", "time"} =>
        /\ AfterPersist(i) \in {"send", "remove", "live"}
        /\ AfterPersist(i) \in {"remove", "live"} => i \in Bundles
        /\ AfterPersist(i) = "remove" => "uninstall" \in events[i]
  BY DEF AfterPersist, Reporting
<1>2. UNCHANGED <<now, events, result, child, server, uaVars>>
  BY DEF PersistString, PersistTime, RemoveClientState
<1>3. /\ pc[i] \in {"string", "time", "remove"} /\ pc' = [pc EXCEPT ![i] = pc'[i]]
      /\ pc'[i] \in {"time", "send", "remove", "live"}
      /\ pc'[i] \in {"remove", "live"} => i \in Bundles
      /\ pc'[i] = "remove" => "uninstall" \in events[i]
  BY <1>1 DEF IInv, TypeOK, SendersInv, SenderInv, PersistString, PersistTime,
              RemoveClientState, Goto
<1>4. /\ stamp' \in [Ids -> 0..MaxTime] /\ (pc'[i] = "time" => stamp'[i] # 0)
      /\ \A j \in Ids \ {i} : stamp'[j] = stamp[j]
  BY <1>1, ExpiryAssumption, SMTT(30) DEF IInv, TypeOK, Time, PersistString, PersistTime, RemoveClientState, Goto
<1>5. /\ reg' \in [Ids -> [key : BOOLEAN, str : SUBSET Events, time : 0..MaxTime]]
      /\ \A j \in Ids \ {i} : reg'[j] = reg[j]
      /\ reg'[i].str \subseteq events[i]
  <2>1. \/ reg' = reg
        \/ reg' = [reg EXCEPT ![i].key = TRUE, ![i].str = events[i]]
        \/ reg' = [reg EXCEPT ![i].key = TRUE, ![i].time = stamp[i]]
    BY DEF PersistString, PersistTime, RemoveClientState
  <2>2. /\ reg \in [Ids -> [key : BOOLEAN, str : SUBSET Events, time : 0..MaxTime]]
        /\ events[i] \in SUBSET Events /\ stamp[i] \in 0..MaxTime /\ reg[i].str \subseteq events[i]
    BY DEF IInv, TypeOK, SendersInv, SenderInv
  <2>3. CASE reg' = reg
    BY <2>2, <2>3
  <2>4. CASE reg' = [reg EXCEPT ![i].key = TRUE, ![i].str = events[i]]
    BY <2>2, <2>4
  <2>5. CASE reg' = [reg EXCEPT ![i].key = TRUE, ![i].time = stamp[i]]
    BY <2>2, <2>5
  <2> QED
    BY <2>1, <2>3, <2>4, <2>5
<1>6. TypeOK'
  <2>1. pc' \in [Ids -> {"new", "string", "time", "remove", "live", "send", "wait", "inprocess",
                         "delete", "clear", "done", "dead"}]
    BY <1>3 DEF IInv, TypeOK
  <2> QED
    BY <1>2, <1>4, <1>5, <2>1 DEF IInv, TypeOK, uaVars
<1>7. \A j \in Ids \ {i} : Same(j)
  BY <1>2, <1>3, <1>4, <1>5 DEF IInv, TypeOK, Same
<1>8. SenderInv(i)'
  BY <1>2, <1>3, <1>4, <1>5 DEF IInv, SendersInv, SenderInv, Early
<1> QED
  BY <1>6, <1>7, <1>8, SameInv DEF IInv, SendersInv

\* So do starting the /ping process, waiting for it and clearing oeminstall.
LEMMA SendStep ==
  ASSUME IInv, NEW i \in Ids,
         Destroy(i) \/ SendUsingGoogleUpdate(i) \/ WaitForPing(i) \/ ClearOemInstalled(i)
  PROVE  IInv'
<1>1. UNCHANGED <<now, stamp, reg, events, result, server, uaVars>>
  BY DEF Destroy, SendUsingGoogleUpdate, WaitForPing, ClearOemInstalled, registry
<1>2. TypeOK'
  BY <1>1 DEF IInv, TypeOK, Destroy, SendUsingGoogleUpdate, WaitForPing, ClearOemInstalled,
              Goto, uaVars
<1>3. \A j \in Ids \ {i} : Same(j)
  BY <1>1 DEF IInv, TypeOK, Same, Destroy, SendUsingGoogleUpdate, WaitForPing,
              ClearOemInstalled, Goto
<1>4. SenderInv(i)'
  <2>1. SenderInv(i) /\ DOMAIN pc = Ids /\ DOMAIN child = Ids
    BY DEF IInv, TypeOK, SendersInv
  <2>2. CASE Destroy(i)
    BY <1>1, <2>1, <2>2 DEF SenderInv, Early, Destroy, Goto
  <2>3. CASE SendUsingGoogleUpdate(i)
    BY <1>1, <2>1, <2>3 DEF SenderInv, Early, SendUsingGoogleUpdate, Goto
  <2>4. CASE WaitForPing(i)
    BY <1>1, <2>1, <2>4 DEF SenderInv, Early, WaitForPing, Goto
  <2>5. CASE ClearOemInstalled(i)
    BY <1>1, <2>1, <2>5 DEF SenderInv, Early, ClearOemInstalled, Goto
  <2> QED
    BY <2>2, <2>3, <2>4, <2>5
<1> QED
  BY <1>2, <1>3, <1>4, SameInv DEF IInv, SendersInv

\* The two places from which a ping is sent.
LEMMA DeliverStep ==
  ASSUME IInv, NEW i \in Ids, HandlePing(i) \/ SendInProcess(i)
  PROVE  IInv'
<1>1. UNCHANGED <<now, stamp, reg, events, uaVars>>
  BY DEF HandlePing, SendInProcess, registry
<1>2. events[i] \in SUBSET Events /\ SenderInv(i)
  BY DEF IInv, TypeOK, SendersInv
<1>3. CASE HandlePing(i)
  <2>1. PICK ok \in BOOLEAN : /\ SendString(i, events[i], ok)
                              /\ child' = [child EXCEPT ![i] = IF ok THEN "ok" ELSE "failed"]
    BY <1>3 DEF HandlePing
  <2>2. /\ server' \in [Ids -> SUBSET Events] /\ \A j \in Ids : server[j] \subseteq server'[j]
        /\ ok => events[i] \subseteq server'[i]
    BY <1>2, <2>1, SendAdds DEF IInv
  <2>3. UNCHANGED <<pc, result>> /\ child[i] = "running"
    BY <1>3 DEF HandlePing
  <2>4. TypeOK'
    BY <1>1, <2>1, <2>2, <2>3 DEF IInv, TypeOK, uaVars
  <2>5. \A j \in Ids \ {i} : Same(j)
    BY <1>1, <2>1, <2>2, <2>3 DEF IInv, TypeOK, Same
  <2>6. child'[i] = IF ok THEN "ok" ELSE "failed"
    BY <2>1 DEF IInv, TypeOK
  <2>7. SenderInv(i)'
    BY <1>1, <1>2, <2>2, <2>3, <2>6 DEF SenderInv, Early
  <2> QED
    BY <2>4, <2>5, <2>7, SameInv DEF IInv, SendersInv
<1>4. CASE SendInProcess(i)
  <2>1. PICK ok \in BOOLEAN : /\ Goto(i, "inprocess", IF ok THEN "delete" ELSE "done")
                              /\ SendString(i, events[i], ok)
                              /\ result' = [result EXCEPT ![i] = IF ok THEN @ ELSE "failed"]
    BY <1>4 DEF SendInProcess
  <2>2. /\ server' \in [Ids -> SUBSET Events] /\ \A j \in Ids : server[j] \subseteq server'[j]
        /\ ok => events[i] \subseteq server'[i]
    BY <1>2, <2>1, SendAdds DEF IInv
  <2>3. UNCHANGED child /\ pc[i] = "inprocess"
    BY <1>4 DEF SendInProcess, Goto
  <2>4. TypeOK'
    BY <1>1, <2>1, <2>2, <2>3 DEF IInv, TypeOK, Goto, uaVars
  <2>5. \A j \in Ids \ {i} : Same(j)
    BY <1>1, <2>1, <2>2, <2>3 DEF IInv, TypeOK, Same, Goto
  <2>6. /\ pc'[i] = IF ok THEN "delete" ELSE "done"
        /\ result'[i] = IF ok THEN result[i] ELSE "failed"
    BY <2>1 DEF IInv, TypeOK, Goto
  <2>7. SenderInv(i)'
    BY <1>1, <1>2, <2>2, <2>3, <2>6 DEF SenderInv, Early
  <2> QED
    BY <2>4, <2>5, <2>7, SameInv DEF IInv, SendersInv
<1> QED
  BY <1>3, <1>4

\* So does deleting what was sent.
LEMMA DeleteStep == ASSUME IInv, NEW i \in Ids, DeletePersistedPingOnSuccess(i) PROVE IInv'
<1>1. UNCHANGED <<now, stamp, events, child, server, uaVars>>
  BY DEF DeletePersistedPingOnSuccess
<1>2. NoKey \in [key : BOOLEAN, str : SUBSET Events, time : 0..MaxTime]
  BY ExpiryAssumption, SMTT(30) DEF NoKey
<1>3. TypeOK'
  BY <1>1, <1>2
  DEF IInv, TypeOK, DeletePersistedPingOnSuccess, DeletePersistedPing, Goto, uaVars
<1>4. \A j \in Ids \ {i} : Same(j)
  BY <1>1 DEF IInv, TypeOK, Same, DeletePersistedPingOnSuccess, DeletePersistedPing, Goto
<1>5. /\ pc[i] = "delete" /\ pc'[i] = (IF i \in OemPings THEN "clear" ELSE "done")
      /\ result'[i] = "S_OK" /\ reg'[i].str = {}
  BY DEF IInv, TypeOK, DeletePersistedPingOnSuccess, DeletePersistedPing, Goto, NoKey
<1>6. SenderInv(i)'
  BY <1>1, <1>5 DEF IInv, SendersInv, SenderInv, Early
<1> QED
  BY <1>3, <1>4, <1>6, SameInv DEF IInv, SendersInv

\* So does SendPersistedPings of /ua.
LEMMA UaInvStep == IInv /\ UaStep => IInv'
<1> SUFFICES ASSUME IInv, UaStep PROVE IInv'
  OBVIOUS
<1>1. UNCHANGED <<now, stamp, pc, events, result, child>>
  BY DEF UaStep, SendPersistedPings, Resend, DeleteSent, EndUa
<1>2. CASE SendPersistedPings
  <2>1. list' \subseteq [id : Ids, time : 0..MaxTime, str : SUBSET Events]
    BY <1>2, SMTT(30) DEF IInv, TypeOK, SendPersistedPings, LoadPersistedPings
  <2> QED
    BY <1>1, <1>2, <2>1, SameInv
    DEF IInv, TypeOK, SendersInv, Same, SendPersistedPings, registry
<1>3. CASE Resend
  <2>1. PICK r \in list, ok \in BOOLEAN : SendString(r.id, r.str, ok)
    BY <1>3 DEF Resend
  <2>2. r.id \in Ids /\ r.str \in SUBSET Events
    BY DEF IInv, TypeOK
  <2>3. server' \in [Ids -> SUBSET Events] /\ \A j \in Ids : server[j] \subseteq server'[j]
    BY <2>1, <2>2, SendAdds DEF IInv
  <2>4. /\ reg' = reg /\ list' \subseteq list /\ cur' \subseteq Ids /\ dropped' \subseteq Ids
        /\ ua' \in {"sending", "deleting"}
    BY <1>3 DEF IInv, TypeOK, Resend, registry
  <2> QED
    BY <1>1, <2>3, <2>4, SameInv DEF IInv, TypeOK, SendersInv, Same
<1>4. CASE DeleteSent
  <2>1. PICK i \in Ids : reg' = [reg EXCEPT ![i] = NoKey]
    BY <1>4 DEF IInv, TypeOK, DeleteSent, DeletePersistedPing
  <2>2. NoKey \in [key : BOOLEAN, str : SUBSET Events, time : 0..MaxTime] /\ NoKey.str = {}
    BY ExpiryAssumption, SMTT(30) DEF NoKey
  <2>3. TypeOK'
    BY <1>1, <1>4, <2>1, <2>2 DEF IInv, TypeOK, DeleteSent
  <2>4. \A j \in Ids : reg'[j].str \subseteq reg[j].str
    BY <2>1, <2>2 DEF IInv, TypeOK
  <2>5. SendersInv'
    BY <1>1, <1>4, <2>4 DEF IInv, SendersInv, SenderInv, Early, DeleteSent
  <2> QED
    BY <2>3, <2>5 DEF IInv
<1>5. CASE EndUa
  BY <1>1, <1>5, SameInv DEF IInv, TypeOK, SendersInv, Same, EndUa, registry
<1> QED
  BY <1>2, <1>3, <1>4, <1>5 DEF UaStep

\* So do the clock and a crash.
LEMMA OtherStep == IInv /\ (Tick \/ ClockSetBack \/ Crash \/ UNCHANGED vars) => IInv'
<1> SUFFICES ASSUME IInv, Tick \/ ClockSetBack \/ Crash \/ UNCHANGED vars PROVE IInv'
  OBVIOUS
<1>1. CASE Tick \/ ClockSetBack \/ UNCHANGED vars
  <2>1. UNCHANGED <<stamp, reg, pc, events, result, child, server, uaVars>>
    BY <1>1 DEF Tick, ClockSetBack, vars, registry, uaVars
  <2>2. now' \in Time
    BY <1>1, ExpiryAssumption, SMTT(30) DEF IInv, TypeOK, Time, Tick, ClockSetBack, vars
  <2> QED
    BY <2>1, <2>2, SameInv DEF IInv, TypeOK, SendersInv, Same, uaVars
<1>2. CASE Crash
  <2>1. UNCHANGED <<now, reg, events, result, child, server, dropped>>
    BY <1>2 DEF Crash, registry
  <2>2. /\ DOMAIN pc' = Ids /\ \A i \in Ids : pc'[i] = pc[i] \/ (pc'[i] = "dead" /\ pc[i] # "new")
        /\ pc' = [i \in Ids |-> pc'[i]]
    BY <1>2 DEF IInv, TypeOK, Crash
  <2>3. stamp' = [i \in Ids |-> IF pc'[i] = "dead" THEN 0 ELSE stamp[i]]
    BY <1>2 DEF Crash
  <2>4. stamp' \in [Ids -> 0..MaxTime]
    BY <2>3, ExpiryAssumption, SMTT(30) DEF IInv, TypeOK
  <2>5. pc' \in [Ids -> {"new", "string", "time", "remove", "live", "send", "wait", "inprocess",
                         "delete", "clear", "done", "dead"}]
    BY <2>2 DEF IInv, TypeOK
  <2>6. list' \in {list, {}} /\ cur' \in {cur, {}} /\ ua' \in {ua, "idle"}
    BY <1>2 DEF Crash
  <2>7. TypeOK'
    BY <2>1, <2>4, <2>5, <2>6 DEF IInv, TypeOK
  <2>8. ASSUME NEW i \in Ids PROVE SenderInv(i)'
    BY <2>1, <2>2, <2>3 DEF IInv, SendersInv, SenderInv, Early
  <2> QED
    BY <2>7, <2>8 DEF IInv, SendersInv
<1> QED
  BY <1>1, <1>2

\* The invariant holds at first.
LEMMA InitIInv == Init => IInv
<1> SUFFICES ASSUME Init PROVE IInv
  OBVIOUS
<1>1. NoKey \in [key : BOOLEAN, str : SUBSET Events, time : 0..MaxTime] /\ NoKey.str = {}
  BY ExpiryAssumption, SMTT(30) DEF NoKey
<1>2. TypeOK
  BY <1>1, ExpiryAssumption, SMTT(30) DEF Init, TypeOK, Time
<1>3. SendersInv
  BY <1>1 DEF Init, SendersInv, SenderInv, Early
<1> QED
  BY <1>2, <1>3 DEF IInv

\* Every step keeps the invariant.
LEMMA NextIInv == IInv /\ [Next]_vars => IInv'
BY BeginStep, PersistStep, SendStep, DeliverStep, DeleteStep, UaInvStep, OtherStep
DEF Next, SenderStep

\* The inductive invariant holds: where a ping is between Ping::Send and the
\* registry, for every process (ping.cc, SendReliablePing, SendPersistedPings).
THEOREM Inductive == Spec => []IInv
BY InitIInv, NextIInv, PTL DEF Spec

\* Ping::Send returns S_OK only when the server has the whole ping.
THEOREM OkTheorem == Spec => []OkMeansSent
<1>1. IInv => OkMeansSent
  BY DEF IInv, SendersInv, SenderInv, OkMeansSent
<1> QED
  BY <1>1, Inductive, PTL

\* The server never forgets an event.
LEMMA ServerGrows ==
  ASSUME IInv, [Next]_vars, NEW j \in Ids PROVE server[j] \subseteq server'[j]
<1>1. CASE \E i \in Ids : HandlePing(i) \/ SendInProcess(i)
  <2>1. PICK i \in Ids, ok \in BOOLEAN : SendString(i, events[i], ok)
    BY <1>1 DEF HandlePing, SendInProcess
  <2> QED
    BY <2>1, SendAdds DEF IInv, TypeOK
<1>2. CASE Resend
  <2>1. PICK r \in list, ok \in BOOLEAN : SendString(r.id, r.str, ok)
    BY <1>2 DEF Resend
  <2>2. r.id \in Ids /\ r.str \in SUBSET Events
    BY DEF IInv, TypeOK
  <2> QED
    BY <2>1, <2>2, SendAdds DEF IInv
<1>3. CASE UNCHANGED server
  BY <1>3
<1> QED
  BY <1>1, <1>2, <1>3
  DEF Next, SenderStep, UaStep, AddPingEvent, SendReliablePing, Destroy, PersistString,
      PersistTime, RemoveClientState, SendUsingGoogleUpdate, WaitForPing,
      DeletePersistedPingOnSuccess, ClearOemInstalled, SendPersistedPings, DeleteSent, EndUa,
      Tick, ClockSetBack, Crash, vars

\* oeminstall is cleared only when the server knows of the OEM installation
\* (worker.cc, the OEM ping; ping.cc, SendReliablePing; app_manager.cc,
\* ClearOemInstalled).
THEOREM OemTheorem == Spec => []OemClearedAfterPing
<1>1. Init => OemClearedAfterPing
  BY DEF Init, OemClearedAfterPing
<1>2. IInv /\ OemClearedAfterPing /\ [Next]_vars => OemClearedAfterPing'
  <2> SUFFICES ASSUME IInv, OemClearedAfterPing, [Next]_vars PROVE OemClearedAfterPing'
    OBVIOUS
  <2>1. CASE \E i \in Ids : ClearOemInstalled(i)
    <3>1. PICK i \in Ids : ClearOemInstalled(i)
      BY <2>1
    <3>2. i \in OemPings /\ "oem" \in server[i]
      BY <3>1, SenderAssumption DEF IInv, SendersInv, SenderInv, ClearOemInstalled, Goto
    <3> QED
      BY <3>1, <3>2, ServerGrows DEF OemClearedAfterPing
  <2>2. CASE UNCHANGED oem
    BY <2>2, ServerGrows DEF OemClearedAfterPing, Ids
  <2> QED
    BY <2>1, <2>2
    DEF Next, SenderStep, UaStep, AddPingEvent, SendReliablePing, Destroy, PersistString,
        PersistTime, RemoveClientState, SendUsingGoogleUpdate, HandlePing, WaitForPing,
        SendInProcess, DeletePersistedPingOnSuccess, SendPersistedPings, Resend, DeleteSent,
        EndUa, Tick, ClockSetBack, Crash, vars, registry
<1> QED
  BY <1>1, <1>2, InitIInv, NextIInv, PTL DEF Spec

-----------------------------------------------------------------------------
(* What is kept when nothing disturbs the registry *)

\* While a sender is at work /ua is not, and has nothing in hand.
LEMMA AtWork ==
  ASSUME IInv, NoTrouble, UaInv, NEW i \in Ids,
         AddPingEvent(i) \/ SendReliablePing(i) \/ Destroy(i) \/ SenderStep(i)
  PROVE  ua = "idle" /\ list = {} /\ cur = {} /\ UNCHANGED <<env, uaVars>>
<1>1. UNCHANGED <<env, uaVars>>
  BY DEF AddPingEvent, SendReliablePing, Destroy, SenderStep, PersistString, PersistTime,
         RemoveClientState, SendUsingGoogleUpdate, WaitForPing, SendInProcess,
         DeletePersistedPingOnSuccess, ClearOemInstalled
<1>2. ua = "idle"
  <2>1. CASE AddPingEvent(i) \/ SendReliablePing(i)
    BY <2>1 DEF NoTrouble, AddPingEvent, SendReliablePing, MayBegin
  <2>2. CASE Destroy(i) \/ SenderStep(i)
    <3>1. pc[i] \notin {"new", "done", "dead"}
      BY <2>2 DEF Destroy, SenderStep, PersistString, PersistTime, RemoveClientState,
             SendUsingGoogleUpdate, WaitForPing, SendInProcess, DeletePersistedPingOnSuccess,
             ClearOemInstalled, Goto
    <3> QED
      BY <3>1 DEF UaInv
  <2> QED
    BY <2>1, <2>2
<1> QED
  BY <1>1, <1>2 DEF UaInv

\* A sender keeps what is said of persisted pings.
LEMMA SenderKeeps ==
  ASSUME IInv, NoTrouble, KeptInv, UaInv, NEW i \in Ids,
         AddPingEvent(i) \/ SendReliablePing(i) \/ Destroy(i) \/ SenderStep(i)
  PROVE  KeptInv' /\ UaInv'
<1>1. UaInv'
  BY AtWork DEF UaInv, uaVars
<1>2. ASSUME NEW j \in Ids \ {i} PROVE pc'[j] = pc[j] /\ reg'[j] = reg[j] /\ events'[j] = events[j]
  BY DEF IInv, TypeOK, AddPingEvent, SendReliablePing, Destroy, SenderStep, PersistString,
         PersistTime, RemoveClientState, SendUsingGoogleUpdate, WaitForPing, SendInProcess,
         DeletePersistedPingOnSuccess, DeletePersistedPing, ClearOemInstalled, Goto, registry
<1>3. /\ pc'[i] \in {"time", "remove", "live", "send", "wait", "inprocess"} => reg'[i].str = events'[i]
      /\ pc'[i] \in {"remove", "live", "send", "wait", "inprocess"} => Loadable(i)'
  <2>1. CASE AddPingEvent(i) \/ SendReliablePing(i) \/ DeletePersistedPingOnSuccess(i) \/ ClearOemInstalled(i)
    BY <2>1 DEF IInv, TypeOK, AddPingEvent, SendReliablePing, DeletePersistedPingOnSuccess,
                ClearOemInstalled, Goto
  <2>2. CASE PersistString(i)
    BY <2>2, SMTT(30) DEF IInv, TypeOK, NoTrouble, PersistString, Goto
  <2>3. CASE PersistTime(i)
    <3>1. /\ reg'[i].key = TRUE /\ reg'[i].str = events[i] /\ reg'[i].time = stamp[i]
          /\ events'[i] = events[i]
      BY <2>3, SMTT(30) DEF IInv, TypeOK, NoTrouble, KeptInv, PersistTime, Goto
    <3>2. stamp[i] # 0 /\ events[i] # {}
      BY <2>3 DEF IInv, SendersInv, SenderInv, PersistTime, Goto
    <3> QED
      BY <3>1, <3>2 DEF Loadable
  <2>4. CASE RemoveClientState(i) \/ Destroy(i) \/ SendUsingGoogleUpdate(i) \/ WaitForPing(i)
               \/ SendInProcess(i)
    <3>1. UNCHANGED <<reg, events>>
      BY <2>4 DEF RemoveClientState, Destroy, SendUsingGoogleUpdate, WaitForPing, SendInProcess,
                  registry
    <3>2. pc'[i] \in {"time", "remove", "live", "send", "wait", "inprocess"} =>
            pc[i] \in {"remove", "live", "send", "wait", "inprocess"}
      BY <2>4 DEF IInv, TypeOK, RemoveClientState, Destroy, SendUsingGoogleUpdate, WaitForPing,
                  SendInProcess, Goto
    <3> QED
      BY <3>1, <3>2 DEF KeptInv, Loadable
  <2> QED
    BY <2>1, <2>2, <2>3, <2>4 DEF SenderStep
<1>4. KeptInv'
  BY <1>2, <1>3 DEF KeptInv, Loadable
<1> QED
  BY <1>1, <1>4

\* So does /ua.
LEMMA UaKeeps ==
  ASSUME IInv, NoTrouble, KeptInv, UaInv, UaStep
  PROVE  KeptInv' /\ UaInv'
<1>1. \A i \in Ids : pc'[i] = pc[i] /\ pc[i] \in {"new", "done", "dead"}
  BY DEF NoTrouble, UaInv, UaStep, SendPersistedPings, Resend, DeleteSent, EndUa
<1>2. KeptInv'
  BY <1>1 DEF KeptInv
<1>3. CASE SendPersistedPings
  <2>1. list' = LoadPersistedPings /\ ua' = "sending" /\ cur' = {} /\ reg' = reg
    BY <1>3 DEF UaInv, SendPersistedPings, registry
  <2>2. \A r \in list' : Loadable(r.id)' /\ reg'[r.id].str = r.str /\ r.time = reg[r.id].time
    BY <2>1, SMTT(30) DEF LoadPersistedPings, Loadable
  <2>3. \A r, s \in list' : r.id = s.id => r = s
    BY <2>1, SMTT(30) DEF LoadPersistedPings
  <2> QED
    BY <1>1, <1>2, <2>1, <2>2, <2>3 DEF UaInv
<1>4. CASE Resend
  <2>1. PICK r \in list, ok \in BOOLEAN :
          /\ SendString(r.id, r.str, ok) /\ list' = list \ {r}
          /\ \/ /\ cur' = {r.id} /\ ua' = "deleting"
                /\ ok \/ r.id \in dropped'
             \/ cur' = {} /\ ua' = "sending"
    BY <1>4 DEF Resend
  <2>2. r.id \in Ids /\ r.str \in SUBSET Events /\ reg' = reg
    BY <1>4 DEF IInv, TypeOK, Resend, registry
  <2>3. ok => r.str \subseteq server'[r.id]
    BY <2>1, <2>2, SendAdds DEF IInv
  <2> QED
    BY <1>1, <1>2, <2>1, <2>2, <2>3, SMTT(30) DEF UaInv, Loadable
<1>5. CASE DeleteSent
  <2>1. PICK i \in cur : reg' = [reg EXCEPT ![i] = NoKey]
    BY <1>5 DEF DeleteSent, DeletePersistedPing
  <2>2. UNCHANGED list /\ cur' = {} /\ ua' = "sending"
    BY <1>5 DEF DeleteSent
  <2>3. \A r \in list : r.id \in Ids /\ reg'[r.id] = reg[r.id]
    BY <2>1 DEF IInv, TypeOK, UaInv
  <2> QED
    BY <1>1, <1>2, <2>2, <2>3, SMTT(30) DEF UaInv, Loadable
<1>6. CASE EndUa
  BY <1>1, <1>2, <1>6 DEF UaInv, EndUa, Loadable, registry
<1> QED
  BY <1>3, <1>4, <1>5, <1>6 DEF UaStep

\* Every step keeps QuietInv.
LEMMA NextQuiet == IInv /\ QuietInv /\ [Next]_vars => QuietInv'
<1> SUFFICES ASSUME IInv, QuietInv, [Next]_vars, NoTrouble' PROVE KeptInv' /\ UaInv'
  BY DEF QuietInv
<1>1. NoTrouble
  BY DEF NoTrouble, Next, SenderStep, UaStep, AddPingEvent, SendReliablePing, Destroy,
         PersistString, PersistTime, RemoveClientState, SendUsingGoogleUpdate, HandlePing,
         WaitForPing, SendInProcess, DeletePersistedPingOnSuccess, ClearOemInstalled,
         SendPersistedPings, Resend, DeleteSent, EndUa, Tick, ClockSetBack, Crash, vars
<1>2. KeptInv /\ UaInv
  BY <1>1 DEF QuietInv
<1>3. CASE \E i \in Ids : AddPingEvent(i) \/ SendReliablePing(i) \/ Destroy(i) \/ SenderStep(i)
  BY <1>1, <1>2, <1>3, SenderKeeps
<1>4. CASE UaStep
  BY <1>1, <1>2, <1>4, UaKeeps
<1>5. CASE \/ \E i \in Ids : HandlePing(i)
           \/ Tick \/ ClockSetBack \/ UNCHANGED vars
  <2>1. UNCHANGED <<reg, pc, events, uaVars>>
    BY <1>5 DEF HandlePing, Tick, ClockSetBack, vars, registry, uaVars
  <2>2. \A i \in cur : server[i] \subseteq server'[i]
    BY ServerGrows DEF IInv, TypeOK
  <2> QED
    BY <1>2, <2>1, <2>2 DEF KeptInv, UaInv, Loadable, uaVars
<1>6. CASE Crash
  <2>1. UNCHANGED <<reg, events, server, dropped>>
    BY <1>6 DEF Crash, registry
  <2>2. \A i \in Ids : pc'[i] = pc[i] \/ pc'[i] = "dead"
    BY <1>6 DEF IInv, TypeOK, Crash
  <2>3. UNCHANGED <<ua, list, cur>> \/ (ua' = "idle" /\ list' = {} /\ cur' = {})
    BY <1>6 DEF Crash
  <2>4. KeptInv'
    BY <1>2, <2>1, <2>2 DEF KeptInv, Loadable
  <2>5. UaInv'
    BY <1>2, <2>1, <2>2, <2>3 DEF UaInv, Loadable
  <2> QED
    BY <2>4, <2>5
<1> QED
  BY <1>3, <1>4, <1>5, <1>6 DEF Next

\* An event that a request id can account for stays known, until the ping
\* expires or nobody waits for it.
LEMMA KnownStays ==
  ASSUME IInv, NoTrouble, KeptInv, UaInv, [Next]_vars, NEW j \in Ids,
         j \in ForgetPings => pc[j] # "delete"
  PROVE  Known(j) \subseteq Known(j)' \/ j \in dropped'
<1>1. server[j] \subseteq server'[j]
  BY ServerGrows
<1>2. CASE reg'[j] = reg[j]
  BY <1>1, <1>2 DEF Known, Loadable
<1>3. CASE PersistString(j)
  <2>1. reg'[j].key = TRUE /\ reg'[j].str = events[j] /\ reg'[j].time = reg[j].time
    BY <1>3, SMTT(30) DEF IInv, TypeOK, NoTrouble, PersistString
  <2>2. events[j] # {} /\ reg[j].str \subseteq events[j]
    BY <1>3 DEF IInv, SendersInv, SenderInv, PersistString, Goto
  <2> QED
    BY <1>1, <2>1, <2>2 DEF Known, Loadable
<1>4. CASE PersistTime(j)
  <2>1. reg'[j].key = TRUE /\ reg'[j].str = reg[j].str /\ reg'[j].time = stamp[j]
    BY <1>4, SMTT(30) DEF IInv, TypeOK, NoTrouble, PersistTime
  <2>2. stamp[j] # 0
    BY <1>4 DEF IInv, SendersInv, SenderInv, PersistTime, Goto
  <2> QED
    BY <1>1, <2>1, <2>2 DEF Known, Loadable
<1>5. CASE DeletePersistedPingOnSuccess(j)
  <2>1. pc[j] = "delete" /\ j \notin ForgetPings
    BY <1>5 DEF DeletePersistedPingOnSuccess, Goto
  <2>2. reg[j].str \subseteq server[j]
    BY <2>1 DEF IInv, SendersInv, SenderInv
  <2> QED
    BY <1>1, <2>2 DEF Known
<1>6. CASE DeleteSent
  <2>1. PICK i \in cur : reg' = [reg EXCEPT ![i] = NoKey]
    BY <1>6 DEF DeleteSent, DeletePersistedPing
  <2>2. CASE i = j
    BY <1>1, <1>6, <2>1, <2>2 DEF UaInv, Known, DeleteSent
  <2>3. CASE i # j
    BY <1>2, <2>1, <2>3 DEF IInv, TypeOK
  <2> QED
    BY <2>2, <2>3
<1>7. CASE \E i \in Ids \ {j} : PersistString(i) \/ PersistTime(i) \/ DeletePersistedPingOnSuccess(i)
  <2>1. reg'[j] = reg[j]
    BY <1>7 DEF IInv, TypeOK, PersistString, PersistTime, DeletePersistedPingOnSuccess,
                DeletePersistedPing
  <2> QED
    BY <1>2, <2>1
<1> QED
  BY <1>2, <1>3, <1>4, <1>5, <1>6, <1>7
  DEF Next, SenderStep, UaStep, AddPingEvent, SendReliablePing, Destroy, RemoveClientState,
      SendUsingGoogleUpdate, HandlePing, WaitForPing, SendInProcess, ClearOemInstalled,
      SendPersistedPings, Resend, EndUa, Tick, ClockSetBack, Crash, vars, registry

\* What was given up stays given up.
LEMMA DroppedGrows == ASSUME [Next]_vars PROVE dropped \subseteq dropped'
BY DEF Next, SenderStep, UaStep, AddPingEvent, SendReliablePing, Destroy, PersistString,
       PersistTime, RemoveClientState, SendUsingGoogleUpdate, HandlePing, WaitForPing,
       SendInProcess, DeletePersistedPingOnSuccess, ClearOemInstalled, SendPersistedPings,
       Resend, DeleteSent, EndUa, Tick, ClockSetBack, Crash, vars, uaVars

\* The scenario does not change.
LEMMA QuietEnv ==
  ASSUME [Next]_vars PROVE env' = env
BY DEF Next, SenderStep, UaStep, AddPingEvent, SendReliablePing, Destroy, PersistString,
       PersistTime, RemoveClientState, SendUsingGoogleUpdate, HandlePing, WaitForPing,
       SendInProcess, DeletePersistedPingOnSuccess, ClearOemInstalled, SendPersistedPings,
       Resend, DeleteSent, EndUa, Tick, ClockSetBack, Crash, vars

\* QuietInv holds at first.
LEMMA InitQuiet == Init => QuietInv
BY DEF Init, QuietInv, KeptInv, UaInv

\* A ping that Ping::Send could not deliver is kept until /ua has sent it or it
\* has expired, if the registry can be written and no /ua runs at the time.
THEOREM RetainedTheorem == Spec => []RetainedUnlessOverlap
<1>1. Init => RetainedUnlessOverlap
  BY DEF Init, RetainedUnlessOverlap
<1>2. IInv /\ QuietInv /\ RetainedUnlessOverlap /\ [Next]_vars => RetainedUnlessOverlap'
  <2> SUFFICES ASSUME IInv, QuietInv, RetainedUnlessOverlap, [Next]_vars, NoTrouble,
                      NEW i \in Ids, result'[i] = "failed"
               PROVE  Retained(i)'
    BY QuietEnv DEF RetainedUnlessOverlap, NoTrouble
  <2>1. KeptInv /\ UaInv
    BY DEF QuietInv
  <2>2. CASE result[i] = "failed"
    <3>1. pc[i] \notin Early \cup {"delete"}
      BY <2>2 DEF IInv, SendersInv, SenderInv
    <3>2. events'[i] = events[i]
      BY <3>1 DEF IInv, TypeOK, Early, Next, SenderStep, UaStep, AddPingEvent, SendReliablePing,
             Destroy, PersistString, PersistTime, RemoveClientState, SendUsingGoogleUpdate,
             HandlePing, WaitForPing, SendInProcess, DeletePersistedPingOnSuccess,
             ClearOemInstalled, SendPersistedPings, Resend, DeleteSent, EndUa, Tick,
             ClockSetBack, Crash, vars, Goto
    <3>3. Retained(i)
      BY <2>2 DEF RetainedUnlessOverlap, NoTrouble
    <3>4. Known(i) \subseteq Known(i)' \/ i \in dropped'
      BY <2>1, <3>1, KnownStays
    <3> QED
      BY <3>2, <3>3, <3>4, DroppedGrows DEF Retained
  <2>3. CASE result[i] # "failed"
    <3>1. SendInProcess(i)
      BY <2>3 DEF IInv, TypeOK, Next, SenderStep, UaStep, AddPingEvent, SendReliablePing,
             Destroy, PersistString, PersistTime, RemoveClientState, SendUsingGoogleUpdate,
             HandlePing, WaitForPing, SendInProcess, DeletePersistedPingOnSuccess,
             ClearOemInstalled, SendPersistedPings, Resend, DeleteSent, EndUa, Tick,
             ClockSetBack, Crash, vars
    <3>2. Loadable(i) /\ reg[i].str = events[i] /\ pc[i] = "inprocess"
      BY <2>1, <3>1 DEF KeptInv, SendInProcess, Goto
    <3>3. events[i] \subseteq Known(i) /\ events'[i] = events[i]
      BY <3>1, <3>2 DEF Known, SendInProcess
    <3>4. Known(i) \subseteq Known(i)' \/ i \in dropped'
      BY <2>1, <3>2, KnownStays
    <3> QED
      BY <3>3, <3>4 DEF Retained
  <2> QED
    BY <2>2, <2>3
<1> QED
  BY <1>1, <1>2, InitIInv, InitQuiet, NextIInv, NextQuiet, PTL DEF Spec

\* The uninstall event outlives the ClientState key it was made from, whichever
\* process ends when (worker.cc, AddUninstalledAppsPings; ping.cc, PersistPing).
THEOREM UninstallTheorem == Spec => []UninstallNotLost
<1>1. Init => UninstallNotLost
  BY DEF Init, UninstallNotLost
<1>2. IInv /\ QuietInv /\ UninstallNotLost /\ [Next]_vars => UninstallNotLost'
  <2> SUFFICES ASSUME IInv, QuietInv, UninstallNotLost, [Next]_vars, NoTrouble, ~present'
               PROVE  \E i \in Bundles : "uninstall" \in Known(i)' \/ i \in dropped'
    BY QuietEnv DEF UninstallNotLost, NoTrouble
  <2>1. KeptInv /\ UaInv
    BY DEF QuietInv
  <2>2. ASSUME NEW i \in Bundles, "uninstall" \in Known(i) \/ i \in dropped
        PROVE  "uninstall" \in Known(i)' \/ i \in dropped'
    <3>1. i \in Ids /\ i \notin ForgetPings
      BY SenderAssumption DEF Ids
    <3>2. Known(i) \subseteq Known(i)' \/ i \in dropped'
      BY <2>1, <3>1, KnownStays
    <3> QED
      BY <2>2, <3>2, DroppedGrows
  <2>3. CASE \E i \in Ids : RemoveClientState(i)
    <3>1. PICK i \in Ids : pc[i] = "remove"
      BY <2>3 DEF RemoveClientState, Goto
    <3>2. i \in Bundles /\ "uninstall" \in events[i]
      BY <3>1 DEF IInv, SendersInv, SenderInv
    <3>3. "uninstall" \in Known(i)
      BY <2>1, <3>1, <3>2 DEF KeptInv, Known
    <3> QED
      BY <2>2, <3>2, <3>3
  <2>4. CASE present' = present
    BY <2>2, <2>4 DEF UninstallNotLost, NoTrouble
  <2> QED
    BY <2>3, <2>4
    DEF Next, SenderStep, UaStep, AddPingEvent, SendReliablePing, Destroy, PersistString,
        PersistTime, SendUsingGoogleUpdate, HandlePing, WaitForPing, SendInProcess,
        DeletePersistedPingOnSuccess, ClearOemInstalled, SendPersistedPings, Resend,
        DeleteSent, EndUa, Tick, ClockSetBack, Crash, vars, registry
<1> QED
  BY <1>1, <1>2, InitIInv, InitQuiet, NextIInv, NextQuiet, PTL DEF Spec
=============================================================================
