-------------------------------- MODULE Pings --------------------------------
(***************************************************************************)
(* Pings that survive the process that sends them.  A ping is persisted in *)
(* the registry under its request id before it is sent, removed once it    *)
(* was sent, and otherwise sent again by the next /ua process.             *)
(*                                                                         *)
(* A request id belongs to one sender: a bundle, which persists its ping   *)
(* anew with every event and sends it in its destructor; the OEM ping of   *)
(* an update check; or a fire-and-forget ping of an installer client.      *)
(* A ping string is modelled by the set of events in it.                   *)
(***************************************************************************)
EXTENDS Naturals, FiniteSets

CONSTANTS
  Bundles, OemPings, ForgetPings,   \* request ids, by the sender they have
  BundleEvents,  \* events of a bundle besides its uninstall event
  Expiry,        \* kPersistedPingExpiry100ns
  MaxTime,       \* bound of the clock
  MaxUpsets,     \* bound of crashes and changes of the clock
  Environments   \* who takes part, and a set of "network", "process", "queue",
                 \* "clock", "registry", which fail, and "overlap": /ua runs
                 \* while senders are at work

ASSUME ExpiryAssumption == MaxTime \in Nat /\ Expiry \in Nat \ {0} /\ Expiry =< MaxTime

ASSUME SenderAssumption ==
  Bundles \cap OemPings = {} /\ Bundles \cap ForgetPings = {} /\ OemPings \cap ForgetPings = {}

Ids == Bundles \cup OemPings \cup ForgetPings
Events == BundleEvents \cup {"uninstall", "oem", "install"}

VARIABLES
  env,        \* the environment, chosen at the start
  now,
  reg,        \* the PersistedPings key
  pc, stamp,  \* where each sender is, and time_now_str of its PersistPing
  events,     \* events the sender has in memory
  result,     \* what Ping::Send returned
  child,      \* its /ping process
  server,     \* events the server received under a request id
  present,    \* the ClientState of an uninstalled application exists
  oem,        \* oeminstall is set
  ua, list,   \* the /ua process and the pings it loaded
  cur,        \* request ids of the ping it has sent
  dropped,    \* request ids whose ping expired
  upsets

vars == <<env, now, reg, pc, stamp, events, result, child, server, present, oem, ua, list, cur,
          dropped, upsets>>
registry == <<reg, present, oem>>
uaVars == <<ua, list, cur, dropped>>

\* A subkey; its two values are written one after the other, 0 and {} being
\* "not there".
NoKey == [key |-> FALSE, str |-> {}, time |-> 0]
Time == 1..MaxTime

Init ==
  /\ env \in Environments
  /\ now = 1
  /\ reg = [i \in Ids |-> NoKey]
  /\ pc = [i \in Ids |-> "new"]
  /\ stamp = [i \in Ids |-> 0]
  /\ events = [i \in Ids |-> {}]
  /\ result = [i \in Ids |-> "none"]
  /\ child = [i \in Ids |-> "none"]
  /\ server = [i \in Ids |-> {}]
  /\ present = TRUE /\ oem = TRUE
  /\ ua = "idle" /\ list = {} /\ cur = {} /\ dropped = {}
  /\ upsets = 0

Goto(i, from, to) == pc[i] = from /\ pc' = [pc EXCEPT ![i] = to]

-----------------------------------------------------------------------------
(* The registry.                                                            *)

DeletePersistedPing(i) == reg' = [reg EXCEPT ![i] = NoKey]

\* LoadPersistedPings skips keys without both values.
Loadable(i) == reg[i].key /\ reg[i].time # 0 /\ reg[i].str # {}
LoadPersistedPings ==
  {[id |-> i, time |-> reg[i].time, str |-> reg[i].str] : i \in {j \in Ids : Loadable(j)}}

\* Bug variant: only a clock that was set back makes a ping expire.
IsPingExpiredByClock(t) == now < t

IsPingExpired(t) == now < t \/ now - t >= Expiry

-----------------------------------------------------------------------------
(* Senders.  PersistPing writes the string and then the time.               *)

\* Bounds: there is time for the ping to expire, and /ua is not at work unless
\* the model lets it overlap.
MayBegin(i) ==
  /\ i \in env.ids /\ now + Expiry =< MaxTime
  /\ "overlap" \in env.faults \/ ua = "idle"

\* The uninstall event is added under registry_stable_state_lock_, by one
\* bundle at a time, which then removes the ClientState key.
Reporting(i) == "uninstall" \in events[i] /\ pc[i] \in {"string", "time", "remove"}
NewEvents(i) ==
  (BundleEvents \cup IF present /\ ~\E j \in Bundles : Reporting(j) THEN {"uninstall"} ELSE {})
     \ events[i]

\* Bug variant: the ClientState key goes before the ping is persisted.
AddPingEventRemovesFirst(i) ==
  /\ i \in Bundles /\ MayBegin(i)
  /\ pc[i] \in {"new", "live"}
  /\ \E e \in NewEvents(i) :
       /\ events' = [events EXCEPT ![i] = @ \cup {e}]
       /\ present' = (present /\ e # "uninstall")
  /\ pc' = [pc EXCEPT ![i] = "string"]
  /\ UNCHANGED <<env, now, stamp, reg, oem, result, child, server, uaVars, upsets>>

\* App::AddPingEvent, which persists the ping of the bundle's events so far.
AddPingEvent(i) ==
  /\ i \in Bundles /\ MayBegin(i)
  /\ pc[i] \in {"new", "live"}
  /\ \E e \in NewEvents(i) : events' = [events EXCEPT ![i] = @ \cup {e}]
  /\ pc' = [pc EXCEPT ![i] = "string"]
  /\ UNCHANGED <<env, now, stamp, registry, result, child, server, uaVars, upsets>>

\* SendOemInstalledPing and the clients' pings: built, and then persisted.
SendReliablePing(i) ==
  /\ MayBegin(i)
  /\ Goto(i, "new", "string")
  /\ \/ i \in OemPings /\ oem /\ events' = [events EXCEPT ![i] = {"oem"}]
     \/ i \in ForgetPings /\ events' = [events EXCEPT ![i] = {"install"}]
  /\ UNCHANGED <<env, now, stamp, registry, result, child, server, uaVars, upsets>>

\* Where PersistPing returns to; nobody looks at its result.
AfterPersist(i) ==
  CASE i \notin Bundles -> "send"
    [] i \in Bundles /\ Reporting(i) /\ present -> "remove"
    [] OTHER -> "live"

\* The time is read first and written last.
PersistString(i) ==
  /\ \/ /\ Goto(i, "string", "time")
        /\ stamp' = [stamp EXCEPT ![i] = now]
        /\ reg' = [reg EXCEPT ![i].key = TRUE, ![i].str = events[i]]
     \/ /\ "registry" \in env.faults
        /\ Goto(i, "string", AfterPersist(i))
        /\ UNCHANGED <<stamp, reg>>
  /\ UNCHANGED <<env, now, present, oem, events, result, child, server, uaVars, upsets>>

PersistTime(i) ==
  /\ Goto(i, "time", AfterPersist(i))
  /\ \/ reg' = [reg EXCEPT ![i].key = TRUE, ![i].time = stamp[i]]
     \/ "registry" \in env.faults /\ UNCHANGED reg
  /\ stamp' = [stamp EXCEPT ![i] = 0]
  /\ UNCHANGED <<env, now, present, oem, events, result, child, server, uaVars, upsets>>

RemoveClientState(i) ==
  /\ Goto(i, "remove", "live")
  /\ present' = FALSE
  /\ UNCHANGED <<env, now, stamp, reg, oem, events, result, child, server, uaVars, upsets>>

\* The bundle's destructor: SendPingEventsAsync, unless the client turned pings
\* off, the network must not be used or no work item can be queued.
Destroy(i) ==
  /\ \/ Goto(i, "live", "send")
     \/ "queue" \in env.faults /\ Goto(i, "live", "done")
  /\ UNCHANGED <<env, now, stamp, registry, events, result, child, server, uaVars, upsets>>

-----------------------------------------------------------------------------
(* Ping::Send.                                                              *)

\* The server gets the events and says so; or it does not, or its answer is
\* lost.
SendString(i, str, ok) ==
  \/ ok /\ server' = [server EXCEPT ![i] = @ \cup str]
  \/ /\ ~ok /\ "network" \in env.faults
     /\ server' \in {server, [server EXCEPT ![i] = @ \cup str]}

\* Bug variant: nobody waits for the /ping process.
SendUsingGoogleUpdateNoWait(i) ==
  /\ Goto(i, "send", "delete")
  /\ child' = [child EXCEPT ![i] = "running"]
  /\ UNCHANGED <<env, now, stamp, registry, events, result, server, uaVars, upsets>>

SendUsingGoogleUpdate(i) ==
  /\ \/ /\ Goto(i, "send", IF i \in ForgetPings THEN "delete" ELSE "wait")
        /\ child' = [child EXCEPT ![i] = "running"]
     \/ /\ "process" \in env.faults
        /\ Goto(i, "send", "inprocess")
        /\ UNCHANGED child
  /\ UNCHANGED <<env, now, stamp, registry, events, result, server, uaVars, upsets>>

\* Ping::HandlePing in the /ping process.
HandlePing(i) ==
  /\ child[i] = "running"
  /\ \E ok \in BOOLEAN :
       /\ SendString(i, events[i], ok)
       /\ child' = [child EXCEPT ![i] = IF ok THEN "ok" ELSE "failed"]
  /\ UNCHANGED <<env, now, stamp, registry, pc, events, result, uaVars, upsets>>

\* The wait is INFINITE.
WaitForPing(i) ==
  /\ child[i] \in {"ok", "failed"}
  /\ Goto(i, "wait", IF child[i] = "ok" THEN "delete" ELSE "inprocess")
  /\ UNCHANGED <<env, now, stamp, registry, events, result, child, server, uaVars, upsets>>

\* Bug variant: the persisted ping goes even if this failed too.
SendInProcessDeletesAlways(i) ==
  /\ \E ok \in BOOLEAN :
       /\ Goto(i, "inprocess", "done")
       /\ SendString(i, events[i], ok)
       /\ result' = [result EXCEPT ![i] = IF ok THEN "S_OK" ELSE "failed"]
  /\ DeletePersistedPing(i)
  /\ UNCHANGED <<env, now, stamp, present, oem, events, child, uaVars, upsets>>

SendInProcess(i) ==
  /\ \E ok \in BOOLEAN :
       /\ Goto(i, "inprocess", IF ok THEN "delete" ELSE "done")
       /\ SendString(i, events[i], ok)
       /\ result' = [result EXCEPT ![i] = IF ok THEN @ ELSE "failed"]
  /\ UNCHANGED <<env, now, stamp, registry, events, child, uaVars, upsets>>

\* The scope guard of Ping::Send.
DeletePersistedPingOnSuccess(i) ==
  /\ Goto(i, "delete", IF i \in OemPings THEN "clear" ELSE "done")
  /\ DeletePersistedPing(i)
  /\ result' = [result EXCEPT ![i] = "S_OK"]
  /\ UNCHANGED <<env, now, stamp, present, oem, events, child, server, uaVars, upsets>>

ClearOemInstalled(i) ==
  /\ Goto(i, "clear", "done")
  /\ oem' = FALSE
  /\ UNCHANGED <<env, now, stamp, reg, present, events, result, child, server, uaVars, upsets>>

-----------------------------------------------------------------------------
(* Ping::SendPersistedPings in the one /ua process.                         *)

SendPersistedPings ==
  /\ ua = "idle"
  /\ "overlap" \in env.faults \/ \A i \in Ids : pc[i] \in {"new", "done", "dead"}
  /\ list' = LoadPersistedPings
  /\ ua' = "sending"
  /\ UNCHANGED <<env, now, stamp, registry, pc, events, result, child, server, cur, dropped,
                 upsets>>

\* One ping of the list.
Resend ==
  /\ ua = "sending"
  /\ \E r \in list : \E ok \in BOOLEAN :
       /\ SendString(r.id, r.str, ok)
       /\ list' = list \ {r}
       /\ LET expired == ~ok /\ IsPingExpired(r.time)
          IN  /\ cur' = IF ok \/ expired THEN {r.id} ELSE {}
              /\ dropped' = dropped \cup IF expired THEN {r.id} ELSE {}
              /\ ua' = IF ok \/ expired THEN "deleting" ELSE "sending"
  /\ UNCHANGED <<env, now, stamp, registry, pc, events, result, child, upsets>>

DeleteSent ==
  /\ ua = "deleting"
  /\ \E i \in cur : DeletePersistedPing(i)
  /\ ua' = "sending" /\ cur' = {}
  /\ UNCHANGED <<env, now, stamp, present, oem, pc, events, result, child, server, list, dropped,
                 upsets>>

EndUa ==
  /\ ua = "sending" /\ list = {}
  /\ ua' = "idle"
  /\ UNCHANGED <<env, now, stamp, registry, pc, events, result, child, server, list, cur,
                 dropped, upsets>>

-----------------------------------------------------------------------------
(* The clock, and the end of processes.                                     *)

Tick ==
  /\ now < MaxTime
  /\ now + Expiry < MaxTime \/ \A i \in Ids : pc[i] \notin {"string", "time"}
  /\ now' = now + 1
  /\ UNCHANGED <<env, stamp, registry, pc, events, result, child, server, uaVars, upsets>>

ClockSetBack ==
  /\ "clock" \in env.faults /\ now > 1
  /\ upsets < MaxUpsets /\ upsets' = upsets + 1
  /\ now' = 1
  /\ UNCHANGED <<env, stamp, registry, pc, events, result, child, server, uaVars>>

\* Bundles and the OEM ping live in the process that serves COM.
Crash ==
  /\ upsets < MaxUpsets
  /\ upsets' = upsets + 1
  /\ \/ /\ pc' = [i \in Ids |-> IF i \in ForgetPings \/ pc[i] \in {"new", "done"}
                                THEN pc[i] ELSE "dead"]
        /\ UNCHANGED <<ua, list, cur>>
     \/ \E i \in ForgetPings :
          /\ pc[i] \notin {"new", "done", "dead"}
          /\ pc' = [pc EXCEPT ![i] = "dead"]
          /\ UNCHANGED <<ua, list, cur>>
     \/ ua # "idle" /\ ua' = "idle" /\ list' = {} /\ cur' = {} /\ UNCHANGED pc
  /\ stamp' = [i \in Ids |-> IF pc'[i] = "dead" THEN 0 ELSE stamp[i]]
  /\ UNCHANGED <<env, now, registry, events, result, child, server, dropped>>

SenderStep(i) ==
  \/ PersistString(i) \/ PersistTime(i) \/ RemoveClientState(i)
  \/ SendUsingGoogleUpdate(i) \/ WaitForPing(i) \/ SendInProcess(i)
  \/ DeletePersistedPingOnSuccess(i) \/ ClearOemInstalled(i)

UaStep == SendPersistedPings \/ Resend \/ DeleteSent \/ EndUa

Next ==
  \/ \E i \in Ids : AddPingEvent(i) \/ SendReliablePing(i) \/ Destroy(i) \/ SenderStep(i)
                    \/ HandlePing(i)
  \/ UaStep \/ Tick \/ ClockSetBack \/ Crash

Spec == Init /\ [][Next]_vars

\* Senders run, clients release their bundles, the scheduled task starts /ua
\* every hour, and time passes.  Nothing is said of the /ping process.
SenderFairness ==
  /\ \A i \in Ids : WF_vars(SenderStep(i) \/ Destroy(i))
  /\ WF_vars(UaStep) /\ WF_vars(Tick)
HangSpec == Spec /\ SenderFairness

\* The /ping process ends: its network requests give up in bounded time.
FairSpec == Spec /\ SenderFairness /\ \A i \in Ids : WF_vars(HandlePing(i))

-----------------------------------------------------------------------------
(* Properties.                                                              *)

\* Every variable keeps its type.
TypeOK ==
  /\ now \in Time
  /\ reg \in [Ids -> [key : BOOLEAN, str : SUBSET Events, time : 0..MaxTime]]
  /\ pc \in [Ids -> {"new", "string", "time", "remove", "live", "send", "wait", "inprocess",
                     "delete", "clear", "done", "dead"}]
  /\ stamp \in [Ids -> 0..MaxTime]
  /\ events \in [Ids -> SUBSET Events] /\ server \in [Ids -> SUBSET Events]
  /\ result \in [Ids -> {"none", "S_OK", "failed"}]
  /\ child \in [Ids -> {"none", "running", "ok", "failed"}]
  /\ list \subseteq [id : Ids, time : 0..MaxTime, str : SUBSET Events]
  /\ ua \in {"idle", "sending", "deleting"} /\ cur \subseteq Ids /\ dropped \subseteq Ids

\* The events a request id can still account for.
Known(i) == server[i] \cup IF Loadable(i) THEN reg[i].str ELSE {}

\* A ClientState key is removed only after the uninstall event is safe, if the
\* registry can be written and /ua is not at work already: whatever process ends
\* when, the server has it, or a later /ua will send it, unless it expired.
UninstallNotLost ==
  \/ present \/ env.faults \cap {"registry", "overlap"} # {}
  \/ \E i \in Bundles : "uninstall" \in Known(i) \/ i \in dropped

Retained(i) == events[i] \subseteq Known(i) \/ i \in dropped

\* A ping that could not be sent is kept for /ua, if the registry can be written
\* and /ua is not at work already.
RetainedUnlessOverlap ==
  \/ env.faults \cap {"registry", "overlap"} # {}
  \/ \A i \in Ids : result[i] = "failed" => Retained(i)

\* Ping::Send returns S_OK only if the server has the whole ping, by one way or
\* the other; a fire-and-forget ping is not waited for.
OkMeansSent ==
  \A i \in Ids \ ForgetPings : result[i] = "S_OK" => events[i] \subseteq server[i]

\* oeminstall is cleared only when the server was told, by this update check or
\* by an earlier one that failed afterwards.
OemClearedAfterPing == oem \/ \E i \in OemPings : "oem" \in server[i]

\* No ping stays for ever: each one that can be loaded is sent, or expires.
PersistedPingsGo == \A i \in Ids : Loadable(i) ~> ~Loadable(i)

-----------------------------------------------------------------------------
(* What comments say and the code does not do.                              *)

\* The comment in Ping::Send: "In failure cases, the persisted ping is retained
\* to be sent in a subsequent UA run."
RetainedOnFailure ==
  "registry" \in env.faults \/ \A i \in Ids : result[i] = "failed" => Retained(i)

\* Sending is attempted out of process first, "with a timeout of 60 seconds,
\* after which the in-process delivery kicks in" (ping.h).
WaitEnds == \A i \in Ids : pc[i] = "wait" ~> pc[i] # "wait"
=============================================================================
