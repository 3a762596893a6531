------------------------ MODULE UpdateBundle_proofs -------------------------
(***************************************************************************)
(* For every set of applications, every client and every combination of    *)
(* failures: type correctness, SingleCall, the two implementation          *)
(* relations (the bundle implements BundleProtocol, every application      *)
(* implements AppLifecycle), and the invariants of the work item.          *)
(*                                                                         *)
(* The module first shows what the events of AppStates do to any record of *)
(* an application.  The control state of the bundle needs the type         *)
(* invariant, SingleCall (it is what keeps the list of applications fixed  *)
(* while the work item indexes it) and Fresh (an application outside the   *)
(* bundle is in its initial state, so that adding it does not take it      *)
(* backwards).  On top of it WorkInv says how the work item and the        *)
(* applications agree: which states the loops have left behind, which they *)
(* will find, and which application the step at hand owns, while stop, at  *)
(* any moment, turns applications to ERROR under it.  PhaseInv says how    *)
(* far an application can be when a check or a queueing comes to it, and   *)
(* PingInv which pings it has collected by then.                           *)
(***************************************************************************)
EXTENDS UpdateBundle, TLAPS

\* A leaf is given to Zenon, then to the SMT solver, unless it names one of them.
USE ZenonT(30), SMTT(30)

-----------------------------------------------------------------------------
(* The events of AppStates, for every application record.                  *)

\* Facts about sequences.
LEMMA ElementOfSeq ==
  ASSUME NEW S, NEW seq \in Seq(S), NEW n \in 1..Len(seq) PROVE seq[n] \in S
  BY SMTT(30)

\* Concatenation keeps the elements in their set.
LEMMA ConcatType ==
  ASSUME NEW S, NEW s \in Seq(S), NEW t \in Seq(S) PROVE s \o t \in Seq(S)
  BY SMTT(30)

\* So does an appended element.
LEMMA AppendType ==
  ASSUME NEW S, NEW s \in Seq(S), NEW e \in S
  PROVE  Append(s, e) \in Seq(S) /\ Len(Append(s, e)) = Len(s) + 1
  BY SMTT(30)

\* The arrows of the state machine other than those into ERROR.
Arrows == {<<"INIT", "WAITING_TO_CHECK">>, <<"WAITING_TO_CHECK", "CHECKING">>,
           <<"CHECKING", "UPDATE_AVAILABLE">>, <<"CHECKING", "NO_UPDATE">>,
           <<"UPDATE_AVAILABLE", "WAITING_TO_DOWNLOAD">>,
           <<"WAITING_TO_DOWNLOAD", "DOWNLOADING">>,
           <<"WAITING_TO_DOWNLOAD", "DOWNLOAD_COMPLETE">>,
           <<"DOWNLOADING", "DOWNLOAD_COMPLETE">>,
           <<"DOWNLOAD_COMPLETE", "READY_TO_INSTALL">>,
           <<"READY_TO_INSTALL", "WAITING_TO_INSTALL">>,
           <<"WAITING_TO_INSTALL", "INSTALLING">>,
           <<"INSTALLING", "INSTALL_COMPLETE">>}

\* A record moves along an arrow, into ERROR, or stays.
Moves(r, q) ==
  q.state = r.state \/ q.state = "ERROR" \/ <<r.state, q.state>> \in Arrows

\* CreatePingEvent yields at most one ping, of the right type.
LEMMA PingType == ASSUME NEW r \in App PROVE CreatePingEvent(r) \in Seq(Ping)
<1>1. ASSUME NEW t \in PingTypes PROVE PingOf(t, r) \in Seq(Ping)
  <2>1. [type |-> t, result |-> r.result] \in Ping
    BY DEF App, Ping
  <2> QED
    BY <2>1, SMTT(30) DEF PingOf
<1>2. <<>> \in Seq(Ping)
  BY SMTT(30)
<1>3. /\ PingOf("BEGIN", r) \in Seq(Ping)
      /\ PingOf("DOWNLOAD_START", r) \in Seq(Ping)
      /\ PingOf("DOWNLOAD_FINISH", r) \in Seq(Ping)
      /\ PingOf("INSTALLER_START", r) \in Seq(Ping)
      /\ PingOf("COMPLETE", r) \in Seq(Ping)
  BY <1>1 DEF PingTypes
<1> QED
  BY <1>2, <1>3
  DEF CreatePingEvent, InstallCompletePing, NoUpdatePing, ErrorPing

\* Entering a state changes the state and appends pings.
LEMMA ChangeStateType ==
  ASSUME NEW r \in App, NEW s \in States
  PROVE  /\ ChangeState(r, s) \in App
         /\ ChangeState(r, s).state = s
<1> DEFINE q == [r EXCEPT !.state = s]
<1>1. q \in App
  BY DEF App
<1>2. q.pings \o CreatePingEvent(q) \in Seq(Ping)
  BY <1>1, PingType, ConcatType DEF App
<1>3. ChangeState(r, s) = [q EXCEPT !.pings = @ \o CreatePingEvent(q)]
  BY DEF ChangeState
<1> HIDE DEF q
<1>4. ChangeState(r, s) \in App
  BY <1>1, <1>2, <1>3 DEF App
<1>5. ChangeState(r, s).state = q.state
  BY <1>1, <1>3 DEF App
<1>6. q.state = s
  BY DEF q, App
<1> QED
  BY <1>4, <1>5, <1>6

\* AppState::Error of the base class yields a record in state ERROR.
LEMMA BaseErrorType ==
  ASSUME NEW r \in App, NEW e \in Codes
  PROVE  BaseError(r, e) \in App /\ BaseError(r, e).state = "ERROR"
<1>1. SetError(r, e) \in App
  BY DEF SetError, App, Results
<1> QED
  BY <1>1, ChangeStateType DEF BaseError, States

\* An unhandled event leaves the record alone or makes it an ERROR.
LEMMA UnhandledType ==
  ASSUME NEW r \in App, NEW event
  PROVE  Unhandled(r, event) \in App /\ Moves(r, Unhandled(r, event))
  BY BaseErrorType DEF Unhandled, HandleInvalidStateTransition, Moves, Codes

\* App::Error.
LEMMA ErrorType ==
  ASSUME NEW r \in App, NEW e \in Codes
  PROVE  Error(r, e) \in App /\ Moves(r, Error(r, e))
  BY BaseErrorType, UnhandledType DEF Error, Moves

\* App::Cancel.
LEMMA CancelType ==
  ASSUME NEW r \in App PROVE Cancel(r) \in App /\ Moves(r, Cancel(r))
  BY BaseErrorType DEF Cancel, Moves, Codes

\* App::QueueUpdateCheck, whose EULA error does not return.
LEMMA QueueUpdateCheckType ==
  ASSUME NEW r \in App
  PROVE  QueueUpdateCheck(r) \in App /\ Moves(r, QueueUpdateCheck(r))
<1> DEFINE q == IF r.eula = "NONE" THEN Error(r, "CALL_UNEXPECTED") ELSE r
<1>1. q \in App /\ (q = r \/ q.state = "ERROR" \/ q.state = r.state)
  <2>1. Error(r, "CALL_UNEXPECTED") \in App
    BY ErrorType DEF Codes
  <2>2. \/ Error(r, "CALL_UNEXPECTED").state = "ERROR"
        \/ Error(r, "CALL_UNEXPECTED") = r
    BY BaseErrorType DEF Error, Unhandled, HandleInvalidStateTransition, Codes
  <2> QED
    BY <2>1, <2>2
<1>2. QueueUpdateCheck(r) = IF q.state = "INIT"
                              THEN ChangeState(q, "WAITING_TO_CHECK")
                              ELSE Unhandled(q, "QueueUpdateCheck")
  BY DEF QueueUpdateCheck
<1> HIDE DEF q
<1>3. CASE q.state = "INIT"
  <2>1. r.state = "INIT"
    BY <1>1, <1>3
  <2> QED
    BY <1>1, <1>2, <1>3, <2>1, ChangeStateType, SMTT(30) DEF Moves, Arrows, States
<1>4. CASE q.state # "INIT"
  <2>1. Unhandled(q, "QueueUpdateCheck") \in App
    BY <1>1, UnhandledType
  <2>2. \/ Unhandled(q, "QueueUpdateCheck").state = "ERROR"
        \/ Unhandled(q, "QueueUpdateCheck") = q
    BY <1>1, BaseErrorType DEF Unhandled, HandleInvalidStateTransition, Codes
  <2> QED
    BY <1>1, <1>2, <1>4, <2>1, <2>2 DEF Moves
<1> QED
  BY <1>3, <1>4

\* App::PreUpdateCheck.
LEMMA PreUpdateCheckType ==
  ASSUME NEW r \in App, NEW allow, NEW update, NEW noNetwork
  PROVE  /\ PreUpdateCheck(r, allow, update, noNetwork) \in App
         /\ Moves(r, PreUpdateCheck(r, allow, update, noNetwork))
  BY ErrorType, UnhandledType, ChangeStateType, SMTT(30)
  DEF PreUpdateCheck, Moves, Arrows, States, Codes

\* AppStateCheckingForUpdate::HandleUpdateAvailable.
LEMMA UpdateAvailableType ==
  ASSUME NEW r \in App, NEW built, r.state = "CHECKING"
  PROVE  /\ HandleUpdateAvailable(r, built) \in App
         /\ Moves(r, HandleUpdateAvailable(r, built))
<1> DEFINE q == [r EXCEPT !.has_update = TRUE]
<1>1. q \in App /\ q.state = "CHECKING"
  BY DEF App
<1>2. HandleUpdateAvailable(r, built) =
        IF built THEN ChangeState(q, "UPDATE_AVAILABLE") ELSE Error(q, "FAILED")
  BY DEF HandleUpdateAvailable
<1> HIDE DEF q
<1>3. Error(q, "FAILED") \in App /\ Moves(q, Error(q, "FAILED"))
  BY <1>1, ErrorType DEF Codes
<1>4. /\ ChangeState(q, "UPDATE_AVAILABLE") \in App
      /\ ChangeState(q, "UPDATE_AVAILABLE").state = "UPDATE_AVAILABLE"
  BY <1>1, ChangeStateType DEF States
<1> QED
  BY <1>1, <1>2, <1>3, <1>4 DEF Moves, Arrows

\* The two ways to NO_UPDATE.
LEMMA NoUpdateType ==
  ASSUME NEW r \in App, r.state = "CHECKING"
  PROVE  /\ HandleNoUpdate(r) \in App /\ Moves(r, HandleNoUpdate(r))
         /\ HandleUpdateDeferred(r) \in App /\ Moves(r, HandleUpdateDeferred(r))
<1>1. ASSUME NEW e \in Codes PROVE SetNoUpdate(r, e) \in App
  BY DEF SetNoUpdate, App, Results
<1>2. /\ SetNoUpdate(r, "S_OK") \in App /\ SetNoUpdate(r, "DEFERRED") \in App
      /\ Error(r, "FAILED") \in App /\ Moves(r, Error(r, "FAILED"))
  BY <1>1, ErrorType DEF Codes
<1> QED
  BY <1>2, ChangeStateType
  DEF HandleNoUpdate, HandleUpdateDeferred, Moves, Arrows, States

\* App::PostUpdateCheck.
LEMMA PostUpdateCheckType ==
  ASSUME NEW r \in App, NEW h \in Codes, NEW ans \in Answers,
         NEW omahaUpdate, NEW built
  PROVE  /\ PostUpdateCheck(r, h, ans, omahaUpdate, built) \in App
         /\ Moves(r, PostUpdateCheck(r, h, ans, omahaUpdate, built))
<1>1. Error(r, "FAILED") \in App /\ Moves(r, Error(r, "FAILED"))
  BY ErrorType DEF Codes
<1>2. Error(r, h) \in App /\ Moves(r, Error(r, h))
  BY ErrorType
<1> QED
  BY <1>1, <1>2, UnhandledType, NoUpdateType, UpdateAvailableType
  DEF PostUpdateCheck, Answers

\* The events of the download.
LEMMA DownloadEventsType ==
  ASSUME NEW r \in App, NEW allow
  PROVE  /\ QueueDownload(r, allow) \in App
         /\ Moves(r, QueueDownload(r, allow))
         /\ Downloading(r) \in App /\ Moves(r, Downloading(r))
         /\ DownloadComplete(r) \in App /\ Moves(r, DownloadComplete(r))
         /\ MarkReadyToInstall(r) \in App /\ Moves(r, MarkReadyToInstall(r))
<1>1. Error(r, "POLICY") \in App /\ Moves(r, Error(r, "POLICY"))
  BY ErrorType DEF Codes
<1>2. QueueDownload(r, allow) \in App /\ Moves(r, QueueDownload(r, allow))
  BY <1>1, UnhandledType, ChangeStateType
  DEF QueueDownload, Moves, Arrows, States
<1>3. Downloading(r) \in App /\ Moves(r, Downloading(r))
  BY UnhandledType, ChangeStateType DEF Downloading, Moves, Arrows, States
<1>4. DownloadComplete(r) \in App /\ Moves(r, DownloadComplete(r))
  BY UnhandledType, ChangeStateType DEF DownloadComplete, Moves, Arrows, States
<1>5. MarkReadyToInstall(r) \in App /\ Moves(r, MarkReadyToInstall(r))
  BY UnhandledType, ChangeStateType
  DEF MarkReadyToInstall, Moves, Arrows, States
<1> QED
  BY <1>2, <1>3, <1>4, <1>5

\* The events of the installation.
LEMMA InstallEventsType ==
  ASSUME NEW r \in App, NEW allow, NEW success
  PROVE  /\ QueueInstall(r) \in App /\ Moves(r, QueueInstall(r))
         /\ QueueDownloadOrInstall(r, allow) \in App
         /\ Moves(r, QueueDownloadOrInstall(r, allow))
         /\ Installing(r) \in App /\ Moves(r, Installing(r))
         /\ ReportInstallerComplete(r, success) \in App
         /\ Moves(r, ReportInstallerComplete(r, success))
<1>1. QueueInstall(r) \in App /\ Moves(r, QueueInstall(r))
  BY UnhandledType, ChangeStateType DEF QueueInstall, Moves, Arrows, States
<1>2. /\ QueueDownloadOrInstall(r, allow) \in App
      /\ Moves(r, QueueDownloadOrInstall(r, allow))
  BY <1>1, UnhandledType, DownloadEventsType DEF QueueDownloadOrInstall
<1>3. Installing(r) \in App /\ Moves(r, Installing(r))
  BY UnhandledType, ChangeStateType DEF Installing, Moves, Arrows, States
<1>4. SetInstallerResult(r, success) \in App
  BY DEF SetInstallerResult, App, Results, Codes
<1>5. /\ ReportInstallerComplete(r, success) \in App
      /\ Moves(r, ReportInstallerComplete(r, success))
  BY <1>4, UnhandledType, ChangeStateType
  DEF ReportInstallerComplete, Moves, Arrows, States
<1> QED
  BY <1>1, <1>2, <1>3, <1>5

-----------------------------------------------------------------------------
(* Where each event takes an application, state by state.                  *)

\* What no event but PostUpdateCheck changes.
Kept(r, q) == /\ q.is_update = r.is_update /\ q.omaha = r.omaha
              /\ q.eula = r.eula /\ q.has_update = r.has_update

\* Entering a state changes nothing but the state and the pings.
LEMMA ChangeStateKeeps ==
  ASSUME NEW r \in App, NEW s \in States PROVE Kept(r, ChangeState(r, s))
<1> DEFINE q == [r EXCEPT !.state = s]
<1>1. q \in App /\ Kept(r, q)
  BY DEF App, Kept
<1>2. ChangeState(r, s) = [q EXCEPT !.pings = @ \o CreatePingEvent(q)]
  BY DEF ChangeState
<1> HIDE DEF q
<1>3. Kept(q, ChangeState(r, s))
  BY <1>1, <1>2 DEF Kept, App
<1> QED
  BY <1>1, <1>3 DEF Kept

\* AppState::Error of the base class.
LEMMA BaseErrorKeeps ==
  ASSUME NEW r \in App, NEW e \in Codes PROVE Kept(r, BaseError(r, e))
<1>1. SetError(r, e) \in App /\ Kept(r, SetError(r, e))
  BY DEF SetError, App, Results, Kept
<1>2. Kept(SetError(r, e), BaseError(r, e))
  BY <1>1, ChangeStateKeeps DEF BaseError, States
<1> QED
  BY <1>1, <1>2 DEF Kept

\* An event the state does not handle.
LEMMA UnhandledResult ==
  ASSUME NEW r \in App, NEW event
  PROVE  /\ Kept(r, Unhandled(r, event))
         /\ Unhandled(r, event).state =
              IF event \in Ignores(r.state) THEN r.state ELSE "ERROR"
  BY BaseErrorType, BaseErrorKeeps
  DEF Unhandled, HandleInvalidStateTransition, Codes, Kept

\* App::Error takes every state to ERROR.
LEMMA ErrorResult ==
  ASSUME NEW r \in App, NEW e \in Codes
  PROVE  Kept(r, Error(r, e)) /\ Error(r, e).state = "ERROR"
<1>1. "Error" \in Ignores(r.state) => r.state = "ERROR"
  BY DEF Ignores, ErrorIgnores, NoUpdateIgnores, WaitingToInstallIgnores,
         InstallingIgnores, InstallCompleteIgnores
<1> QED
  BY <1>1, UnhandledResult, BaseErrorType, BaseErrorKeeps DEF Error

\* App::Cancel spares an application that has ended or is being installed.
LEMMA CancelResult ==
  ASSUME NEW r \in App
  PROVE  /\ Kept(r, Cancel(r))
         /\ Cancel(r).state = IF r.state \in Terminal \cup {"INSTALLING"}
                                THEN r.state ELSE "ERROR"
<1>1. "Cancel" \in Ignores(r.state) <=> r.state \in Terminal \cup {"INSTALLING"}
  BY DEF Ignores, ErrorIgnores, NoUpdateIgnores, WaitingToInstallIgnores,
         InstallingIgnores, InstallCompleteIgnores, Terminal
<1> QED
  BY <1>1, BaseErrorType, BaseErrorKeeps DEF Cancel, Kept, Codes

\* App::QueueUpdateCheck.
LEMMA QueueUpdateCheckResult ==
  ASSUME NEW r \in App
  PROVE  /\ Kept(r, QueueUpdateCheck(r))
         /\ QueueUpdateCheck(r).state = IF r.state = "INIT" /\ r.eula # "NONE"
                                          THEN "WAITING_TO_CHECK" ELSE "ERROR"
<1> DEFINE q == IF r.eula = "NONE" THEN Error(r, "CALL_UNEXPECTED") ELSE r
<1>1. /\ q \in App /\ Kept(r, q)
      /\ q.state = IF r.eula = "NONE" THEN "ERROR" ELSE r.state
  BY ErrorResult, ErrorType DEF Codes, Kept
<1>2. QueueUpdateCheck(r) = IF q.state = "INIT"
                              THEN ChangeState(q, "WAITING_TO_CHECK")
                              ELSE Unhandled(q, "QueueUpdateCheck")
  BY DEF QueueUpdateCheck
<1>3. \A s : "QueueUpdateCheck" \notin Ignores(s)
  BY DEF Ignores, ErrorIgnores, NoUpdateIgnores, WaitingToInstallIgnores,
         InstallingIgnores, InstallCompleteIgnores
<1> HIDE DEF q
<1>4. Kept(q, QueueUpdateCheck(r))
  BY <1>1, <1>2, ChangeStateKeeps, UnhandledResult DEF States
<1>5. QueueUpdateCheck(r).state = IF q.state = "INIT" THEN "WAITING_TO_CHECK"
                                                      ELSE "ERROR"
  BY <1>1, <1>2, <1>3, ChangeStateType, UnhandledResult, SMTT(30) DEF States
<1> QED
  BY <1>1, <1>4, <1>5 DEF Kept

\* App::PreUpdateCheck.
LEMMA PreUpdateCheckResult ==
  ASSUME NEW r \in App, NEW allow, NEW update, NEW noNetwork
  PROVE  /\ Kept(r, PreUpdateCheck(r, allow, update, noNetwork))
         /\ PreUpdateCheck(r, allow, update, noNetwork).state =
              IF /\ r.state = "WAITING_TO_CHECK" /\ (update \/ allow)
                 /\ r.eula = "YES" \/ noNetwork
                THEN "CHECKING" ELSE "ERROR"
<1>1. "PreUpdateCheck" \in Ignores(r.state) => r.state = "ERROR"
  BY DEF Ignores, ErrorIgnores, NoUpdateIgnores, WaitingToInstallIgnores,
         InstallingIgnores, InstallCompleteIgnores
<1>2. /\ Kept(r, Error(r, "POLICY")) /\ Error(r, "POLICY").state = "ERROR"
      /\ Kept(r, Error(r, "EULA")) /\ Error(r, "EULA").state = "ERROR"
  BY ErrorResult DEF Codes
<1>3. /\ Kept(r, ChangeState(r, "CHECKING"))
      /\ ChangeState(r, "CHECKING").state = "CHECKING"
  BY ChangeStateKeeps, ChangeStateType DEF States
<1> QED
  BY <1>1, <1>2, <1>3, UnhandledResult DEF PreUpdateCheck

\* App::PostUpdateCheck makes an update available only when the response says so
\* and Omaha's own update does not come first.
LEMMA PostUpdateCheckResult ==
  ASSUME NEW r \in App, NEW h \in Codes, NEW ans \in Answers,
         NEW omahaUpdate \in BOOLEAN, NEW built \in BOOLEAN,
         NEW q, q = PostUpdateCheck(r, h, ans, omahaUpdate, built)
  PROVE  /\ q.state \in {"UPDATE_AVAILABLE", "NO_UPDATE", "ERROR"}
         /\ q.state # "ERROR" => r.state = "CHECKING"
         /\ q.is_update = r.is_update /\ q.omaha = r.omaha /\ q.eula = r.eula
         /\ q.state = "UPDATE_AVAILABLE" \/ q.has_update # r.has_update =>
              /\ r.state = "CHECKING" /\ h = "S_OK" /\ ans = "UPDATE"
              /\ ~(~r.omaha /\ r.is_update /\ omahaUpdate)
<1>1. "PostUpdateCheck" \in Ignores(r.state) => r.state = "ERROR"
  BY DEF Ignores, ErrorIgnores, NoUpdateIgnores, WaitingToInstallIgnores,
         InstallingIgnores, InstallCompleteIgnores
<1>2. /\ Kept(r, Error(r, "FAILED")) /\ Error(r, "FAILED").state = "ERROR"
      /\ Kept(r, Error(r, h)) /\ Error(r, h).state = "ERROR"
  BY ErrorResult DEF Codes
<1>3. ASSUME NEW e \in {"S_OK", "DEFERRED"}
      PROVE  /\ Kept(r, ChangeState(SetNoUpdate(r, e), "NO_UPDATE"))
             /\ ChangeState(SetNoUpdate(r, e), "NO_UPDATE").state = "NO_UPDATE"
  <2>1. SetNoUpdate(r, e) \in App /\ Kept(r, SetNoUpdate(r, e))
    BY DEF SetNoUpdate, App, Results, Codes, Kept
  <2> QED
    BY <2>1, ChangeStateKeeps, ChangeStateType DEF States, Kept
<1>4. /\ Kept(r, HandleUpdateDeferred(r)) /\ HandleUpdateDeferred(r).state = "NO_UPDATE"
      /\ Kept(r, HandleNoUpdate(r)) /\ HandleNoUpdate(r).state \in {"NO_UPDATE", "ERROR"}
  BY <1>2, <1>3 DEF HandleUpdateDeferred, HandleNoUpdate
<1>5. /\ HandleUpdateAvailable(r, built).state \in {"UPDATE_AVAILABLE", "ERROR"}
      /\ HandleUpdateAvailable(r, built).is_update = r.is_update
      /\ HandleUpdateAvailable(r, built).omaha = r.omaha
      /\ HandleUpdateAvailable(r, built).eula = r.eula
  <2> DEFINE u == [r EXCEPT !.has_update = TRUE]
  <2>1. u \in App /\ u.is_update = r.is_update /\ u.omaha = r.omaha /\ u.eula = r.eula
    BY DEF App
  <2>2. HandleUpdateAvailable(r, built) =
          IF built THEN ChangeState(u, "UPDATE_AVAILABLE") ELSE Error(u, "FAILED")
    BY DEF HandleUpdateAvailable
  <2> HIDE DEF u
  <2>3. /\ Kept(u, Error(u, "FAILED")) /\ Error(u, "FAILED").state = "ERROR"
        /\ Kept(u, ChangeState(u, "UPDATE_AVAILABLE"))
        /\ ChangeState(u, "UPDATE_AVAILABLE").state = "UPDATE_AVAILABLE"
    BY <2>1, ErrorResult, ChangeStateKeeps, ChangeStateType DEF Codes, States
  <2> QED
    BY <2>1, <2>2, <2>3 DEF Kept
<1>6. CASE r.state # "CHECKING"
  <2>1. q = Unhandled(r, "PostUpdateCheck")
    BY <1>6 DEF PostUpdateCheck
  <2> QED
    BY <1>1, <1>6, <2>1, UnhandledResult, SMTT(30) DEF Kept
<1>7. CASE r.state = "CHECKING" /\ h # "S_OK"
  BY <1>2, <1>7 DEF PostUpdateCheck, Kept
<1>8. CASE r.state = "CHECKING" /\ h = "S_OK" /\ IsDeferred(r, ans, omahaUpdate)
  BY <1>4, <1>8 DEF PostUpdateCheck, Kept
<1>9. CASE r.state = "CHECKING" /\ h = "S_OK" /\ ~IsDeferred(r, ans, omahaUpdate)
  <2>1. CASE ans = "UPDATE"
    BY <1>5, <1>9, <2>1 DEF PostUpdateCheck, IsDeferred
  <2>2. CASE ans = "NO_UPDATE"
    BY <1>4, <1>9, <2>2 DEF PostUpdateCheck, Kept
  <2>3. CASE ans = "ERROR"
    BY <1>2, <1>9, <2>3 DEF PostUpdateCheck, Kept
  <2> QED
    BY <2>1, <2>2, <2>3 DEF Answers
<1> QED
  BY <1>6, <1>7, <1>8, <1>9

\* The events of the download.
LEMMA DownloadEventsResult ==
  ASSUME NEW r \in App, NEW allow \in BOOLEAN
  PROVE  /\ Kept(r, QueueDownload(r, allow))
         /\ QueueDownload(r, allow).state =
              IF r.state = "UPDATE_AVAILABLE" /\ allow THEN "WAITING_TO_DOWNLOAD"
              ELSE IF r.state = "NO_UPDATE" THEN "NO_UPDATE" ELSE "ERROR"
         /\ Kept(r, Downloading(r))
         /\ Downloading(r).state =
              IF r.state = "WAITING_TO_DOWNLOAD" THEN "DOWNLOADING" ELSE "ERROR"
         /\ Kept(r, DownloadComplete(r))
         /\ DownloadComplete(r).state =
              IF r.state \in {"WAITING_TO_DOWNLOAD", "DOWNLOADING"}
                THEN "DOWNLOAD_COMPLETE" ELSE "ERROR"
         /\ Kept(r, MarkReadyToInstall(r))
         /\ MarkReadyToInstall(r).state =
              IF r.state = "DOWNLOAD_COMPLETE" THEN "READY_TO_INSTALL" ELSE "ERROR"
         /\ Kept(r, Unhandled(r, "Download"))
         /\ Unhandled(r, "Download").state =
              IF r.state \in {"NO_UPDATE", "WAITING_TO_INSTALL"} THEN r.state
                                                                 ELSE "ERROR"
<1>1. /\ "QueueDownload" \in Ignores(r.state) <=> r.state \in {"NO_UPDATE", "ERROR"}
      /\ "Downloading" \notin Ignores(r.state)
      /\ "DownloadComplete" \in Ignores(r.state) => r.state = "ERROR"
      /\ "MarkReadyToInstall" \in Ignores(r.state) => r.state = "ERROR"
      /\ "Download" \in Ignores(r.state) <=>
           r.state \in {"NO_UPDATE", "WAITING_TO_INSTALL", "ERROR"}
  BY DEF Ignores, ErrorIgnores, NoUpdateIgnores, WaitingToInstallIgnores,
         InstallingIgnores, InstallCompleteIgnores
<1>2. Kept(r, Error(r, "POLICY")) /\ Error(r, "POLICY").state = "ERROR"
  BY ErrorResult DEF Codes
<1>3. ASSUME NEW s \in States
      PROVE  Kept(r, ChangeState(r, s)) /\ ChangeState(r, s).state = s
  BY ChangeStateKeeps, ChangeStateType
<1>4. /\ Kept(r, QueueDownload(r, allow))
      /\ QueueDownload(r, allow).state =
           IF r.state = "UPDATE_AVAILABLE" /\ allow THEN "WAITING_TO_DOWNLOAD"
           ELSE IF r.state = "NO_UPDATE" THEN "NO_UPDATE" ELSE "ERROR"
  BY <1>1, <1>2, <1>3, UnhandledResult DEF QueueDownload, States
<1>5. /\ Kept(r, Downloading(r))
      /\ Downloading(r).state =
           IF r.state = "WAITING_TO_DOWNLOAD" THEN "DOWNLOADING" ELSE "ERROR"
  BY <1>1, <1>3, UnhandledResult DEF Downloading, States
<1>6. /\ Kept(r, DownloadComplete(r))
      /\ DownloadComplete(r).state =
           IF r.state \in {"WAITING_TO_DOWNLOAD", "DOWNLOADING"}
             THEN "DOWNLOAD_COMPLETE" ELSE "ERROR"
  BY <1>1, <1>3, UnhandledResult DEF DownloadComplete, States
<1>7. /\ Kept(r, MarkReadyToInstall(r))
      /\ MarkReadyToInstall(r).state =
           IF r.state = "DOWNLOAD_COMPLETE" THEN "READY_TO_INSTALL" ELSE "ERROR"
  BY <1>1, <1>3, UnhandledResult DEF MarkReadyToInstall, States
<1> QED
  BY <1>1, <1>4, <1>5, <1>6, <1>7, UnhandledResult

\* The events of the installation.
LEMMA InstallEventsResult ==
  ASSUME NEW r \in App, NEW allow \in BOOLEAN, NEW success \in BOOLEAN
  PROVE  /\ Kept(r, QueueInstall(r))
         /\ QueueInstall(r).state =
              IF r.state \in {"READY_TO_INSTALL", "WAITING_TO_INSTALL"}
                THEN "WAITING_TO_INSTALL"
              ELSE IF r.state = "NO_UPDATE" THEN "NO_UPDATE" ELSE "ERROR"
         /\ Kept(r, QueueDownloadOrInstall(r, allow))
         /\ QueueDownloadOrInstall(r, allow).state =
              IF r.state = "UPDATE_AVAILABLE" /\ allow THEN "WAITING_TO_DOWNLOAD"
              ELSE IF r.state = "READY_TO_INSTALL" THEN "WAITING_TO_INSTALL"
              ELSE IF r.state = "NO_UPDATE" THEN "NO_UPDATE" ELSE "ERROR"
         /\ Kept(r, Unhandled(r, "Install"))
         /\ Unhandled(r, "Install").state =
              IF r.state = "NO_UPDATE" THEN "NO_UPDATE" ELSE "ERROR"
         /\ Kept(r, Installing(r))
         /\ Installing(r).state =
              IF r.state \in {"WAITING_TO_INSTALL", "INSTALLING"} THEN "INSTALLING"
                                                                  ELSE "ERROR"
         /\ Kept(r, ReportInstallerComplete(r, success))
         /\ ReportInstallerComplete(r, success).state =
              IF r.state = "INSTALLING" /\ success THEN "INSTALL_COMPLETE" ELSE "ERROR"
<1>1. /\ "QueueInstall" \in Ignores(r.state) <=>
           r.state \in {"WAITING_TO_INSTALL", "NO_UPDATE", "ERROR"}
      /\ "QueueDownloadOrInstall" \in Ignores(r.state) <=>
           r.state \in {"NO_UPDATE", "ERROR"}
      /\ "Install" \in Ignores(r.state) <=> r.state \in {"NO_UPDATE", "ERROR"}
      /\ "Installing" \in Ignores(r.state) <=> r.state = "INSTALLING"
      /\ "ReportInstallerComplete" \notin Ignores(r.state)
  BY DEF Ignores, ErrorIgnores, NoUpdateIgnores, WaitingToInstallIgnores,
         InstallingIgnores, InstallCompleteIgnores
<1>2. ASSUME NEW s \in States
      PROVE  Kept(r, ChangeState(r, s)) /\ ChangeState(r, s).state = s
  BY ChangeStateKeeps, ChangeStateType
<1>3. /\ Kept(r, QueueInstall(r))
      /\ QueueInstall(r).state =
           IF r.state \in {"READY_TO_INSTALL", "WAITING_TO_INSTALL"}
             THEN "WAITING_TO_INSTALL"
           ELSE IF r.state = "NO_UPDATE" THEN "NO_UPDATE" ELSE "ERROR"
  BY <1>1, <1>2, UnhandledResult DEF QueueInstall, States
<1>4. /\ Kept(r, QueueDownloadOrInstall(r, allow))
      /\ QueueDownloadOrInstall(r, allow).state =
           IF r.state = "UPDATE_AVAILABLE" /\ allow THEN "WAITING_TO_DOWNLOAD"
           ELSE IF r.state = "READY_TO_INSTALL" THEN "WAITING_TO_INSTALL"
           ELSE IF r.state = "NO_UPDATE" THEN "NO_UPDATE" ELSE "ERROR"
  BY <1>1, <1>3, DownloadEventsResult, UnhandledResult DEF QueueDownloadOrInstall
<1>5. /\ Kept(r, Installing(r))
      /\ Installing(r).state =
           IF r.state \in {"WAITING_TO_INSTALL", "INSTALLING"} THEN "INSTALLING"
                                                               ELSE "ERROR"
  BY <1>1, <1>2, UnhandledResult DEF Installing, States
<1>6. SetInstallerResult(r, success) \in App /\ Kept(r, SetInstallerResult(r, success))
  BY DEF SetInstallerResult, App, Results, Codes, Kept
<1>7. /\ Kept(r, ReportInstallerComplete(r, success))
      /\ ReportInstallerComplete(r, success).state =
           IF r.state = "INSTALLING" /\ success THEN "INSTALL_COMPLETE" ELSE "ERROR"
  <2>1. CASE r.state # "INSTALLING"
    BY <1>1, <2>1, UnhandledResult DEF ReportInstallerComplete
  <2>2. CASE r.state = "INSTALLING"
    <3> DEFINE q == SetInstallerResult(r, success)
               s == IF success THEN "INSTALL_COMPLETE" ELSE "ERROR"
    <3>1. ReportInstallerComplete(r, success) = ChangeState(q, s)
      BY <2>2 DEF ReportInstallerComplete
    <3>2. q \in App /\ Kept(r, q) /\ s \in States
      BY <1>6 DEF States
    <3> HIDE DEF q, s
    <3>3. Kept(q, ChangeState(q, s)) /\ ChangeState(q, s).state = s
      BY <3>2, ChangeStateKeeps, ChangeStateType
    <3> QED
      BY <2>2, <3>1, <3>2, <3>3 DEF Kept, s
  <2> QED
    BY <2>1, <2>2
<1> QED
  BY <1>1, <1>3, <1>4, <1>5, <1>7, UnhandledResult

-----------------------------------------------------------------------------
(* The pings of one application.                                           *)

\* The order of the events in the life of an application.
Ranks == [BEGIN |-> 1, DOWNLOAD_START |-> 2, DOWNLOAD_FINISH |-> 3,
          INSTALLER_START |-> 4, COMPLETE |-> 5]

\* How far a state lets the pings have come.
Bound == [s \in States |->
  CASE s \in {"INIT", "WAITING_TO_CHECK", "CHECKING", "UPDATE_AVAILABLE"} -> 0
    [] s = "WAITING_TO_DOWNLOAD" -> 1
    [] s = "DOWNLOADING" -> 2
    [] s \in {"DOWNLOAD_COMPLETE", "READY_TO_INSTALL", "WAITING_TO_INSTALL"} -> 3
    [] s = "INSTALLING" -> 4
    [] OTHER -> 5]

\* A list of pings is in that order, and has none after event b.
Rising(p) == \A m, n \in 1..Len(p) : m < n => Ranks[p[m].type] < Ranks[p[n].type]
Below(p, b) == \A m \in 1..Len(p) : Ranks[p[m].type] <= b

\* The pings are in order and none is ahead of the state.
PingOK(r) == Rising(r.pings) /\ Below(r.pings, Bound[r.state])

\* The ranks are numbers.
LEMMA RankType ==
  /\ \A t \in PingTypes : Ranks[t] \in 1..5
  /\ \A s \in States : Bound[s] \in 0..5
<1>1. \A t \in PingTypes : Ranks[t] \in 1..5
  BY SMTT(30) DEF Ranks, PingTypes
<1>2. \A s \in States : Bound[s] \in 0..5
  BY SMTT(30) DEF Bound, States
<1> QED
  BY <1>1, <1>2

\* The values of the bound.
LEMMA BoundValues ==
  /\ \A s \in {"INIT", "WAITING_TO_CHECK", "CHECKING", "UPDATE_AVAILABLE"} : Bound[s] = 0
  /\ Bound["WAITING_TO_DOWNLOAD"] = 1 /\ Bound["DOWNLOADING"] = 2
  /\ \A s \in {"DOWNLOAD_COMPLETE", "READY_TO_INSTALL", "WAITING_TO_INSTALL"} : Bound[s] = 3
  /\ Bound["INSTALLING"] = 4
  /\ \A s \in Terminal : Bound[s] = 5
  BY SMTT(30) DEF Bound, States, Terminal

\* A ping behind the ones there are keeps them in order.
LEMMA PingAppended ==
  ASSUME NEW p \in Seq(Ping), NEW x \in Ping, NEW b \in 0..5, Rising(p), Below(p, b),
         b < Ranks[x.type]
  PROVE  Rising(p \o <<x>>) /\ Below(p \o <<x>>, Ranks[x.type])
<1> DEFINE w == p \o <<x>>
<1>1. /\ Len(w) = Len(p) + 1 /\ w[Len(p) + 1] = x
      /\ \A m \in 1..Len(p) : w[m] = p[m]
      /\ Len(p) \in Nat
  BY SMTT(30)
<1>2. x.type \in PingTypes /\ \A m \in 1..Len(p) : p[m].type \in PingTypes
  <2>1. \A m \in 1..Len(p) : p[m] \in Ping
    BY ElementOfSeq
  <2> QED
    BY <2>1 DEF Ping
<1> HIDE DEF w
<1> DEFINE R(m) == Ranks[w[m].type]
<1>3. /\ \A m \in 1..Len(p) : R(m) \in 1..5 /\ R(m) <= b
      /\ R(Len(p) + 1) = Ranks[x.type] /\ Ranks[x.type] \in 1..5
      /\ \A m, n \in 1..Len(p) : m < n => R(m) < R(n)
  BY <1>1, <1>2, RankType DEF Rising, Below
<1> HIDE DEF R
<1>4. \A m, n \in 1..Len(w) : m < n => R(m) < R(n)
  BY <1>1, <1>3, SMTT(30)
<1>5. \A m \in 1..Len(w) : R(m) <= Ranks[x.type]
  BY <1>1, <1>3, SMTT(30)
<1> QED
  BY <1>4, <1>5 DEF Rising, Below, R, w

\* The states that queue a ping.
Pinging == {"WAITING_TO_DOWNLOAD", "DOWNLOADING", "DOWNLOAD_COMPLETE", "INSTALLING"}
             \cup Terminal

\* A state queues at most one ping, of its own rank.
LEMMA PingOfState ==
  ASSUME NEW r \in App
  PROVE  \/ CreatePingEvent(r) = <<>>
         \/ /\ r.state \in Pinging
            /\ \E x \in Ping : CreatePingEvent(r) = <<x>> /\ Ranks[x.type] = Bound[r.state]
<1>1. ASSUME NEW t \in PingTypes, CreatePingEvent(r) = PingOf(t, r), r.state \in Pinging,
             Ranks[t] = Bound[r.state]
      PROVE  \E x \in Ping : CreatePingEvent(r) = <<x>> /\ Ranks[x.type] = Bound[r.state]
  <2> DEFINE x == [type |-> t, result |-> r.result]
  <2>1. x \in Ping /\ x.type = t
    BY DEF Ping, App
  <2> QED
    BY <1>1, <2>1 DEF PingOf
<1>2. /\ Ranks["BEGIN"] = 1 /\ Ranks["DOWNLOAD_START"] = 2 /\ Ranks["DOWNLOAD_FINISH"] = 3
      /\ Ranks["INSTALLER_START"] = 4 /\ Ranks["COMPLETE"] = 5
  BY DEF Ranks
<1>3. CASE r.state = "WAITING_TO_DOWNLOAD"
  BY <1>1, <1>2, <1>3, BoundValues DEF CreatePingEvent, Pinging, PingTypes
<1>4. CASE r.state = "DOWNLOADING"
  BY <1>1, <1>2, <1>4, BoundValues DEF CreatePingEvent, Pinging, PingTypes
<1>5. CASE r.state = "DOWNLOAD_COMPLETE"
  BY <1>1, <1>2, <1>5, BoundValues DEF CreatePingEvent, Pinging, PingTypes
<1>6. CASE r.state = "INSTALLING"
  BY <1>1, <1>2, <1>6, BoundValues DEF CreatePingEvent, Pinging, PingTypes
<1>7. CASE r.state \in Terminal
  <2>1. CreatePingEvent(r) \in {<<>>, PingOf("COMPLETE", r)}
    BY <1>7 DEF CreatePingEvent, Terminal, InstallCompletePing, NoUpdatePing, ErrorPing
  <2> QED
    BY <1>1, <1>2, <1>7, <2>1, BoundValues DEF Pinging, PingTypes
<1>8. CASE r.state \in States \ Pinging
  BY <1>8 DEF CreatePingEvent, Pinging, Terminal
<1> QED
  BY <1>3, <1>4, <1>5, <1>6, <1>7, <1>8 DEF Pinging, App

\* Entering a state keeps the pings in order when it is a later one.
LEMMA ChangePings ==
  ASSUME NEW r \in App, NEW s \in States, PingOK(r),
         \/ Bound[r.state] < Bound[s]
         \/ s \notin Pinging /\ Bound[r.state] <= Bound[s]
  PROVE  PingOK(ChangeState(r, s))
<1> DEFINE q == [r EXCEPT !.state = s]
<1>1. q \in App /\ q.state = s /\ q.pings = r.pings /\ r.pings \in Seq(Ping)
  BY DEF App
<1>2. /\ ChangeState(r, s).pings = q.pings \o CreatePingEvent(q)
      /\ ChangeState(r, s).state = s
  <2>1. ChangeState(r, s) = [q EXCEPT !.pings = @ \o CreatePingEvent(q)]
    BY DEF ChangeState
  <2> HIDE DEF q
  <2> QED
    BY <1>1, <2>1 DEF App
<1> HIDE DEF q
<1>3. r.state \in States /\ Bound[r.state] \in 0..5 /\ Bound[s] \in 0..5
  BY RankType DEF App
<1>4. CASE CreatePingEvent(q) = <<>>
  <2>1. ChangeState(r, s).pings = r.pings
    BY <1>1, <1>2, <1>4, SMTT(30)
  <2>2. Bound[r.state] <= Bound[s]
    BY <1>3, SMTT(30)
  <2>3. \A m \in 1..Len(r.pings) : Ranks[r.pings[m].type] \in 1..5
    <3>1. \A m \in 1..Len(r.pings) : r.pings[m] \in Ping
      BY <1>1, ElementOfSeq
    <3> QED
      BY <3>1, RankType DEF Ping
  <2>4. Below(r.pings, Bound[s])
    BY <1>3, <2>2, <2>3, SMTT(30) DEF PingOK, Below
  <2> QED
    BY <1>2, <2>1, <2>4 DEF PingOK
<1>5. CASE CreatePingEvent(q) # <<>>
  <2>1. PICK x \in Ping : CreatePingEvent(q) = <<x>> /\ Ranks[x.type] = Bound[s]
    BY <1>1, <1>5, PingOfState
  <2>2. s \in Pinging
    BY <1>1, <1>5, PingOfState
  <2>3. Rising(r.pings \o <<x>>) /\ Below(r.pings \o <<x>>, Ranks[x.type])
    BY <1>1, <1>3, <2>1, <2>2, PingAppended DEF PingOK
  <2> QED
    BY <1>1, <1>2, <2>1, <2>3 DEF PingOK
<1> QED
  BY <1>4, <1>5

\* Failing keeps them in order in a state that is not terminal.
LEMMA ErrorPings ==
  ASSUME NEW r \in App, PingOK(r), NEW e \in Codes
  PROVE  /\ r.state \notin Terminal => PingOK(BaseError(r, e))
         /\ r.state \notin {"INSTALL_COMPLETE", "NO_UPDATE"} => PingOK(Error(r, e))
<1>1. ASSUME r.state \notin Terminal PROVE PingOK(BaseError(r, e))
  <2> DEFINE q == SetError(r, e)
  <2>1. q \in App /\ q.state = r.state /\ q.pings = r.pings
    BY DEF SetError, App, Results
  <2> HIDE DEF q
  <2>2. PingOK(q)
    BY <2>1 DEF PingOK
  <2>3. Bound[q.state] < Bound["ERROR"]
    <3>1. Bound[q.state] \in 0..4
      BY <1>1, <2>1, BoundValues, SMTT(30) DEF States, Terminal, App
    <3> QED
      BY <3>1, BoundValues, SMTT(30) DEF Terminal
  <2> QED
    BY <2>1, <2>2, <2>3, ChangePings DEF BaseError, q, States
<1>2. ASSUME r.state = "ERROR" PROVE Error(r, e) = r
  BY <1>2 DEF Error, Unhandled, Ignores, ErrorIgnores, Terminal
<1> QED
  BY <1>1, <1>2 DEF Error, Terminal

\* So does an event that the state does not handle, unless a terminal state
\* takes it for an error.
LEMMA UnhandledPings ==
  ASSUME NEW r \in App, PingOK(r), NEW event,
         r.state \notin Terminal \/ event \in Ignores(r.state)
  PROVE  PingOK(Unhandled(r, event))
  BY ErrorPings DEF Unhandled, HandleInvalidStateTransition, Codes

\* The events of the check.
LEMMA CheckPings ==
  ASSUME NEW r \in App, PingOK(r), r.state \notin {"INSTALL_COMPLETE", "NO_UPDATE"}
  PROVE  /\ r.state = "INIT" /\ r.eula # "NONE" => PingOK(QueueUpdateCheck(r))
         /\ \A allow, update, noNetwork : PingOK(PreUpdateCheck(r, allow, update, noNetwork))
         /\ \A h \in Codes, ans \in Answers : \A first, built :
              PingOK(PostUpdateCheck(r, h, ans, first, built))
<1>1. /\ "PreUpdateCheck" \in Ignores("ERROR") /\ "PostUpdateCheck" \in Ignores("ERROR")
      /\ Terminal = {"INSTALL_COMPLETE", "NO_UPDATE", "ERROR"}
  BY DEF Ignores, ErrorIgnores, Terminal
<1>2. PingOK(Unhandled(r, "PreUpdateCheck")) /\ PingOK(Unhandled(r, "PostUpdateCheck"))
  BY <1>1, UnhandledPings
<1>3. \A e \in Codes : PingOK(Error(r, e))
  BY ErrorPings
<1>4. ASSUME NEW q \in App, q.pings = r.pings, q.state = r.state,
             r.state \in {"INIT", "WAITING_TO_CHECK", "CHECKING"}
      PROVE  /\ \A s \in {"WAITING_TO_CHECK", "CHECKING", "UPDATE_AVAILABLE", "NO_UPDATE"} :
                  PingOK(ChangeState(q, s))
             /\ PingOK(Error(q, "FAILED"))
  <2>1. PingOK(q)
    BY <1>4 DEF PingOK
  <2>2. \A s \in {"WAITING_TO_CHECK", "CHECKING", "UPDATE_AVAILABLE"} :
          s \in States \ Pinging /\ Bound[q.state] <= Bound[s]
    <3>1. \A s \in {"WAITING_TO_CHECK", "CHECKING", "UPDATE_AVAILABLE"} :
            Bound[q.state] = 0 /\ Bound[s] = 0
      BY <1>4, BoundValues
    <3>2. \A s \in {"WAITING_TO_CHECK", "CHECKING", "UPDATE_AVAILABLE"} :
            s \in States \ Pinging
      BY DEF States, Pinging, Terminal
    <3> QED
      BY <3>1, <3>2, SMTT(30)
  <2>3. "NO_UPDATE" \in States /\ Bound[q.state] < Bound["NO_UPDATE"]
    BY <1>4, BoundValues, SMTT(30) DEF States, Terminal
  <2>4. PingOK(Error(q, "FAILED"))
    BY <1>4, <2>1, ErrorPings DEF Codes
  <2> QED
    BY <2>1, <2>2, <2>3, <2>4, ChangePings
<1>5. r.state = "INIT" /\ r.eula # "NONE" => PingOK(QueueUpdateCheck(r))
  BY <1>4 DEF QueueUpdateCheck
<1>6. ASSUME NEW allow, NEW update, NEW noNetwork
      PROVE  PingOK(PreUpdateCheck(r, allow, update, noNetwork))
  <2>1. PingOK(Error(r, "POLICY")) /\ PingOK(Error(r, "EULA"))
    BY <1>3 DEF Codes
  <2>2. r.state = "WAITING_TO_CHECK" => PingOK(ChangeState(r, "CHECKING"))
    BY <1>4
  <2> QED
    BY <1>2, <2>1, <2>2 DEF PreUpdateCheck
<1>7. ASSUME r.state = "CHECKING"
      PROVE  /\ PingOK(HandleUpdateDeferred(r)) /\ PingOK(HandleNoUpdate(r))
             /\ \A built : PingOK(HandleUpdateAvailable(r, built))
  <2>1. ASSUME NEW e \in {"S_OK", "DEFERRED"}
        PROVE  PingOK(ChangeState(SetNoUpdate(r, e), "NO_UPDATE"))
    <3>1. /\ SetNoUpdate(r, e) \in App /\ SetNoUpdate(r, e).state = r.state
          /\ SetNoUpdate(r, e).pings = r.pings
      BY DEF SetNoUpdate, App, Results, Codes
    <3> QED
      BY <1>4, <1>7, <3>1
  <2>2. \A built : PingOK(HandleUpdateAvailable(r, built))
    <3> DEFINE q == [r EXCEPT !.has_update = TRUE]
    <3>1. q \in App /\ q.state = r.state /\ q.pings = r.pings
      BY DEF App
    <3>2. PingOK(ChangeState(q, "UPDATE_AVAILABLE")) /\ PingOK(Error(q, "FAILED"))
      BY <1>4, <1>7, <3>1
    <3> QED
      BY <3>2 DEF HandleUpdateAvailable
  <2>3. PingOK(Error(r, "FAILED"))
    BY <1>3 DEF Codes
  <2> QED
    BY <2>1, <2>2, <2>3 DEF HandleUpdateDeferred, HandleNoUpdate
<1>8. ASSUME NEW h \in Codes, NEW ans \in Answers, NEW first, NEW built
      PROVE  PingOK(PostUpdateCheck(r, h, ans, first, built))
  <2>1. PingOK(Error(r, "FAILED")) /\ PingOK(Error(r, h))
    BY <1>3 DEF Codes
  <2>2. CASE r.state # "CHECKING"
    BY <1>2, <2>2 DEF PostUpdateCheck
  <2>3. CASE r.state = "CHECKING"
    BY <1>7, <2>1, <2>3 DEF PostUpdateCheck, Answers
  <2> QED
    BY <2>2, <2>3
<1> QED
  BY <1>5, <1>6, <1>8

\* The events of the download and of the installation.
LEMMA LoopPings ==
  ASSUME NEW r \in App, PingOK(r), r.state # "INSTALL_COMPLETE"
  PROVE  /\ \A allow : PingOK(QueueDownloadOrInstall(r, allow))
         /\ PingOK(Unhandled(r, "Download")) /\ PingOK(Unhandled(r, "Install"))
         /\ PingOK(QueueInstall(r))
         /\ r.state # "NO_UPDATE" =>
              PingOK(DownloadComplete(r)) /\ PingOK(MarkReadyToInstall(r))
         /\ r.state \notin Terminal =>
              /\ PingOK(Downloading(r)) /\ PingOK(Installing(r))
              /\ \A success : PingOK(ReportInstallerComplete(r, success))
<1> DEFINE Ignored == {"QueueDownload", "QueueDownloadOrInstall", "Download",
                       "QueueInstall", "Install"}
<1>1. /\ \A event \in Ignored : event \in Ignores("ERROR") /\ event \in Ignores("NO_UPDATE")
      /\ "DownloadComplete" \in Ignores("ERROR") /\ "MarkReadyToInstall" \in Ignores("ERROR")
      /\ Terminal = {"INSTALL_COMPLETE", "NO_UPDATE", "ERROR"}
  BY DEF Ignores, ErrorIgnores, NoUpdateIgnores, Terminal
<1>2. \A event \in Ignored : PingOK(Unhandled(r, event))
  BY <1>1, UnhandledPings
<1>3. r.state # "NO_UPDATE" => /\ PingOK(Unhandled(r, "DownloadComplete"))
                               /\ PingOK(Unhandled(r, "MarkReadyToInstall"))
  BY <1>1, UnhandledPings
<1>4. r.state \notin Terminal => \A event : PingOK(Unhandled(r, event))
  BY UnhandledPings
<1>5. r.state \notin {"INSTALL_COMPLETE", "NO_UPDATE"} => PingOK(Error(r, "POLICY"))
  BY ErrorPings DEF Codes
<1>6. /\ r.state = "UPDATE_AVAILABLE" => PingOK(ChangeState(r, "WAITING_TO_DOWNLOAD"))
      /\ r.state = "READY_TO_INSTALL" => PingOK(ChangeState(r, "WAITING_TO_INSTALL"))
      /\ r.state = "WAITING_TO_DOWNLOAD" => PingOK(ChangeState(r, "DOWNLOADING"))
      /\ r.state \in {"WAITING_TO_DOWNLOAD", "DOWNLOADING"} =>
           PingOK(ChangeState(r, "DOWNLOAD_COMPLETE"))
      /\ r.state = "DOWNLOAD_COMPLETE" => PingOK(ChangeState(r, "READY_TO_INSTALL"))
      /\ r.state = "WAITING_TO_INSTALL" => PingOK(ChangeState(r, "INSTALLING"))
  <2>1. /\ Bound["UPDATE_AVAILABLE"] < Bound["WAITING_TO_DOWNLOAD"]
        /\ Bound["READY_TO_INSTALL"] <= Bound["WAITING_TO_INSTALL"]
        /\ Bound["WAITING_TO_DOWNLOAD"] < Bound["DOWNLOADING"]
        /\ Bound["WAITING_TO_DOWNLOAD"] < Bound["DOWNLOAD_COMPLETE"]
        /\ Bound["DOWNLOADING"] < Bound["DOWNLOAD_COMPLETE"]
        /\ Bound["DOWNLOAD_COMPLETE"] <= Bound["READY_TO_INSTALL"]
        /\ Bound["WAITING_TO_INSTALL"] < Bound["INSTALLING"]
    BY BoundValues, SMTT(30)
  <2>2. {"WAITING_TO_INSTALL", "READY_TO_INSTALL"} \cap Pinging = {}
    BY DEF Pinging, Terminal
  <2> QED
    BY <2>1, <2>2, ChangePings DEF States
<1>7. r.state = "INSTALLING" =>
        \A success : PingOK(ReportInstallerComplete(r, success))
  <2> SUFFICES ASSUME r.state = "INSTALLING", NEW success
               PROVE  PingOK(ReportInstallerComplete(r, success))
    OBVIOUS
  <2> DEFINE q == SetInstallerResult(r, success)
             s == IF success THEN "INSTALL_COMPLETE" ELSE "ERROR"
  <2>1. q \in App /\ q.state = "INSTALLING" /\ q.pings = r.pings
    BY DEF SetInstallerResult, App, Results, Codes
  <2>2. s \in States /\ s \in Terminal /\ ReportInstallerComplete(r, success) = ChangeState(q, s)
    BY DEF ReportInstallerComplete, States, Terminal
  <2> HIDE DEF q, s
  <2>3. PingOK(q)
    BY <2>1 DEF PingOK
  <2>4. Bound[q.state] < Bound[s]
    BY <2>1, <2>2, BoundValues, SMTT(30)
  <2> QED
    BY <2>1, <2>2, <2>3, <2>4, ChangePings
<1>8. PingOK(QueueInstall(r))
  BY <1>2, <1>6 DEF QueueInstall
<1>9. \A allow : PingOK(QueueDownloadOrInstall(r, allow))
  BY <1>2, <1>5, <1>6, <1>8 DEF QueueDownloadOrInstall, QueueDownload
<1>10. r.state # "NO_UPDATE" => PingOK(DownloadComplete(r)) /\ PingOK(MarkReadyToInstall(r))
  BY <1>3, <1>6 DEF DownloadComplete, MarkReadyToInstall
<1>11. r.state \notin Terminal =>
         /\ PingOK(Downloading(r)) /\ PingOK(Installing(r))
         /\ \A success : PingOK(ReportInstallerComplete(r, success))
  BY <1>4, <1>6, <1>7 DEF Downloading, Installing, ReportInstallerComplete
<1> QED
  BY <1>2, <1>8, <1>9, <1>10, <1>11

-----------------------------------------------------------------------------
(* The control state of the bundle.                                        *)

\* Applications that were not added to the bundle are untouched.
Fresh == \A a \in AppIds \ InBundle : app[a].state = "INIT"

\* TypeOK without the application records.
ControlOK ==
  /\ bundle \in BundleStates
  /\ apps \in Seq(AppIds) /\ Len(apps) <= MaxApps
  /\ auto \in BOOLEAN /\ offline \in BOOLEAN /\ pending \in BOOLEAN
  /\ allowed \subseteq AppIds /\ cached \subseteq AppIds
  /\ op \in Ops /\ pc \in Pcs /\ i \in Nat /\ hr \in Codes
  /\ request \subseteq AppIds /\ answer \in [AppIds -> Answers]
  /\ dl \subseteq AppIds /\ dlCancelled \subseteq AppIds
  /\ ran \in [AppIds -> Nat] /\ installed \subseteq AppIds
  /\ pc \in {"pre", "post", "queue"} \cup LoopPcs => i \in 1..Len(apps)

\* The inductive invariant of the control state.
IInv == TypeOK /\ SingleCall /\ Fresh

\* TypeOK is ControlOK and the type of the application records.
LEMMA TypeSplit == TypeOK <=> ControlOK /\ app \in [AppIds -> App]
  BY DEF TypeOK, ControlOK

\* A list of applications from the registry is a sequence of applications.
LEMMA AppListType ==
  ASSUME NEW s \in AppLists
  PROVE  s \in Seq(AppIds) /\ Len(s) \in Nat /\ Len(s) <= MaxApps
<1>1. PICK n \in 0..MaxApps : s \in [1..n -> AppIds]
  BY DEF AppLists
<1>2. n \in Nat
  BY <1>1, MaxAppsAssumption, SMTT(30)
<1>3. s \in Seq(AppIds) /\ Len(s) = n
  BY <1>1, <1>2, SMTT(30)
<1> QED
  BY <1>1, <1>2, <1>3, MaxAppsAssumption, SMTT(30)

\* Whatever step the client takes, the control state stays well formed and at
\* most one call is outstanding.
LEMMA ClientControl ==
  ASSUME ControlOK, SingleCall, Client
  PROVE  ControlOK' /\ SingleCall'
<1> USE MaxAppsAssumption
    DEF ControlOK, SingleCall, Pcs, CheckPcs, LoopPcs, DownloadAppPcs,
        InstallAppPcs, InstallPcs, Ops, Codes, BundleStates, client, check,
        history, worker
<1>1. ASSUME NEW a \in AppIds, NEW r, AddApp(a, r) PROVE ControlOK' /\ SingleCall'
  <2>1. pc = "idle"
    BY <1>1 DEF AddApp
  <2>2. apps' \in Seq(AppIds) /\ Len(apps') = Len(apps) + 1
    BY <1>1, AppendType DEF AddApp
  <2> QED
    BY <1>1, <2>1, <2>2, SMTT(30) DEF AddApp
<1>2. CASE Initialize
  BY <1>2 DEF Initialize
<1>3. CASE CheckForUpdate
  BY <1>3 DEF CheckForUpdate, StartWork
<1>4. CASE Download
  BY <1>4 DEF Download, StartWork
<1>5. CASE Install
  BY <1>5 DEF Install, StartWork
<1>6. CASE Pause
  BY <1>6 DEF Pause
<1>7. CASE StopInitialized
  BY <1>7 DEF StopInitialized
<1>8. CASE StopBusy
  BY <1>8, SMTT(30) DEF StopBusy
<1>9. ASSUME NEW a \in AppIds, CreateApp(a) PROVE ControlOK' /\ SingleCall'
  BY <1>1, <1>9 DEF CreateApp
<1>10. ASSUME NEW a \in AppIds, NEW eula \in {"NO", "YES"},
              CreateInstalledApp(a, eula) \/ PutIsEulaAccepted(a, eula)
       PROVE  ControlOK' /\ SingleCall'
  <2>1. CASE CreateInstalledApp(a, eula)
    BY <1>1, <2>1 DEF CreateInstalledApp
  <2>2. CASE PutIsEulaAccepted(a, eula)
    BY <2>2, SMTT(30) DEF PutIsEulaAccepted
  <2> QED
    BY <1>10, <2>1, <2>2
<1>11. ASSUME NEW s \in AppLists, NEW eula \in [AppIds -> {"NO", "YES"}],
              \/ CreateAllInstalledApps(s, eula)
              \/ UpdateAllApps(s, eula)
              \/ UpdateAllAppsFails(s, eula)
       PROVE  ControlOK' /\ SingleCall'
  <2>1. s \in Seq(AppIds) /\ Len(s) \in Nat /\ Len(s) <= MaxApps
    BY AppListType
  <2>2. bundle = "Initialized" /\ pc = "idle" /\ apps' = s
    BY <1>11 DEF CreateAllInstalledApps, UpdateAllApps, UpdateAllAppsFails
  <2>3. CASE CreateAllInstalledApps(s, eula)
    BY <2>1, <2>2, <2>3 DEF CreateAllInstalledApps
  <2>4. CASE UpdateAllApps(s, eula)
    BY <2>1, <2>2, <2>4 DEF UpdateAllApps, StartWork
  <2>5. CASE UpdateAllAppsFails(s, eula)
    BY <2>1, <2>2, <2>5 DEF UpdateAllAppsFails
  <2> QED
    BY <1>11, <2>3, <2>4, <2>5
<1> QED
  BY <1>2, <1>3, <1>4, <1>5, <1>6, <1>7, <1>8, <1>9, <1>10, <1>11 DEF Client

\* Where the loop over the applications goes next.
LEMMA LoopControl ==
  ASSUME ControlOK, UNCHANGED apps, NEW body, NEW end,
         i \in 1..Len(apps), Loop(body, end)
  PROVE  /\ i' \in Nat
         /\ (pc' = body /\ i' \in 1..Len(apps')) \/ pc' = end
  BY SMTT(30) DEF ControlOK, Loop

\* Entering a loop.
LEMMA EnterLoopControl ==
  ASSUME ControlOK, UNCHANGED apps, NEW body, NEW end, EnterLoop(body, end)
  PROVE  /\ i' \in Nat
         /\ (pc' = body /\ i' \in 1..Len(apps')) \/ pc' = end
<1>1. apps # <<>> => Len(apps) >= 1
  BY SMTT(30) DEF ControlOK
<1> QED
  BY <1>1, SMTT(30) DEF ControlOK, EnterLoop

\* The application the work item is at is one of the bundle.
LEMMA CurrentApp ==
  ASSUME ControlOK, pc \in {"pre", "post", "queue"} \cup LoopPcs
  PROVE  i \in 1..Len(apps) /\ A \in AppIds /\ A \in InBundle
<1>1. i \in 1..Len(apps)
  BY DEF ControlOK
<1>2. apps[i] \in AppIds
  BY <1>1, ElementOfSeq DEF ControlOK
<1> QED
  BY <1>1, <1>2 DEF A, InBundle

\* Whatever step the work item takes, the control state stays well formed and
\* at most one call is outstanding.
LEMMA WorkerControl ==
  ASSUME ControlOK, SingleCall, Worker
  PROVE  ControlOK' /\ SingleCall'
<1> USE DEF client, check, history, Goto
<1>a. pc \in {"pre", "post", "queue"} \cup LoopPcs
        => i \in 1..Len(apps) /\ A \in AppIds
  BY CurrentApp
<1>b. ASSUME UNCHANGED apps, UNCHANGED pending, UNCHANGED bundle, pc # "idle",
             i' \in Nat, pc' \in Pcs, UNCHANGED op, pc' # "idle",
             pc' \in {"pre", "post", "queue"} \cup LoopPcs => i' \in 1..Len(apps'),
             UNCHANGED <<auto, offline, allowed>>,
             cached' \subseteq AppIds, hr' \in Codes,
             request' \subseteq AppIds, answer' \in [AppIds -> Answers],
             dl' \subseteq AppIds, dlCancelled' \subseteq AppIds,
             ran' \in [AppIds -> Nat], installed' \subseteq AppIds
      PROVE  ControlOK' /\ SingleCall'
  <2>1. ControlOK'
    BY <1>b DEF ControlOK
  <2>2. SingleCall'
    BY <1>b DEF SingleCall
  <2> QED
    BY <2>1, <2>2
<1> USE DEF Pcs, CheckPcs, LoopPcs, DownloadAppPcs, InstallAppPcs, InstallPcs
<1>1. CASE BeginCheck
  <2>1. \/ EnterLoop("pre", "send") \/ EnterLoop("queue", "impersonate")
        \/ Goto("complete")
    BY <1>1 DEF BeginCheck
  <2> QED
    BY <1>1, <1>b, <2>1, EnterLoopControl, SMTT(30) DEF BeginCheck, ControlOK
<1>2. CASE DoPreUpdateCheck
  BY <1>2, <1>a, <1>b, LoopControl, SMTT(30) DEF DoPreUpdateCheck, ControlOK
<1>3. CASE DoUpdateCheck
  <2>1. answer' \in [AppIds -> Answers] /\ hr' \in Codes
    BY <1>3 DEF DoUpdateCheck, ControlOK, Answers, Codes
  <2> QED
    BY <1>3, <1>b, <2>1, EnterLoopControl, SMTT(30) DEF DoUpdateCheck, ControlOK
<1>4. CASE DoPostUpdateCheck
  BY <1>4, <1>a, <1>b, LoopControl, SMTT(30) DEF DoPostUpdateCheck, ControlOK
<1>5. CASE CacheOfflinePackages
  <2>1. cached' \subseteq AppIds
    <3>1. ASSUME NEW n \in 1..Len(apps) PROVE apps[n] \in AppIds
      BY ElementOfSeq DEF ControlOK
    <3>2. CASE offline
      <4>1. PICK last \in IF "cache" \in Faults THEN 0..Len(apps)
                                               ELSE {Len(apps)} :
              cached' = cached \cup {apps[n] : n \in 1..last}
        BY <1>5, <3>2 DEF CacheOfflinePackages
      <4>2. \A n \in 1..last : n \in 1..Len(apps)
        BY SMTT(30) DEF ControlOK
      <4> QED
        BY <3>1, <4>1, <4>2 DEF ControlOK
    <3> QED
      BY <1>5, <3>2 DEF CacheOfflinePackages, ControlOK
  <2>2. answer' \in [AppIds -> Answers] /\ hr' \in Codes /\ request' \subseteq AppIds
    BY <1>5 DEF CacheOfflinePackages, NoAnswer, Answers, Codes
  <2>3. EnterLoop("queue", "impersonate") \/ Goto("complete")
    BY <1>5 DEF CacheOfflinePackages
  <2> QED
    BY <1>5, <1>b, <2>1, <2>2, <2>3, EnterLoopControl, SMTT(30)
    DEF CacheOfflinePackages, ControlOK
<1>6. CASE QueueApp
  BY <1>6, <1>a, <1>b, LoopControl, SMTT(30) DEF QueueApp, ControlOK
<1>7. CASE BeginDownload
  <2>1. CASE EnterLoop("download", "complete") /\ UNCHANGED op
    BY <1>7, <1>b, <2>1, EnterLoopControl, SMTT(30) DEF BeginDownload, ControlOK
  <2>2. CASE Goto("idle") /\ op' = "None"
    BY <1>7, <2>2 DEF BeginDownload, ControlOK, SingleCall, Ops
  <2>3. CASE Goto("complete") /\ UNCHANGED op
    BY <1>7, <1>b, <2>3 DEF BeginDownload, ControlOK
  <2> QED
    BY <1>7, <2>1, <2>2, <2>3 DEF BeginDownload
<1>8. ASSUME pc \in LoopPcs, UNCHANGED <<client, op, check, history>>,
             AfterDownload \/ Goto("create") \/ Goto("downloading")
               \/ Goto("fetch") \/ Goto("put") \/ Goto("download_complete")
               \/ Goto("mark") \/ Goto("download_error") \/ Goto("delete")
               \/ Goto("install") \/ Goto("copy") \/ Goto("installing")
               \/ Loop("download", "complete"),
             cached' \subseteq AppIds, hr' \in Codes,
             dl' \subseteq AppIds, dlCancelled' \subseteq AppIds
      PROVE  ControlOK' /\ SingleCall'
  <2>1. i \in 1..Len(apps) /\ UNCHANGED apps
    BY <1>8, <1>a
  <2>2. CASE Loop("download", "complete")
    BY <1>8, <1>b, <2>1, <2>2, LoopControl, SMTT(30) DEF ControlOK
  <2>3. CASE Goto("queue_install")
    BY <1>8, <1>b, <2>1, <2>3 DEF ControlOK
  <2>4. CASE ~Loop("download", "complete") /\ ~Goto("queue_install")
    BY <1>8, <1>b, <2>1, <2>4 DEF ControlOK, AfterDownload
  <2> QED
    BY <2>2, <2>3, <2>4
<1>9. CASE DispatchDownload
  BY <1>8, <1>9 DEF DispatchDownload, ControlOK
<1>10. CASE CreateStateForApp
  BY <1>8, <1>10, <1>a DEF CreateStateForApp, ControlOK
<1>11. CASE AppDownloading
  BY <1>8, <1>11 DEF AppDownloading, ControlOK
<1>12. CASE FetchPackages
  <2>1. hr' \in Codes
    BY <1>12 DEF FetchPackages, ControlOK, Codes
  <2> QED
    BY <1>8, <1>12, <2>1 DEF FetchPackages, ControlOK
<1>13. CASE CachePackage
  <2>1. hr' \in Codes
    BY <1>13 DEF CachePackage, ControlOK, Codes
  <2> QED
    BY <1>8, <1>13, <1>a, <2>1 DEF CachePackage, ControlOK
<1>14. CASE AppDownloadComplete
  BY <1>8, <1>14 DEF AppDownloadComplete, ControlOK
<1>15. CASE AppMarkReadyToInstall
  BY <1>8, <1>15 DEF AppMarkReadyToInstall, ControlOK
<1>16. CASE AppDownloadError
  BY <1>8, <1>16 DEF AppDownloadError, ControlOK, Codes
<1>17. CASE DeleteStateForApp
  BY <1>8, <1>17 DEF DeleteStateForApp, ControlOK
<1>18. CASE AppQueueInstall
  BY <1>8, <1>18 DEF AppQueueInstall, ControlOK
<1>19. CASE DispatchInstall
  BY <1>8, <1>19 DEF DispatchInstall, ControlOK
<1>20. CASE CopyPackages
  BY <1>8, <1>20 DEF CopyPackages, ControlOK
<1>21. CASE AppInstalling
  <2>1. Goto("run") \/ Loop("download", "complete")
    BY <1>21 DEF AppInstalling
  <2>2. CASE Goto("run")
    BY <1>21, <1>a, <1>b, <2>2 DEF AppInstalling, ControlOK
  <2>3. CASE Loop("download", "complete")
    BY <1>8, <1>21, <2>3 DEF AppInstalling, ControlOK
  <2> QED
    BY <2>1, <2>2, <2>3
<1>22. CASE RunInstaller
  <2>1. ran' \in [AppIds -> Nat] /\ hr' \in Codes
    BY <1>22, <1>a, SMTT(30) DEF RunInstaller, ControlOK, Codes
  <2> QED
    BY <1>22, <1>a, <1>b, <2>1 DEF RunInstaller, ControlOK
<1>23. CASE ReportResult
  <2>1. hr' \in Codes /\ installed' \subseteq AppIds
    BY <1>23, <1>a DEF ReportResult, ControlOK, Codes
  <2> QED
    BY <1>23, <1>a, <1>b, <2>1, LoopControl, SMTT(30) DEF ReportResult, ControlOK
<1>24. CASE CompleteAsyncCall
  BY <1>24 DEF CompleteAsyncCall, ControlOK, SingleCall, Ops, BundleStates
<1> QED
  BY <1>1, <1>2, <1>3, <1>4, <1>5, <1>6, <1>7, <1>9, <1>10, <1>11, <1>12,
     <1>13, <1>14, <1>15, <1>16, <1>17, <1>18, <1>19, <1>20, <1>21, <1>22,
     <1>23, <1>24 DEF Worker

\* One application changes, along an arrow of its state machine.
LEMMA OneAppMoves ==
  ASSUME app \in [AppIds -> App], Fresh, UNCHANGED apps,
         NEW a \in InBundle, a \in AppIds, NEW r \in App, Moves(app[a], r),
         app' = [app EXCEPT ![a] = r]
  PROVE  /\ app' \in [AppIds -> App]
         /\ \A b \in AppIds : Moves(app[b], app'[b])
         /\ Fresh'
<1>1. app' \in [AppIds -> App]
  OBVIOUS
<1>2. \A b \in AppIds : Moves(app[b], app'[b])
  BY DEF Moves
<1>3. Fresh'
  BY DEF Fresh, InBundle
<1> QED
  BY <1>1, <1>2, <1>3

\* Every application of the bundle changes, along an arrow.
LEMMA AllAppsMove ==
  ASSUME app \in [AppIds -> App], Fresh, UNCHANGED apps,
         NEW f, \A a \in AppIds : f[a] \in App /\ Moves(app[a], f[a]),
         app' = [a \in AppIds |-> IF a \in InBundle THEN f[a] ELSE app[a]]
  PROVE  /\ app' \in [AppIds -> App]
         /\ \A b \in AppIds : Moves(app[b], app'[b])
         /\ Fresh'
<1>1. app' \in [AppIds -> App]
  OBVIOUS
<1>2. \A b \in AppIds : Moves(app[b], app'[b])
  BY DEF Moves
<1>3. Fresh'
  BY DEF Fresh, InBundle
<1> QED
  BY <1>1, <1>2, <1>3

\* No application changes.
LEMMA NoAppMoves ==
  ASSUME app \in [AppIds -> App], Fresh, UNCHANGED <<app, apps>>
  PROVE  /\ app' \in [AppIds -> App]
         /\ \A b \in AppIds : Moves(app[b], app'[b])
         /\ Fresh'
  BY DEF Moves, Fresh, InBundle

\* A new App object is in its initial state.
LEMMA NewAppType ==
  ASSUME NEW u \in BOOLEAN, NEW o \in BOOLEAN, NEW e \in Eula
  PROVE  NewApp(u, o, e) \in App /\ NewApp(u, o, e).state = "INIT"
  BY SMTT(30) DEF NewApp, App, States, Codes, Results

\* What every step does to the applications.
AppStep ==
  /\ app' \in [AppIds -> App]
  /\ \A b \in AppIds : Moves(app[b], app'[b])
  /\ Fresh'

\* Calls of the client move every application along an arrow or not at all.
LEMMA ClientMoves ==
  ASSUME ControlOK, SingleCall, app \in [AppIds -> App], Fresh, Client
  PROVE  AppStep
<1> USE DEF client, AppStep
<1>1. ASSUME NEW a \in AppIds, NEW r \in App, r.state = "INIT", AddApp(a, r)
      PROVE  AppStep
  <2>1. a \notin InBundle /\ app' = [app EXCEPT ![a] = r] /\ apps' = Append(apps, a)
    BY <1>1 DEF AddApp
  <2>2. app[a].state = "INIT"
    BY <2>1 DEF Fresh
  <2>3. \A b \in InBundle : b \in InBundle'
    BY <2>1, SMTT(30) DEF InBundle, ControlOK
  <2>4. a \in InBundle'
    BY <2>1, SMTT(30) DEF InBundle, ControlOK
  <2>5. app' \in [AppIds -> App]
    BY <1>1, <2>1
  <2>6. \A b \in AppIds : Moves(app[b], app'[b])
    BY <1>1, <2>1, <2>2 DEF Moves
  <2>7. Fresh'
    BY <2>1, <2>3, <2>4 DEF Fresh
  <2> QED
    BY <2>5, <2>6, <2>7
<1>2. CASE Initialize \/ Pause \/ StopInitialized
  BY <1>2, NoAppMoves DEF Initialize, Pause, StopInitialized
<1>3. CASE CheckForUpdate
  <2> DEFINE f == [a \in AppIds |-> QueueUpdateCheck(app[a])]
  <2>1. \A a \in AppIds : f[a] \in App /\ Moves(app[a], f[a])
    BY QueueUpdateCheckType
  <2>2. app' = [a \in AppIds |-> IF a \in InBundle THEN f[a] ELSE app[a]]
    BY <1>3 DEF CheckForUpdate, OnBundle
  <2> QED
    BY <1>3, <2>1, <2>2, AllAppsMove DEF CheckForUpdate
<1>4. CASE Download
  <2> DEFINE f == [a \in AppIds |-> QueueDownload(app[a], a \in allowed)]
  <2>1. \A a \in AppIds : f[a] \in App /\ Moves(app[a], f[a])
    BY DownloadEventsType
  <2>2. app' = [a \in AppIds |-> IF a \in InBundle THEN f[a] ELSE app[a]]
    BY <1>4 DEF Download
  <2> QED
    BY <1>4, <2>1, <2>2, AllAppsMove DEF Download
<1>5. CASE Install
  <2> DEFINE f == [a \in AppIds |-> QueueDownloadOrInstall(app[a], a \in allowed)]
  <2>1. \A a \in AppIds : f[a] \in App /\ Moves(app[a], f[a])
    BY InstallEventsType
  <2>2. app' = [a \in AppIds |-> IF a \in InBundle THEN f[a] ELSE app[a]]
    BY <1>5 DEF Install
  <2> QED
    BY <1>5, <2>1, <2>2, AllAppsMove DEF Install
<1>6. CASE StopBusy
  <2> DEFINE f == [a \in AppIds |-> Cancel(app[a])]
  <2>1. \A a \in AppIds : f[a] \in App /\ Moves(app[a], f[a])
    BY CancelType
  <2>2. app' = [a \in AppIds |-> IF a \in InBundle THEN f[a] ELSE app[a]]
    BY <1>6 DEF StopBusy, OnBundle
  <2> QED
    BY <1>6, <2>1, <2>2, AllAppsMove DEF StopBusy
<1>7. ASSUME NEW a \in AppIds, CreateApp(a) PROVE AppStep
  <2>1. /\ NewApp(FALSE, a = Omaha, "NONE") \in App
        /\ NewApp(FALSE, a = Omaha, "NONE").state = "INIT"
    BY NewAppType DEF Eula
  <2> QED
    BY <1>1, <1>7, <2>1 DEF CreateApp
<1>8. ASSUME NEW a \in AppIds, NEW eula \in {"NO", "YES"},
             CreateInstalledApp(a, eula)
      PROVE  AppStep
  <2>1. /\ NewApp(TRUE, a = Omaha, eula) \in App
        /\ NewApp(TRUE, a = Omaha, eula).state = "INIT"
    BY NewAppType DEF Eula
  <2> QED
    BY <1>1, <1>8, <2>1 DEF CreateInstalledApp
<1>9. ASSUME NEW a \in AppIds, NEW eula \in {"NO", "YES"},
             PutIsEulaAccepted(a, eula)
      PROVE  AppStep
  <2> DEFINE r == [app[a] EXCEPT !.eula = eula]
  <2>1. r \in App /\ r.state = app[a].state
    BY DEF App, Eula
  <2>2. app' = [app EXCEPT ![a] = r]
    BY <1>9 DEF PutIsEulaAccepted
  <2>3. Moves(app[a], r)
    BY <2>1 DEF Moves
  <2> HIDE DEF r
  <2> QED
    BY <1>9, <2>1, <2>2, <2>3, OneAppMoves DEF PutIsEulaAccepted
<1>10. ASSUME NEW s \in AppLists, NEW eula \in [AppIds -> {"NO", "YES"}],
              \/ CreateAllInstalledApps(s, eula)
              \/ UpdateAllApps(s, eula)
              \/ UpdateAllAppsFails(s, eula)
       PROVE  AppStep
  <2> DEFINE Listed(a) == \E n \in DOMAIN s : s[n] = a
             new(a) == NewApp(TRUE, a = Omaha, eula[a])
  <2>1. apps = <<>> /\ apps' = s
    BY <1>10 DEF CreateAllInstalledApps, UpdateAllApps, UpdateAllAppsFails
  <2>2. \A a \in AppIds : app[a].state = "INIT"
    BY <2>1, SMTT(30) DEF Fresh, InBundle
  <2>3. \A a \in AppIds : new(a) \in App /\ new(a).state = "INIT"
    BY NewAppType DEF Eula
  <2>4. \A a \in AppIds : QueueUpdateCheck(new(a)) \in App
                           /\ Moves(new(a), QueueUpdateCheck(new(a)))
    BY <2>3, QueueUpdateCheckType
  <2>5. \A a \in AppIds : ~Listed(a) => a \notin InBundle'
    <3>1. s \in Seq(AppIds)
      BY AppListType
    <3>2. DOMAIN s = 1..Len(s)
      BY <3>1, SMTT(30)
    <3> QED
      BY <2>1, <3>2 DEF InBundle
  <2>6. \A a \in AppIds : a \notin InBundle' => ~Listed(a)
    <3>1. s \in Seq(AppIds)
      BY AppListType
    <3>2. DOMAIN s = 1..Len(s)
      BY <3>1, SMTT(30)
    <3> QED
      BY <2>1, <3>2 DEF InBundle
  <2>7. CASE app' = RegisteredApps(s, eula)
    <3>1. \A a \in AppIds : app'[a] = IF Listed(a) THEN new(a) ELSE app[a]
      BY <2>7 DEF RegisteredApps
    <3>2. app' = [a \in AppIds |-> app'[a]]
      BY <2>7 DEF RegisteredApps
    <3> HIDE DEF Listed, new
    <3>3. \A a \in AppIds : app'[a] \in App /\ app'[a].state = "INIT"
      BY <2>2, <2>3, <3>1
    <3> QED
      BY <2>2, <3>2, <3>3 DEF Moves, Fresh
  <2>8. CASE UpdateAllApps(s, eula)
    <3>1. \A a \in AppIds :
            app'[a] = IF Listed(a) THEN QueueUpdateCheck(new(a)) ELSE app[a]
      BY <2>8 DEF UpdateAllApps, RegisteredApps
    <3>2. app' = [a \in AppIds |-> app'[a]]
      BY <2>8 DEF UpdateAllApps
    <3> HIDE DEF Listed, new
    <3>3. \A a \in AppIds : app'[a] \in App /\ Moves(app[a], app'[a])
      BY <2>2, <2>3, <2>4, <3>1 DEF Moves
    <3>4. Fresh'
      BY <2>2, <2>6, <3>1 DEF Fresh
    <3> QED
      BY <3>2, <3>3, <3>4
  <2> QED
    BY <1>10, <2>7, <2>8 DEF CreateAllInstalledApps, UpdateAllAppsFails
<1> QED
  BY <1>2, <1>3, <1>4, <1>5, <1>6, <1>7, <1>8, <1>9, <1>10 DEF Client

\* Steps of the work item move the application it is at along an arrow, or no
\* application at all.
LEMMA WorkerMoves ==
  ASSUME ControlOK, SingleCall, app \in [AppIds -> App], Fresh, Worker
  PROVE  AppStep
<1> USE DEF client, AppStep
<1>a. pc \in {"pre", "post", "queue"} \cup LoopPcs
        => A \in AppIds /\ A \in InBundle /\ app[A] \in App
  BY CurrentApp
<1>b. ASSUME UNCHANGED apps, A \in AppIds, A \in InBundle,
             NEW r \in App, Moves(app[A], r), app' = [app EXCEPT ![A] = r]
      PROVE  AppStep
  BY <1>b, OneAppMoves
<1> USE DEF LoopPcs, DownloadAppPcs, InstallAppPcs, InstallPcs
<1>1. CASE \/ BeginCheck \/ DoUpdateCheck \/ CacheOfflinePackages
           \/ BeginDownload \/ CreateStateForApp \/ FetchPackages
           \/ CachePackage \/ DeleteStateForApp \/ RunInstaller
           \/ CompleteAsyncCall
  BY <1>1, NoAppMoves
  DEF BeginCheck, DoUpdateCheck, CacheOfflinePackages, BeginDownload,
      CreateStateForApp, FetchPackages, CachePackage, DeleteStateForApp,
      RunInstaller, CompleteAsyncCall
<1>2. CASE DoPostUpdateCheck
  <2>1. PICK built :
          app' = [app EXCEPT ![A] = PostUpdateCheck(app[A], hr, answer[A],
                                        IsOmahaUpdateAvailable, built)]
    BY <1>2 DEF DoPostUpdateCheck
  <2> DEFINE r == PostUpdateCheck(app[A], hr, answer[A],
                                  IsOmahaUpdateAvailable, built)
  <2>2. hr \in Codes /\ answer[A] \in Answers
    BY <1>a, <1>2 DEF DoPostUpdateCheck, ControlOK
  <2>3. r \in App /\ Moves(app[A], r)
    BY <1>a, <1>2, <2>2, PostUpdateCheckType DEF DoPostUpdateCheck
  <2> HIDE DEF r
  <2> QED
    BY <1>a, <1>b, <1>2, <2>1, <2>3 DEF DoPostUpdateCheck, r
<1>3. CASE DoPreUpdateCheck
  <2>1. /\ PreUpdateCheck(app[A], A \in allowed, auto, offline) \in App
        /\ Moves(app[A], PreUpdateCheck(app[A], A \in allowed, auto, offline))
    BY <1>a, <1>3, PreUpdateCheckType DEF DoPreUpdateCheck
  <2> QED
    BY <1>a, <1>b, <1>3, <2>1 DEF DoPreUpdateCheck
<1>4. CASE QueueApp
  <2>1. /\ QueueDownloadOrInstall(app[A], A \in allowed) \in App
        /\ Moves(app[A], QueueDownloadOrInstall(app[A], A \in allowed))
    BY <1>a, <1>4, InstallEventsType DEF QueueApp
  <2> QED
    BY <1>a, <1>b, <1>4, <2>1 DEF QueueApp
<1>5. CASE AppDownloading
  <2>1. Downloading(app[A]) \in App /\ Moves(app[A], Downloading(app[A]))
    BY <1>a, <1>5, DownloadEventsType DEF AppDownloading
  <2> QED
    BY <1>a, <1>b, <1>5, <2>1 DEF AppDownloading
<1>6. CASE AppDownloadComplete
  <2>1. DownloadComplete(app[A]) \in App /\ Moves(app[A], DownloadComplete(app[A]))
    BY <1>a, <1>6, DownloadEventsType DEF AppDownloadComplete
  <2> QED
    BY <1>a, <1>b, <1>6, <2>1 DEF AppDownloadComplete
<1>7. CASE AppMarkReadyToInstall
  <2>1. MarkReadyToInstall(app[A]) \in App /\ Moves(app[A], MarkReadyToInstall(app[A]))
    BY <1>a, <1>7, DownloadEventsType DEF AppMarkReadyToInstall
  <2> QED
    BY <1>a, <1>b, <1>7, <2>1 DEF AppMarkReadyToInstall
<1>8. CASE AppDownloadError
  <2>1. Error(app[A], hr) \in App /\ Moves(app[A], Error(app[A], hr))
    BY <1>a, <1>8, ErrorType DEF AppDownloadError, ControlOK
  <2> QED
    BY <1>a, <1>b, <1>8, <2>1 DEF AppDownloadError
<1>9. CASE AppQueueInstall
  <2>1. QueueInstall(app[A]) \in App /\ Moves(app[A], QueueInstall(app[A]))
    BY <1>a, <1>9, InstallEventsType DEF AppQueueInstall
  <2> QED
    BY <1>a, <1>b, <1>9, <2>1 DEF AppQueueInstall
<1>10. CASE DispatchDownload
  <2>1. Unhandled(app[A], "Download") \in App /\ Moves(app[A], Unhandled(app[A], "Download"))
    BY <1>a, <1>10, UnhandledType DEF DispatchDownload
  <2> QED
    BY <1>a, <1>b, <1>10, <2>1, NoAppMoves DEF DispatchDownload
<1>11. CASE DispatchInstall
  <2>1. Unhandled(app[A], "Install") \in App /\ Moves(app[A], Unhandled(app[A], "Install"))
    BY <1>a, <1>11, UnhandledType DEF DispatchInstall
  <2> QED
    BY <1>a, <1>b, <1>11, <2>1, NoAppMoves DEF DispatchInstall
<1>12. CASE CopyPackages
  <2>1. BaseError(app[A], "FAILED") \in App
        /\ Moves(app[A], BaseError(app[A], "FAILED"))
    BY <1>a, <1>12, BaseErrorType DEF CopyPackages, Moves, Codes
  <2>2. UNCHANGED app \/ app' = [app EXCEPT ![A] = BaseError(app[A], "FAILED")]
    BY <1>12 DEF CopyPackages
  <2> QED
    BY <1>a, <1>b, <1>12, <2>1, <2>2, NoAppMoves DEF CopyPackages
<1>13. CASE AppInstalling
  <2> DEFINE r == Installing(app[A])
  <2>1. r \in App /\ Moves(app[A], r)
    BY <1>a, <1>13, InstallEventsType DEF AppInstalling
  <2>2. \/ app' = [app EXCEPT ![A] = r]
        \/ app' = [app EXCEPT ![A] = Error(r, "FAILED")]
    BY <1>13 DEF AppInstalling
  <2>3. r.state \in {"INSTALLING", "ERROR"} \cup {app[A].state}
    BY <1>a, <1>13, <2>1, ChangeStateType, BaseErrorType
    DEF AppInstalling, Installing, Unhandled, HandleInvalidStateTransition,
        States, Codes
  <2>4. Error(r, "FAILED") \in App
    BY <2>1, ErrorType DEF Codes
  <2>5. Moves(app[A], Error(r, "FAILED"))
    <3> HIDE DEF r
    <3>1. Error(r, "FAILED").state = "ERROR" \/ Error(r, "FAILED") = r
      BY <2>1, BaseErrorType
      DEF Error, Unhandled, HandleInvalidStateTransition, Codes
    <3> QED
      BY <2>1, <3>1 DEF Moves
  <2> HIDE DEF r
  <2> QED
    BY <1>a, <1>b, <1>13, <2>1, <2>2, <2>4, <2>5 DEF AppInstalling
<1>14. CASE ReportResult
  <2>1. PICK r \in {ReportInstallerComplete(app[A], TRUE),
                    ReportInstallerComplete(app[A], FALSE), Error(app[A], hr)} :
          app' = [app EXCEPT ![A] = r]
    BY <1>14 DEF ReportResult
  <2>2. app[A] \in App /\ hr \in Codes
    BY <1>a, <1>14 DEF ReportResult, ControlOK
  <2>3. \A success \in BOOLEAN :
          /\ ReportInstallerComplete(app[A], success) \in App
          /\ Moves(app[A], ReportInstallerComplete(app[A], success))
    BY <2>2, InstallEventsType
  <2>4. Error(app[A], hr) \in App /\ Moves(app[A], Error(app[A], hr))
    BY <2>2, ErrorType
  <2>5. r \in App /\ Moves(app[A], r)
    BY <2>3, <2>4
  <2> QED
    BY <1>a, <1>b, <1>14, <2>1, <2>5 DEF ReportResult
<1> QED
  BY <1>1, <1>2, <1>3, <1>4, <1>5, <1>6, <1>7, <1>8, <1>9, <1>10, <1>11,
     <1>12, <1>13, <1>14 DEF Worker

-----------------------------------------------------------------------------

\* The invariant holds in the initial states.
LEMMA InitInvariant == Init => IInv
<1> SUFFICES ASSUME Init PROVE IInv
  OBVIOUS
<1>1. \A a \in AppIds : /\ NewApp(FALSE, a = Omaha, "NONE") \in App
                        /\ NewApp(FALSE, a = Omaha, "NONE").state = "INIT"
  BY NewAppType DEF Eula
<1>2. app \in [AppIds -> App] /\ Fresh
  BY <1>1 DEF Init, Fresh
<1>3. ControlOK
  <2>1. auto \in BOOLEAN /\ offline \in BOOLEAN /\ pending \in BOOLEAN
    BY DEF Init
  <2>2. apps \in Seq(AppIds) /\ Len(apps) <= MaxApps
    BY MaxAppsAssumption, SMTT(30) DEF Init
  <2>3. ran \in [AppIds -> Nat] /\ answer \in [AppIds -> Answers]
    BY DEF Init, NoAnswer, Answers
  <2> QED
    BY <2>1, <2>2, <2>3
    DEF Init, ControlOK, BundleStates, Ops, Pcs, CheckPcs, LoopPcs,
        DownloadAppPcs, InstallPcs, InstallAppPcs, Codes
<1>4. SingleCall
  BY DEF Init, SingleCall
<1> QED
  BY <1>2, <1>3, <1>4, TypeSplit DEF IInv

\* Every step preserves the invariant and moves the applications along arrows.
LEMMA StepInvariant ==
  IInv /\ [Next]_vars => IInv' /\ \A a \in AppIds : Moves(app[a], app'[a])
<1> SUFFICES ASSUME IInv, [Next]_vars
             PROVE  IInv' /\ \A a \in AppIds : Moves(app[a], app'[a])
  OBVIOUS
<1>1. ControlOK /\ SingleCall /\ app \in [AppIds -> App] /\ Fresh
  BY TypeSplit DEF IInv
<1>2. TypeOK' <=> ControlOK' /\ app' \in [AppIds -> App]
  BY DEF TypeOK, ControlOK
<1>3. CASE Client
  BY <1>1, <1>2, <1>3, ClientControl, ClientMoves DEF IInv, AppStep
<1>4. CASE Worker
  BY <1>1, <1>2, <1>4, WorkerControl, WorkerMoves DEF IInv, AppStep
<1>5. CASE UNCHANGED vars
  <2>1. UNCHANGED <<bundle, apps, auto, offline, allowed, pending, app, cached,
                    op, pc, i, hr, request, answer, dl, dlCancelled, ran,
                    installed>>
    BY <1>5 DEF vars, client, check, history
  <2>2. ControlOK'
    BY <1>1, <2>1 DEF ControlOK
  <2>3. SingleCall'
    BY <1>1, <2>1 DEF SingleCall
  <2>4. AppStep
    BY <1>1, <2>1, NoAppMoves DEF AppStep
  <2> QED
    BY <1>2, <2>2, <2>3, <2>4 DEF IInv, AppStep
<1> QED
  BY <1>3, <1>4, <1>5 DEF Next

\* The bundle, its work item and its applications keep their types, and the
\* work item never indexes outside the list of applications, for every client,
\* every number of applications and every combination of failures.
THEOREM TypeCorrect == Spec => []TypeOK
<1>1. IInv => TypeOK
  BY DEF IInv
<1> QED
  BY <1>1, InitInvariant, StepInvariant, PTL DEF Spec

\* At most one work item carries out a call of the bundle (the assertions on
\* IsPendingNonBlockingCall), for every client and every failure.
THEOREM OneCallAtATime == Spec => []SingleCall
<1>1. IInv => SingleCall
  BY DEF IInv
<1> QED
  BY <1>1, InitInvariant, StepInvariant, PTL DEF Spec

\* Every step of the bundle is one of the protocol.
LEMMA ProtocolStep == ASSUME IInv, [Next]_vars PROVE [Protocol!Next]_(Protocol!vars)
<1>0. SingleCall /\ bundle \in BundleStates
  BY DEF IInv, TypeOK
<1> USE DEF Protocol!Next, Protocol!vars, BundleStates
<1>1. CASE UNCHANGED <<bundle, pending>>
  BY <1>1
<1>2. CASE bundle \in {"Initialized", "Ready"} /\ bundle' = "Busy" /\ pending'
  BY <1>0, <1>2 DEF Protocol!Begin, SingleCall
<1>3. CASE bundle = "Init" /\ bundle' = "Initialized" /\ UNCHANGED pending
  BY <1>3
<1>4. CASE bundle = "Initialized" /\ bundle' = "Paused" /\ UNCHANGED pending
  BY <1>4 DEF Protocol!Pause
<1>5. CASE /\ bundle \in {"Initialized", "Busy"} /\ bundle' = "Stopped"
           /\ UNCHANGED pending
  BY <1>5 DEF Protocol!Stop
<1>6. CASE /\ bundle' = IF bundle = "Busy" THEN "Ready" ELSE bundle
           /\ pending /\ pending' = FALSE
  BY <1>0, <1>6 DEF Protocol!Complete
<1> USE DEF client
<1>7. CASE Client
  <2>1. CASE CheckForUpdate \/ Download \/ Install
    BY <1>2, <2>1 DEF CheckForUpdate, Download, Install, StartWork
  <2>2. CASE Initialize \/ Pause \/ StopInitialized \/ StopBusy
    BY <1>3, <1>4, <1>5, <2>2 DEF Initialize, Pause, StopInitialized, StopBusy
  <2>3. CASE \E a \in AppIds : CreateApp(a)
    BY <1>1, <2>3 DEF CreateApp, AddApp
  <2>4. CASE \E a \in AppIds, eula \in {"NO", "YES"} :
               CreateInstalledApp(a, eula) \/ PutIsEulaAccepted(a, eula)
    BY <1>1, <2>4 DEF CreateInstalledApp, AddApp, PutIsEulaAccepted
  <2>5. ASSUME NEW s \in AppLists, NEW eula \in [AppIds -> {"NO", "YES"}],
               \/ CreateAllInstalledApps(s, eula)
               \/ UpdateAllApps(s, eula)
               \/ UpdateAllAppsFails(s, eula)
        PROVE  [Protocol!Next]_(Protocol!vars)
    BY <1>1, <1>2, <2>5
    DEF CreateAllInstalledApps, UpdateAllApps, UpdateAllAppsFails, StartWork
  <2> QED
    BY <1>7, <2>1, <2>2, <2>3, <2>4, <2>5 DEF Client
<1>8. CASE Worker
  <2>1. CASE CompleteAsyncCall
    BY <1>0, <1>6, <2>1 DEF CompleteAsyncCall, SingleCall
  <2>2. CASE ~CompleteAsyncCall
    BY <1>1, <1>8, <2>2
    DEF Worker, BeginCheck, DoPreUpdateCheck, DoUpdateCheck, DoPostUpdateCheck,
        CacheOfflinePackages, QueueApp, BeginDownload, DispatchDownload,
        CreateStateForApp, AppDownloading, FetchPackages, CachePackage,
        AppDownloadComplete, AppMarkReadyToInstall, AppDownloadError,
        DeleteStateForApp, AppQueueInstall, DispatchInstall, CopyPackages,
        AppInstalling, RunInstaller, ReportResult
  <2> QED
    BY <2>1, <2>2
<1>9. CASE UNCHANGED vars
  BY <1>1, <1>9 DEF vars
<1> QED
  BY <1>7, <1>8, <1>9 DEF Next

\* The bundle takes only steps of the protocol its client relies on: a call
\* begins only when none is outstanding, completes once, and Stop is final.
THEOREM ProtocolImplemented == Spec => ImplementsProtocol
<1>1. Init => Protocol!Init
  BY DEF Init, Protocol!Init
<1>2. IInv /\ [Next]_vars => [Protocol!Next]_(Protocol!vars)
  BY ProtocolStep
<1> QED
  BY <1>1, <1>2, InitInvariant, StepInvariant, PTL
  DEF Spec, ImplementsProtocol, Protocol!Safety

\* A step takes every application to a later phase, or fails it, or leaves it.
LifecycleStep == \A a \in AppIds : Lifecycle(a)!Next \/ UNCHANGED PhaseOf(app[a].state)

\* Every application begins at the first phase, and every arrow goes to the next.
LEMMA LifecycleSteps ==
  /\ Init => \A a \in AppIds : Lifecycle(a)!Init
  /\ IInv /\ [Next]_vars => LifecycleStep
<1>1. Init => \A a \in AppIds : Lifecycle(a)!Init
  <2>1. \A a \in AppIds : NewApp(FALSE, a = Omaha, "NONE").state = "INIT"
    BY DEF NewApp
  <2>2. Init => \A a \in AppIds : app[a].state = "INIT"
    BY <2>1 DEF Init
  <2>3. PhaseOf("INIT") = "idle"
    BY DEF PhaseOf
  <2> QED
    BY <2>2, <2>3 DEF Lifecycle!Init
<1>2. IInv /\ [Next]_vars => LifecycleStep
  <2> SUFFICES ASSUME IInv, [Next]_vars, NEW a \in AppIds
               PROVE  Lifecycle(a)!Next \/ UNCHANGED PhaseOf(app[a].state)
    BY DEF LifecycleStep
  <2>1. Moves(app[a], app'[a])
    BY StepInvariant
  <2> QED
    BY <2>1
    DEF Moves, Arrows, Lifecycle!Next, Lifecycle!Advance, Lifecycle!Fail,
        Lifecycle!Forward, PhaseOf
<1> QED
  BY <1>1, <1>2

\* What LifecycleSteps has to show.
LEMMA LifecycleForm ==
  ImplementsLifecycle <=> (\A a \in AppIds : Lifecycle(a)!Init) /\ [][LifecycleStep]_vars
BY DEF ImplementsLifecycle, LifecycleStep

\* No step of a client call, of the worker or of a late callback takes an
\* application back to an earlier phase, lets it skip one, or revives one that
\* failed.
THEOREM LifecycleImplemented == Spec => ImplementsLifecycle
<1>1. IInv /\ [Next]_vars => [LifecycleStep]_vars
  BY LifecycleSteps
<1> QED
  BY <1>1, LifecycleSteps, LifecycleForm, InitInvariant, StepInvariant, PTL DEF Spec


-----------------------------------------------------------------------------
(* The inductive invariant of the work item.                               *)

\* An application is in the bundle once, so that what the work item does to one
\* does not touch another.
Distinct == \A m, n \in 1..Len(apps) : apps[m] = apps[n] => m = n

\* What the queueing of a call leaves behind.
Queued(s) ==
  s \in {"WAITING_TO_DOWNLOAD", "NO_UPDATE", "ERROR"} \cup
        (IF op = "Download" THEN {} ELSE {"WAITING_TO_INSTALL"})

\* The applications the download loop has not come to are as they were queued.
QueueInv ==
  /\ pc = "queue" => op # "Download" /\ \A n \in 1..(i - 1) : Queued(app[apps[n]].state)
  /\ pc = "impersonate" => \A n \in 1..Len(apps) : Queued(app[apps[n]].state)
  /\ pc \in LoopPcs => \A n \in (i + 1)..Len(apps) : Queued(app[apps[n]].state)
  /\ pc = "download" => Queued(app[A].state)

\* The applications a loop has passed.
PastInv ==
  /\ pc = "post" => \A n \in 1..(i - 1) :
       app[apps[n]].state \in {"UPDATE_AVAILABLE", "NO_UPDATE", "ERROR"}
  /\ pc \in LoopPcs /\ op # "Download" => \A n \in 1..(i - 1) :
       app[apps[n]].state \in Terminal

\* The application the work item is at is in the state its step expects, or was
\* cancelled.
AtInv ==
  /\ pc \in {"create", "downloading"} => app[A].state \in {"WAITING_TO_DOWNLOAD", "ERROR"}
  /\ pc \in {"fetch", "put", "download_complete", "download_error"} =>
       app[A].state \in {"DOWNLOADING", "ERROR"}
  /\ pc = "mark" => app[A].state \in {"DOWNLOAD_COMPLETE", "ERROR"}
  /\ pc = "delete" => app[A].state \in {"READY_TO_INSTALL", "ERROR"}
  /\ pc = "queue_install" =>
       app[A].state \in {"WAITING_TO_DOWNLOAD", "READY_TO_INSTALL",
                         "WAITING_TO_INSTALL", "NO_UPDATE", "ERROR"}
  /\ pc = "install" => app[A].state \in {"WAITING_TO_INSTALL", "NO_UPDATE", "ERROR"}
  /\ pc \in {"copy", "installing"} => app[A].state \in {"WAITING_TO_INSTALL", "ERROR"}
  /\ pc \in {"run", "report"} => app[A].state \in {"INSTALLING", "ERROR"}

\* Where the work item is with an application that it found queued.
ServedPcs == {"create", "copy"} \cup DownloadAppPcs \cup InstallAppPcs

\* The states past the last look at Group Policy.
Reached == {"WAITING_TO_DOWNLOAD", "DOWNLOADING", "DOWNLOAD_COMPLETE",
            "READY_TO_INSTALL", "WAITING_TO_INSTALL", "INSTALLING",
            "INSTALL_COMPLETE"}

\* What is past that look was allowed by it, and the work item serves only that.
AllowedInv ==
  /\ \A a \in AppIds : app[a].state \in Reached => a \in allowed
  /\ pc \in ServedPcs => A \in allowed

\* A download is complete only when its package is cached.
CacheInv == DownloadedIsCached /\ (pc = "download_complete" => A \in cached)

\* An installer that was started leaves its application in a terminal state.
RunInv ==
  /\ InstallerRunsOnce
  /\ \A a \in AppIds : ran[a] # 0 => app[a].state \in Terminal \/ (pc = "report" /\ A = a)
  /\ pc \in {"copy", "installing", "run"} => ran[A] = 0
  /\ pc = "report" => ran[A] = 1

\* Nothing was run or found before the update check.
EarlyInv ==
  /\ bundle \in {"Init", "Initialized"} \/ pc \in CheckPcs => \A a \in AppIds : ran[a] = 0
  /\ bundle \in {"Init", "Initialized"} \/ pc \in {"check", "pre", "send"} =>
       \A a \in AppIds : ~app[a].has_update

\* Omaha has an update, or the check whose results are handed out found one.
OmahaComes ==
  \/ Omaha \in InBundle /\ app[Omaha].has_update
  \/ pc = "post" /\ hr = "S_OK" /\ IsOmahaUpdateAvailable

\* Only the server's answer makes an update available.
AnswerInv ==
  /\ \A a \in AppIds : answer[a] = "UPDATE" => a \in request
  /\ \A a \in AppIds : app[a].omaha = (a = Omaha)

\* Then every other update is deferred or has failed, but for those that the
\* loop over the results has not come to.
DeferInv ==
  /\ OmahaComes => \A n \in 1..Len(apps) :
       apps[n] # Omaha /\ app[apps[n]].is_update /\ ~(pc = "post" /\ n >= i) =>
         app[apps[n]].state \in {"NO_UPDATE", "ERROR"}
  /\ pc = "post" /\ Omaha \in InBundle /\ app[Omaha].has_update =>
       hr = "S_OK" /\ IsOmahaUpdateAvailable

\* Omaha's update comes before the one of this application.
Blocked(a) ==
  /\ Omaha \in InBundle /\ a \in InBundle \ {Omaha}
  /\ app[Omaha].has_update /\ app[a].is_update

\* No installer of such an application has run, and the work item is not at one.
BlockedInv ==
  /\ \A a \in AppIds : Blocked(a) => ran[a] = 0
  /\ pc \in ServedPcs => ~Blocked(A)

\* The silent client, who never overwrites what was read about the EULA and does
\* not install offline.
Silent == {"PutIsEulaAccepted", "PutOfflineDirectory"} \cap ClientCalls = {}

\* Its applications are past the check only when their EULA is accepted.
EulaInv ==
  Silent =>
    /\ ~offline
    /\ \A a \in AppIds :
         app[a].state \notin {"INIT", "WAITING_TO_CHECK", "ERROR"} => app[a].eula = "YES"
    /\ pc \in ServedPcs => app[A].eula = "YES"

\* None of these is preserved alone: what the next step of a loop finds (QueueInv,
\* AtInv) decides what it runs, and what it has run must not be found again.
WorkInv ==
  /\ Distinct /\ QueueInv /\ PastInv /\ AtInv
  /\ DownloadStateOwned /\ CacheInv /\ AllowedInv /\ RunInv
  /\ EarlyInv /\ AnswerInv /\ DeferInv /\ BlockedInv /\ EulaInv

-----------------------------------------------------------------------------
(* Steps of the download and install loop.                                 *)

\* A step of the loop touches the application it is at and no other.
LoopStep ==
  /\ pc \in LoopPcs
  /\ UNCHANGED <<bundle, apps, offline, allowed, op, request, answer>>
  /\ \A b \in AppIds \ {A} : app'[b] = app[b]
  /\ Kept(app[A], app'[A]) /\ Moves(app[A], app'[A])
  /\ app'[A].state \in {"CHECKING", "WAITING_TO_DOWNLOAD"} =>
       app'[A].state = app[A].state

\* The applications at the other indices stay as they are.
LEMMA OtherApps ==
  ASSUME TypeOK, Distinct, i \in 1..Len(apps),
         \A b \in AppIds \ {A} : app'[b] = app[b]
  PROVE  \A n \in 1..Len(apps) : n # i => app'[apps[n]] = app[apps[n]]
<1> SUFFICES ASSUME NEW n \in 1..Len(apps), n # i
             PROVE  app'[apps[n]] = app[apps[n]]
  OBVIOUS
<1>1. apps[n] \in AppIds
  BY ElementOfSeq DEF TypeOK
<1>2. apps[n] # A
  BY DEF Distinct, A
<1> QED
  BY <1>1, <1>2

\* The loop stays at its application.
LEMMA LoopStays ==
  ASSUME IInv, WorkInv, LoopStep, UNCHANGED i, pc' \in LoopPcs \ {"download"}
  PROVE  Distinct' /\ QueueInv' /\ PastInv'
<1>1. i \in 1..Len(apps) /\ Len(apps) \in Nat /\ TypeOK
  BY SMTT(30) DEF IInv, TypeOK, LoopStep
<1>2. \A n \in 1..Len(apps) : n # i => app'[apps[n]] = app[apps[n]]
  BY <1>1, OtherApps DEF LoopStep, WorkInv
<1>3. \A n \in (i + 1)..Len(apps) : n \in 1..Len(apps) /\ n # i
  BY <1>1, SMTT(30)
<1>4. \A n \in 1..(i - 1) : n \in 1..Len(apps) /\ n # i
  BY <1>1, SMTT(30)
<1>5. Distinct'
  BY DEF WorkInv, Distinct, LoopStep
<1>6. QueueInv'
  BY <1>2, <1>3 DEF WorkInv, QueueInv, LoopStep, LoopPcs, DownloadAppPcs,
     InstallPcs, InstallAppPcs, Queued
<1>7. PastInv'
  BY <1>2, <1>4 DEF WorkInv, PastInv, LoopStep, LoopPcs, DownloadAppPcs,
     InstallPcs, InstallAppPcs
<1> QED
  BY <1>5, <1>6, <1>7

\* The loop goes on to the next application.
LEMMA LoopGoesOn ==
  ASSUME IInv, WorkInv, LoopStep, Loop("download", "complete"),
         op # "Download" => app'[A].state \in Terminal
  PROVE  /\ Distinct' /\ QueueInv' /\ PastInv' /\ AtInv'
         /\ pc' \in {"download", "complete"}
<1>1. i \in 1..Len(apps) /\ Len(apps) \in Nat /\ TypeOK
  BY SMTT(30) DEF IInv, TypeOK, LoopStep
<1>2. \A n \in 1..Len(apps) : n # i => app'[apps[n]] = app[apps[n]]
  BY <1>1, OtherApps DEF LoopStep, WorkInv
<1>3. Distinct' /\ apps' = apps /\ op' = op
  BY DEF WorkInv, Distinct, LoopStep
<1>4. pc' \in {"download", "complete"}
  BY DEF Loop
<1>5. AtInv'
  BY <1>4 DEF AtInv
<1>6. CASE i < Len(apps)
  <2>1. pc' = "download" /\ i' = i + 1
    BY <1>6 DEF Loop
  <2>2. \A n \in (i + 1)..Len(apps) : n \in 1..Len(apps) /\ n # i
    BY <1>1, SMTT(30)
  <2>3. \A n \in (i + 1)..Len(apps) : Queued(app[apps[n]].state)
    BY DEF WorkInv, QueueInv, LoopStep
  <2>4. \A n \in (i + 1)..Len(apps) : Queued(app[apps[n]].state)'
    BY <1>2, <1>3, <2>2, <2>3 DEF Queued
  <2>5. (i + 1) \in (i + 1)..Len(apps) /\ \A n \in (i + 2)..Len(apps) : n \in (i + 1)..Len(apps)
    BY <1>1, <1>6, SMTT(30)
  <2>6. i' + 1 = i + 2
    BY <1>1, <2>1, SMTT(30)
  <2>7. QueueInv'
    BY <1>3, <2>1, <2>4, <2>5, <2>6 DEF QueueInv, A
  <2>8. \A n \in 1..(i' - 1) : n \in 1..Len(apps) /\ (n = i \/ (n # i /\ n \in 1..(i - 1)))
    BY <1>1, <1>6, <2>1, SMTT(30)
  <2>9. op # "Download" => \A n \in 1..(i - 1) : app[apps[n]].state \in Terminal
    BY DEF WorkInv, PastInv, LoopStep
  <2>10. PastInv'
    BY <1>2, <1>3, <2>1, <2>8, <2>9 DEF PastInv, A
  <2> QED
    BY <1>3, <1>4, <1>5, <2>7, <2>10
<1>7. CASE ~(i < Len(apps))
  BY <1>3, <1>4, <1>5, <1>7
  DEF QueueInv, PastInv, LoopPcs, DownloadAppPcs, InstallPcs, InstallAppPcs, Loop
<1> QED
  BY <1>6, <1>7

\* What a step of the loop means for policy, for deferred updates and for the
\* update of Omaha.
LEMMA LoopFacts ==
  ASSUME IInv, WorkInv, LoopStep, pc' \in LoopPcs \cup {"complete"},
         \A b \in AppIds : ran'[b] = ran[b] \/ (pc = "run" /\ b = A),
         pc' \in ServedPcs => /\ UNCHANGED i
                              /\ \/ pc \in ServedPcs
                                 \/ app[A].state \in {"WAITING_TO_DOWNLOAD",
                                                      "WAITING_TO_INSTALL"}
  PROVE  /\ AllowedInv' /\ EarlyInv' /\ AnswerInv' /\ DeferInv' /\ BlockedInv'
         /\ EulaInv'
<1>1. i \in 1..Len(apps) /\ A \in AppIds /\ A \in InBundle
  BY CurrentApp, TypeSplit DEF IInv, LoopStep
<1>2. UNCHANGED <<apps, InBundle>> /\ (pc' \in ServedPcs => A' = A)
  BY DEF LoopStep, InBundle, A
<1>3. \A b \in AppIds : Kept(app[b], app'[b]) /\ Moves(app[b], app'[b])
  BY <1>1 DEF LoopStep, Kept, Moves
<1>4. pc # "post" /\ pc' # "post" /\ pc' \notin CheckPcs
  BY DEF LoopStep, LoopPcs, DownloadAppPcs, InstallPcs, InstallAppPcs, CheckPcs
<1>5. AllowedInv'
  <2>1. \A b \in AppIds : app'[b].state \in Reached => app[b].state \in Reached
    BY <1>3 DEF LoopStep, Moves, Arrows, Reached
  <2> QED
    BY <1>1, <1>2, <2>1 DEF AllowedInv, WorkInv, LoopStep, Reached
<1>6. EarlyInv'
  <2>1. bundle' \in {"Busy", "Stopped"}
    BY DEF LoopStep, IInv, SingleCall, LoopPcs, DownloadAppPcs, InstallPcs, InstallAppPcs
  <2> QED
    BY <1>4, <2>1 DEF EarlyInv, CheckPcs
<1>7. AnswerInv'
  BY <1>3 DEF AnswerInv, WorkInv, LoopStep, Kept
<1>8. Omaha \in InBundle => Omaha \in AppIds
  <2>1. \A n \in 1..Len(apps) : apps[n] \in AppIds
    BY ElementOfSeq DEF IInv, TypeOK
  <2> QED
    BY <2>1 DEF InBundle
<1>9. DeferInv'
  <2>1. OmahaComes' => OmahaComes
    BY <1>2, <1>3, <1>4, <1>8 DEF OmahaComes, Kept
  <2>2. \A n \in 1..Len(apps) : apps[n] \in AppIds
    BY ElementOfSeq DEF IInv, TypeOK
  <2>3. ASSUME NEW n \in 1..Len(apps), OmahaComes', apps[n] # Omaha,
               app'[apps[n]].is_update
        PROVE  app'[apps[n]].state \in {"NO_UPDATE", "ERROR"}
    <3>1. app[apps[n]].state \in {"NO_UPDATE", "ERROR"}
      BY <1>3, <1>4, <2>1, <2>2, <2>3 DEF WorkInv, DeferInv, Kept
    <3> QED
      BY <1>3, <2>2, <3>1 DEF Moves, Arrows
  <2> QED
    BY <1>2, <1>4, <2>3 DEF DeferInv
<1>10. BlockedInv'
  <2>1. \A b \in AppIds : Blocked(b)' => Blocked(b)
    BY <1>2, <1>3, <1>8 DEF Blocked, Kept
  <2>2. app[A].state \in {"WAITING_TO_DOWNLOAD", "WAITING_TO_INSTALL"} => ~Blocked(A)
    BY <1>1, <1>4 DEF WorkInv, DeferInv, Blocked, OmahaComes, A
  <2>3. pc' \in ServedPcs => ~Blocked(A)'
    BY <1>1, <1>2, <2>1, <2>2 DEF WorkInv, BlockedInv
  <2>4. \A b \in AppIds : Blocked(b)' => ran'[b] = 0
    BY <1>1, <2>1 DEF WorkInv, BlockedInv, ServedPcs, InstallAppPcs
  <2> QED
    BY <1>2, <2>3, <2>4 DEF BlockedInv
<1>11. EulaInv'
  <2> SUFFICES ASSUME Silent PROVE EulaInv'
    BY DEF EulaInv
  <2>1. ~offline' /\ (app[A].state \in {"WAITING_TO_DOWNLOAD", "WAITING_TO_INSTALL"}
                        => app[A].eula = "YES")
    BY <1>1 DEF WorkInv, EulaInv, LoopStep
  <2>2. \A b \in AppIds : app'[b].eula = app[b].eula
    BY <1>3 DEF Kept
  <2>3. pc' \in ServedPcs => app'[A].eula = "YES"
    BY <1>1, <2>1, <2>2 DEF WorkInv, EulaInv
  <2>4. \A b \in AppIds :
          app'[b].state \notin {"INIT", "WAITING_TO_CHECK", "ERROR"} =>
            app[b].state \notin {"INIT", "WAITING_TO_CHECK", "ERROR"}
    BY <1>3 DEF LoopStep, Moves, Arrows
  <2> QED
    BY <1>2, <2>1, <2>2, <2>3, <2>4 DEF WorkInv, EulaInv
<1> QED
  BY <1>5, <1>6, <1>7, <1>9, <1>10, <1>11

\* Where no installer is started or reported, the record of installers and of
\* downloads stays right.
QuietStep ==
  /\ LoopStep
  /\ UNCHANGED <<ran, installed>> /\ cached \subseteq cached'
  /\ pc \notin {"installing", "run", "report"}
  /\ pc' \in (LoopPcs \cup {"complete"}) \ {"run", "report"}
  /\ app'[A].state \notin {"INSTALLING", "INSTALL_COMPLETE"}
  /\ app'[A].state = "DOWNLOAD_COMPLETE" =>
       app[A].state = "DOWNLOAD_COMPLETE" \/ A \in cached
  /\ pc' = "download_complete" => A \in cached'
  /\ pc' \in ServedPcs =>
       \/ pc \in ServedPcs /\ (pc' \in {"copy", "installing"} => pc = "copy")
       \/ app[A].state = "WAITING_TO_DOWNLOAD" /\ pc' = "create"
       \/ app[A].state = "WAITING_TO_INSTALL" /\ pc' = "copy"

\* A step that runs nothing and caches nothing keeps what was run and cached.
LEMMA QuietFacts ==
  ASSUME IInv, WorkInv, QuietStep, UNCHANGED i \/ pc' \in {"download", "complete"}
  PROVE  RunInv' /\ CacheInv'
<1>1. A \in AppIds /\ apps' = apps
  BY CurrentApp, TypeSplit DEF IInv, QuietStep, LoopStep
<1>2. \A b \in AppIds : Moves(app[b], app'[b])
  BY <1>1 DEF QuietStep, LoopStep, Moves
<1>3. pc' \in {"download_complete", "copy", "installing"} => A' = A
  BY <1>1 DEF A
<1>4. \A b \in AppIds : /\ ran[b] # 0 => app[b].state \in Terminal
                        /\ app[b].state # "INSTALLING"
  BY DEF QuietStep, WorkInv, RunInv, InstallerRunsOnce
<1>5. \A b \in AppIds : app[b].state \in Terminal => app'[b].state \in Terminal
  BY <1>2 DEF Moves, Arrows, Terminal
<1>6. \A b \in AppIds : /\ app'[b].state # "INSTALLING"
                        /\ app'[b].state = "INSTALL_COMPLETE" => app'[b] = app[b]
  BY <1>4 DEF QuietStep, LoopStep
<1>7. InstallerRunsOnce'
  BY <1>6 DEF InstallerRunsOnce, WorkInv, RunInv, QuietStep
<1>8. pc' \in {"copy", "installing"} => ran[A] = 0
  BY <1>1, <1>4 DEF WorkInv, RunInv, QuietStep, Terminal, ServedPcs,
     DownloadAppPcs, InstallAppPcs
<1>9. RunInv'
  BY <1>3, <1>4, <1>5, <1>7, <1>8 DEF RunInv, QuietStep
<1>10. DownloadedIsCached'
  BY <1>1, <1>2 DEF WorkInv, CacheInv, DownloadedIsCached, QuietStep, LoopStep,
     Moves, Arrows
<1> QED
  BY <1>3, <1>9, <1>10 DEF CacheInv, QuietStep

\* A quiet step at the same application.
LEMMA QuietStays ==
  ASSUME IInv, WorkInv, QuietStep, UNCHANGED i, pc' \in LoopPcs \ {"download"},
         AtInv', DownloadStateOwned'
  PROVE  WorkInv'
<1>1. Distinct' /\ QueueInv' /\ PastInv'
  BY LoopStays DEF QuietStep
<1>2. AllowedInv' /\ EarlyInv' /\ AnswerInv' /\ DeferInv' /\ BlockedInv' /\ EulaInv'
  BY LoopFacts DEF QuietStep
<1>3. RunInv' /\ CacheInv'
  BY QuietFacts
<1> QED
  BY <1>1, <1>2, <1>3 DEF WorkInv

\* A quiet step on to the next application.
LEMMA QuietGoesOn ==
  ASSUME IInv, WorkInv, QuietStep, Loop("download", "complete"),
         op # "Download" => app'[A].state \in Terminal, dl' = {}, dlCancelled' = {}
  PROVE  WorkInv'
<1>1. /\ Distinct' /\ QueueInv' /\ PastInv' /\ AtInv'
      /\ pc' \in {"download", "complete"}
  BY LoopGoesOn DEF QuietStep
<1>2. pc' \notin ServedPcs
  BY <1>1 DEF ServedPcs, DownloadAppPcs, InstallAppPcs
<1>3. AllowedInv' /\ EarlyInv' /\ AnswerInv' /\ DeferInv' /\ BlockedInv' /\ EulaInv'
  BY <1>2, LoopFacts DEF QuietStep
<1>4. RunInv' /\ CacheInv'
  BY <1>1, QuietFacts
<1>5. DownloadStateOwned'
  BY <1>1 DEF DownloadStateOwned, DownloadAppPcs
<1> QED
  BY <1>1, <1>3, <1>4, <1>5 DEF WorkInv

\* The loop changes the record of its application, or none.
LEMMA LoopChange ==
  ASSUME IInv, pc \in LoopPcs, UNCHANGED <<client, op, check>>,
         NEW r, Kept(app[A], r), Moves(app[A], r),
         r.state \in {"CHECKING", "WAITING_TO_DOWNLOAD"} => r.state = app[A].state,
         app' = [app EXCEPT ![A] = r]
  PROVE  LoopStep /\ app'[A] = r
<1>1. A \in AppIds /\ app \in [AppIds -> App]
  BY CurrentApp, TypeSplit DEF IInv
<1>2. app'[A] = r /\ \A b \in AppIds \ {A} : app'[b] = app[b]
  BY <1>1
<1> QED
  BY <1>2 DEF LoopStep, client, check

\* A step that leaves the applications alone is one of the loop.
LEMMA LoopSame ==
  ASSUME IInv, pc \in LoopPcs, UNCHANGED <<client, op, check, app>>
  PROVE  LoopStep
  BY DEF LoopStep, client, check, Kept, Moves

\* The steps of one download.
LEMMA DownloadActions ==
  ASSUME IInv, WorkInv,
         \/ AppDownloading \/ FetchPackages \/ CachePackage
         \/ AppDownloadComplete \/ AppMarkReadyToInstall \/ AppDownloadError
  PROVE  WorkInv'
<1> USE DEF Goto
<1>1. pc \in DownloadAppPcs /\ pc \in LoopPcs /\ pc \in ServedPcs
  BY DEF AppDownloading, FetchPackages, CachePackage, AppDownloadComplete,
     AppMarkReadyToInstall, AppDownloadError, DownloadAppPcs, LoopPcs, ServedPcs
<1>2. /\ A \in AppIds /\ app[A] \in App /\ hr \in Codes
      /\ dl = {A} /\ dlCancelled \subseteq dl
  BY <1>1, CurrentApp, TypeSplit DEF IInv, TypeOK, WorkInv, DownloadStateOwned
<1>3. UNCHANGED <<apps, i, dl, dlCancelled, ran, installed>> /\ A' = A
  BY DEF AppDownloading, FetchPackages, CachePackage, AppDownloadComplete,
     AppMarkReadyToInstall, AppDownloadError, client, history, A
<1>4. ASSUME QuietStep, pc' \in DownloadAppPcs, AtInv' PROVE WorkInv'
  <2>1. DownloadStateOwned'
    BY <1>2, <1>3, <1>4 DEF DownloadStateOwned
  <2> QED
    BY <1>3, <1>4, <2>1, QuietStays DEF LoopPcs, DownloadAppPcs
<1> USE DEF DownloadAppPcs, ServedPcs, LoopPcs
<1>5. CASE AppDownloading
  <2>1. /\ Kept(app[A], Downloading(app[A])) /\ Moves(app[A], Downloading(app[A]))
        /\ Downloading(app[A]).state \in {"DOWNLOADING", "ERROR"}
    BY <1>2, DownloadEventsResult, DownloadEventsType
  <2>2. LoopStep /\ app'[A] = Downloading(app[A])
    BY <1>1, <1>5, <2>1, LoopChange DEF AppDownloading
  <2>3. QuietStep /\ pc' = "fetch"
    BY <1>3, <1>5, <2>1, <2>2 DEF QuietStep, AppDownloading
  <2> QED
    BY <1>3, <1>4, <2>1, <2>2, <2>3 DEF AtInv
<1>6. CASE FetchPackages
  <2>1. LoopStep /\ app' = app
    BY <1>1, <1>6, LoopSame DEF FetchPackages
  <2>2. app[A].state \in {"DOWNLOADING", "ERROR"} /\ cached' = cached
    BY <1>6 DEF FetchPackages, WorkInv, AtInv
  <2>3. /\ pc' \in {"download_complete", "download_error", "put"}
        /\ pc' = "download_complete" => A \in cached
    BY <1>6 DEF FetchPackages
  <2>4. QuietStep
    BY <1>3, <1>6, <2>1, <2>2, <2>3 DEF QuietStep, FetchPackages
  <2> QED
    BY <1>3, <1>4, <2>1, <2>2, <2>3, <2>4 DEF AtInv
<1>7. CASE CachePackage
  <2>1. LoopStep /\ app' = app
    BY <1>1, <1>7, LoopSame DEF CachePackage
  <2>2. app[A].state \in {"DOWNLOADING", "ERROR"} /\ cached \subseteq cached'
    BY <1>7 DEF CachePackage, WorkInv, AtInv
  <2>3. /\ pc' \in {"download_complete", "download_error"}
        /\ pc' = "download_complete" => A \in cached'
    BY <1>7 DEF CachePackage
  <2>4. QuietStep
    BY <1>3, <1>7, <2>1, <2>2, <2>3 DEF QuietStep, CachePackage
  <2> QED
    BY <1>3, <1>4, <2>1, <2>2, <2>3, <2>4 DEF AtInv
<1>8. CASE AppDownloadComplete
  <2>1. /\ Kept(app[A], DownloadComplete(app[A]))
        /\ Moves(app[A], DownloadComplete(app[A]))
        /\ DownloadComplete(app[A]).state \in {"DOWNLOAD_COMPLETE", "ERROR"}
    BY <1>2, DownloadEventsResult, DownloadEventsType
  <2>2. LoopStep /\ app'[A] = DownloadComplete(app[A])
    BY <1>1, <1>8, <2>1, LoopChange DEF AppDownloadComplete
  <2>3. A \in cached /\ cached' = cached /\ pc' = "mark"
    BY <1>8 DEF WorkInv, CacheInv, AppDownloadComplete
  <2>4. QuietStep
    BY <1>3, <1>8, <2>1, <2>2, <2>3 DEF QuietStep, AppDownloadComplete
  <2> QED
    BY <1>3, <1>4, <2>1, <2>2, <2>3, <2>4 DEF AtInv
<1>9. CASE AppMarkReadyToInstall
  <2>1. /\ Kept(app[A], MarkReadyToInstall(app[A]))
        /\ Moves(app[A], MarkReadyToInstall(app[A]))
        /\ MarkReadyToInstall(app[A]).state \in {"READY_TO_INSTALL", "ERROR"}
    BY <1>2, DownloadEventsResult, DownloadEventsType
  <2>2. LoopStep /\ app'[A] = MarkReadyToInstall(app[A])
    BY <1>1, <1>9, <2>1, LoopChange DEF AppMarkReadyToInstall
  <2>3. QuietStep /\ pc' = "delete"
    BY <1>3, <1>9, <2>1, <2>2 DEF QuietStep, AppMarkReadyToInstall
  <2> QED
    BY <1>3, <1>4, <2>1, <2>2, <2>3 DEF AtInv
<1>10. CASE AppDownloadError
  <2>1. /\ Kept(app[A], Error(app[A], hr)) /\ Moves(app[A], Error(app[A], hr))
        /\ Error(app[A], hr).state = "ERROR"
    BY <1>2, ErrorResult, ErrorType
  <2>2. LoopStep /\ app'[A] = Error(app[A], hr)
    BY <1>1, <1>10, <2>1, LoopChange DEF AppDownloadError
  <2>3. QuietStep /\ pc' = "delete"
    BY <1>3, <1>10, <2>1, <2>2 DEF QuietStep, AppDownloadError
  <2> QED
    BY <1>3, <1>4, <2>1, <2>2, <2>3 DEF AtInv
<1> QED
  BY <1>5, <1>6, <1>7, <1>8, <1>9, <1>10

\* The steps around a download.
LEMMA AroundDownload ==
  ASSUME IInv, WorkInv, DispatchDownload \/ CreateStateForApp \/ DeleteStateForApp
  PROVE  WorkInv'
<1> USE DEF Goto
<1>1. pc \in LoopPcs
  BY DEF DispatchDownload, CreateStateForApp, DeleteStateForApp, LoopPcs,
     DownloadAppPcs
<1>2. A \in AppIds /\ app[A] \in App /\ dlCancelled \subseteq dl
  BY <1>1, CurrentApp, TypeSplit DEF IInv, TypeOK, WorkInv, DownloadStateOwned
<1>3. UNCHANGED <<apps, op, cached, ran, installed>>
  BY DEF DispatchDownload, CreateStateForApp, DeleteStateForApp, client, history
<1>4. ASSUME LoopStep, AfterDownload, dl' = {}, dlCancelled' = {},
             pc \in {"download", "create", "delete"},
             app'[A].state \in {"WAITING_TO_DOWNLOAD", "READY_TO_INSTALL",
                                "WAITING_TO_INSTALL", "NO_UPDATE", "ERROR"}
      PROVE  WorkInv'
  <2>1. pc' \in {"download", "complete", "queue_install"}
    BY <1>4 DEF AfterDownload, Loop
  <2>2. QuietStep
    BY <1>3, <1>4, <2>1 DEF QuietStep, LoopPcs, DownloadAppPcs, InstallPcs,
       InstallAppPcs, ServedPcs
  <2>3. CASE op = "Download"
    BY <1>4, <2>2, <2>3, QuietGoesOn DEF AfterDownload
  <2>4. CASE op # "Download"
    <3>1. UNCHANGED i /\ pc' = "queue_install" /\ A' = A
      BY <1>3, <1>4, <2>4 DEF AfterDownload, A
    <3>2. AtInv'
      BY <1>4, <3>1 DEF AtInv
    <3>3. DownloadStateOwned'
      BY <1>4, <3>1 DEF DownloadStateOwned, DownloadAppPcs
    <3> QED
      BY <2>2, <3>1, <3>2, <3>3, QuietStays DEF LoopPcs, InstallPcs
  <2> QED
    BY <2>3, <2>4
<1>5. CASE DispatchDownload
  <2>1. dl = {} /\ dlCancelled = {} /\ UNCHANGED <<dl, dlCancelled>>
    BY <1>5 DEF DispatchDownload, WorkInv, DownloadStateOwned, DownloadAppPcs
  <2>2. CASE app[A].state = "WAITING_TO_DOWNLOAD"
    <3>1. pc' = "create" /\ UNCHANGED <<i, app>> /\ A' = A
      BY <1>3, <1>5, <2>2 DEF DispatchDownload, A
    <3>2. LoopStep
      BY <1>1, <1>5, <3>1, LoopSame DEF DispatchDownload
    <3>3. QuietStep
      BY <1>3, <1>5, <2>2, <3>1, <3>2
      DEF QuietStep, DispatchDownload, LoopPcs, InstallAppPcs
    <3>4. AtInv' /\ DownloadStateOwned'
      BY <2>1, <2>2, <3>1 DEF AtInv, DownloadStateOwned, DownloadAppPcs
    <3> QED
      BY <3>1, <3>3, <3>4, QuietStays DEF LoopPcs
  <2>3. CASE app[A].state # "WAITING_TO_DOWNLOAD"
    <3>1. Queued(app[A].state)
      BY <1>5 DEF DispatchDownload, WorkInv, QueueInv
    <3>2. /\ Kept(app[A], Unhandled(app[A], "Download"))
          /\ Moves(app[A], Unhandled(app[A], "Download"))
          /\ Unhandled(app[A], "Download").state \in
               {"WAITING_TO_INSTALL", "NO_UPDATE", "ERROR"}
      BY <1>2, DownloadEventsResult, UnhandledType
    <3>3. LoopStep /\ app'[A] = Unhandled(app[A], "Download")
      BY <1>1, <1>5, <2>3, <3>2, LoopChange DEF DispatchDownload
    <3> QED
      BY <1>4, <1>5, <2>1, <2>3, <3>2, <3>3 DEF DispatchDownload
  <2> QED
    BY <2>2, <2>3
<1>6. CASE CreateStateForApp
  <2>1. dl = {} /\ dlCancelled = {} /\ UNCHANGED dlCancelled
    BY <1>6 DEF CreateStateForApp, WorkInv, DownloadStateOwned, DownloadAppPcs
  <2>2. LoopStep /\ app' = app
    BY <1>1, <1>6, LoopSame DEF CreateStateForApp
  <2>3. app[A].state \in {"WAITING_TO_DOWNLOAD", "ERROR"}
    BY <1>6 DEF CreateStateForApp, WorkInv, AtInv
  <2>4. CASE dl' = dl \cup {A} /\ Goto("downloading")
    <3>1. pc' = "downloading" /\ UNCHANGED i /\ A' = A
      BY <1>3, <2>4 DEF A
    <3>2. QuietStep
      BY <1>3, <1>6, <2>2, <2>3, <3>1
      DEF QuietStep, CreateStateForApp, LoopPcs, DownloadAppPcs, ServedPcs
    <3>3. AtInv' /\ DownloadStateOwned'
      BY <2>1, <2>2, <2>3, <2>4, <3>1 DEF AtInv, DownloadStateOwned, DownloadAppPcs
    <3> QED
      BY <3>1, <3>2, <3>3, QuietStays DEF LoopPcs, DownloadAppPcs
  <2>5. CASE AfterDownload /\ UNCHANGED dl
    BY <1>4, <1>6, <2>1, <2>2, <2>3, <2>5 DEF CreateStateForApp
  <2> QED
    BY <1>6, <2>4, <2>5 DEF CreateStateForApp
<1>7. CASE DeleteStateForApp
  <2>1. dl' = {} /\ dlCancelled' = {}
    BY <1>2, <1>7 DEF DeleteStateForApp, WorkInv, DownloadStateOwned, DownloadAppPcs
  <2>2. LoopStep /\ app' = app
    BY <1>1, <1>7, LoopSame DEF DeleteStateForApp
  <2>3. app[A].state \in {"READY_TO_INSTALL", "ERROR"}
    BY <1>7 DEF DeleteStateForApp, WorkInv, AtInv
  <2> QED
    BY <1>4, <1>7, <2>1, <2>2, <2>3 DEF DeleteStateForApp
<1> QED
  BY <1>5, <1>6, <1>7

\* The steps before an installation.
LEMMA BeforeInstall ==
  ASSUME IInv, WorkInv, AppQueueInstall \/ DispatchInstall \/ CopyPackages
  PROVE  WorkInv'
<1> USE DEF Goto
<1>1. pc \in LoopPcs /\ pc \in {"queue_install", "install", "copy"}
  BY DEF AppQueueInstall, DispatchInstall, CopyPackages, LoopPcs, InstallPcs
<1>2. A \in AppIds /\ app[A] \in App /\ dl = {} /\ dlCancelled = {}
  BY <1>1, CurrentApp, TypeSplit
  DEF IInv, TypeOK, WorkInv, DownloadStateOwned, DownloadAppPcs
<1>3. UNCHANGED <<apps, op, cached, dl, dlCancelled, ran, installed>>
  BY DEF AppQueueInstall, DispatchInstall, CopyPackages, client, history
<1>4. ASSUME LoopStep, UNCHANGED i, AtInv',
             \/ pc = "queue_install" /\ pc' = "install"
             \/ pc = "copy" /\ pc' = "installing"
             \/ app[A].state = "WAITING_TO_INSTALL" /\ pc' = "copy",
             app'[A].state \in {"WAITING_TO_INSTALL", "NO_UPDATE", "ERROR"}
      PROVE  WorkInv'
  <2>1. QuietStep
    BY <1>1, <1>3, <1>4 DEF QuietStep, LoopPcs, InstallPcs, InstallAppPcs,
       DownloadAppPcs, ServedPcs
  <2>2. DownloadStateOwned'
    BY <1>2, <1>3, <1>4 DEF DownloadStateOwned, DownloadAppPcs
  <2> QED
    BY <1>4, <2>1, <2>2, QuietStays DEF LoopPcs, InstallPcs, InstallAppPcs
<1>5. ASSUME LoopStep, Loop("download", "complete"),
             app'[A].state \in {"NO_UPDATE", "ERROR"}
      PROVE  WorkInv'
  <2>1. pc' \in {"download", "complete"}
    BY <1>5 DEF Loop
  <2>2. QuietStep
    BY <1>1, <1>3, <1>5, <2>1 DEF QuietStep, LoopPcs, InstallPcs, InstallAppPcs,
       DownloadAppPcs, ServedPcs
  <2> QED
    BY <1>2, <1>3, <1>5, <2>2, QuietGoesOn DEF Terminal
<1>6. CASE AppQueueInstall
  <2>1. app[A].state \in {"WAITING_TO_DOWNLOAD", "READY_TO_INSTALL",
                          "WAITING_TO_INSTALL", "NO_UPDATE", "ERROR"}
    BY <1>6 DEF AppQueueInstall, WorkInv, AtInv
  <2>2. /\ Kept(app[A], QueueInstall(app[A])) /\ Moves(app[A], QueueInstall(app[A]))
        /\ QueueInstall(app[A]).state \in {"WAITING_TO_INSTALL", "NO_UPDATE", "ERROR"}
    BY <1>2, InstallEventsResult, InstallEventsType
  <2>3. LoopStep /\ app'[A] = QueueInstall(app[A])
    BY <1>1, <1>6, <2>2, LoopChange DEF AppQueueInstall
  <2>4. pc = "queue_install" /\ pc' = "install" /\ UNCHANGED i /\ A' = A
    BY <1>3, <1>6 DEF AppQueueInstall, A
  <2>5. AtInv'
    BY <2>2, <2>3, <2>4 DEF AtInv
  <2> QED
    BY <1>4, <2>2, <2>3, <2>4, <2>5
<1>7. CASE DispatchInstall
  <2>1. CASE app[A].state = "WAITING_TO_INSTALL"
    <3>1. pc' = "copy" /\ UNCHANGED <<i, app>> /\ A' = A
      BY <1>3, <1>7, <2>1 DEF DispatchInstall, A
    <3>2. LoopStep
      BY <1>1, <1>7, <3>1, LoopSame DEF DispatchInstall
    <3>3. AtInv'
      BY <2>1, <3>1 DEF AtInv
    <3> QED
      BY <1>4, <2>1, <3>1, <3>2, <3>3
  <2>2. CASE app[A].state # "WAITING_TO_INSTALL"
    <3>1. /\ Kept(app[A], Unhandled(app[A], "Install"))
          /\ Moves(app[A], Unhandled(app[A], "Install"))
          /\ Unhandled(app[A], "Install").state \in {"NO_UPDATE", "ERROR"}
      BY <1>2, InstallEventsResult, UnhandledType
    <3>2. LoopStep /\ app'[A] = Unhandled(app[A], "Install")
      BY <1>1, <1>7, <2>2, <3>1, LoopChange DEF DispatchInstall
    <3> QED
      BY <1>5, <1>7, <2>2, <3>1, <3>2 DEF DispatchInstall
  <2> QED
    BY <2>1, <2>2
<1>8. CASE CopyPackages
  <2>1. app[A].state \in {"WAITING_TO_INSTALL", "ERROR"} /\ pc = "copy"
    BY <1>8 DEF CopyPackages, WorkInv, AtInv
  <2>2. CASE Goto("installing") /\ UNCHANGED app
    <3>1. LoopStep
      BY <1>1, <1>8, <2>2, LoopSame DEF CopyPackages
    <3>2. pc' = "installing" /\ UNCHANGED i /\ A' = A
      BY <1>3, <2>2 DEF A
    <3>3. AtInv'
      BY <2>1, <2>2, <3>2 DEF AtInv
    <3> QED
      BY <1>4, <2>1, <2>2, <3>1, <3>2, <3>3
  <2>3. CASE Loop("download", "complete") /\ app' = [app EXCEPT ![A] = BaseError(@, "FAILED")]
    <3>1. /\ Kept(app[A], BaseError(app[A], "FAILED"))
          /\ Moves(app[A], BaseError(app[A], "FAILED"))
          /\ BaseError(app[A], "FAILED").state = "ERROR"
      BY <1>2, BaseErrorKeeps, BaseErrorType DEF Codes, Moves
    <3>2. LoopStep /\ app'[A] = BaseError(app[A], "FAILED")
      BY <1>1, <1>8, <2>3, <3>1, LoopChange DEF CopyPackages
    <3> QED
      BY <1>5, <2>3, <3>1, <3>2
  <2>4. CASE /\ Loop("download", "complete") /\ UNCHANGED app
             /\ app[A].state # "WAITING_TO_INSTALL"
    <3>1. LoopStep
      BY <1>1, <1>8, <2>4, LoopSame DEF CopyPackages
    <3> QED
      BY <1>5, <2>1, <2>4, <3>1
  <2> QED
    BY <1>8, <2>2, <2>3, <2>4 DEF CopyPackages
<1> QED
  BY <1>6, <1>7, <1>8

\* The block before the installer, the installer and the report of its result.
LEMMA InstallActions ==
  ASSUME IInv, WorkInv, AppInstalling \/ RunInstaller \/ ReportResult
  PROVE  WorkInv'
<1> USE DEF Goto
<1>1. pc \in LoopPcs /\ pc \in ServedPcs /\ pc \in InstallAppPcs
  BY DEF AppInstalling, RunInstaller, ReportResult, LoopPcs, InstallPcs,
     ServedPcs, InstallAppPcs
<1>2. /\ A \in AppIds /\ app[A] \in App /\ app \in [AppIds -> App]
      /\ hr \in Codes /\ dl = {} /\ dlCancelled = {} /\ ran \in [AppIds -> Nat]
  BY <1>1, CurrentApp, TypeSplit DEF IInv, TypeOK, WorkInv, DownloadStateOwned,
     DownloadAppPcs, InstallAppPcs
<1>3. UNCHANGED <<apps, op, cached, dl, dlCancelled>>
  BY DEF AppInstalling, RunInstaller, ReportResult, client
<1>4. ASSUME LoopStep, pc' \in LoopPcs \cup {"complete"}, pc' \notin DownloadAppPcs,
             pc' # "download_complete",
             app'[A].state = app[A].state \/ app'[A].state # "DOWNLOAD_COMPLETE"
      PROVE  DownloadStateOwned' /\ CacheInv'
  <2>1. \A b \in AppIds : Moves(app[b], app'[b])
    BY <1>4 DEF LoopStep, Moves
  <2>2. DownloadedIsCached'
    BY <1>3, <1>4, <2>1 DEF WorkInv, CacheInv, DownloadedIsCached, LoopStep,
       Moves, Arrows
  <2> QED
    BY <1>2, <1>3, <1>4, <2>2 DEF DownloadStateOwned, CacheInv
<1>5. CASE AppInstalling
  <2> DEFINE r == Installing(app[A])
  <2>1. /\ r \in App /\ Kept(app[A], r) /\ Moves(app[A], r)
        /\ r.state \in {"INSTALLING", "ERROR"}
    BY <1>2, InstallEventsResult, InstallEventsType
  <2>2. /\ Error(r, "FAILED").state = "ERROR" /\ Kept(r, Error(r, "FAILED"))
    BY <2>1, ErrorResult DEF Codes
  <2>3. UNCHANGED <<ran, installed>> /\ pc = "installing" /\ ran[A] = 0
    BY <1>5 DEF AppInstalling, history, WorkInv, RunInv
  <2>4. \/ app' = [app EXCEPT ![A] = r] /\ Goto("run")
        \/ app' = [app EXCEPT ![A] = Error(r, "FAILED")] /\ Loop("download", "complete")
    BY <1>5 DEF AppInstalling
  <2>5. \A b \in AppIds : /\ ran[b] # 0 => app[b].state \in Terminal
                          /\ app[b].state # "INSTALLING"
    BY <2>3 DEF WorkInv, RunInv, InstallerRunsOnce
  <2> HIDE DEF r
  <2>6. CASE app' = [app EXCEPT ![A] = r] /\ Goto("run")
    <3>1. LoopStep /\ app'[A] = r
      BY <1>1, <1>5, <2>1, <2>6, LoopChange DEF AppInstalling
    <3>2. pc' = "run" /\ UNCHANGED i /\ A' = A
      BY <1>3, <2>6 DEF A
    <3>3. Distinct' /\ QueueInv' /\ PastInv'
      BY <3>1, <3>2, LoopStays DEF LoopPcs, InstallPcs, InstallAppPcs
    <3>4. AtInv'
      BY <2>1, <3>1, <3>2 DEF AtInv
    <3>5. AllowedInv' /\ EarlyInv' /\ AnswerInv' /\ DeferInv' /\ BlockedInv' /\ EulaInv'
      BY <1>1, <2>3, <3>1, <3>2, LoopFacts DEF LoopPcs, InstallPcs, InstallAppPcs
    <3>6. DownloadStateOwned' /\ CacheInv'
      BY <1>4, <2>1, <3>1, <3>2 DEF LoopPcs, InstallPcs, InstallAppPcs, DownloadAppPcs
    <3>7. RunInv'
      <4>1. \A b \in AppIds : ran[b] # 0 => b # A
        BY <2>3
      <4>2. \A b \in AppIds : b # A => app'[b] = app[b]
        BY <3>1 DEF LoopStep
      <4>3. InstallerRunsOnce'
        BY <2>1, <2>3, <2>5, <3>1, <3>2, <4>2
        DEF InstallerRunsOnce, WorkInv, RunInv
      <4> QED
        BY <2>3, <2>5, <3>2, <4>1, <4>2, <4>3 DEF RunInv
    <3> QED
      BY <3>3, <3>4, <3>5, <3>6, <3>7 DEF WorkInv
  <2>7. CASE /\ app' = [app EXCEPT ![A] = Error(r, "FAILED")]
             /\ Loop("download", "complete")
    <3>1. Kept(app[A], Error(r, "FAILED")) /\ Moves(app[A], Error(r, "FAILED"))
      BY <2>1, <2>2 DEF Kept, Moves
    <3>2. LoopStep /\ app'[A] = Error(r, "FAILED")
      BY <1>1, <1>5, <2>2, <2>7, <3>1, LoopChange DEF AppInstalling
    <3>3. /\ Distinct' /\ QueueInv' /\ PastInv' /\ AtInv'
          /\ pc' \in {"download", "complete"}
      BY <2>2, <2>7, <3>2, LoopGoesOn DEF Terminal
    <3>4. pc' \notin ServedPcs
      BY <3>3 DEF ServedPcs, DownloadAppPcs, InstallAppPcs
    <3>5. AllowedInv' /\ EarlyInv' /\ AnswerInv' /\ DeferInv' /\ BlockedInv' /\ EulaInv'
      BY <2>3, <3>2, <3>3, <3>4, LoopFacts DEF LoopPcs
    <3>6. DownloadStateOwned' /\ CacheInv'
      BY <1>4, <2>2, <3>2, <3>3 DEF LoopPcs, DownloadAppPcs
    <3>7. RunInv'
      <4>1. \A b \in AppIds : b # A => app'[b] = app[b]
        BY <3>2 DEF LoopStep
      <4>2. InstallerRunsOnce'
        BY <2>2, <2>3, <2>5, <3>2, <4>1 DEF InstallerRunsOnce, WorkInv, RunInv
      <4> QED
        BY <2>2, <2>3, <2>5, <3>2, <3>3, <4>1, <4>2 DEF RunInv, Terminal
    <3> QED
      BY <3>3, <3>5, <3>6, <3>7 DEF WorkInv
  <2> QED
    BY <2>4, <2>6, <2>7
<1>6. CASE RunInstaller
  <2>1. LoopStep /\ app' = app
    BY <1>1, <1>6, LoopSame DEF RunInstaller
  <2>2. pc = "run" /\ pc' = "report" /\ UNCHANGED i /\ A' = A
    BY <1>3, <1>6 DEF RunInstaller, A
  <2>3. Distinct' /\ QueueInv' /\ PastInv'
    BY <2>1, <2>2, LoopStays DEF LoopPcs, InstallPcs, InstallAppPcs
  <2>4. AtInv'
    BY <2>1, <2>2 DEF AtInv, WorkInv
  <2>5. \A b \in AppIds : ran'[b] = IF b = A THEN ran[A] + 1 ELSE ran[b]
    BY <1>2, <1>6 DEF RunInstaller
  <2>6. AllowedInv' /\ EarlyInv' /\ AnswerInv' /\ DeferInv' /\ BlockedInv' /\ EulaInv'
    BY <1>1, <2>1, <2>2, <2>5, LoopFacts DEF LoopPcs, InstallPcs, InstallAppPcs
  <2>7. DownloadStateOwned' /\ CacheInv'
    BY <1>4, <2>1, <2>2 DEF LoopPcs, InstallPcs, InstallAppPcs, DownloadAppPcs
  <2>8. RunInv'
    <3>1. ran[A] = 0 /\ app[A].state \in {"INSTALLING", "ERROR"}
      BY <2>2 DEF WorkInv, RunInv, AtInv
    <3>2. ran'[A] = 1
      BY <1>2, <2>5, <3>1, SMTT(30)
    <3>3. installed' = installed
      BY <1>6 DEF RunInstaller
    <3>4. 1 <= 1
      BY SMTT(30)
    <3>5. InstallerRunsOnce'
      BY <2>1, <2>2, <2>5, <3>1, <3>2, <3>3, <3>4
      DEF InstallerRunsOnce, WorkInv, RunInv
    <3> QED
      BY <2>1, <2>2, <2>5, <3>2, <3>5 DEF RunInv, WorkInv
  <2> QED
    BY <2>3, <2>4, <2>6, <2>7, <2>8 DEF WorkInv
<1>7. CASE ReportResult
  <2>1. \A success \in BOOLEAN :
          /\ Kept(app[A], ReportInstallerComplete(app[A], success))
          /\ Moves(app[A], ReportInstallerComplete(app[A], success))
          /\ ReportInstallerComplete(app[A], success).state =
               IF app[A].state = "INSTALLING" /\ success
                 THEN "INSTALL_COMPLETE" ELSE "ERROR"
    BY <1>2, InstallEventsResult, InstallEventsType
  <2>2. /\ Kept(app[A], Error(app[A], hr)) /\ Moves(app[A], Error(app[A], hr))
        /\ Error(app[A], hr).state = "ERROR"
    BY <1>2, ErrorResult, ErrorType
  <2>3. PICK r : /\ app' = [app EXCEPT ![A] = r]
                 /\ Kept(app[A], r) /\ Moves(app[A], r)
                 /\ r.state \in {"INSTALL_COMPLETE", "ERROR"}
                 /\ r.state = "INSTALL_COMPLETE" => hr = "S_OK"
    BY <1>7, <2>1, <2>2 DEF ReportResult
  <2>4. LoopStep /\ app'[A] = r
    BY <1>1, <1>7, <2>3, LoopChange DEF ReportResult
  <2>5. /\ Distinct' /\ QueueInv' /\ PastInv' /\ AtInv'
        /\ pc' \in {"download", "complete"}
    BY <1>7, <2>3, <2>4, LoopGoesOn DEF ReportResult, Terminal
  <2>6. pc' \notin ServedPcs
    BY <2>5 DEF ServedPcs, DownloadAppPcs, InstallAppPcs
  <2>7. ran' = ran /\ pc = "report" /\ ran[A] = 1
    BY <1>7 DEF ReportResult, WorkInv, RunInv
  <2>8. AllowedInv' /\ EarlyInv' /\ AnswerInv' /\ DeferInv' /\ BlockedInv' /\ EulaInv'
    BY <2>4, <2>5, <2>6, <2>7, LoopFacts DEF LoopPcs
  <2>9. DownloadStateOwned' /\ CacheInv'
    BY <1>4, <2>3, <2>4, <2>5 DEF LoopPcs, DownloadAppPcs
  <2>10. RunInv'
    <3>1. \A b \in AppIds : b # A => app'[b] = app[b]
      BY <2>4 DEF LoopStep
    <3>2. installed \subseteq installed' /\ (hr = "S_OK" => A \in installed')
      BY <1>7 DEF ReportResult
    <3>3. \A b \in AppIds : b # A => app[b].state # "INSTALLING"
      BY DEF WorkInv, RunInv, InstallerRunsOnce
    <3>4. InstallerRunsOnce'
      BY <2>3, <2>4, <2>7, <3>1, <3>2, <3>3 DEF InstallerRunsOnce, WorkInv, RunInv
    <3> QED
      BY <2>3, <2>4, <2>5, <2>7, <3>1, <3>4 DEF RunInv, WorkInv, Terminal
  <2> QED
    BY <2>5, <2>8, <2>9, <2>10 DEF WorkInv
<1> QED
  BY <1>5, <1>6, <1>7

-----------------------------------------------------------------------------
(* Steps outside that loop.                                                *)

\* No download and no installer is touched.
OutsideStep ==
  /\ pc \notin LoopPcs /\ pc' \notin LoopPcs \ {"download"}
  /\ UNCHANGED <<offline, allowed, dl, dlCancelled, ran, installed>>
  /\ cached \subseteq cached'
  /\ \A a \in AppIds :
       /\ Moves(app[a], app'[a])
       /\ \/ app'[a].state = app[a].state
          \/ app'[a].state \in {"INIT", "WAITING_TO_CHECK", "CHECKING",
                                "UPDATE_AVAILABLE", "NO_UPDATE",
                                "WAITING_TO_INSTALL", "ERROR"}
          \/ app'[a].state = "WAITING_TO_DOWNLOAD" /\ a \in allowed
       /\ \/ app'[a].eula = app[a].eula
          \/ app'[a].state \in {"INIT", "WAITING_TO_CHECK", "ERROR"}
       /\ app'[a].state = "CHECKING" =>
            app[a].state = "CHECKING" \/ app[a].eula = "YES" \/ offline

\* Outside the loop no application is being served.
LEMMA OutsideFacts ==
  ASSUME IInv, WorkInv, OutsideStep
  PROVE  /\ AtInv' /\ DownloadStateOwned' /\ CacheInv' /\ AllowedInv' /\ RunInv' /\ EulaInv'
         /\ pc' \notin ServedPcs
<1>1. /\ pc \notin DownloadAppPcs \cup InstallAppPcs \cup {"create", "copy"}
      /\ pc' \notin DownloadAppPcs \cup InstallAppPcs \cup {"create", "copy"}
      /\ pc' \notin {"queue_install", "install"}
  BY DEF OutsideStep, LoopPcs, InstallPcs, DownloadAppPcs, InstallAppPcs
<1>2. AtInv'
  BY <1>1 DEF AtInv, DownloadAppPcs, InstallAppPcs
<1>3. DownloadStateOwned'
  BY <1>1 DEF DownloadStateOwned, WorkInv, OutsideStep
<1>4. DownloadedIsCached'
  BY DEF DownloadedIsCached, WorkInv, CacheInv, OutsideStep, Moves, Arrows
<1>5. CacheInv'
  BY <1>1, <1>4 DEF CacheInv, DownloadAppPcs
<1>6. pc' \notin ServedPcs
  BY <1>1 DEF ServedPcs
<1>7. \A a \in AppIds : app'[a].state \in Reached => a \in allowed
  BY DEF WorkInv, AllowedInv, OutsideStep, Moves, Arrows, Reached
<1>8. AllowedInv'
  BY <1>6, <1>7 DEF AllowedInv, OutsideStep
<1>9. \A a \in AppIds : /\ ran[a] # 0 => app[a].state \in Terminal
                        /\ app[a].state # "INSTALLING"
  BY <1>1 DEF WorkInv, RunInv, InstallerRunsOnce, InstallAppPcs
<1>10. \A a \in AppIds : app[a].state \in Terminal => app'[a].state \in Terminal
  BY DEF OutsideStep, Moves, Arrows, Terminal
<1>11. \A a \in AppIds : /\ app'[a].state # "INSTALLING"
                         /\ app'[a].state = "INSTALL_COMPLETE" =>
                              app[a].state = "INSTALL_COMPLETE"
  BY <1>9 DEF OutsideStep
<1>12. InstallerRunsOnce'
  BY <1>11 DEF InstallerRunsOnce, WorkInv, RunInv, OutsideStep
<1>13. RunInv'
  BY <1>1, <1>9, <1>10, <1>12 DEF RunInv, OutsideStep, InstallAppPcs
<1>14. EulaInv'
  <2> SUFFICES ASSUME Silent PROVE EulaInv'
    BY DEF EulaInv
  <2>1. ~offline' /\ ~offline
    BY DEF WorkInv, EulaInv, OutsideStep
  <2>2. \A a \in AppIds :
          app'[a].state \notin {"INIT", "WAITING_TO_CHECK", "ERROR"} =>
            /\ app[a].state \notin {"INIT", "WAITING_TO_CHECK", "ERROR"}
                 \/ app'[a].state = "CHECKING"
            /\ app'[a].eula = app[a].eula
    BY DEF OutsideStep, Moves, Arrows
  <2> QED
    BY <1>6, <2>1, <2>2 DEF WorkInv, EulaInv, OutsideStep
<1> QED
  BY <1>2, <1>3, <1>5, <1>6, <1>8, <1>13, <1>14

\* Away from the loop over the results no update is found and none is deferred.
LEMMA DeferKept ==
  ASSUME IInv, WorkInv, UNCHANGED <<apps, ran>>, pc # "post", pc' # "post",
         pc' \notin ServedPcs,
         \A a \in AppIds : Kept(app[a], app'[a]) /\ Moves(app[a], app'[a])
  PROVE  Distinct' /\ DeferInv' /\ BlockedInv'
<1>1. \A n \in 1..Len(apps) : apps[n] \in AppIds
  BY ElementOfSeq DEF IInv, TypeOK
<1>2. UNCHANGED InBundle /\ (Omaha \in InBundle => Omaha \in AppIds)
  BY <1>1 DEF InBundle
<1>3. OmahaComes' => OmahaComes
  BY <1>2 DEF OmahaComes, Kept
<1>4. ASSUME NEW n \in 1..Len(apps), OmahaComes', apps[n] # Omaha,
             app'[apps[n]].is_update
      PROVE  app'[apps[n]].state \in {"NO_UPDATE", "ERROR"}
  <2>1. app[apps[n]].state \in {"NO_UPDATE", "ERROR"}
    BY <1>1, <1>3, <1>4 DEF WorkInv, DeferInv, Kept
  <2> QED
    BY <1>1, <2>1 DEF Moves, Arrows
<1>5. DeferInv'
  BY <1>4 DEF DeferInv
<1>6. \A a \in AppIds : Blocked(a)' => Blocked(a)
  BY <1>2 DEF Blocked, Kept
<1>7. BlockedInv'
  BY <1>6 DEF BlockedInv, WorkInv
<1> QED
  BY <1>5, <1>7 DEF Distinct, WorkInv

\* The work item at an application outside the loop, for a record r of it.
LEMMA OutsideChange ==
  ASSUME IInv, pc \in {"pre", "post", "queue"},
         NEW r, app' = [app EXCEPT ![A] = r], Moves(app[A], r)
  PROVE  /\ A \in AppIds /\ app[A] \in App /\ app'[A] = r
         /\ \A a \in AppIds \ {A} : app'[a] = app[a]
         /\ \A a \in AppIds : Moves(app[a], app'[a])
<1>1. A \in AppIds /\ app \in [AppIds -> App]
  BY CurrentApp, TypeSplit DEF IInv
<1> QED
  BY <1>1 DEF Moves

\* An outside step of the work item, but for what its loops have done.
LEMMA OutsideWorker ==
  ASSUME IInv, WorkInv, OutsideStep, UNCHANGED apps,
         bundle' \notin {"Init", "Initialized"},
         pc' \in CheckPcs => pc \in CheckPcs,
         pc' \in {"check", "pre", "send"} => pc \in {"check", "pre", "send"},
         pc # "post", pc' # "post",
         \A a \in AppIds : Kept(app[a], app'[a]),
         \A a \in AppIds : answer'[a] = "UPDATE" => a \in request',
         QueueInv', PastInv'
  PROVE  WorkInv'
<1>1. /\ AtInv' /\ DownloadStateOwned' /\ CacheInv' /\ AllowedInv' /\ RunInv' /\ EulaInv'
      /\ pc' \notin ServedPcs
  BY OutsideFacts
<1>2. Distinct' /\ DeferInv' /\ BlockedInv'
  BY <1>1, DeferKept DEF OutsideStep
<1>3. EarlyInv'
  BY DEF EarlyInv, WorkInv, OutsideStep, Kept
<1>4. AnswerInv'
  BY DEF AnswerInv, WorkInv, Kept
<1> QED
  BY <1>1, <1>2, <1>3, <1>4 DEF WorkInv

\* Steps that change no application.
LEMMA CalmActions ==
  ASSUME IInv, WorkInv,
         BeginCheck \/ CacheOfflinePackages \/ BeginDownload \/ CompleteAsyncCall
  PROVE  WorkInv'
<1> USE DEF Goto
<1>1. /\ pc \in {"check", "offline", "impersonate", "complete"}
      /\ UNCHANGED <<apps, app, offline, allowed, dl, dlCancelled, ran, installed>>
  BY DEF BeginCheck, CacheOfflinePackages, BeginDownload, CompleteAsyncCall,
     client, history
<1>2. /\ bundle' \notin {"Init", "Initialized"} /\ pc # "idle"
      /\ Len(apps) \in Nat /\ (apps # <<>> => 1 \in 1..Len(apps))
  <2>1. bundle \in {"Busy", "Stopped"}
    BY <1>1 DEF IInv, SingleCall
  <2>2. bundle' \in {"Busy", "Stopped", "Ready"}
    BY <2>1 DEF BeginCheck, CacheOfflinePackages, BeginDownload,
       CompleteAsyncCall, client
  <2>3. Len(apps) \in Nat /\ (apps # <<>> => 1 \in 1..Len(apps))
    BY SMTT(30) DEF IInv, TypeOK
  <2> QED
    BY <1>1, <2>2, <2>3
<1>3. pc \notin LoopPcs
  BY <1>1 DEF LoopPcs, DownloadAppPcs, InstallPcs, InstallAppPcs
<1>4. \A a \in AppIds : answer'[a] = "UPDATE" => a \in request'
  BY DEF BeginCheck, CacheOfflinePackages, BeginDownload, CompleteAsyncCall,
     check, NoAnswer, WorkInv, AnswerInv
<1>5. cached \subseteq cached'
  BY DEF BeginCheck, CacheOfflinePackages, BeginDownload, CompleteAsyncCall
<1>6. ASSUME pc' \in {"pre", "send", "queue", "impersonate", "complete", "idle",
                      "download"},
             pc' \in {"pre", "send"} => pc = "check",
             QueueInv', PastInv'
      PROVE  WorkInv'
  <2>1. pc' \notin LoopPcs \ {"download"}
    BY <1>6 DEF LoopPcs, DownloadAppPcs, InstallPcs, InstallAppPcs
  <2>2. OutsideStep
    BY <1>1, <1>3, <1>5, <2>1 DEF OutsideStep, Moves
  <2>3. \A a \in AppIds : Kept(app[a], app'[a])
    BY <1>1 DEF Kept
  <2> QED
    BY <1>1, <1>2, <1>4, <1>6, <2>2, <2>3, OutsideWorker DEF CheckPcs
<1>7. \A n \in 1..0 : FALSE
  BY SMTT(30)
<1>8. CASE BeginCheck \/ CacheOfflinePackages
  <2>1. \/ pc' \in {"pre", "send", "complete"}
        \/ pc' = "queue" /\ i' = 1 /\ op = "UpdateAllApps"
        \/ pc' = "impersonate" /\ apps = <<>>
    BY <1>8 DEF BeginCheck, CacheOfflinePackages, AfterCheck, EnterLoop
  <2>2. pc' \in {"pre", "send"} => pc = "check"
    BY <1>8 DEF BeginCheck, CacheOfflinePackages, AfterCheck, EnterLoop
  <2>3. PastInv'
    BY <2>1 DEF PastInv, LoopPcs, DownloadAppPcs, InstallPcs, InstallAppPcs
  <2>4. op' = op
    BY <1>8 DEF BeginCheck, CacheOfflinePackages
  <2>5. apps = <<>> => Len(apps) = 0
    BY SMTT(30)
  <2>6. 1 - 1 = 0
    BY SMTT(30)
  <2>7. QueueInv'
    BY <1>1, <1>7, <2>1, <2>4, <2>5, <2>6 DEF QueueInv, LoopPcs, DownloadAppPcs,
       InstallPcs, InstallAppPcs
  <2> QED
    BY <1>6, <2>1, <2>2, <2>3, <2>7
<1>9. CASE BeginDownload
  <2>1. \/ pc' = "complete" \/ pc' = "idle"
        \/ pc' = "download" /\ i' = 1 /\ apps # <<>> /\ op' = op
    BY <1>9 DEF BeginDownload, EnterLoop
  <2>2. CASE pc' \in {"complete", "idle"}
    <3>1. QueueInv' /\ PastInv'
      BY <2>2 DEF QueueInv, PastInv, LoopPcs, DownloadAppPcs, InstallPcs, InstallAppPcs
    <3> QED
      BY <1>6, <2>2, <3>1
  <2>3. CASE pc' = "download" /\ i' = 1 /\ apps # <<>> /\ op' = op
    <3>1. \A n \in 1..Len(apps) : Queued(app[apps[n]].state)'
      BY <1>1, <1>9, <2>3 DEF BeginDownload, WorkInv, QueueInv, Queued
    <3>2. \A n \in (1 + 1)..Len(apps) : n \in 1..Len(apps)
      BY <1>2, SMTT(30)
    <3>3. 1 - 1 = 0
      BY SMTT(30)
    <3>4. QueueInv'
      BY <1>1, <1>2, <2>3, <3>1, <3>2 DEF QueueInv, A
    <3>5. PastInv'
      BY <1>7, <2>3, <3>3 DEF PastInv
    <3> QED
      BY <1>6, <2>3, <3>4, <3>5
  <2> QED
    BY <2>1, <2>2, <2>3
<1>10. CASE CompleteAsyncCall
  <2>1. pc' = "idle"
    BY <1>10 DEF CompleteAsyncCall
  <2>2. QueueInv' /\ PastInv'
    BY <2>1 DEF QueueInv, PastInv, LoopPcs, DownloadAppPcs, InstallPcs, InstallAppPcs
  <2> QED
    BY <1>6, <2>1, <2>2
<1> QED
  BY <1>8, <1>9, <1>10

\* The loops before and after the update check.
LEMMA PreActions ==
  ASSUME IInv, WorkInv, DoPreUpdateCheck \/ QueueApp
  PROVE  WorkInv'
<1>1. /\ pc \in {"pre", "queue"} /\ bundle' \notin {"Init", "Initialized"}
      /\ UNCHANGED <<apps, op, offline, allowed, cached, dl, dlCancelled, ran,
                     installed>>
  BY DEF DoPreUpdateCheck, QueueApp, client, history, IInv, SingleCall
<1>2. /\ A \in AppIds /\ i \in 1..Len(apps) /\ app[A] \in App
      /\ auto \in BOOLEAN /\ offline \in BOOLEAN /\ TypeOK /\ Distinct
  BY <1>1, CurrentApp, TypeSplit DEF IInv, TypeOK, WorkInv
<1>b. (A \in allowed) \in BOOLEAN
  BY SMTT(30)
<1>3. pc \notin LoopPcs
  BY <1>1 DEF LoopPcs, DownloadAppPcs, InstallPcs, InstallAppPcs
<1>4. CASE DoPreUpdateCheck
  <2> DEFINE r == PreUpdateCheck(app[A], A \in allowed, auto, offline)
  <2>1. /\ Kept(app[A], r) /\ Moves(app[A], r) /\ r.state \in {"CHECKING", "ERROR"}
        /\ r.state = "CHECKING" => app[A].eula = "YES" \/ offline
    <3>1. Moves(app[A], r)
      BY <1>2, PreUpdateCheckType
    <3>2. Kept(app[A], r)
      BY <1>2, <1>b, PreUpdateCheckResult
    <3>3. /\ r.state \in {"CHECKING", "ERROR"}
          /\ r.state = "CHECKING" => app[A].eula = "YES" \/ offline
      BY <1>2, <1>b, PreUpdateCheckResult, SMTT(30)
    <3> QED
      BY <3>1, <3>2, <3>3
  <2>2. app' = [app EXCEPT ![A] = r]
    BY <1>4 DEF DoPreUpdateCheck
  <2> HIDE DEF r
  <2>3. /\ app'[A] = r /\ \A a \in AppIds \ {A} : app'[a] = app[a]
        /\ \A a \in AppIds : Moves(app[a], app'[a])
    BY <1>1, <2>1, <2>2, OutsideChange
  <2>4. \A a \in AppIds : Kept(app[a], app'[a])
    BY <1>2, <2>1, <2>3 DEF Kept
  <2>5. pc = "pre" /\ pc' \in {"pre", "send"}
    BY <1>4 DEF DoPreUpdateCheck, Loop
  <2>6. OutsideStep
    BY <1>1, <1>2, <1>3, <2>1, <2>3, <2>4, <2>5
    DEF OutsideStep, Kept, LoopPcs, DownloadAppPcs, InstallPcs, InstallAppPcs
  <2>7. QueueInv' /\ PastInv'
    BY <2>5 DEF QueueInv, PastInv, LoopPcs, DownloadAppPcs, InstallPcs, InstallAppPcs
  <2>8. \A a \in AppIds : answer'[a] = "UPDATE" => a \in request'
    BY <1>4 DEF DoPreUpdateCheck, WorkInv, AnswerInv
  <2> QED
    BY <1>1, <2>4, <2>5, <2>6, <2>7, <2>8, OutsideWorker DEF CheckPcs
<1>5. CASE QueueApp
  <2> DEFINE r == QueueDownloadOrInstall(app[A], A \in allowed)
  <2>1. /\ Kept(app[A], r) /\ Moves(app[A], r)
        /\ r.state \in {"WAITING_TO_DOWNLOAD", "WAITING_TO_INSTALL", "NO_UPDATE", "ERROR"}
        /\ r.state = "WAITING_TO_DOWNLOAD" => A \in allowed
    BY <1>2, <1>b, InstallEventsResult, InstallEventsType
  <2>2. app' = [app EXCEPT ![A] = r]
    BY <1>5 DEF QueueApp
  <2> HIDE DEF r
  <2>3. /\ app'[A] = r /\ \A a \in AppIds \ {A} : app'[a] = app[a]
        /\ \A a \in AppIds : Moves(app[a], app'[a])
    BY <1>1, <2>1, <2>2, OutsideChange
  <2>4. \A a \in AppIds : Kept(app[a], app'[a])
    BY <1>2, <2>1, <2>3 DEF Kept
  <2>5. pc = "queue" /\ pc' \in {"queue", "impersonate"} /\ op # "Download"
    BY <1>5 DEF QueueApp, Loop, WorkInv, QueueInv
  <2>6. OutsideStep
    BY <1>1, <1>2, <1>3, <2>1, <2>3, <2>4, <2>5
    DEF OutsideStep, Kept, LoopPcs, DownloadAppPcs, InstallPcs, InstallAppPcs
  <2>7. PastInv'
    BY <2>5 DEF PastInv, LoopPcs, DownloadAppPcs, InstallPcs, InstallAppPcs
  <2>8. \A a \in AppIds : answer'[a] = "UPDATE" => a \in request'
    BY <1>5 DEF QueueApp, WorkInv, AnswerInv, check
  <2>9. \A n \in 1..Len(apps) : n # i => app'[apps[n]] = app[apps[n]]
    BY <1>2, <2>3, OtherApps
  <2>10. \A n \in 1..i : /\ n \in 1..Len(apps)
                         /\ n = i \/ (n # i /\ n \in 1..(i - 1))
    BY <1>2, SMTT(30) DEF TypeOK
  <2>11. \A n \in 1..i : Queued(app[apps[n]].state)'
    <3>1. \A n \in 1..(i - 1) : Queued(app[apps[n]].state)
      BY <2>5 DEF WorkInv, QueueInv
    <3>2. app'[apps[i]].state \in {"WAITING_TO_DOWNLOAD", "WAITING_TO_INSTALL", "NO_UPDATE", "ERROR"}
      BY <2>1, <2>3 DEF A
    <3> QED
      BY <1>1, <2>5, <2>9, <2>10, <3>1, <3>2 DEF Queued
  <2>12. QueueInv'
    <3>1. CASE i < Len(apps)
      <4>1. pc' = "queue" /\ i' - 1 = i
        BY <1>2, <1>5, <3>1, SMTT(30) DEF QueueApp, Loop, TypeOK
      <4> QED
        BY <1>1, <2>5, <2>11, <4>1 DEF QueueInv, LoopPcs, DownloadAppPcs,
           InstallPcs, InstallAppPcs
    <3>2. CASE ~(i < Len(apps))
      <4>1. pc' = "impersonate" /\ i = Len(apps)
        BY <1>2, <1>5, <3>2, SMTT(30) DEF QueueApp, Loop, TypeOK
      <4> QED
        BY <1>1, <2>11, <4>1 DEF QueueInv, LoopPcs, DownloadAppPcs,
           InstallPcs, InstallAppPcs
    <3> QED
      BY <3>1, <3>2
  <2> QED
    BY <1>1, <2>4, <2>5, <2>6, <2>7, <2>8, <2>12, OutsideWorker DEF CheckPcs
<1> QED
  BY <1>4, <1>5

\* The update check itself.
LEMMA CheckAction ==
  ASSUME IInv, WorkInv, DoUpdateCheck
  PROVE  WorkInv'
<1>1. /\ pc = "send" /\ bundle' = bundle /\ bundle \in {"Busy", "Stopped"}
      /\ UNCHANGED <<apps, app, offline, allowed, cached, op, request, dl,
                     dlCancelled, ran, installed>>
  BY DEF DoUpdateCheck, client, history, IInv, SingleCall
<1>2. i' = 1 /\ (pc' = "post" \/ (pc' = "offline" /\ apps = <<>>))
  BY DEF DoUpdateCheck, EnterLoop
<1>3. OutsideStep
  BY <1>1, <1>2 DEF OutsideStep, LoopPcs, DownloadAppPcs, InstallPcs,
     InstallAppPcs, Moves
<1>4. /\ AtInv' /\ DownloadStateOwned' /\ CacheInv' /\ AllowedInv' /\ RunInv' /\ EulaInv'
      /\ pc' \notin ServedPcs
  BY <1>3, OutsideFacts
<1>5. \A n \in 1..(1 - 1) : FALSE
  BY SMTT(30)
<1>6. Distinct' /\ QueueInv' /\ PastInv'
  BY <1>1, <1>2, <1>5 DEF Distinct, WorkInv, QueueInv, PastInv, LoopPcs,
     DownloadAppPcs, InstallPcs, InstallAppPcs
<1>7. \A a \in AppIds : ran[a] = 0 /\ ~app[a].has_update
  BY <1>1 DEF WorkInv, EarlyInv, CheckPcs
<1>8. EarlyInv'
  BY <1>1, <1>2, <1>7 DEF EarlyInv, CheckPcs
<1>9. AnswerInv'
  <2>1. \A a \in AppIds : answer'[a] = "UPDATE" => a \in request
    BY DEF DoUpdateCheck, WorkInv, AnswerInv
  <2> QED
    BY <1>1, <2>1 DEF AnswerInv, WorkInv
<1>10. Omaha \in InBundle' => Omaha \in AppIds
  <2>1. \A n \in 1..Len(apps) : apps[n] \in AppIds
    BY ElementOfSeq DEF IInv, TypeOK
  <2> QED
    BY <1>1, <2>1 DEF InBundle
<1>11. DeferInv'
  <2>1. ~(Omaha \in InBundle' /\ app'[Omaha].has_update)
    BY <1>1, <1>7, <1>10
  <2>2. \A n \in 1..Len(apps) : n >= 1
    BY SMTT(30) DEF IInv, TypeOK
  <2> QED
    BY <1>1, <1>2, <2>1, <2>2 DEF DeferInv, OmahaComes
<1>12. BlockedInv'
  BY <1>1, <1>4, <1>7 DEF BlockedInv
<1> QED
  BY <1>4, <1>6, <1>8, <1>9, <1>11, <1>12 DEF WorkInv

\* The loop that hands out the results of the check.
LEMMA PostAction ==
  ASSUME IInv, WorkInv, DoPostUpdateCheck
  PROVE  WorkInv'
<1>1. /\ pc = "post" /\ bundle' = bundle /\ bundle \in {"Busy", "Stopped"}
      /\ pc' \in {"post", "offline"}
      /\ UNCHANGED <<apps, offline, allowed, cached, op, hr, request, answer, dl,
                     dlCancelled, ran, installed>>
  BY DEF DoPostUpdateCheck, client, history, check, IInv, SingleCall, Loop
<1>2. /\ A \in AppIds /\ A \in InBundle /\ i \in 1..Len(apps) /\ app[A] \in App
      /\ hr \in Codes /\ answer[A] \in Answers /\ TypeOK /\ Distinct
      /\ app \in [AppIds -> App]
  BY <1>1, CurrentApp, TypeSplit DEF IInv, TypeOK, WorkInv
<1>3. PICK built \in BOOLEAN :
        app' = [app EXCEPT ![A] = PostUpdateCheck(app[A], hr, answer[A],
                                      IsOmahaUpdateAvailable, built)]
  BY DEF DoPostUpdateCheck, Succeeds
<1> DEFINE q == PostUpdateCheck(app[A], hr, answer[A], IsOmahaUpdateAvailable, built)
<1>4. IsOmahaUpdateAvailable \in BOOLEAN
  BY DEF IsOmahaUpdateAvailable
<1>5. /\ q.state \in {"UPDATE_AVAILABLE", "NO_UPDATE", "ERROR"}
      /\ q.is_update = app[A].is_update /\ q.omaha = app[A].omaha
      /\ q.eula = app[A].eula
      /\ q.state = "UPDATE_AVAILABLE" \/ q.has_update # app[A].has_update =>
           /\ hr = "S_OK" /\ answer[A] = "UPDATE"
           /\ ~(~app[A].omaha /\ app[A].is_update /\ IsOmahaUpdateAvailable)
  BY <1>2, <1>4, PostUpdateCheckResult, SMTT(30)
<1>6. Moves(app[A], q)
  BY <1>2, PostUpdateCheckType
<1> HIDE DEF q
<1>7. /\ app'[A] = q /\ \A a \in AppIds \ {A} : app'[a] = app[a]
      /\ \A a \in AppIds : Moves(app[a], app'[a])
  BY <1>1, <1>3, <1>6, OutsideChange DEF q
<1>8. OutsideStep
  BY <1>1, <1>5, <1>7 DEF OutsideStep, LoopPcs, DownloadAppPcs, InstallPcs,
     InstallAppPcs
<1>9. /\ AtInv' /\ DownloadStateOwned' /\ CacheInv' /\ AllowedInv' /\ RunInv' /\ EulaInv'
      /\ pc' \notin ServedPcs
  BY <1>8, OutsideFacts
<1>10. \A a \in AppIds : ran[a] = 0
  BY <1>1 DEF WorkInv, EarlyInv, CheckPcs
<1>11. EarlyInv' /\ BlockedInv'
  BY <1>1, <1>9, <1>10 DEF EarlyInv, BlockedInv
<1>12. AnswerInv'
  BY <1>1, <1>2, <1>5, <1>7 DEF AnswerInv, WorkInv
<1>13. \A n \in 1..Len(apps) : n # i => app'[apps[n]] = app[apps[n]]
  BY <1>2, <1>7, OtherApps
<1>14. i' - 1 = i \/ pc' # "post"
  BY <1>2, SMTT(30) DEF DoPostUpdateCheck, Loop, TypeOK
<1>15. \A n \in 1..i : n \in 1..Len(apps) /\ (n = i \/ (n # i /\ n \in 1..(i - 1)))
  BY <1>2, SMTT(30) DEF TypeOK
<1>16. PastInv'
  <2>1. \A n \in 1..(i - 1) : app[apps[n]].state \in {"UPDATE_AVAILABLE", "NO_UPDATE", "ERROR"}
    BY <1>1 DEF WorkInv, PastInv
  <2>2. \A n \in 1..i : app'[apps[n]].state \in {"UPDATE_AVAILABLE", "NO_UPDATE", "ERROR"}
    BY <1>5, <1>7, <1>13, <1>15, <2>1 DEF A
  <2> QED
    BY <1>1, <1>14, <2>2 DEF PastInv, LoopPcs, DownloadAppPcs, InstallPcs, InstallAppPcs
<1>17. Distinct' /\ QueueInv'
  BY <1>1 DEF Distinct, WorkInv, QueueInv, LoopPcs, DownloadAppPcs, InstallPcs,
     InstallAppPcs
<1>18. UNCHANGED <<InBundle, IsOmahaUpdateAvailable>>
  BY <1>1 DEF InBundle, IsOmahaUpdateAvailable
<1>19. Omaha \in InBundle => Omaha \in AppIds
  <2>1. \A n \in 1..Len(apps) : apps[n] \in AppIds
    BY ElementOfSeq DEF IInv, TypeOK
  <2> QED
    BY <2>1 DEF InBundle
<1>20. Omaha \in InBundle /\ app'[Omaha].has_update =>
         hr = "S_OK" /\ IsOmahaUpdateAvailable
  <2>1. CASE app'[Omaha].has_update = app[Omaha].has_update
    BY <1>1, <2>1 DEF WorkInv, DeferInv
  <2>2. CASE app'[Omaha].has_update # app[Omaha].has_update /\ Omaha \in InBundle
    <3>1. Omaha = A
      BY <1>7, <1>19, <2>2
    <3>2. hr = "S_OK" /\ answer[Omaha] = "UPDATE"
      BY <1>5, <1>7, <2>2, <3>1
    <3> QED
      BY <1>19, <2>2, <3>2 DEF IsOmahaUpdateAvailable, WorkInv, AnswerInv
  <2> QED
    BY <2>1, <2>2
<1>21. OmahaComes' => hr = "S_OK" /\ IsOmahaUpdateAvailable
  BY <1>1, <1>18, <1>20 DEF OmahaComes
<1>22. ASSUME NEW n \in 1..Len(apps), OmahaComes', apps[n] # Omaha,
              app'[apps[n]].is_update, ~(pc' = "post" /\ n >= i')
       PROVE  app'[apps[n]].state \in {"NO_UPDATE", "ERROR"}
  <2>1. n <= i
    BY <1>2, <1>22, SMTT(30) DEF DoPostUpdateCheck, Loop, TypeOK
  <2>2. CASE n = i
    BY <1>2, <1>5, <1>7, <1>21, <1>22, <2>2 DEF WorkInv, AnswerInv, A
  <2>3. CASE n # i
    <3>1. ~(n >= i)
      BY <1>2, <2>1, <2>3, SMTT(30) DEF TypeOK
    <3>2. OmahaComes
      BY <1>1, <1>21, <1>22 DEF OmahaComes
    <3> QED
      BY <1>13, <1>22, <2>3, <3>1, <3>2 DEF WorkInv, DeferInv
  <2> QED
    BY <2>2, <2>3
<1>23. DeferInv'
  BY <1>1, <1>18, <1>20, <1>22 DEF DeferInv
<1> QED
  BY <1>9, <1>11, <1>12, <1>16, <1>17, <1>23 DEF WorkInv

\* Every step of the work item keeps the invariant.
LEMMA WorkerKeeps == ASSUME IInv, WorkInv, Worker PROVE WorkInv'
  BY DownloadActions, AroundDownload, BeforeInstall, InstallActions, CalmActions,
     PreActions, CheckAction, PostAction DEF Worker

-----------------------------------------------------------------------------
(* Calls of the client.                                                    *)

\* Calls up to the start of the update check.
LEMMA SetupFacts ==
  ASSUME IInv, IInv', WorkInv, bundle \in {"Init", "Initialized"},
         pc' \in {"idle", "check"}, Distinct',
         UNCHANGED <<offline, allowed, cached, request, answer, dl, dlCancelled, ran,
                     installed>>,
         \A a \in AppIds :
           /\ Moves(app[a], app'[a])
           /\ app'[a].state \in {"INIT", "WAITING_TO_CHECK", "ERROR"} \/ app'[a] = app[a]
           /\ ~app'[a].has_update /\ app'[a].omaha = (a = Omaha)
  PROVE  WorkInv'
<1>1. pc = "idle"
  BY DEF IInv, SingleCall
<1>2. OutsideStep
  BY <1>1 DEF OutsideStep, LoopPcs, DownloadAppPcs, InstallPcs, InstallAppPcs
<1>3. /\ AtInv' /\ DownloadStateOwned' /\ CacheInv' /\ AllowedInv' /\ RunInv' /\ EulaInv'
      /\ pc' \notin ServedPcs
  BY <1>2, OutsideFacts
<1>4. QueueInv' /\ PastInv'
  BY DEF QueueInv, PastInv, LoopPcs, DownloadAppPcs, InstallPcs, InstallAppPcs
<1>5. \A a \in AppIds : ran'[a] = 0
  BY DEF WorkInv, EarlyInv
<1>6. EarlyInv' /\ BlockedInv'
  BY <1>3, <1>5 DEF EarlyInv, BlockedInv
<1>7. AnswerInv'
  BY DEF AnswerInv, WorkInv
<1>8. \A n \in 1..Len(apps') : apps'[n] \in AppIds
  BY ElementOfSeq DEF IInv, TypeOK
<1>9. DeferInv'
  BY <1>8 DEF DeferInv, OmahaComes, InBundle
<1> QED
  BY <1>3, <1>4, <1>6, <1>7, <1>9 DEF WorkInv

\* The calls that fill the bundle, and the start of the check.
LEMMA SetupKeeps ==
  ASSUME IInv, IInv', WorkInv, Client, bundle \in {"Init", "Initialized"},
         \A a \in AppIds : Moves(app[a], app'[a]),
         ~\E a \in AppIds, eula \in {"NO", "YES"} : PutIsEulaAccepted(a, eula)
  PROVE  WorkInv'
<1>1. pc = "idle"
  BY DEF IInv, SingleCall
<1>2. \A a \in AppIds : ~app[a].has_update /\ app[a].omaha = (a = Omaha)
  BY DEF WorkInv, EarlyInv, AnswerInv
<1>3. apps \in Seq(AppIds) /\ app \in [AppIds -> App]
  BY DEF IInv, TypeOK
<1>4. CASE Initialize \/ Pause \/ StopInitialized
  <2>1. UNCHANGED <<apps, app, pc, offline, allowed, cached, request, answer, dl,
                    dlCancelled, ran, installed>>
    BY <1>4 DEF Initialize, Pause, StopInitialized, worker, check, history
  <2>2. Distinct'
    BY <2>1 DEF Distinct, WorkInv
  <2> QED
    BY <1>1, <1>2, <2>1, <2>2, SetupFacts
<1>5. ASSUME NEW a \in AppIds, NEW u, NEW e, AddApp(a, NewApp(u, a = Omaha, e))
      PROVE  WorkInv'
  <2>1. UNCHANGED <<pc, offline, allowed, cached, request, answer, dl, dlCancelled, ran,
                    installed>>
    BY <1>5 DEF AddApp, worker, check, history
  <2>2. Distinct'
    <3>1. a \notin InBundle /\ apps' = Append(apps, a)
      BY <1>5 DEF AddApp
    <3>2. \A n \in 1..Len(apps) : apps[n] # a
      BY <3>1 DEF InBundle
    <3>3. \A m, n \in 1..Len(apps) : apps[m] = apps[n] => m = n
      BY DEF WorkInv, Distinct
    <3> QED
      BY <1>3, <3>1, <3>2, <3>3, SMTT(30) DEF Distinct
  <2>3. \A b \in AppIds : app'[b] = IF b = a THEN NewApp(u, a = Omaha, e) ELSE app[b]
    BY <1>3, <1>5 DEF AddApp
  <2>4. \A b \in AppIds :
          /\ app'[b].state \in {"INIT", "WAITING_TO_CHECK", "ERROR"} \/ app'[b] = app[b]
          /\ ~app'[b].has_update /\ app'[b].omaha = (b = Omaha)
    <3> DEFINE new == NewApp(u, a = Omaha, e)
    <3>1. new.state = "INIT" /\ ~new.has_update /\ (new.omaha <=> a = Omaha)
      BY DEF NewApp
    <3>2. new.omaha \in BOOLEAN
      BY DEF NewApp
    <3>3. new.omaha = (a = Omaha)
      BY <3>1, <3>2
    <3> HIDE DEF new
    <3> QED
      BY <1>2, <2>3, <3>1, <3>3 DEF new
  <2> QED
    BY <1>1, <2>1, <2>2, <2>4, SetupFacts
<1>6. CASE CheckForUpdate
  <2>1. /\ pc' = "check"
        /\ UNCHANGED <<apps, offline, allowed, cached, request, answer, dl, dlCancelled,
                       ran, installed>>
    BY <1>6 DEF CheckForUpdate, StartWork, check, history
  <2>2. Distinct'
    BY <2>1 DEF Distinct, WorkInv
  <2>3. \A b \in AppIds : app'[b] = app[b] \/ app'[b] = QueueUpdateCheck(app[b])
    BY <1>6 DEF CheckForUpdate, OnBundle
  <2>4. \A b \in AppIds :
          /\ app'[b].state \in {"INIT", "WAITING_TO_CHECK", "ERROR"} \/ app'[b] = app[b]
          /\ ~app'[b].has_update /\ app'[b].omaha = (b = Omaha)
    BY <1>2, <1>3, <2>3, QueueUpdateCheckResult, SMTT(30) DEF Kept
  <2> QED
    BY <2>1, <2>2, <2>4, SetupFacts
<1>7. ASSUME NEW s \in AppLists, NEW eula \in [AppIds -> {"NO", "YES"}],
             \/ CreateAllInstalledApps(s, eula)
             \/ UpdateAllApps(s, eula)
             \/ UpdateAllAppsFails(s, eula)
      PROVE  WorkInv'
  <2> DEFINE new(a) == NewApp(TRUE, a = Omaha, eula[a])
  <2>1. /\ pc' \in {"idle", "check"} /\ apps' = s
        /\ UNCHANGED <<offline, allowed, cached, request, answer, dl, dlCancelled, ran,
                       installed>>
    BY <1>1, <1>7 DEF CreateAllInstalledApps, UpdateAllApps, UpdateAllAppsFails,
       StartWork, worker, check, history
  <2>2. Distinct'
    <3>1. s \in Seq(AppIds)
      BY AppListType
    <3>2. DOMAIN s = 1..Len(s)
      BY <3>1, SMTT(30)
    <3>3. \A m, n \in DOMAIN s : s[m] = s[n] => m = n
      BY DEF AppLists
    <3> QED
      BY <2>1, <3>2, <3>3 DEF Distinct
  <2>3. \A a \in AppIds : app'[a] \in {app[a], new(a), QueueUpdateCheck(new(a))}
    BY <1>7 DEF CreateAllInstalledApps, UpdateAllApps, UpdateAllAppsFails,
       RegisteredApps
  <2>4. \A a \in AppIds : /\ new(a) \in App /\ new(a).state = "INIT"
                          /\ ~new(a).has_update /\ new(a).omaha = (a = Omaha)
    <3>1. \A a \in AppIds : new(a) \in App /\ new(a).state = "INIT"
      BY NewAppType DEF Eula
    <3>2. \A a \in AppIds : /\ ~new(a).has_update /\ new(a).omaha \in BOOLEAN
                            /\ new(a).omaha <=> a = Omaha
      BY DEF NewApp
    <3>3. \A a \in AppIds : new(a).omaha = (a = Omaha)
      BY <3>2
    <3> QED
      BY <3>1, <3>2, <3>3
  <2> HIDE DEF new
  <2>5. \A a \in AppIds :
          /\ QueueUpdateCheck(new(a)).state \in {"WAITING_TO_CHECK", "ERROR"}
          /\ Kept(new(a), QueueUpdateCheck(new(a)))
    BY <2>4, QueueUpdateCheckResult
  <2>6. \A a \in AppIds :
          /\ app'[a].state \in {"INIT", "WAITING_TO_CHECK", "ERROR"} \/ app'[a] = app[a]
          /\ ~app'[a].has_update /\ app'[a].omaha = (a = Omaha)
    BY <1>2, <2>3, <2>4, <2>5, SMTT(30) DEF Kept
  <2> QED
    BY <2>1, <2>2, <2>6, SetupFacts
<1>8. ASSUME NEW a \in AppIds, CreateApp(a) PROVE WorkInv'
  BY <1>5, <1>8 DEF CreateApp
<1>9. ASSUME NEW a \in AppIds, NEW eula \in {"NO", "YES"},
             CreateInstalledApp(a, eula)
      PROVE  WorkInv'
  BY <1>5, <1>9 DEF CreateInstalledApp
<1>10. ~Download /\ ~Install /\ ~StopBusy
  BY DEF Download, Install, StopBusy
<1> QED
  BY <1>4, <1>6, <1>7, <1>8, <1>9, <1>10 DEF Client

\* Download and Install queue every application of the bundle.
LEMMA QueueKeeps ==
  ASSUME IInv, WorkInv, Download \/ Install,
         \A a \in AppIds : Moves(app[a], app'[a])
  PROVE  WorkInv'
<1>1. /\ pc = "idle" /\ pc' = "impersonate" /\ bundle' = "Busy"
      /\ op' \in {"Download", "Install"}
      /\ UNCHANGED <<apps, offline, allowed, cached, request, answer, dl, dlCancelled, ran,
                     installed>>
  BY DEF Download, Install, StartWork, check, history, IInv, SingleCall
<1>2. \A a \in AppIds : app[a] \in App /\ (a \in allowed) \in BOOLEAN
  BY SMTT(30) DEF IInv, TypeOK
<1>3. \A n \in 1..Len(apps) : apps[n] \in AppIds
  BY ElementOfSeq DEF IInv, TypeOK
<1>4. \A a \in AppIds :
        \/ a \notin InBundle /\ app'[a] = app[a]
        \/ op' = "Download" /\ app'[a] = QueueDownload(app[a], a \in allowed)
        \/ op' = "Install" /\ app'[a] = QueueDownloadOrInstall(app[a], a \in allowed)
  BY DEF Download, Install, StartWork
<1>5. \A a \in AppIds :
        LET r == QueueDownload(app[a], a \in allowed)
        IN  /\ Kept(app[a], r)
            /\ r.state \in {"WAITING_TO_DOWNLOAD", "NO_UPDATE", "ERROR"}
            /\ r.state = "WAITING_TO_DOWNLOAD" => a \in allowed
  BY <1>2, DownloadEventsResult
<1>6. \A a \in AppIds :
        LET r == QueueDownloadOrInstall(app[a], a \in allowed)
        IN  /\ Kept(app[a], r)
            /\ r.state \in {"WAITING_TO_DOWNLOAD", "WAITING_TO_INSTALL",
                            "NO_UPDATE", "ERROR"}
            /\ r.state = "WAITING_TO_DOWNLOAD" => a \in allowed
  BY <1>2, InstallEventsResult
<1>7. \A a \in AppIds : Kept(app[a], app'[a])
  BY <1>4, <1>5, <1>6 DEF Kept
<1>8. OutsideStep
  <2>1. \A a \in AppIds :
          \/ app'[a].state = app[a].state
          \/ app'[a].state \in {"WAITING_TO_INSTALL", "NO_UPDATE", "ERROR"}
          \/ app'[a].state = "WAITING_TO_DOWNLOAD" /\ a \in allowed
    BY <1>4, <1>5, <1>6
  <2> QED
    BY <1>1, <1>7, <2>1
    DEF OutsideStep, Kept, LoopPcs, DownloadAppPcs, InstallPcs, InstallAppPcs
<1>9. \A n \in 1..Len(apps) : Queued(app[apps[n]].state)'
  <2>1. \A n \in 1..Len(apps) : apps[n] \in InBundle
    BY DEF InBundle
  <2> QED
    BY <1>1, <1>3, <1>4, <1>5, <1>6, <2>1 DEF Queued
<1>10. QueueInv' /\ PastInv'
  BY <1>1, <1>9 DEF QueueInv, PastInv, LoopPcs, DownloadAppPcs, InstallPcs,
     InstallAppPcs
<1>11. \A a \in AppIds : answer'[a] = "UPDATE" => a \in request'
  BY <1>1 DEF WorkInv, AnswerInv
<1> QED
  BY <1>1, <1>7, <1>8, <1>10, <1>11, OutsideWorker DEF CheckPcs

\* What only cancels applications keeps everything, wherever the work item is.
LEMMA CancelKeeps ==
  ASSUME IInv, WorkInv,
         UNCHANGED <<apps, offline, allowed, cached, op, pc, i, hr, request, answer, dl, ran,
                     installed>>,
         bundle' = bundle \/ bundle' = "Stopped", dlCancelled' \subseteq dl,
         Silent => \A a \in AppIds : app'[a].eula = app[a].eula,
         \A a \in AppIds :
           /\ app'[a].state = app[a].state \/ app'[a].state = "ERROR"
           /\ app'[a].is_update = app[a].is_update
           /\ app'[a].omaha = app[a].omaha
           /\ app'[a].has_update = app[a].has_update
  PROVE  WorkInv'
<1>1. \A n \in 1..Len(apps) : apps[n] \in AppIds
  BY ElementOfSeq DEF IInv, TypeOK
<1>2. \A n \in 1..Len(apps) :
        app'[apps[n]].state = app[apps[n]].state \/ app'[apps[n]].state = "ERROR"
  BY <1>1
<1>3. pc \in {"post", "queue"} \cup LoopPcs =>
        /\ A \in AppIds /\ i \in 1..Len(apps)
        /\ \A n \in 1..(i - 1) : n \in 1..Len(apps)
        /\ \A n \in (i + 1)..Len(apps) : n \in 1..Len(apps)
  <2>1. pc \in {"post", "queue"} \cup LoopPcs => A \in AppIds /\ i \in 1..Len(apps)
    BY CurrentApp, TypeSplit DEF IInv
  <2> QED
    BY <2>1, SMTT(30) DEF IInv, TypeOK
<1>4. UNCHANGED <<A, InBundle, IsOmahaUpdateAvailable>>
  BY DEF A, InBundle, IsOmahaUpdateAvailable
<1>5. Distinct'
  BY DEF Distinct, WorkInv
<1>6. QueueInv'
  <2>1. \A n \in 1..Len(apps) : Queued(app[apps[n]].state) => Queued(app[apps[n]].state)'
    BY <1>2 DEF Queued
  <2>2. pc = "download" => (Queued(app[A].state) => Queued(app[A].state)')
    BY <1>3, <1>4 DEF Queued, LoopPcs
  <2> QED
    BY <1>3, <2>1, <2>2 DEF WorkInv, QueueInv
<1>7. PastInv'
  BY <1>2, <1>3 DEF WorkInv, PastInv, Terminal
<1>8. AtInv'
  BY <1>3, <1>4 DEF WorkInv, AtInv, LoopPcs, DownloadAppPcs, InstallPcs, InstallAppPcs
<1>9. DownloadStateOwned'
  BY <1>4 DEF WorkInv, DownloadStateOwned
<1>10. CacheInv'
  BY <1>4 DEF WorkInv, CacheInv, DownloadedIsCached
<1>11. AllowedInv'
  BY <1>4 DEF WorkInv, AllowedInv, Reached
<1>12. RunInv'
  BY <1>4 DEF WorkInv, RunInv, InstallerRunsOnce, Terminal
<1>13. EarlyInv' /\ AnswerInv'
  BY DEF WorkInv, EarlyInv, AnswerInv
<1>14. Omaha \in InBundle => Omaha \in AppIds
  BY <1>1 DEF InBundle
<1>15. DeferInv'
  BY <1>1, <1>2, <1>4, <1>14 DEF WorkInv, DeferInv, OmahaComes
<1>16. \A a \in AppIds : Blocked(a)' => Blocked(a)
  BY <1>4, <1>14 DEF Blocked
<1>17. pc \in ServedPcs => A \in AppIds
  BY <1>3 DEF ServedPcs, LoopPcs, InstallPcs
<1>18. BlockedInv'
  BY <1>4, <1>16, <1>17 DEF WorkInv, BlockedInv
<1>19. EulaInv'
  BY <1>4, <1>17 DEF WorkInv, EulaInv
<1> QED
  BY <1>5, <1>6, <1>7, <1>8, <1>9, <1>10, <1>11, <1>12, <1>13, <1>15, <1>18, <1>19
  DEF WorkInv

-----------------------------------------------------------------------------
(* The theorems.                                                           *)

\* The invariant holds of a bundle that was just created.
LEMMA InitWork == Init => WorkInv
<1> SUFFICES ASSUME Init PROVE WorkInv
  OBVIOUS
<1>1. /\ pc = "idle" /\ Len(apps) = 0 /\ dl = {} /\ dlCancelled = {}
      /\ \A a \in AppIds : ran[a] = 0 /\ answer[a] = "ERROR"
  BY DEF Init, NoAnswer
<1>2. \A a \in AppIds : app[a].state = "INIT" /\ ~app[a].has_update
  BY DEF Init, NewApp
<1>3. \A a \in AppIds : app[a].omaha = (a = Omaha)
  BY DEF Init, NewApp
<1>4. \A n \in 1..0 : FALSE
  BY SMTT(30)
<1>5. 0 <= 1
  BY SMTT(30)
<1>6. Distinct /\ QueueInv /\ PastInv /\ AtInv
  BY <1>1, <1>4 DEF Distinct, QueueInv, PastInv, AtInv, LoopPcs, DownloadAppPcs,
     InstallPcs, InstallAppPcs
<1>7. DownloadStateOwned /\ CacheInv /\ AllowedInv
  BY <1>1, <1>2 DEF DownloadStateOwned, CacheInv, DownloadedIsCached, AllowedInv,
     Reached, ServedPcs, DownloadAppPcs, InstallAppPcs
<1>8. RunInv
  BY <1>1, <1>2, <1>5 DEF RunInv, InstallerRunsOnce
<1>9. EarlyInv /\ AnswerInv
  BY <1>1, <1>2, <1>3 DEF EarlyInv, AnswerInv
<1>10. DeferInv /\ BlockedInv /\ EulaInv
  BY <1>1, <1>2, <1>4 DEF DeferInv, BlockedInv, EulaInv, Silent, Init, ServedPcs,
     DownloadAppPcs, InstallAppPcs
<1> QED
  BY <1>6, <1>7, <1>8, <1>9, <1>10 DEF WorkInv

\* Every step keeps the invariant of the work item.
LEMMA StepWork == IInv /\ WorkInv /\ [Next]_vars => WorkInv'
<1> SUFFICES ASSUME IInv, WorkInv, [Next]_vars PROVE WorkInv'
  OBVIOUS
<1>1. IInv' /\ \A a \in AppIds : Moves(app[a], app'[a])
  BY StepInvariant
<1>2. CASE Worker
  BY <1>2, WorkerKeeps
<1>3. dlCancelled \subseteq dl
  BY DEF WorkInv, DownloadStateOwned
<1>4. CASE StopBusy
  <2>1. \A a \in AppIds : app'[a] = app[a] \/ app'[a] = Cancel(app[a])
    BY <1>4 DEF StopBusy, OnBundle
  <2>2. \A a \in AppIds : app[a] \in App
    BY DEF IInv, TypeOK
  <2>3. \A a \in AppIds :
          /\ app'[a].state = app[a].state \/ app'[a].state = "ERROR"
          /\ Kept(app[a], app'[a])
    BY <2>1, <2>2, CancelResult DEF Kept
  <2> QED
    BY <1>3, <1>4, <2>3, CancelKeeps DEF StopBusy, check, history, Kept
<1>5. ASSUME NEW a \in AppIds, NEW eula \in {"NO", "YES"},
             PutIsEulaAccepted(a, eula)
      PROVE  WorkInv'
  <2>1. app \in [AppIds -> App]
    BY DEF IInv, TypeOK
  <2>2. app' = [app EXCEPT ![a] = [app[a] EXCEPT !.eula = eula]]
    BY <1>5 DEF PutIsEulaAccepted
  <2>3. LET r == [app[a] EXCEPT !.eula = eula]
        IN  /\ r.state = app[a].state /\ r.is_update = app[a].is_update
            /\ r.omaha = app[a].omaha /\ r.has_update = app[a].has_update
    BY <2>1 DEF App
  <2>4. \A b \in AppIds :
          /\ app'[b].state = app[b].state /\ app'[b].is_update = app[b].is_update
          /\ app'[b].omaha = app[b].omaha /\ app'[b].has_update = app[b].has_update
    BY <2>1, <2>2, <2>3
  <2>5. ~Silent
    BY <1>5 DEF PutIsEulaAccepted, Silent
  <2> QED
    BY <1>3, <1>5, <2>4, <2>5, CancelKeeps
    DEF PutIsEulaAccepted, client, worker, check, history
<1>6. CASE Download \/ Install
  BY <1>1, <1>6, QueueKeeps
<1>7. CASE Client /\ ~StopBusy /\ ~Download /\ ~Install
           /\ ~\E a \in AppIds, eula \in {"NO", "YES"} : PutIsEulaAccepted(a, eula)
  <2>1. bundle \in {"Init", "Initialized"}
    BY <1>7 DEF Client, Initialize, CheckForUpdate, Pause, StopInitialized,
       CreateApp, CreateInstalledApp, AddApp, CreateAllInstalledApps,
       UpdateAllApps, UpdateAllAppsFails
  <2> QED
    BY <1>1, <1>7, <2>1, SetupKeeps
<1>8. CASE UNCHANGED vars
  BY <1>3, <1>8, CancelKeeps DEF vars, client, check, history
<1> QED
  BY <1>2, <1>4, <1>5, <1>6, <1>7, <1>8 DEF Next

\* The assertions of worker.cc on application states hold wherever a Stop comes:
\* what the check leaves behind, what the download loop starts from, and that
\* every application the install loop has passed is in a terminal state.
THEOREM WorkerAssertionsHold == Spec => []WorkerAssertions
<1>1. WorkInv => WorkerAssertions
  BY DEF WorkInv, QueueInv, PastInv, WorkerAssertions, Queued
<1> QED
  BY <1>1, InitInvariant, StepInvariant, InitWork, StepWork, PTL DEF Spec

\* The download manager holds a State for exactly the application it is
\* downloading, whatever order Stop, failures and the loop come in.
THEOREM DownloadStateIsOwned == Spec => []DownloadStateOwned
<1>1. WorkInv => DownloadStateOwned
  BY DEF WorkInv
<1> QED
  BY <1>1, InitInvariant, StepInvariant, InitWork, StepWork, PTL DEF Spec

\* An application that is past its download has its packages in the cache,
\* across the calls of the bundle.
THEOREM DownloadedStaysCached == Spec => []DownloadedIsCached
<1>1. WorkInv => DownloadedIsCached
  BY DEF WorkInv, CacheInv
<1> QED
  BY <1>1, InitInvariant, StepInvariant, InitWork, StepWork, PTL DEF Spec

\* However calls, retries and cancellations follow each other, an installer is
\* started at most once per application, and INSTALL_COMPLETE means that it ran
\* and succeeded.
THEOREM OneInstallerRun == Spec => []InstallerRunsOnce
<1>1. WorkInv => InstallerRunsOnce
  BY DEF WorkInv, RunInv
<1> QED
  BY <1>1, InitInvariant, StepInvariant, InitWork, StepWork, PTL DEF Spec

\* What BlockedInv says of the applications of the bundle.
LEMMA OmahaBlocks == IInv /\ WorkInv => OmahaUpdatesFirst
<1> SUFFICES ASSUME IInv, WorkInv, NEW a \in InBundle \ {Omaha}, Omaha \in InBundle,
                    app[Omaha].has_update, app[a].is_update
             PROVE  ran[a] = 0 /\ a \notin dl
  BY DEF OmahaUpdatesFirst
<1>1. \A n \in 1..Len(apps) : apps[n] \in AppIds
  BY ElementOfSeq DEF IInv, TypeOK
<1>2. a \in AppIds /\ Blocked(a)
  BY <1>1 DEF InBundle, Blocked
<1> QED
  BY <1>2 DEF WorkInv, BlockedInv, DownloadStateOwned, ServedPcs

\* While Omaha itself has an update in the bundle, no other update of the bundle
\* is downloaded or installed.
THEOREM OmahaComesFirst == Spec => []OmahaUpdatesFirst
BY OmahaBlocks, InitInvariant, StepInvariant, InitWork, StepWork, PTL DEF Spec

\* The half of PolicyRespected that holds for every client: no application that
\* Group Policy disallows reaches a download or an installer.
THEOREM GroupPolicyRespected ==
  Spec => [](pc \in {"fetch", "put", "copy"} \cup InstallAppPcs => A \in allowed)
<1>1. WorkInv => (pc \in {"fetch", "put", "copy"} \cup InstallAppPcs => A \in allowed)
  BY DEF WorkInv, AllowedInv, ServedPcs, DownloadAppPcs
<1> QED
  BY <1>1, InitInvariant, StepInvariant, InitWork, StepWork, PTL DEF Spec

\* For a client that neither overwrites what was read about the EULA nor installs
\* offline, no application whose EULA is not accepted reaches them either.
THEOREM SilentClientRespectsPolicy ==
  ASSUME Silent PROVE Spec => []PolicyRespected
<1>1. WorkInv => PolicyRespected
  BY DEF WorkInv, AllowedInv, EulaInv, PolicyRespected, ServedPcs, DownloadAppPcs
<1> QED
  BY <1>1, InitInvariant, StepInvariant, InitWork, StepWork, PTL DEF Spec

-----------------------------------------------------------------------------
(* What the check and the queueing find.                                   *)

\* The states of an application that the results have not reached.
BeforeResult == {"WAITING_TO_CHECK", "CHECKING", "ERROR"}

\* A bundle is checked once, and queued by UpdateAllApps before anything of it is
\* installed.
PhaseInv ==
  /\ bundle \in {"Init", "Initialized"} => \A a \in AppIds : app[a].state = "INIT"
  /\ pc \in {"check", "pre", "send"} =>
       \A n \in 1..Len(apps) : app[apps[n]].state \in BeforeResult
  /\ pc = "post" => \A n \in i..Len(apps) : app[apps[n]].state \in BeforeResult
  /\ pc \in {"offline", "queue"} =>
       \A n \in 1..Len(apps) : app[apps[n]].state # "INSTALL_COMPLETE"

\* One application of the list changes.
LEMMA OneChanges ==
  ASSUME IInv, WorkInv, pc \in {"pre", "post", "queue"} \cup LoopPcs,
         NEW r, app' = [app EXCEPT ![A] = r]
  PROVE  /\ i \in 1..Len(apps) /\ A = apps[i] /\ A \in AppIds /\ app[A] \in App
         /\ app'[A] = r /\ \A b \in AppIds \ {A} : app'[b] = app[b]
         /\ \A n \in 1..Len(apps) : n # i => app'[apps[n]] = app[apps[n]]
<1>1. A \in AppIds /\ app \in [AppIds -> App] /\ i \in 1..Len(apps)
  BY CurrentApp, TypeSplit DEF IInv
<1>2. app'[A] = r /\ \A b \in AppIds \ {A} : app'[b] = app[b]
  BY <1>1
<1>3. \A n \in 1..Len(apps) : n # i => app'[apps[n]] = app[apps[n]]
  BY <1>1, <1>2, OtherApps DEF IInv, WorkInv
<1> QED
  BY <1>1, <1>2, <1>3 DEF A

\* A worker that takes a step has a work item.
LEMMA WorkerRuns == ASSUME Worker PROVE pc # "idle"
  BY DEF Worker, BeginCheck, DoPreUpdateCheck, DoUpdateCheck, DoPostUpdateCheck,
         CacheOfflinePackages, QueueApp, BeginDownload, DispatchDownload,
         CreateStateForApp, AppDownloading, FetchPackages, CachePackage,
         AppDownloadComplete, AppMarkReadyToInstall, AppDownloadError,
         DeleteStateForApp, AppQueueInstall, DispatchInstall, CopyPackages,
         AppInstalling, RunInstaller, ReportResult, CompleteAsyncCall

\* The list of applications and the bundle are not the worker's, but for
\* CompleteAsyncCall.
LEMMA WorkerTouches ==
  ASSUME Worker
  PROVE  /\ UNCHANGED apps
         /\ UNCHANGED bundle \/ CompleteAsyncCall
  BY DEF client, Worker, BeginCheck, DoPreUpdateCheck, DoUpdateCheck, DoPostUpdateCheck,
         CacheOfflinePackages, QueueApp, BeginDownload, DispatchDownload,
         CreateStateForApp, AppDownloading, FetchPackages, CachePackage,
         AppDownloadComplete, AppMarkReadyToInstall, AppDownloadError,
         DeleteStateForApp, AppQueueInstall, DispatchInstall, CopyPackages,
         AppInstalling, RunInstaller, ReportResult, CompleteAsyncCall

\* The steps of the work item.
LEMMA WorkerPhase ==
  ASSUME IInv, IInv', WorkInv, PhaseInv, Worker PROVE PhaseInv'
<1> USE DEF Goto
<1>1. bundle \in {"Busy", "Stopped"} /\ bundle' \in {"Busy", "Ready", "Stopped"}
  <2>1. bundle \in {"Busy", "Stopped"}
    BY WorkerRuns DEF IInv, SingleCall
  <2> QED
    BY <2>1, WorkerTouches DEF CompleteAsyncCall
<1>2. Len(apps) \in Nat
  BY SMTT(30) DEF IInv, TypeOK
<1>3. ASSUME pc' \notin {"check", "pre", "send", "post", "offline", "queue"}
      PROVE  PhaseInv'
  BY <1>1, <1>3 DEF PhaseInv
<1>4. CASE BeginCheck \/ DoUpdateCheck \/ CacheOfflinePackages
  <2>1. app' = app /\ apps' = apps
    BY <1>4 DEF BeginCheck, DoUpdateCheck, CacheOfflinePackages, client
  <2>2. \/ pc = "check" /\ pc' \in {"pre", "send", "queue", "impersonate", "complete"}
        \/ pc = "send" /\ i' = 1 /\ pc' = "post"
        \/ pc = "send" /\ apps = <<>> /\ pc' = "offline"
        \/ pc = "offline" /\ pc' \in {"queue", "impersonate", "complete"}
    BY <1>4 DEF BeginCheck, DoUpdateCheck, CacheOfflinePackages, EnterLoop
  <2>3. apps = <<>> => \A n \in 1..Len(apps) : FALSE
    BY SMTT(30)
  <2>4. \A n \in 1..Len(apps) : app[apps[n]].state \in BeforeResult =>
                                  app[apps[n]].state # "INSTALL_COMPLETE"
    BY DEF BeforeResult
  <2> QED
    BY <1>1, <2>1, <2>2, <2>3, <2>4 DEF PhaseInv
<1>5. CASE DoPreUpdateCheck
  <2> DEFINE r == PreUpdateCheck(app[A], A \in allowed, auto, offline)
  <2>1. /\ app' = [app EXCEPT ![A] = r] /\ pc = "pre" /\ pc' \in {"pre", "send"}
        /\ apps' = apps
    BY <1>5 DEF DoPreUpdateCheck, Loop, client
  <2>2. /\ i \in 1..Len(apps) /\ A = apps[i] /\ app[A] \in App /\ app'[A] = r
        /\ \A n \in 1..Len(apps) : n # i => app'[apps[n]] = app[apps[n]]
    BY <2>1, OneChanges
  <2>3. r.state \in {"CHECKING", "ERROR"}
    BY <2>2, PreUpdateCheckResult, SMTT(30)
  <2> HIDE DEF r
  <2>4. \A n \in 1..Len(apps) : app'[apps[n]].state \in BeforeResult
    BY <2>1, <2>2, <2>3 DEF PhaseInv, BeforeResult
  <2> QED
    BY <1>1, <2>1, <2>4 DEF PhaseInv
<1>6. CASE DoPostUpdateCheck
  <2>1. PICK built \in Succeeds("response") :
          app' = [app EXCEPT ![A] = PostUpdateCheck(@, hr, answer[A],
                                        IsOmahaUpdateAvailable, built)]
    BY <1>6 DEF DoPostUpdateCheck
  <2> DEFINE r == PostUpdateCheck(app[A], hr, answer[A], IsOmahaUpdateAvailable, built)
  <2>2. app' = [app EXCEPT ![A] = r] /\ pc = "post" /\ Loop("post", "offline") /\ apps' = apps
    BY <1>6, <2>1 DEF DoPostUpdateCheck, client
  <2>3. /\ i \in 1..Len(apps) /\ A = apps[i] /\ A \in AppIds /\ app[A] \in App
        /\ app'[A] = r
        /\ \A n \in 1..Len(apps) : n # i => app'[apps[n]] = app[apps[n]]
    BY <2>2, OneChanges
  <2>4. r.state \in {"UPDATE_AVAILABLE", "NO_UPDATE", "ERROR"}
    <3>1. /\ IsOmahaUpdateAvailable \in BOOLEAN /\ built \in BOOLEAN
          /\ answer[A] \in Answers /\ hr \in Codes
      BY <2>3 DEF IsOmahaUpdateAvailable, Succeeds, IInv, TypeOK
    <3> QED
      BY <2>3, <3>1, PostUpdateCheckResult, SMTT(30)
  <2> HIDE DEF r
  <2>5. CASE i < Len(apps)
    <3>1. pc' = "post" /\ i' = i + 1
      BY <2>2, <2>5 DEF Loop
    <3>2. \A n \in (i + 1)..Len(apps) : n \in i..Len(apps) /\ n \in 1..Len(apps) /\ n # i
      BY <1>2, <2>3, SMTT(30)
    <3>3. \A n \in (i + 1)..Len(apps) : app'[apps[n]].state \in BeforeResult
      BY <2>2, <2>3, <3>2 DEF PhaseInv
    <3> QED
      BY <1>1, <2>2, <3>1, <3>3 DEF PhaseInv
  <2>6. CASE ~(i < Len(apps))
    <3>1. pc' = "offline"
      BY <2>2, <2>6 DEF Loop
    <3>2. \A n \in 1..Len(apps) : n = i \/ (n \in 1..(i - 1) /\ n # i)
      BY <1>2, <2>3, <2>6, SMTT(30)
    <3>3. \A n \in 1..(i - 1) :
            app[apps[n]].state \in {"UPDATE_AVAILABLE", "NO_UPDATE", "ERROR"}
      BY <2>2 DEF WorkInv, PastInv
    <3>4. \A n \in 1..Len(apps) : app'[apps[n]].state # "INSTALL_COMPLETE"
      BY <2>3, <2>4, <3>2, <3>3
    <3> QED
      BY <1>1, <2>2, <3>1, <3>4 DEF PhaseInv
  <2> QED
    BY <2>5, <2>6
<1>7. CASE QueueApp
  <2> DEFINE r == QueueDownloadOrInstall(app[A], A \in allowed)
  <2>1. /\ app' = [app EXCEPT ![A] = r] /\ pc = "queue" /\ pc' \in {"queue", "impersonate"}
        /\ apps' = apps
    BY <1>7 DEF QueueApp, Loop, client
  <2>2. /\ i \in 1..Len(apps) /\ A = apps[i] /\ app[A] \in App /\ app'[A] = r
        /\ \A n \in 1..Len(apps) : n # i => app'[apps[n]] = app[apps[n]]
    BY <2>1, OneChanges
  <2>3. r.state # "INSTALL_COMPLETE"
    <3>1. (A \in allowed) \in BOOLEAN
      BY SMTT(30)
    <3> QED
      BY <2>2, <3>1, InstallEventsResult
  <2> HIDE DEF r
  <2>4. \A n \in 1..Len(apps) : app'[apps[n]].state # "INSTALL_COMPLETE"
    BY <2>1, <2>2, <2>3 DEF PhaseInv
  <2> QED
    BY <1>1, <2>1, <2>4 DEF PhaseInv
<1>8. CASE \/ BeginDownload \/ CompleteAsyncCall \/ DispatchDownload
           \/ CreateStateForApp \/ AppDownloading \/ FetchPackages \/ CachePackage
           \/ AppDownloadComplete \/ AppMarkReadyToInstall \/ AppDownloadError
           \/ DeleteStateForApp \/ AppQueueInstall \/ DispatchInstall \/ CopyPackages
           \/ AppInstalling \/ RunInstaller \/ ReportResult
  <2>1. pc' \notin {"check", "pre", "send", "post", "offline", "queue"}
    BY <1>8 DEF BeginDownload, CompleteAsyncCall, DispatchDownload,
       CreateStateForApp, AppDownloading, FetchPackages, CachePackage,
       AppDownloadComplete, AppMarkReadyToInstall, AppDownloadError,
       DeleteStateForApp, AppQueueInstall, DispatchInstall, CopyPackages,
       AppInstalling, RunInstaller, ReportResult, AfterDownload, Loop, EnterLoop
  <2> QED
    BY <1>3, <2>1
<1> QED
  BY <1>4, <1>5, <1>6, <1>7, <1>8 DEF Worker

\* A client call that leaves every application as it is or cancels it.
LEMMA CancelPhase ==
  ASSUME IInv, PhaseInv, UNCHANGED <<apps, pc, i>>,
         \A a \in AppIds : app'[a].state = app[a].state \/ app'[a].state = "ERROR",
         bundle' \in {"Init", "Initialized"} =>
           /\ bundle \in {"Init", "Initialized"}
           /\ \A a \in AppIds : app'[a].state = app[a].state
  PROVE  PhaseInv'
<1>1. \A n \in 1..Len(apps) : apps[n] \in AppIds
  BY ElementOfSeq DEF IInv, TypeOK
<1>2. pc = "post" => \A n \in i..Len(apps) : n \in 1..Len(apps)
  <2>1. pc = "post" => i \in 1..Len(apps) /\ Len(apps) \in Nat
    BY SMTT(30) DEF IInv, TypeOK
  <2> QED
    BY <2>1, SMTT(30)
<1>3. \A n \in 1..Len(apps) :
        app'[apps[n]].state = app[apps[n]].state \/ app'[apps[n]].state = "ERROR"
  BY <1>1
<1> QED
  BY <1>2, <1>3 DEF PhaseInv, BeforeResult

\* The calls of the client.
LEMMA ClientPhase ==
  ASSUME IInv, IInv', PhaseInv, Client PROVE PhaseInv'
<1>1. app \in [AppIds -> App]
  BY DEF IInv, TypeOK
<1>2. bundle \in {"Init", "Initialized"} =>
        pc = "idle" /\ \A a \in AppIds : app[a].state = "INIT"
  BY DEF IInv, SingleCall, PhaseInv
<1>3. ASSUME pc' = "idle", \A a \in AppIds : app'[a].state = "INIT" PROVE PhaseInv'
  BY <1>3 DEF PhaseInv
<1>4. CASE Initialize \/ Pause \/ StopInitialized
  BY <1>2, <1>3, <1>4 DEF Initialize, Pause, StopInitialized, worker
<1>5. ASSUME NEW a \in AppIds, NEW u, NEW e, AddApp(a, NewApp(u, a = Omaha, e))
      PROVE  PhaseInv'
  <2>1. \A b \in AppIds : app'[b] = app[b] \/ app'[b] = NewApp(u, a = Omaha, e)
    BY <1>1, <1>5 DEF AddApp
  <2>2. NewApp(u, a = Omaha, e).state = "INIT"
    BY DEF NewApp
  <2> QED
    BY <1>2, <1>3, <1>5, <2>1, <2>2 DEF AddApp, worker
<1>6. CASE CheckForUpdate
  <2>1. pc' = "check" /\ apps' = apps /\ bundle' = "Busy"
    BY <1>6 DEF CheckForUpdate, StartWork
  <2>2. \A n \in 1..Len(apps) : apps[n] \in AppIds /\ apps[n] \in InBundle
    BY ElementOfSeq DEF IInv, TypeOK, InBundle
  <2>3. \A n \in 1..Len(apps) : app'[apps[n]] = QueueUpdateCheck(app[apps[n]])
    BY <1>6, <2>2 DEF CheckForUpdate, OnBundle
  <2>4. \A a \in AppIds : QueueUpdateCheck(app[a]).state \in BeforeResult
    BY <1>1, QueueUpdateCheckResult DEF BeforeResult
  <2> QED
    BY <2>1, <2>2, <2>3, <2>4 DEF PhaseInv
<1>7. ASSUME NEW s \in AppLists, NEW eula \in [AppIds -> {"NO", "YES"}],
             \/ CreateAllInstalledApps(s, eula)
             \/ UpdateAllApps(s, eula)
             \/ UpdateAllAppsFails(s, eula)
      PROVE  PhaseInv'
  <2> DEFINE new(a) == NewApp(TRUE, a = Omaha, eula[a])
  <2>1. \A a \in AppIds : new(a) \in App /\ new(a).state = "INIT"
    BY NewAppType DEF Eula
  <2>2. CreateAllInstalledApps(s, eula) \/ UpdateAllAppsFails(s, eula) =>
          \A a \in AppIds : app'[a] = app[a] \/ app'[a] = new(a)
    BY DEF CreateAllInstalledApps, UpdateAllAppsFails, RegisteredApps
  <2>3. UpdateAllApps(s, eula) =>
          /\ pc' = "check" /\ apps' = s /\ bundle' = "Busy"
          /\ \A a \in AppIds : (\E n \in DOMAIN s : s[n] = a) =>
               app'[a] = QueueUpdateCheck(new(a))
    BY DEF UpdateAllApps, StartWork, RegisteredApps
  <2> HIDE DEF new
  <2>4. \A a \in AppIds : QueueUpdateCheck(new(a)).state \in BeforeResult
    BY <2>1, QueueUpdateCheckResult DEF BeforeResult
  <2>5. CASE UpdateAllApps(s, eula)
    <3>1. s \in Seq(AppIds)
      BY AppListType
    <3>2. DOMAIN s = 1..Len(s) /\ \A n \in 1..Len(s) : s[n] \in AppIds
      BY <3>1, SMTT(30)
    <3>3. \A n \in 1..Len(apps') : app'[apps'[n]].state \in BeforeResult
      BY <2>3, <2>4, <2>5, <3>2, SMTT(30)
    <3> QED
      BY <2>3, <2>5, <3>3 DEF PhaseInv
  <2>6. CASE CreateAllInstalledApps(s, eula) \/ UpdateAllAppsFails(s, eula)
    <3>1. bundle = "Initialized" /\ pc' = pc
      BY <2>6 DEF CreateAllInstalledApps, UpdateAllAppsFails, worker
    <3>2. \A a \in AppIds : app'[a].state = "INIT"
      BY <1>2, <2>1, <2>2, <2>6, <3>1
    <3> QED
      BY <1>2, <1>3, <3>1, <3>2
  <2> QED
    BY <1>7, <2>5, <2>6
<1>8. ASSUME NEW a \in AppIds, NEW eula, PutIsEulaAccepted(a, eula) PROVE PhaseInv'
  <2>1. UNCHANGED <<bundle, pc, i, apps>>
    BY <1>8 DEF PutIsEulaAccepted, client, worker
  <2>2. \A b \in AppIds : app'[b].state = app[b].state
    BY <1>1, <1>8 DEF PutIsEulaAccepted, App
  <2> QED
    BY <2>1, <2>2, CancelPhase
<1>9. CASE StopBusy
  <2>1. UNCHANGED <<pc, i, apps>> /\ bundle' = "Stopped"
    BY <1>9 DEF StopBusy
  <2>2. \A a \in AppIds : app'[a] = app[a] \/ app'[a] = Cancel(app[a])
    BY <1>9 DEF StopBusy, OnBundle
  <2>3. \A a \in AppIds : app'[a].state = app[a].state \/ app'[a].state = "ERROR"
    BY <1>1, <2>2, CancelResult
  <2> QED
    BY <2>1, <2>3, CancelPhase
<1>10. CASE Download \/ Install
  BY <1>10 DEF Download, Install, StartWork, PhaseInv
<1>11. ASSUME NEW a \in AppIds, CreateApp(a) PROVE PhaseInv'
  BY <1>5, <1>11 DEF CreateApp
<1>12. ASSUME NEW a \in AppIds, NEW eula \in {"NO", "YES"}, CreateInstalledApp(a, eula)
       PROVE  PhaseInv'
  BY <1>5, <1>12 DEF CreateInstalledApp
<1> QED
  BY <1>4, <1>6, <1>7, <1>8, <1>9, <1>10, <1>11, <1>12 DEF Client

\* Initially.
LEMMA InitPhase == Init => PhaseInv
<1> SUFFICES ASSUME Init PROVE PhaseInv
  OBVIOUS
<1>1. pc = "idle" /\ \A a \in AppIds : app[a].state = "INIT"
  BY DEF Init, NewApp
<1> QED
  BY <1>1 DEF PhaseInv

\* Every step.
LEMMA StepPhase == IInv /\ WorkInv /\ PhaseInv /\ [Next]_vars => PhaseInv'
<1> SUFFICES ASSUME IInv, WorkInv, PhaseInv, [Next]_vars PROVE PhaseInv'
  OBVIOUS
<1>1. IInv'
  BY StepInvariant
<1>2. CASE UNCHANGED vars
  BY <1>2 DEF vars, client, PhaseInv
<1> QED
  BY <1>1, <1>2, WorkerPhase, ClientPhase DEF Next

\* What the states no event leads out of meet of the events of the work item.
LEMMA EndIgnores ==
  ASSUME NEW r \in App, NEW allow \in BOOLEAN, r.state = "NO_UPDATE"
  PROVE  /\ QueueDownloadOrInstall(r, allow) = r /\ QueueInstall(r) = r
         /\ Unhandled(r, "Download") = r /\ Unhandled(r, "Install") = r
<1>1. {"QueueDownloadOrInstall", "QueueInstall", "Download", "Install"}
        \subseteq Ignores(r.state)
  BY DEF Ignores, NoUpdateIgnores
<1> QED
  BY <1>1 DEF QueueDownloadOrInstall, QueueInstall, Unhandled

\* The work item leaves an application that has ended as it is, and finds that
\* there is no update only when it hands out the results of the check.
LEMMA EndStays ==
  ASSUME IInv, WorkInv, PhaseInv, Worker, NEW a \in AppIds
  PROVE  /\ app[a].state \in {"NO_UPDATE", "INSTALL_COMPLETE"} => app'[a] = app[a]
         /\ ~DoPostUpdateCheck /\ app'[a].state = "NO_UPDATE" =>
              app[a].state = "NO_UPDATE"
<1> DEFINE Goal == /\ app[a].state \in {"NO_UPDATE", "INSTALL_COMPLETE"} =>
                        app'[a] = app[a]
                   /\ ~DoPostUpdateCheck /\ app'[a].state = "NO_UPDATE" =>
                        app[a].state = "NO_UPDATE"
<1> USE DEF LoopPcs, DownloadAppPcs, InstallPcs, InstallAppPcs
<1>1. ASSUME app' = app PROVE Goal
  BY <1>1
<1>2. ASSUME pc \in {"pre", "post", "queue"} \cup LoopPcs, NEW r,
             app' = [app EXCEPT ![A] = r],
             app[A].state \in {"NO_UPDATE", "INSTALL_COMPLETE"} => r = app[A],
             pc # "post" /\ r.state = "NO_UPDATE" => app[A].state = "NO_UPDATE"
      PROVE  Goal
  <2>1. app'[A] = r /\ \A b \in AppIds \ {A} : app'[b] = app[b]
    BY <1>2, OneChanges
  <2>2. DoPostUpdateCheck <=> pc = "post"
    BY DEF Worker, BeginCheck, DoPreUpdateCheck, DoUpdateCheck, DoPostUpdateCheck,
       CacheOfflinePackages, QueueApp, BeginDownload, DispatchDownload,
       CreateStateForApp, AppDownloading, FetchPackages, CachePackage,
       AppDownloadComplete, AppMarkReadyToInstall, AppDownloadError,
       DeleteStateForApp, AppQueueInstall, DispatchInstall, CopyPackages,
       AppInstalling, RunInstaller, ReportResult, CompleteAsyncCall
  <2> QED
    BY <1>2, <2>1, <2>2
<1> SUFFICES Goal
  OBVIOUS
<1> HIDE DEF Goal
<1>3. pc \in {"pre", "post", "queue"} \cup LoopPcs => A \in AppIds /\ app[A] \in App
  BY CurrentApp, TypeSplit DEF IInv
<1>4. hr \in Codes /\ (A \in allowed) \in BOOLEAN
  BY SMTT(30) DEF IInv, TypeOK
<1>5. CASE \/ BeginCheck \/ DoUpdateCheck \/ CacheOfflinePackages \/ BeginDownload
           \/ CompleteAsyncCall \/ CreateStateForApp \/ FetchPackages
           \/ CachePackage \/ DeleteStateForApp \/ RunInstaller
  BY <1>1, <1>5 DEF BeginCheck, DoUpdateCheck, CacheOfflinePackages, BeginDownload,
     CompleteAsyncCall, CreateStateForApp, FetchPackages, CachePackage,
     DeleteStateForApp, RunInstaller
<1>6. CASE DoPreUpdateCheck
  <2> DEFINE r == PreUpdateCheck(app[A], A \in allowed, auto, offline)
  <2>1. app' = [app EXCEPT ![A] = r] /\ pc = "pre"
    BY <1>6 DEF DoPreUpdateCheck
  <2>2. i \in 1..Len(apps) /\ A = apps[i]
    BY <2>1, CurrentApp, TypeSplit DEF IInv, A
  <2>3. app[A].state \in BeforeResult
    BY <2>1, <2>2 DEF PhaseInv
  <2>4. r.state \in {"CHECKING", "ERROR"}
    BY <1>3, <2>1, PreUpdateCheckResult, SMTT(30)
  <2> HIDE DEF r
  <2> QED
    BY <1>2, <2>1, <2>3, <2>4 DEF BeforeResult
<1>7. CASE DoPostUpdateCheck
  <2>1. pc = "post" /\ \E r : app' = [app EXCEPT ![A] = r]
    BY <1>7 DEF DoPostUpdateCheck
  <2>2. i \in 1..Len(apps) /\ A = apps[i] /\ Len(apps) \in Nat
    BY <2>1, CurrentApp, TypeSplit, SMTT(30) DEF IInv, A, TypeOK
  <2>3. i \in i..Len(apps)
    BY <2>2, SMTT(30)
  <2>4. app[A].state \in BeforeResult
    BY <2>1, <2>2, <2>3 DEF PhaseInv
  <2> QED
    BY <1>2, <2>1, <2>4 DEF BeforeResult
<1>8. CASE QueueApp
  <2> DEFINE r == QueueDownloadOrInstall(app[A], A \in allowed)
  <2>1. app' = [app EXCEPT ![A] = r] /\ pc = "queue"
    BY <1>8 DEF QueueApp
  <2>2. app[A].state # "INSTALL_COMPLETE"
    BY <2>1, CurrentApp, TypeSplit DEF IInv, A, PhaseInv
  <2>3. /\ r.state = "NO_UPDATE" => app[A].state = "NO_UPDATE"
        /\ app[A].state = "NO_UPDATE" => r = app[A]
    BY <1>3, <1>4, <2>1, EndIgnores, InstallEventsResult
  <2> HIDE DEF r
  <2> QED
    BY <1>2, <2>1, <2>2, <2>3
<1>9. CASE DispatchDownload \/ AppQueueInstall \/ DispatchInstall
  <2>1. PICK r \in {app[A], Unhandled(app[A], "Download"), QueueInstall(app[A]),
                    Unhandled(app[A], "Install")} :
          app' = [app EXCEPT ![A] = r]
    <3>1. app \in [AppIds -> App]
      BY DEF IInv, TypeOK
    <3> QED
      BY <1>3, <1>9, <3>1 DEF DispatchDownload, AppQueueInstall, DispatchInstall
  <2>2. pc \in {"download", "queue_install", "install"}
    BY <1>9 DEF DispatchDownload, AppQueueInstall, DispatchInstall
  <2>3. app[A].state # "INSTALL_COMPLETE"
    BY <2>2 DEF WorkInv, QueueInv, Queued, AtInv
  <2>4. /\ r.state = "NO_UPDATE" => app[A].state = "NO_UPDATE"
        /\ app[A].state = "NO_UPDATE" => r = app[A]
    <3>1. app[A].state # "NO_UPDATE" => /\ QueueInstall(app[A]).state # "NO_UPDATE"
                                        /\ Unhandled(app[A], "Install").state # "NO_UPDATE"
      BY <1>3, <1>4, <2>2, InstallEventsResult
    <3>2. app[A].state # "NO_UPDATE" => Unhandled(app[A], "Download").state # "NO_UPDATE"
      BY <1>3, <1>4, <2>2, DownloadEventsResult
    <3>3. app[A].state = "NO_UPDATE" => /\ QueueInstall(app[A]) = app[A]
                                        /\ Unhandled(app[A], "Download") = app[A]
                                        /\ Unhandled(app[A], "Install") = app[A]
      BY <1>3, <1>4, <2>2, EndIgnores
    <3> QED
      BY <2>1, <3>1, <3>2, <3>3
  <2> QED
    BY <1>2, <2>1, <2>2, <2>3, <2>4
<1>10. CASE \/ AppDownloading \/ AppDownloadComplete \/ AppMarkReadyToInstall
            \/ AppDownloadError \/ CopyPackages \/ AppInstalling \/ ReportResult
  <2>1. pc \in {"downloading", "download_complete", "mark", "download_error", "copy",
                "installing", "report"}
    BY <1>10 DEF AppDownloading, AppDownloadComplete, AppMarkReadyToInstall,
       AppDownloadError, CopyPackages, AppInstalling, ReportResult
  <2>2. app[A].state \notin {"NO_UPDATE", "INSTALL_COMPLETE"}
    BY <2>1 DEF WorkInv, AtInv
  <2>3. Installing(app[A]) \in App
    BY <1>3, <2>1, InstallEventsType
  <2>4. app' = app \/ \E r \in {Downloading(app[A]), DownloadComplete(app[A]),
                   MarkReadyToInstall(app[A]), Error(app[A], hr),
                   BaseError(app[A], "FAILED"), Installing(app[A]),
                   Error(Installing(app[A]), "FAILED"),
                   ReportInstallerComplete(app[A], TRUE),
                   ReportInstallerComplete(app[A], FALSE)} :
                     app' = [app EXCEPT ![A] = r]
    BY <1>10 DEF AppDownloading, AppDownloadComplete, AppMarkReadyToInstall,
       AppDownloadError, CopyPackages, AppInstalling, ReportResult
  <2>5. /\ Downloading(app[A]).state # "NO_UPDATE"
        /\ DownloadComplete(app[A]).state # "NO_UPDATE"
        /\ MarkReadyToInstall(app[A]).state # "NO_UPDATE"
    BY <1>3, <1>4, <2>1, DownloadEventsResult
  <2>6. /\ Installing(app[A]).state # "NO_UPDATE"
        /\ ReportInstallerComplete(app[A], TRUE).state # "NO_UPDATE"
        /\ ReportInstallerComplete(app[A], FALSE).state # "NO_UPDATE"
    BY <1>3, <1>4, <2>1, InstallEventsResult
  <2>7. /\ Error(app[A], hr).state # "NO_UPDATE"
        /\ Error(Installing(app[A]), "FAILED").state # "NO_UPDATE"
        /\ BaseError(app[A], "FAILED").state # "NO_UPDATE"
    BY <1>3, <1>4, <2>1, <2>3, ErrorResult, BaseErrorType DEF Codes
  <2> QED
    BY <1>1, <1>2, <2>1, <2>2, <2>4, <2>5, <2>6, <2>7
<1> QED
  BY <1>5, <1>6, <1>7, <1>8, <1>9, <1>10 DEF Worker

\* No step of the work item takes an application out of INSTALL_COMPLETE or
\* NO_UPDATE, whatever client and call it works for: what TerminalStaysTerminal
\* is refuted by is always a further call of the client.
THEOREM WorkerKeepsEnded ==
  Spec => [][Worker => \A a \in AppIds :
               app[a].state \in {"NO_UPDATE", "INSTALL_COMPLETE"} =>
                 app'[a].state = app[a].state]_vars
<1>1. IInv /\ WorkInv /\ PhaseInv /\ [Next]_vars =>
        [Worker => \A a \in AppIds :
           app[a].state \in {"NO_UPDATE", "INSTALL_COMPLETE"} =>
             app'[a].state = app[a].state]_vars
  BY EndStays
<1> QED
  BY <1>1, InitInvariant, StepInvariant, InitWork, StepWork, InitPhase, StepPhase, PTL
  DEF Spec

-----------------------------------------------------------------------------
(* The pings of a bundle whose client only updates all applications.       *)

\* One call is made on the bundle and it is not stopped.
UpdatesAll == {"CheckForUpdate", "Download", "Install", "Stop"} \cap ClientCalls = {}

\* The terminal states meet only the events they ignore.
PingInv ==
  /\ pc \in {"create", "downloading", "copy"} \cup InstallAppPcs =>
       app[A].state # "ERROR"
  /\ \A a \in AppIds : PingOK(app[a])

\* A step of the download and install loop.
LEMMA LoopPingStep ==
  ASSUME IInv, PingInv, pc \in LoopPcs, NEW r, PingOK(r),
         app' = [app EXCEPT ![A] = r], UNCHANGED apps,
         pc' \in LoopPcs \cup {"complete"},
         pc' \in {"create", "downloading", "copy"} \cup InstallAppPcs =>
           UNCHANGED i /\ r.state # "ERROR"
  PROVE  PingInv'
<1>1. A \in AppIds /\ app \in [AppIds -> App]
  BY CurrentApp, TypeSplit DEF IInv
<1>2. app'[A] = r /\ \A b \in AppIds \ {A} : app'[b] = app[b]
  BY <1>1
<1>3. \A a \in AppIds : PingOK(app[a])'
  BY <1>2 DEF PingInv
<1>4. pc' \in {"create", "downloading", "copy"} \cup InstallAppPcs =>
        (app[A].state # "ERROR")'
  BY <1>2 DEF A
<1> QED
  BY <1>3, <1>4 DEF PingInv

\* A step of the loop that leaves the application alone.
LEMMA LoopPingSame ==
  ASSUME IInv, PingInv, pc \in LoopPcs, UNCHANGED <<app, apps>>,
         pc' \in LoopPcs \cup {"complete"},
         pc' \in {"create", "downloading", "copy"} \cup InstallAppPcs =>
           UNCHANGED i /\ app[A].state # "ERROR"
  PROVE  PingInv'
<1>1. A \in AppIds /\ app \in [AppIds -> App]
  BY CurrentApp, TypeSplit DEF IInv
<1>2. app' = [app EXCEPT ![A] = app[A]] /\ PingOK(app[A])
  BY <1>1 DEF PingInv
<1> QED
  BY <1>2, LoopPingStep

\* The steps of the download.
LEMMA DownloadPings ==
  ASSUME IInv, WorkInv, PingInv,
         \/ DispatchDownload \/ CreateStateForApp \/ AppDownloading \/ FetchPackages
         \/ CachePackage \/ AppDownloadComplete \/ AppMarkReadyToInstall
         \/ AppDownloadError \/ DeleteStateForApp
  PROVE  PingInv'
<1> USE DEF Goto, LoopPcs, DownloadAppPcs, InstallPcs, InstallAppPcs
<1>1. pc \in LoopPcs /\ UNCHANGED apps
  BY DEF DispatchDownload, CreateStateForApp, AppDownloading, FetchPackages,
     CachePackage, AppDownloadComplete, AppMarkReadyToInstall, AppDownloadError,
     DeleteStateForApp, client
<1>2. A \in AppIds /\ app[A] \in App /\ hr \in Codes /\ PingOK(app[A])
  BY <1>1, CurrentApp, TypeSplit DEF IInv, TypeOK, PingInv
<1>3. AfterDownload => pc' \in {"download", "complete", "queue_install"}
  BY DEF AfterDownload, Loop
<1>4. CASE DispatchDownload
  <2>1. Queued(app[A].state)
    BY <1>4 DEF DispatchDownload, WorkInv, QueueInv
  <2>2. PingOK(Unhandled(app[A], "Download"))
    BY <1>2, <2>1, LoopPings DEF Queued
  <2>3. CASE app[A].state = "WAITING_TO_DOWNLOAD"
    BY <1>1, <1>4, <2>3, LoopPingSame DEF DispatchDownload
  <2>4. CASE app[A].state # "WAITING_TO_DOWNLOAD"
    BY <1>1, <1>3, <1>4, <2>2, <2>4, LoopPingStep DEF DispatchDownload
  <2> QED
    BY <2>3, <2>4
<1>5. CASE CreateStateForApp
  <2>1. app[A].state # "ERROR"
    BY <1>5 DEF CreateStateForApp, PingInv
  <2>2. app' = app /\ (Goto("downloading") \/ AfterDownload)
    BY <1>5 DEF CreateStateForApp
  <2> QED
    BY <1>1, <1>3, <2>1, <2>2, LoopPingSame
<1>6. CASE AppDownloading
  <2>1. app[A].state = "WAITING_TO_DOWNLOAD"
    BY <1>6 DEF AppDownloading, PingInv, WorkInv, AtInv
  <2>2. PingOK(Downloading(app[A]))
    BY <1>2, <2>1, LoopPings DEF Terminal
  <2> QED
    BY <1>1, <1>6, <2>2, LoopPingStep DEF AppDownloading
<1>7. CASE FetchPackages
  <2>1. app' = app /\ pc' \in {"download_complete", "download_error", "put"}
    BY <1>7 DEF FetchPackages
  <2> QED
    BY <1>1, <2>1, LoopPingSame
<1>8. CASE CachePackage
  <2>1. app' = app /\ pc' \in {"download_complete", "download_error"}
    BY <1>8 DEF CachePackage
  <2> QED
    BY <1>1, <2>1, LoopPingSame
<1>9. CASE AppDownloadComplete
  <2>1. app[A].state \in {"DOWNLOADING", "ERROR"}
    BY <1>9 DEF AppDownloadComplete, WorkInv, AtInv
  <2>2. PingOK(DownloadComplete(app[A]))
    BY <1>2, <2>1, LoopPings
  <2> QED
    BY <1>1, <1>9, <2>2, LoopPingStep DEF AppDownloadComplete
<1>10. CASE AppMarkReadyToInstall
  <2>1. app[A].state \in {"DOWNLOAD_COMPLETE", "ERROR"}
    BY <1>10 DEF AppMarkReadyToInstall, WorkInv, AtInv
  <2>2. PingOK(MarkReadyToInstall(app[A]))
    BY <1>2, <2>1, LoopPings
  <2> QED
    BY <1>1, <1>10, <2>2, LoopPingStep DEF AppMarkReadyToInstall
<1>11. CASE AppDownloadError
  <2>1. app[A].state \in {"DOWNLOADING", "ERROR"}
    BY <1>11 DEF AppDownloadError, WorkInv, AtInv
  <2>2. PingOK(Error(app[A], hr))
    BY <1>2, <2>1, ErrorPings
  <2> QED
    BY <1>1, <1>11, <2>2, LoopPingStep DEF AppDownloadError
<1>12. CASE DeleteStateForApp
  <2>1. app' = app /\ AfterDownload
    BY <1>12 DEF DeleteStateForApp
  <2> QED
    BY <1>1, <1>3, <2>1, LoopPingSame
<1> QED
  BY <1>4, <1>5, <1>6, <1>7, <1>8, <1>9, <1>10, <1>11, <1>12

\* The steps of the installation.
LEMMA InstallPings ==
  ASSUME IInv, WorkInv, PingInv,
         \/ AppQueueInstall \/ DispatchInstall \/ CopyPackages \/ AppInstalling
         \/ RunInstaller \/ ReportResult
  PROVE  PingInv'
<1> USE DEF Goto, LoopPcs, DownloadAppPcs, InstallPcs, InstallAppPcs
<1>1. pc \in LoopPcs /\ UNCHANGED apps
  BY DEF AppQueueInstall, DispatchInstall, CopyPackages, AppInstalling, RunInstaller,
     ReportResult, client
<1>2. A \in AppIds /\ app[A] \in App /\ hr \in Codes /\ PingOK(app[A])
  BY <1>1, CurrentApp, TypeSplit DEF IInv, TypeOK, PingInv
<1>3. Loop("download", "complete") => pc' \in {"download", "complete"}
  BY DEF Loop
<1>4. CASE AppQueueInstall
  <2>1. app[A].state # "INSTALL_COMPLETE"
    BY <1>4 DEF AppQueueInstall, WorkInv, AtInv
  <2>2. PingOK(QueueInstall(app[A]))
    BY <1>2, <2>1, LoopPings
  <2> QED
    BY <1>1, <1>4, <2>2, LoopPingStep DEF AppQueueInstall
<1>5. CASE DispatchInstall
  <2>1. app[A].state # "INSTALL_COMPLETE"
    BY <1>5 DEF DispatchInstall, WorkInv, AtInv
  <2>2. PingOK(Unhandled(app[A], "Install"))
    BY <1>2, <2>1, LoopPings
  <2>3. CASE app[A].state = "WAITING_TO_INSTALL"
    BY <1>1, <1>5, <2>3, LoopPingSame DEF DispatchInstall
  <2>4. CASE app[A].state # "WAITING_TO_INSTALL"
    BY <1>1, <1>3, <1>5, <2>2, <2>4, LoopPingStep DEF DispatchInstall
  <2> QED
    BY <2>3, <2>4
<1>6. CASE CopyPackages
  <2>1. app[A].state = "WAITING_TO_INSTALL"
    BY <1>6 DEF CopyPackages, PingInv, WorkInv, AtInv
  <2>2. PingOK(BaseError(app[A], "FAILED"))
    BY <1>2, <2>1, ErrorPings DEF Terminal, Codes
  <2>3. CASE Goto("installing") /\ UNCHANGED app
    BY <1>1, <2>1, <2>3, LoopPingSame
  <2>4. CASE /\ Loop("download", "complete")
             /\ app' = [app EXCEPT ![A] = BaseError(@, "FAILED")]
    BY <1>1, <1>3, <2>2, <2>4, LoopPingStep
  <2> QED
    BY <1>6, <2>1, <2>3, <2>4 DEF CopyPackages
<1>7. CASE AppInstalling
  <2> DEFINE r == Installing(app[A])
  <2>1. app[A].state = "WAITING_TO_INSTALL"
    BY <1>7 DEF AppInstalling, PingInv, WorkInv, AtInv
  <2>2. PingOK(r)
    BY <1>2, <2>1, LoopPings DEF Terminal
  <2>3. r \in App /\ r.state = "INSTALLING"
    BY <1>2, <2>1, InstallEventsType, InstallEventsResult
  <2>4. \/ app' = [app EXCEPT ![A] = r] /\ Goto("run")
        \/ app' = [app EXCEPT ![A] = Error(r, "FAILED")] /\ Loop("download", "complete")
    BY <1>7 DEF AppInstalling
  <2> HIDE DEF r
  <2>5. PingOK(Error(r, "FAILED"))
    BY <2>2, <2>3, ErrorPings DEF Codes
  <2> QED
    BY <1>1, <1>3, <2>2, <2>3, <2>4, <2>5, LoopPingStep
<1>8. CASE RunInstaller
  <2>1. app[A].state # "ERROR" /\ app' = app
    BY <1>8 DEF RunInstaller, PingInv
  <2> QED
    BY <1>1, <1>8, <2>1, LoopPingSame DEF RunInstaller
<1>9. CASE ReportResult
  <2>1. app[A].state = "INSTALLING"
    BY <1>9 DEF ReportResult, PingInv, WorkInv, AtInv
  <2>2. /\ PingOK(ReportInstallerComplete(app[A], TRUE))
        /\ PingOK(ReportInstallerComplete(app[A], FALSE))
        /\ PingOK(Error(app[A], hr))
    BY <1>2, <2>1, LoopPings, ErrorPings DEF Terminal
  <2>3. \E r \in {ReportInstallerComplete(app[A], TRUE),
                  ReportInstallerComplete(app[A], FALSE), Error(app[A], hr)} :
          app' = [app EXCEPT ![A] = r]
    BY <1>9 DEF ReportResult
  <2> QED
    BY <1>1, <1>3, <1>9, <2>2, <2>3, LoopPingStep DEF ReportResult
<1> QED
  BY <1>4, <1>5, <1>6, <1>7, <1>8, <1>9

\* The steps before the downloads.
LEMMA CheckPhasePings ==
  ASSUME IInv, WorkInv, PhaseInv, PingInv,
         \/ BeginCheck \/ DoPreUpdateCheck \/ DoUpdateCheck \/ DoPostUpdateCheck
         \/ CacheOfflinePackages \/ QueueApp \/ BeginDownload \/ CompleteAsyncCall
  PROVE  PingInv'
<1>1. pc' \notin {"create", "downloading", "copy"} \cup InstallAppPcs
  BY DEF BeginCheck, DoPreUpdateCheck, DoUpdateCheck, DoPostUpdateCheck,
     CacheOfflinePackages, QueueApp, BeginDownload, CompleteAsyncCall, Goto, Loop,
     EnterLoop, AfterCheck, InstallAppPcs
<1>2. CASE BeginCheck \/ DoUpdateCheck \/ CacheOfflinePackages \/ BeginDownload
             \/ CompleteAsyncCall
  <2>1. app' = app
    BY <1>2 DEF BeginCheck, DoUpdateCheck, CacheOfflinePackages, BeginDownload,
       CompleteAsyncCall
  <2> QED
    BY <1>1, <2>1 DEF PingInv
<1>3. ASSUME pc \in {"pre", "post", "queue"}, NEW r, app' = [app EXCEPT ![A] = r],
             PingOK(r)
      PROVE  PingInv'
  <2>1. app'[A] = r /\ \A b \in AppIds \ {A} : app'[b] = app[b]
    BY <1>3, OneChanges
  <2> QED
    BY <1>1, <1>3, <2>1 DEF PingInv
<1>4. pc \in {"pre", "post", "queue"} =>
        /\ A \in AppIds /\ app[A] \in App /\ PingOK(app[A])
        /\ i \in 1..Len(apps) /\ A = apps[i]
  BY CurrentApp, TypeSplit DEF IInv, PingInv, A
<1>5. CASE DoPreUpdateCheck
  <2>1. /\ pc = "pre"
        /\ app' = [app EXCEPT ![A] = PreUpdateCheck(app[A], A \in allowed, auto, offline)]
    BY <1>5 DEF DoPreUpdateCheck
  <2>2. app[A].state \in BeforeResult
    BY <1>4, <2>1 DEF PhaseInv
  <2>3. PingOK(PreUpdateCheck(app[A], A \in allowed, auto, offline))
    BY <1>4, <2>1, <2>2, CheckPings DEF BeforeResult
  <2> QED
    BY <1>3, <2>1, <2>3
<1>6. CASE DoPostUpdateCheck
  <2>1. PICK built \in Succeeds("response") :
          app' = [app EXCEPT ![A] = PostUpdateCheck(@, hr, answer[A],
                                        IsOmahaUpdateAvailable, built)]
    BY <1>6 DEF DoPostUpdateCheck
  <2> DEFINE r == PostUpdateCheck(app[A], hr, answer[A], IsOmahaUpdateAvailable, built)
  <2>2. app' = [app EXCEPT ![A] = r] /\ pc = "post"
    BY <1>6, <2>1 DEF DoPostUpdateCheck
  <2>3. answer[A] \in Answers /\ hr \in Codes
    BY <1>4, <2>2 DEF IInv, TypeOK
  <2>4. i \in i..Len(apps)
    BY <1>4, <2>2, SMTT(30) DEF IInv, TypeOK
  <2>5. app[A].state \in BeforeResult
    BY <1>4, <2>2, <2>4 DEF PhaseInv
  <2>6. PingOK(r)
    BY <1>4, <2>2, <2>3, <2>5, CheckPings DEF BeforeResult
  <2> HIDE DEF r
  <2> QED
    BY <1>3, <2>2, <2>6
<1>7. CASE QueueApp
  <2>1. /\ pc = "queue"
        /\ app' = [app EXCEPT ![A] = QueueDownloadOrInstall(app[A], A \in allowed)]
    BY <1>7 DEF QueueApp
  <2>2. app[A].state # "INSTALL_COMPLETE"
    BY <1>4, <2>1 DEF PhaseInv
  <2>3. PingOK(QueueDownloadOrInstall(app[A], A \in allowed))
    BY <1>4, <2>1, <2>2, LoopPings
  <2> QED
    BY <1>3, <2>1, <2>3
<1> QED
  BY <1>2, <1>5, <1>6, <1>7

\* The calls of such a client.
LEMMA ClientPings ==
  ASSUME IInv, PingInv, UpdatesAll, Client PROVE PingInv'
<1>1. ~CheckForUpdate /\ ~Download /\ ~Install /\ ~StopInitialized /\ ~StopBusy
  BY DEF UpdatesAll, CheckForUpdate, Download, Install, StopInitialized, StopBusy
<1>2. app \in [AppIds -> App] /\ \A a \in AppIds : PingOK(app[a])
  BY DEF IInv, TypeOK, PingInv
<1>3. \A s \in States : Bound[s] \in 0..5
  BY RankType
<1>4. ASSUME NEW u, NEW o, NEW e PROVE PingOK(NewApp(u, o, e))
  <2>1. NewApp(u, o, e).pings = <<>>
    BY DEF NewApp
  <2>2. Len(<<>>) = 0 /\ \A n \in 1..0 : FALSE
    BY SMTT(30)
  <2> QED
    BY <2>1, <2>2 DEF PingOK, Rising, Below
<1>5. ASSUME pc' \in {"idle", "check"}, \A a \in AppIds : PingOK(app'[a]) PROVE PingInv'
  BY <1>5 DEF PingInv, InstallAppPcs
<1>6. bundle \in {"Init", "Initialized"} => pc = "idle"
  BY DEF IInv, SingleCall
<1>7. CASE Initialize \/ Pause
  BY <1>2, <1>5, <1>6, <1>7 DEF Initialize, Pause, worker
<1>8. ASSUME NEW a \in AppIds, NEW u, NEW e, AddApp(a, NewApp(u, a = Omaha, e))
      PROVE  PingInv'
  <2>1. \A b \in AppIds : app'[b] = app[b] \/ app'[b] = NewApp(u, a = Omaha, e)
    BY <1>2, <1>8 DEF AddApp
  <2>2. pc' = "idle"
    BY <1>6, <1>8 DEF AddApp, worker
  <2> QED
    BY <1>2, <1>4, <1>5, <2>1, <2>2, SMTT(30)
<1>9. ASSUME NEW a \in AppIds, NEW eula, PutIsEulaAccepted(a, eula) PROVE PingInv'
  <2>1. UNCHANGED <<pc, i, apps>>
    BY <1>9 DEF PutIsEulaAccepted, client, worker
  <2>2. \A b \in AppIds : app'[b].state = app[b].state /\ app'[b].pings = app[b].pings
    BY <1>2, <1>9 DEF PutIsEulaAccepted, App
  <2>3. \A b \in AppIds : PingOK(app'[b])
    BY <1>2, <2>2 DEF PingOK
  <2>4. pc \in LoopPcs => A \in AppIds /\ A' = A
    BY <2>1, CurrentApp, TypeSplit DEF IInv, A
  <2> QED
    BY <2>1, <2>2, <2>3, <2>4
    DEF PingInv, LoopPcs, DownloadAppPcs, InstallPcs, InstallAppPcs
<1>10. ASSUME NEW s \in AppLists, NEW eula \in [AppIds -> {"NO", "YES"}],
              \/ CreateAllInstalledApps(s, eula)
              \/ UpdateAllApps(s, eula)
              \/ UpdateAllAppsFails(s, eula)
       PROVE  PingInv'
  <2> DEFINE new(a) == NewApp(TRUE, a = Omaha, eula[a])
  <2>1. \A a \in AppIds : /\ new(a) \in App /\ new(a).state = "INIT"
                          /\ new(a).eula # "NONE" /\ PingOK(new(a))
    <3>1. \A a \in AppIds : new(a) \in App /\ new(a).state = "INIT"
      BY NewAppType DEF Eula
    <3>2. \A a \in AppIds : new(a).eula # "NONE"
      BY DEF NewApp
    <3> QED
      BY <1>4, <3>1, <3>2
  <2>2. \A a \in AppIds : app'[a] \in {app[a], new(a), QueueUpdateCheck(new(a))}
    BY <1>10 DEF CreateAllInstalledApps, UpdateAllApps, UpdateAllAppsFails,
       RegisteredApps
  <2> HIDE DEF new
  <2>3. \A a \in AppIds : PingOK(QueueUpdateCheck(new(a)))
    BY <2>1, CheckPings
  <2>4. \A a \in AppIds : PingOK(app'[a])
    BY <1>2, <2>1, <2>2, <2>3
  <2>5. pc' \in {"idle", "check"}
    BY <1>6, <1>10
    DEF CreateAllInstalledApps, UpdateAllApps, UpdateAllAppsFails, StartWork, worker
  <2> QED
    BY <1>5, <2>4, <2>5
<1>11. ASSUME NEW a \in AppIds, CreateApp(a) PROVE PingInv'
  BY <1>8, <1>11 DEF CreateApp
<1>12. ASSUME NEW a \in AppIds, NEW eula \in {"NO", "YES"}, CreateInstalledApp(a, eula)
       PROVE  PingInv'
  BY <1>8, <1>12 DEF CreateInstalledApp
<1> QED
  BY <1>1, <1>7, <1>9, <1>10, <1>11, <1>12 DEF Client

\* Initially there are no pings.
LEMMA InitPings == Init => PingInv
<1> SUFFICES ASSUME Init PROVE PingInv
  OBVIOUS
<1>1. pc = "idle" /\ \A a \in AppIds : app[a].pings = <<>>
  BY DEF Init, NewApp
<1>2. Len(<<>>) = 0 /\ \A n \in 1..0 : FALSE
  BY SMTT(30)
<1>3. \A a \in AppIds : PingOK(app[a])
  BY <1>1, <1>2 DEF PingOK, Rising, Below
<1> QED
  BY <1>1, <1>3 DEF PingInv, InstallAppPcs

\* Every step keeps them in order.
LEMMA StepPings ==
  ASSUME UpdatesAll
  PROVE  IInv /\ WorkInv /\ PhaseInv /\ PingInv /\ [Next]_vars => PingInv'
<1> SUFFICES ASSUME IInv, WorkInv, PhaseInv, PingInv, [Next]_vars PROVE PingInv'
  OBVIOUS
<1>1. CASE UNCHANGED vars
  BY <1>1 DEF vars, client, PingInv, A
<1>2. CASE Client
  BY <1>2, ClientPings
<1>3. CASE Worker
  BY <1>3, DownloadPings, InstallPings, CheckPhasePings DEF Worker
<1> QED
  BY <1>1, <1>2, <1>3 DEF Next

\* The server is told each application's life once and in order, for a client
\* that updates all applications and lets the call run to its end.
THEOREM PingsStayInOrder == ASSUME UpdatesAll PROVE Spec => []PingsInOrder
<1>1. IInv /\ PingInv => PingsInOrder
  <2> SUFFICES ASSUME IInv, PingInv, NEW a \in AppIds,
                      NEW m \in DOMAIN app[a].pings, NEW n \in DOMAIN app[a].pings, m < n
               PROVE  Ranks[app[a].pings[m].type] < Ranks[app[a].pings[n].type]
    BY DEF PingsInOrder, Ranks
  <2>1. app[a].pings \in Seq(Ping) /\ PingOK(app[a])
    BY DEF IInv, TypeOK, App, PingInv
  <2>2. DOMAIN app[a].pings = 1..Len(app[a].pings)
    BY <2>1, SMTT(30)
  <2> QED
    BY <2>1, <2>2 DEF PingOK, Rising
<1> QED
  BY <1>1, InitInvariant, StepInvariant, InitWork, StepWork, InitPhase, StepPhase,
     InitPings, StepPings, PTL DEF Spec

-----------------------------------------------------------------------------
(* Bounded calls *)

\* The ranks of the places in the loop.
LEMMA LoopRanks == \A place \in LoopPcs : LoopRank[place] \in 1..15
BY SMTT(30) DEF LoopRank, LoopPcs, DownloadAppPcs, InstallPcs, InstallAppPcs

\* What is left at each place.
PlacesLeft ==
  /\ pc = "idle" => StepsLeft = 0
  /\ pc = "complete" => StepsLeft = 1
  /\ pc \in LoopPcs => StepsLeft = 15 * (Len(apps) - i) + LoopRank[pc] + 1
  /\ pc = "impersonate" => StepsLeft = 15 * Len(apps) + 2
  /\ pc = "queue" => StepsLeft = 15 * Len(apps) + 3 + (Len(apps) - i)
  /\ pc = "offline" => StepsLeft = 16 * Len(apps) + 3
  /\ pc = "post" => StepsLeft = 16 * Len(apps) + 4 + (Len(apps) - i)
  /\ pc = "send" => StepsLeft = 17 * Len(apps) + 4
  /\ pc = "pre" => StepsLeft = 17 * Len(apps) + 5 + (Len(apps) - i)
  /\ pc = "check" => StepsLeft = 18 * Len(apps) + 5

\* The arms of StepsLeft exclude each other.
LEMMA StepsLeftAt == PlacesLeft
<1> USE DEF PlacesLeft, StepsLeft, LoopPcs, DownloadAppPcs, InstallPcs, InstallAppPcs
<1>1. CASE pc \in LoopPcs
  BY <1>1, SMTT(30)
<1>2. CASE pc \notin LoopPcs
  BY <1>2, SMTT(30)
<1> QED
  BY <1>1, <1>2

\* The number of applications, and the index where the work item uses it.
LEMMA IndexType ==
  ASSUME IInv
  PROVE  /\ Len(apps) \in Nat /\ Len(apps) <= MaxApps /\ MaxApps \in Nat
         /\ pc \in {"pre", "post", "queue"} \cup LoopPcs => i \in 1..Len(apps)
BY MaxAppsAssumption, SMTT(30) DEF IInv, TypeOK

\* The bound is a number, and small enough for any bundle.
LEMMA StepsLeftType ==
  ASSUME IInv
  PROVE  /\ StepsLeft \in Nat /\ StepsLeft <= 18 * MaxApps + 5
         /\ StepsLeft = 0 <=> pc = "idle"
<1>1. pc \in Pcs
  BY DEF IInv, TypeOK
<1>2. CASE pc \in LoopPcs
  <2>1. StepsLeft = 15 * (Len(apps) - i) + LoopRank[pc] + 1
    BY <1>2, StepsLeftAt DEF PlacesLeft
  <2>2. i \in 1..Len(apps) /\ Len(apps) \in Nat /\ Len(apps) <= MaxApps /\ MaxApps \in Nat
    BY <1>2, IndexType
  <2>3. LoopRank[pc] \in 1..15
    BY <1>2, LoopRanks
  <2>4. pc # "idle"
    BY <1>2 DEF LoopPcs, DownloadAppPcs, InstallPcs, InstallAppPcs
  <2> HIDE DEF StepsLeft
  <2> QED
    BY <2>1, <2>2, <2>3, <2>4, SMTT(30)
<1>3. CASE pc \notin LoopPcs
  BY <1>1, <1>3, StepsLeftAt, IndexType, SMTT(30) DEF PlacesLeft, Pcs, CheckPcs
<1> QED
  BY <1>2, <1>3

\* The arithmetic of a round of the loop and of its end.
LEMMA RoundShrinks ==
  ASSUME NEW n \in Nat, NEW j \in 1..n, NEW q \in 1..15, NEW r \in 1..15
  PROVE  /\ q < r => 15 * (n - j) + q + 1 < 15 * (n - j) + r + 1
         /\ 15 * (n - (j + 1)) + 15 + 1 < 15 * (n - j) + r + 1
         /\ 1 < 15 * (n - j) + r + 1
BY SMTT(30)

\* In the loop the work item moves to a later place or to the next application.
LEMMA LoopShrinks ==
  ASSUME IInv, IInv', pc \in LoopPcs, UNCHANGED apps,
         \/ \E to \in LoopPcs : Goto(to) /\ LoopRank[to] < LoopRank[pc]
         \/ Loop("download", "complete")
  PROVE  StepsLeft' < StepsLeft
<1>1. /\ StepsLeft = 15 * (Len(apps) - i) + LoopRank[pc] + 1
      /\ i \in 1..Len(apps) /\ Len(apps) \in Nat /\ LoopRank[pc] \in 1..15
  BY StepsLeftAt, IndexType, LoopRanks DEF PlacesLeft
<1>0. PlacesLeft'
  BY StepsLeftAt, PTL
<1>2. "download" \in LoopPcs /\ LoopRank["download"] = 15
  BY DEF LoopPcs, LoopRank
<1>3. ASSUME pc' \in LoopPcs PROVE StepsLeft' = 15 * (Len(apps) - i') + LoopRank[pc'] + 1
  BY <1>0, <1>3 DEF PlacesLeft
<1>4. pc' = "complete" => StepsLeft' = 1
  BY <1>0 DEF PlacesLeft
<1>5. ASSUME NEW to \in LoopPcs, Goto(to), LoopRank[to] < LoopRank[pc]
      PROVE  StepsLeft' < StepsLeft
  <2>1. StepsLeft' = 15 * (Len(apps) - i) + LoopRank[to] + 1
    BY <1>3, <1>5 DEF Goto
  <2>2. LoopRank[to] \in 1..15
    BY LoopRanks
  <2> QED
    BY <1>1, <1>5, <2>1, <2>2, RoundShrinks, Zenon
<1>6. CASE Loop("download", "complete")
  <2>1. CASE i < Len(apps)
    <3>1. StepsLeft' = 15 * (Len(apps) - (i + 1)) + 15 + 1
      BY <1>2, <1>3, <1>6, <2>1 DEF Loop
    <3> QED
      BY <1>1, <3>1, RoundShrinks, Zenon
  <2>2. CASE ~(i < Len(apps))
    <3>1. StepsLeft' = 1
      BY <1>4, <1>6, <2>2 DEF Loop
    <3> QED
      BY <1>1, <3>1, SMTT(30)
  <2> QED
    BY <2>1, <2>2
<1> QED
  BY <1>5, <1>6

\* So does every step of the loop.
LEMMA LoopStepShrinks ==
  ASSUME IInv, IInv',
         \/ DispatchDownload \/ CreateStateForApp \/ AppDownloading \/ FetchPackages \/ CachePackage
         \/ AppDownloadComplete \/ AppMarkReadyToInstall \/ AppDownloadError
         \/ DeleteStateForApp \/ AppQueueInstall \/ DispatchInstall \/ CopyPackages
         \/ AppInstalling \/ RunInstaller \/ ReportResult
  PROVE  StepsLeft' < StepsLeft
<1> USE DEF client
<1> DEFINE Down(to) == Goto(to) /\ to \in LoopPcs /\ LoopRank[to] < LoopRank[pc]
<1>1. pc \in LoopPcs /\ UNCHANGED apps
  BY DEF DispatchDownload, CreateStateForApp, AppDownloading, FetchPackages, CachePackage,
         AppDownloadComplete, AppMarkReadyToInstall, AppDownloadError, DeleteStateForApp,
         AppQueueInstall, DispatchInstall, CopyPackages, AppInstalling, RunInstaller, ReportResult,
         LoopPcs, DownloadAppPcs, InstallPcs, InstallAppPcs
<1>2. (\E to : Down(to)) \/ Loop("download", "complete")
  <2> USE DEF LoopPcs, DownloadAppPcs, InstallPcs, InstallAppPcs, LoopRank
  <2>1. CASE DispatchDownload \/ CreateStateForApp
    <3>1. pc \in {"download", "create"} /\
          (AfterDownload \/ (pc = "download" /\ Goto("create")) \/ (pc = "create" /\ Goto("downloading")))
      BY <2>1 DEF DispatchDownload, CreateStateForApp
    <3> QED
      BY <3>1, SMTT(30) DEF AfterDownload
  <2>2. CASE AppDownloading \/ AppDownloadComplete \/ AppMarkReadyToInstall \/ AppDownloadError
    <3>1. \/ pc = "downloading" /\ Goto("fetch")
          \/ pc = "download_complete" /\ Goto("mark")
          \/ pc \in {"mark", "download_error"} /\ Goto("delete")
      BY <2>2 DEF AppDownloading, AppDownloadComplete, AppMarkReadyToInstall, AppDownloadError
    <3> QED
      BY <3>1, SMTT(30)
  <2>3. CASE FetchPackages \/ CachePackage
    <3>1. \/ pc = "fetch" /\ (Goto("download_complete") \/ Goto("download_error") \/ Goto("put"))
          \/ pc = "put" /\ (Goto("download_complete") \/ Goto("download_error"))
      BY <2>3 DEF FetchPackages, CachePackage
    <3> QED
      BY <3>1, SMTT(30)
  <2>4. CASE DeleteStateForApp \/ AppQueueInstall
    <3>1. (pc = "delete" /\ AfterDownload) \/ (pc = "queue_install" /\ Goto("install"))
      BY <2>4 DEF DeleteStateForApp, AppQueueInstall
    <3> QED
      BY <3>1, SMTT(30) DEF AfterDownload
  <2>5. CASE DispatchInstall \/ CopyPackages \/ AppInstalling \/ RunInstaller \/ ReportResult
    <3>1. \/ pc = "install" /\ Goto("copy")
          \/ pc = "copy" /\ Goto("installing")
          \/ pc = "installing" /\ Goto("run")
          \/ pc = "run" /\ Goto("report")
          \/ Loop("download", "complete")
      BY <2>5 DEF DispatchInstall, CopyPackages, AppInstalling, RunInstaller, ReportResult
    <3> QED
      BY <3>1, SMTT(30)
  <2> QED
    BY <2>1, <2>2, <2>3, <2>4, <2>5
<1> QED
  BY <1>1, <1>2, LoopShrinks

\* The bound of a loop that is entered.
LEMMA LoopEntered ==
  ASSUME IInv, UNCHANGED apps, i' = 1, pc' = "download", apps # <<>>
  PROVE  StepsLeft' = 15 * Len(apps) + 1 /\ Len(apps) \in Nat
<1>1. PlacesLeft'
  BY StepsLeftAt, PTL
<1>2. "download" \in LoopPcs /\ LoopRank["download"] = 15
  BY DEF LoopPcs, LoopRank
<1>3. StepsLeft' = 15 * (Len(apps) - 1) + 15 + 1
  BY <1>1, <1>2 DEF PlacesLeft
<1>4. Len(apps) \in Nat
  BY IndexType
<1> QED
  BY <1>3, <1>4, SMTT(30)

\* Every step around the loop leaves less to do too.
LEMMA AroundShrinks ==
  ASSUME IInv,
         \/ BeginCheck \/ DoPreUpdateCheck \/ DoUpdateCheck \/ DoPostUpdateCheck
         \/ CacheOfflinePackages \/ QueueApp \/ BeginDownload \/ CompleteAsyncCall
  PROVE  StepsLeft' < StepsLeft
<1> USE DEF client
<1>1. PlacesLeft /\ PlacesLeft'
  BY StepsLeftAt, PTL
<1>2. /\ Len(apps) \in Nat /\ UNCHANGED apps
      /\ pc \in {"pre", "post", "queue"} => i \in 1..Len(apps)
      /\ apps # <<>> => Len(apps) >= 1
  <2>1. UNCHANGED apps
    BY DEF BeginCheck, DoPreUpdateCheck, DoUpdateCheck, DoPostUpdateCheck, CacheOfflinePackages,
           QueueApp, BeginDownload, CompleteAsyncCall
  <2>2. apps # <<>> => Len(apps) >= 1
    BY SMTT(30) DEF IInv, TypeOK
  <2> QED
    BY <2>1, <2>2, IndexType
<1>3. CASE BeginCheck
  <2>1. pc = "check" /\ \/ EnterLoop("pre", "send")
                        \/ EnterLoop("queue", "impersonate")
                        \/ Goto("complete")
    BY <1>3 DEF BeginCheck
  <2> QED
    BY <1>1, <1>2, <2>1, SMTT(30) DEF EnterLoop, Goto, PlacesLeft
<1>4. CASE DoPreUpdateCheck
  <2>1. pc = "pre" /\ Loop("pre", "send")
    BY <1>4 DEF DoPreUpdateCheck
  <2> QED
    BY <1>1, <1>2, <2>1, SMTT(30) DEF Loop, PlacesLeft
<1>5. CASE DoUpdateCheck
  <2>1. pc = "send" /\ EnterLoop("post", "offline")
    BY <1>5 DEF DoUpdateCheck
  <2> QED
    BY <1>1, <1>2, <2>1, SMTT(30) DEF EnterLoop, PlacesLeft
<1>6. CASE DoPostUpdateCheck
  <2>1. pc = "post" /\ Loop("post", "offline")
    BY <1>6 DEF DoPostUpdateCheck
  <2> QED
    BY <1>1, <1>2, <2>1, SMTT(30) DEF Loop, PlacesLeft
<1>7. CASE CacheOfflinePackages
  <2>1. pc = "offline" /\ (EnterLoop("queue", "impersonate") \/ Goto("complete"))
    BY <1>7 DEF CacheOfflinePackages
  <2> QED
    BY <1>1, <1>2, <2>1, SMTT(30) DEF EnterLoop, Goto, PlacesLeft
<1>8. CASE QueueApp
  <2>1. pc = "queue" /\ Loop("queue", "impersonate")
    BY <1>8 DEF QueueApp
  <2> QED
    BY <1>1, <1>2, <2>1, SMTT(30) DEF Loop, PlacesLeft
<1>9. CASE BeginDownload
  <2>1. pc = "impersonate" /\ (EnterLoop("download", "complete") \/ Goto("idle") \/ Goto("complete"))
    BY <1>9 DEF BeginDownload
  <2>2. StepsLeft = 15 * Len(apps) + 2
    BY <1>1, <2>1 DEF PlacesLeft
  <2>3. \/ StepsLeft' = 15 * Len(apps) + 1
        \/ StepsLeft' = 1
        \/ StepsLeft' = 0
    BY <1>1, <1>2, <2>1, LoopEntered DEF EnterLoop, Goto, PlacesLeft
  <2> QED
    BY <1>2, <2>2, <2>3, SMTT(30)
<1>10. CASE CompleteAsyncCall
  <2>1. pc = "complete" /\ pc' = "idle"
    BY <1>10 DEF CompleteAsyncCall, Goto
  <2> QED
    BY <1>1, <2>1, SMTT(30) DEF PlacesLeft
<1> QED
  BY <1>3, <1>4, <1>5, <1>6, <1>7, <1>8, <1>9, <1>10

\* What a client calls while a call is outstanding leaves the work item where it is.
LEMMA ClientWaits ==
  ASSUME IInv, Client, pc # "idle"
  PROVE  UNCHANGED <<apps, pc, i>>
<1>1. bundle \in {"Busy", "Stopped"}
  BY DEF IInv, SingleCall
<1> QED
  BY <1>1 DEF Client, Initialize, CheckForUpdate, Download, Install, Pause, StopInitialized, StopBusy,
     CreateApp, CreateInstalledApp, PutIsEulaAccepted, CreateAllInstalledApps, UpdateAllApps,
     UpdateAllAppsFails, AddApp, client, worker

\* What a step may do to the number of steps that are left.
BoundedStep ==
  /\ StepsLeft' <= 18 * MaxApps + 5
  /\ pc # "idle" => IF Worker THEN StepsLeft' < StepsLeft ELSE StepsLeft' = StepsLeft

\* The worker makes it smaller, and nobody else changes it.
LEMMA BoundedSteps == IInv /\ IInv' /\ Next => BoundedStep
<1> SUFFICES ASSUME IInv, IInv', Next PROVE BoundedStep
  OBVIOUS
<1>1. StepsLeft' <= 18 * MaxApps + 5
  <2>1. IInv => StepsLeft <= 18 * MaxApps + 5
    BY StepsLeftType
  <2>2. (IInv => StepsLeft <= 18 * MaxApps + 5)'
    BY StepsLeftType, PTL
  <2> QED
    BY <2>2
<1>2. CASE Worker
  <2>1. \/ BeginCheck \/ DoPreUpdateCheck \/ DoUpdateCheck \/ DoPostUpdateCheck
        \/ CacheOfflinePackages \/ QueueApp \/ BeginDownload \/ CompleteAsyncCall
        => StepsLeft' < StepsLeft
    BY AroundShrinks
  <2>2. \/ DispatchDownload \/ CreateStateForApp \/ AppDownloading \/ FetchPackages
        \/ CachePackage \/ AppDownloadComplete \/ AppMarkReadyToInstall \/ AppDownloadError
        \/ DeleteStateForApp \/ AppQueueInstall \/ DispatchInstall \/ CopyPackages
        \/ AppInstalling \/ RunInstaller \/ ReportResult
        => StepsLeft' < StepsLeft
    BY LoopStepShrinks
  <2>3. StepsLeft' < StepsLeft
    BY <1>2, <2>1, <2>2 DEF Worker
  <2> QED
    BY <1>1, <1>2, <2>3 DEF BoundedStep
<1>3. ASSUME ~Worker, pc # "idle" PROVE StepsLeft' = StepsLeft
  <2>1. UNCHANGED <<apps, pc, i>>
    BY <1>3, ClientWaits DEF Next
  <2> QED
    BY <2>1 DEF StepsLeft
<1> QED
  BY <1>1, <1>2, <1>3 DEF BoundedStep

\* The same of every step that changes something.
LEMMA BoundedForm == CallsAreBounded <=> [][BoundedStep]_vars
BY DEF CallsAreBounded, BoundedStep

\* A call takes at most 18 steps for each application and 5 more, in any order of
\* the client's calls and whatever fails: the loops of the work item never go back
\* (worker.cc, CheckForUpdateHelper, UpdateAllAppsInternal, DownloadHelper,
\* DownloadAndInstallHelper).
THEOREM CallsEnd == Spec => CallsAreBounded
<1>1. IInv /\ IInv' /\ [Next]_vars => [BoundedStep]_vars
  BY BoundedSteps
<1> QED
  BY <1>1, BoundedForm, InitInvariant, StepInvariant, PTL DEF Spec

-----------------------------------------------------------------------------
(* Stopped bundles *)

\* What Stop leaves of the applications of a busy bundle.
Settled == Terminal \cup {"INSTALLING"}

\* A stopped bundle had not begun to work, or its applications are settled.
StoppedInv ==
  bundle = "Stopped" =>
    \/ pc = "idle" /\ \A n \in 1..Len(apps) : app[apps[n]].state = "INIT"
    \/ \A n \in 1..Len(apps) : app[apps[n]].state \in Settled

\* No arrow of the state machine leads out of the settled states.
LEMMA SettledStays ==
  ASSUME NEW r, NEW q, Moves(r, q), r.state \in Settled
  PROVE  q.state \in Settled
BY DEF Moves, Arrows, Settled, Terminal

\* The applications of the bundle are applications.
LEMMA InList ==
  ASSUME IInv
  PROVE  \A n \in 1..Len(apps) : apps[n] \in AppIds /\ app[apps[n]] \in App
<1>1. \A n \in 1..Len(apps) : apps[n] \in AppIds
  BY ElementOfSeq DEF IInv, TypeOK
<1> QED
  BY <1>1 DEF IInv, TypeOK

\* Nothing but stop makes a bundle a stopped one, and only PutIsEulaAccepted is
\* still taken by it.
LEMMA StoppedSteps ==
  ASSUME IInv, Next
  PROVE  /\ bundle # "Stopped" /\ bundle' = "Stopped" => StopInitialized \/ StopBusy
         /\ bundle = "Stopped" =>
              Worker \/ \E a \in AppIds, eula \in {"NO", "YES"} : PutIsEulaAccepted(a, eula)
<1>1. CASE Worker
  BY <1>1, WorkerTouches DEF CompleteAsyncCall
<1>2. CASE Client
  BY <1>2 DEF Client, Initialize, CheckForUpdate, Download, Install, Pause, StopInitialized, StopBusy,
     CreateApp, CreateInstalledApp, PutIsEulaAccepted, CreateAllInstalledApps, UpdateAllApps,
     UpdateAllAppsFails, AddApp, client
<1> QED
  BY <1>1, <1>2 DEF Next

\* A stopped bundle stays settled, whatever its worker goes on to do.
LEMMA StepStopped ==
  ASSUME IInv, PhaseInv, StoppedInv, [Next]_vars PROVE StoppedInv'
<1> SUFFICES ASSUME bundle' = "Stopped" PROVE StoppedInv'
  BY DEF StoppedInv
<1>1. \A a \in AppIds : Moves(app[a], app'[a])
  BY StepInvariant
<1>2. \A n \in 1..Len(apps) : apps[n] \in AppIds /\ app[apps[n]] \in App
  BY InList
<1>3. CASE UNCHANGED vars
  BY <1>3 DEF vars, client, StoppedInv
<1>4. CASE StopInitialized
  <2>1. UNCHANGED <<apps, app, pc>> /\ bundle = "Initialized" /\ pc = "idle"
    BY <1>4 DEF StopInitialized, worker, IInv, SingleCall
  <2> QED
    BY <1>2, <2>1 DEF PhaseInv, StoppedInv
<1>5. CASE StopBusy
  <2>1. UNCHANGED apps /\ app' = OnBundle(Cancel)
    BY <1>5 DEF StopBusy
  <2>2. ASSUME NEW n \in 1..Len(apps) PROVE app'[apps[n]].state \in Settled
    <3>1. app'[apps[n]] = Cancel(app[apps[n]])
      BY <1>2, <2>1 DEF OnBundle, InBundle
    <3> QED
      BY <1>2, <3>1, CancelResult DEF Settled, Terminal
  <2> QED
    BY <2>1, <2>2 DEF StoppedInv
<1>6. ASSUME bundle = "Stopped", Worker PROVE StoppedInv'
  <2>1. UNCHANGED apps /\ pc # "idle"
    BY <1>6, WorkerTouches, WorkerRuns
  <2>2. \A n \in 1..Len(apps) : app[apps[n]].state \in Settled
    BY <1>6, <2>1 DEF StoppedInv
  <2>3. \A n \in 1..Len(apps) : app'[apps[n]].state \in Settled
    BY <1>1, <1>2, <2>2, SettledStays
  <2> QED
    BY <2>1, <2>3 DEF StoppedInv
<1>7. ASSUME NEW a \in AppIds, NEW eula \in {"NO", "YES"}, bundle = "Stopped",
             PutIsEulaAccepted(a, eula)
      PROVE  StoppedInv'
  <2>1. UNCHANGED <<apps, pc>> /\ app' = [app EXCEPT ![a].eula = eula]
    BY <1>7 DEF PutIsEulaAccepted, client, worker
  <2>2. \A b \in AppIds : app'[b].state = app[b].state
    BY <2>1 DEF IInv, TypeOK, App
  <2> QED
    BY <1>2, <1>7, <2>1, <2>2 DEF StoppedInv
<1> QED
  BY <1>3, <1>4, <1>5, <1>6, <1>7, StoppedSteps

\* Only the application whose installer runs is INSTALLING.
LEMMA SettledMeans == IInv /\ WorkInv /\ StoppedInv => StoppedIsSettled
<1> SUFFICES ASSUME IInv, WorkInv, StoppedInv, bundle = "Stopped" PROVE StoppedIsSettled
  BY DEF StoppedIsSettled
<1>1. CASE \A n \in 1..Len(apps) : app[apps[n]].state = "INIT"
  BY <1>1 DEF StoppedIsSettled, InBundle
<1>2. CASE \A n \in 1..Len(apps) : app[apps[n]].state \in Settled
  <2>1. ASSUME NEW a \in InBundle
        PROVE  \/ app[a].state \in Terminal
               \/ app[a].state = "INSTALLING" /\ pc \in {"run", "report"} /\ a = A
    <3>1. a \in AppIds /\ app[a].state \in Settled
      BY <1>2, InList DEF InBundle
    <3> QED
      BY <3>1 DEF Settled, WorkInv, RunInv, InstallerRunsOnce
  <2> QED
    BY <2>1 DEF StoppedIsSettled
<1> QED
  BY <1>1, <1>2 DEF StoppedInv

\* Once stop has returned, every application of a bundle that had begun to work is in
\* a terminal state, except for the one whose installer runs, and nothing the worker
\* still does changes that (app_bundle_state_busy.cc, Stop; worker.cc, Stop and
\* the loops it does not interrupt).
THEOREM StopIsFinal == Spec => []StoppedIsSettled
<1>1. Init => StoppedInv
  BY DEF Init, StoppedInv
<1>2. IInv /\ PhaseInv /\ StoppedInv /\ [Next]_vars => StoppedInv'
  BY StepStopped
<1> QED
  BY <1>1, <1>2, SettledMeans, InitInvariant, StepInvariant, InitWork, StepWork, InitPhase, StepPhase, PTL
  DEF Spec
=============================================================================
