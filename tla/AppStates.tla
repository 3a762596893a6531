------------------------------ MODULE AppStates ------------------------------
(***************************************************************************)
(* The state machine of one application (goopdate/app.cc and the classes   *)
(* goopdate/app_state_*.cc).  An App object is a record; an event is an    *)
(* operator from the record before to the record after, so that the worker *)
(* and the client calls of UpdateBundle can apply it under the model lock. *)
(* Display strings, timestamps and the log text are left out; the pings    *)
(* each transition queues are kept, because they are what the server is    *)
(* told about the application.                                             *)
(***************************************************************************)
EXTENDS Naturals, Sequences

States == {"INIT", "WAITING_TO_CHECK", "CHECKING", "UPDATE_AVAILABLE",
           "WAITING_TO_DOWNLOAD", "DOWNLOADING", "DOWNLOAD_COMPLETE",
           "READY_TO_INSTALL", "WAITING_TO_INSTALL", "INSTALLING",
           "INSTALL_COMPLETE", "NO_UPDATE", "ERROR"}

Terminal == {"INSTALL_COMPLETE", "NO_UPDATE", "ERROR"}

\* The phases of AppLifecycle.
PhaseOf(s) ==
  CASE s = "INIT" -> "idle"
    [] s \in {"WAITING_TO_CHECK", "CHECKING"} -> "checking"
    [] s = "UPDATE_AVAILABLE" -> "available"
    [] s \in {"WAITING_TO_DOWNLOAD", "DOWNLOADING", "DOWNLOAD_COMPLETE"} ->
         "downloading"
    [] s \in {"READY_TO_INSTALL", "WAITING_TO_INSTALL"} -> "ready"
    [] s = "INSTALLING" -> "installing"
    [] s = "INSTALL_COMPLETE" -> "installed"
    [] s = "NO_UPDATE" -> "current"
    [] s = "ERROR" -> "failed"

\* The HRESULTs the control flow or a property tells apart.  FAILED stands for
\* every other failure code.
Codes == {"S_OK", "FAILED", "CANCELLED", "DEFERRED", "POLICY", "EULA",
          "CALL_UNEXPECTED", "INVALID_TRANSITION", "INSTALLER_FAILED"}

Results == {"NONE", "SUCCESS", "ERROR", "CANCELLED", "DEFERRED",
            "INSTALLER_ERROR"}

PingTypes == {"BEGIN", "DOWNLOAD_START", "DOWNLOAD_FINISH", "INSTALLER_START",
              "COMPLETE"}

Ping == [type : PingTypes, result : Results]

\* NONE: put_isEulaAccepted has not been called for a new application.
Eula == {"NONE", "NO", "YES"}

\* What the update response says about one application.
Answers == {"UPDATE", "NO_UPDATE", "ERROR"}

App == [state : States, error : Codes, result : Results, is_update : BOOLEAN,
        omaha : BOOLEAN, eula : Eula, has_update : BOOLEAN, pings : Seq(Ping)]

NewApp(is_update, omaha, eula) ==
  [state |-> "INIT", error |-> "S_OK", result |-> "NONE",
   is_update |-> is_update, omaha |-> omaha, eula |-> eula,
   has_update |-> FALSE, pings |-> <<>>]

-----------------------------------------------------------------------------
(* Transitions: the new state is entered and asked for its ping.           *)

PingOf(type, r) == <<[type |-> type, result |-> r.result]>>

\* Omaha reports the end of its own update from the new version.
InstallCompletePing(r) == IF r.omaha THEN <<>> ELSE PingOf("COMPLETE", r)

NoUpdatePing(r) ==
  IF r.result = "DEFERRED" THEN PingOf("COMPLETE", r) ELSE <<>>

\* Every failed installation is reported; a failed update only if there was one.
ErrorPing(r) ==
  IF r.is_update /\ ~r.has_update THEN <<>> ELSE PingOf("COMPLETE", r)

\* The overrides of AppState::CreatePingEvent; r is already in its new state.
CreatePingEvent(r) ==
  CASE r.state = "WAITING_TO_DOWNLOAD" -> PingOf("BEGIN", r)
    [] r.state = "DOWNLOADING"         -> PingOf("DOWNLOAD_START", r)
    [] r.state = "DOWNLOAD_COMPLETE"   -> PingOf("DOWNLOAD_FINISH", r)
    [] r.state = "INSTALLING"          -> PingOf("INSTALLER_START", r)
    [] r.state = "INSTALL_COMPLETE"    -> InstallCompletePing(r)
    [] r.state = "NO_UPDATE"           -> NoUpdatePing(r)
    [] r.state = "ERROR"               -> ErrorPing(r)
    [] OTHER -> <<>>

ChangeState(r, s) ==
  LET q == [r EXCEPT !.state = s]
  IN  [q EXCEPT !.pings = @ \o CreatePingEvent(q)]

SetError(r, e) ==
  [r EXCEPT !.error = e,
            !.result = IF e = "CANCELLED" THEN "CANCELLED" ELSE "ERROR"]

\* AppState::Error of the base class, which no state overrides to refuse.
BaseError(r, e) == ChangeState(SetError(r, e), "ERROR")

HandleInvalidStateTransition(r) == BaseError(r, "INVALID_TRANSITION")

\* Bug variant: AppStateError forgets to override QueueDownloadOrInstall.
ErrorForgetsQueue == {"DownloadComplete", "MarkReadyToInstall",
                      "PreUpdateCheck", "PostUpdateCheck", "QueueDownload",
                      "Download", "QueueInstall", "Install", "Cancel", "Error"}

\* Events a state accepts without doing anything.  AppStateError overrides
\* neither Downloading nor Installing nor ReportInstallerComplete.
ErrorIgnores == {"DownloadComplete", "MarkReadyToInstall", "PreUpdateCheck",
                 "PostUpdateCheck", "QueueDownload", "QueueDownloadOrInstall",
                 "Download", "QueueInstall", "Install", "Cancel", "Error"}
NoUpdateIgnores == {"QueueDownload", "QueueDownloadOrInstall", "Download",
                    "QueueInstall", "Install", "Cancel"}
WaitingToInstallIgnores == {"Download", "QueueInstall"}
InstallingIgnores == {"Installing", "Cancel"}
InstallCompleteIgnores == {"Cancel"}

Ignores(s) ==
  CASE s = "ERROR"              -> ErrorIgnores
    [] s = "NO_UPDATE"          -> NoUpdateIgnores
    [] s = "WAITING_TO_INSTALL" -> WaitingToInstallIgnores
    [] s = "INSTALLING"         -> InstallingIgnores
    [] s = "INSTALL_COMPLETE"   -> InstallCompleteIgnores
    [] OTHER                    -> {}

\* Bug variant: an event that is not handled is dropped.
UnhandledDropped(r, event) == r

\* An event the current state does not handle: ignored, or the invalid
\* transition of the base class.
Unhandled(r, event) ==
  IF event \in Ignores(r.state) THEN r ELSE HandleInvalidStateTransition(r)

-----------------------------------------------------------------------------
(* The events, one operator per App method.                                *)

Error(r, e) ==
  IF r.state \in Terminal THEN Unhandled(r, "Error") ELSE BaseError(r, e)

Cancel(r) ==
  IF "Cancel" \in Ignores(r.state) THEN r ELSE BaseError(r, "CANCELLED")

\* App::QueueUpdateCheck does not return after the error it reports when the
\* EULA state of a new application was never set.
QueueUpdateCheck(r) ==
  LET q == IF r.eula = "NONE" THEN Error(r, "CALL_UNEXPECTED") ELSE r
  IN  IF q.state = "INIT" THEN ChangeState(q, "WAITING_TO_CHECK")
                          ELSE Unhandled(q, "QueueUpdateCheck")

\* allowed: CheckGroupPolicy succeeds; auto: the bundle is an automatic update.
PreUpdateCheck(r, allowed, auto, offline) ==
  IF r.state # "WAITING_TO_CHECK" THEN Unhandled(r, "PreUpdateCheck")
  ELSE IF ~auto /\ ~allowed THEN Error(r, "POLICY")
  ELSE IF r.eula = "YES" \/ offline THEN ChangeState(r, "CHECKING")
  ELSE Error(r, "EULA")

\* built: update_response_utils::BuildApp succeeds.
HandleUpdateAvailable(r, built) ==
  LET q == [r EXCEPT !.has_update = TRUE]
  IN  IF built THEN ChangeState(q, "UPDATE_AVAILABLE") ELSE Error(q, "FAILED")

SetNoUpdate(r, e) ==
  [r EXCEPT !.error = e,
            !.result = IF e = "DEFERRED" THEN "DEFERRED" ELSE "SUCCESS"]

HandleUpdateDeferred(r) == ChangeState(SetNoUpdate(r, "DEFERRED"), "NO_UPDATE")

HandleNoUpdate(r) ==
  IF r.is_update THEN ChangeState(SetNoUpdate(r, "S_OK"), "NO_UPDATE")
                 ELSE Error(r, "FAILED")

\* Bug variant: updates are not deferred.
NeverDeferred(r, answer, omahaUpdate) == FALSE

\* An update of another application waits while Omaha itself has an update.
IsDeferred(r, answer, omahaUpdate) ==
  ~r.omaha /\ r.is_update /\ answer = "UPDATE" /\ omahaUpdate

PostUpdateCheck(r, hr, answer, omahaUpdate, built) ==
  IF r.state # "CHECKING" THEN Unhandled(r, "PostUpdateCheck")
  ELSE IF hr # "S_OK" THEN Error(r, hr)
  ELSE IF IsDeferred(r, answer, omahaUpdate) THEN HandleUpdateDeferred(r)
  ELSE CASE answer = "UPDATE"    -> HandleUpdateAvailable(r, built)
         [] answer = "NO_UPDATE" -> HandleNoUpdate(r)
         [] answer = "ERROR"     -> Error(r, "FAILED")

\* Bug variant: Group Policy is not checked before the download.
QueueDownloadNoPolicy(r, allowed) ==
  IF r.state # "UPDATE_AVAILABLE" THEN Unhandled(r, "QueueDownload")
  ELSE ChangeState(r, "WAITING_TO_DOWNLOAD")

QueueDownload(r, allowed) ==
  IF r.state # "UPDATE_AVAILABLE" THEN Unhandled(r, "QueueDownload")
  ELSE IF allowed THEN ChangeState(r, "WAITING_TO_DOWNLOAD")
  ELSE Error(r, "POLICY")

QueueInstall(r) ==
  IF r.state = "READY_TO_INSTALL" THEN ChangeState(r, "WAITING_TO_INSTALL")
                                  ELSE Unhandled(r, "QueueInstall")

QueueDownloadOrInstall(r, allowed) ==
  CASE r.state = "UPDATE_AVAILABLE" -> QueueDownload(r, allowed)
    [] r.state = "READY_TO_INSTALL" -> QueueInstall(r)
    [] OTHER -> Unhandled(r, "QueueDownloadOrInstall")

Downloading(r) ==
  IF r.state = "WAITING_TO_DOWNLOAD" THEN ChangeState(r, "DOWNLOADING")
                                     ELSE Unhandled(r, "Downloading")

DownloadComplete(r) ==
  IF r.state \in {"WAITING_TO_DOWNLOAD", "DOWNLOADING"}
    THEN ChangeState(r, "DOWNLOAD_COMPLETE")
    ELSE Unhandled(r, "DownloadComplete")

\* Bug variant: the state is set without asking the current one.
MarkReadyUnchecked(r) == ChangeState(r, "READY_TO_INSTALL")

MarkReadyToInstall(r) ==
  IF r.state = "DOWNLOAD_COMPLETE" THEN ChangeState(r, "READY_TO_INSTALL")
                                   ELSE Unhandled(r, "MarkReadyToInstall")

Installing(r) ==
  IF r.state = "WAITING_TO_INSTALL" THEN ChangeState(r, "INSTALLING")
                                    ELSE Unhandled(r, "Installing")

SetInstallerResult(r, success) ==
  IF success THEN [r EXCEPT !.error = "S_OK", !.result = "SUCCESS"]
  ELSE [r EXCEPT !.error = "INSTALLER_FAILED", !.result = "INSTALLER_ERROR"]

\* Bug variant: a failed installer is reported as a completed installation.
ReportAlwaysComplete(r, success) ==
  IF r.state # "INSTALLING" THEN Unhandled(r, "ReportInstallerComplete")
  ELSE ChangeState(SetInstallerResult(r, success), "INSTALL_COMPLETE")

ReportInstallerComplete(r, success) ==
  IF r.state # "INSTALLING" THEN Unhandled(r, "ReportInstallerComplete")
  ELSE ChangeState(SetInstallerResult(r, success),
                   IF success THEN "INSTALL_COMPLETE" ELSE "ERROR")
=============================================================================
