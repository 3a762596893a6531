--------------------------- MODULE BundleInstaller ---------------------------
(***************************************************************************)
(* The client that installs a bundle (client/bundle_installer.cc) on top   *)
(* of the bundle in the COM server.  It makes the calls of UpdateBundle    *)
(* and learns what came of them by polling: a timer of its UI thread reads *)
(* the state of one application after the other, each in a COM call of its *)
(* own, while the worker goes on.  Cancel runs on the same UI thread, so   *)
(* it comes between two polls and not inside one.                          *)
(***************************************************************************)
EXTENDS UpdateBundle

VARIABLES
  state_,               \* kInit, kProcessing or kComplete
  running,              \* InstallBundle runs its message loop
  is_update_all_apps_, is_update_check_only_,
  is_canceled_,
  apps_,                \* the client's list of the applications
  at, k,                \* where PollServer is, and its loop index
  num_updates,
  apps_info,            \* completion information collected so far
  result_

Kind == <<is_update_all_apps_, is_update_check_only_>>
ivars == <<vars, state_, running, Kind, is_canceled_, apps_, at, k,
           num_updates, apps_info, result_>>

\* An installation of new applications, an update on demand or a check on
\* demand of a registered one, or the update of everything (/ua).
InstallerInit ==
  /\ Init
  /\ is_update_all_apps_ \in BOOLEAN /\ is_update_check_only_ \in BOOLEAN
  /\ ~(is_update_all_apps_ /\ is_update_check_only_)
  /\ state_ = "kInit" /\ running = FALSE /\ is_canceled_ = FALSE
  /\ apps_ = <<>> /\ at = "idle" /\ k = 1 /\ num_updates = 0
  /\ apps_info = <<>> /\ result_ = "E_UNEXPECTED"

-----------------------------------------------------------------------------
(* Before the message loop                                                 *)

\* bundle_creator: new applications, of which it says whether their EULA is
\* accepted, or the one registered application of an update on demand.
CreateBundle ==
  /\ ~running
  /\ \/ Initialize
     \/ /\ ~is_update_all_apps_
        /\ \E a \in AppIds, eula \in {"NO", "YES"} :
             \/ apps = <<>> /\ CreateInstalledApp(a, eula)
             \/ ~is_update_check_only_ /\ CreateApp(a)
             \/ app[a].eula = "NONE" /\ PutIsEulaAccepted(a, eula)
  /\ UNCHANGED <<state_, running, Kind, is_canceled_, apps_, at, k,
                 num_updates, apps_info, result_>>

InstallBundle ==
  /\ ~running /\ bundle = "Initialized"
  /\ is_update_all_apps_ \/ apps # <<>>
  /\ \A a \in InBundle : app[a].eula # "NONE"
  /\ running' = TRUE
  /\ UNCHANGED <<vars, state_, Kind, is_canceled_, apps_, at, k, num_updates,
                 apps_info, result_>>

-----------------------------------------------------------------------------
(* Cancel                                                                  *)

\* AppBundle::stop.  A bundle that is ready refuses it.
Stop ==
  \/ StopInitialized \/ StopBusy
  \/ bundle \notin {"Initialized", "Busy"} /\ UNCHANGED vars

\* The progress window cancels once; the shutdown event, which only /ua listens
\* to, may come again.
DoCancel ==
  /\ running /\ at = "idle" /\ state_ # "kComplete"
  /\ is_canceled_ => is_update_all_apps_
  /\ Stop
  /\ is_canceled_' = TRUE
  /\ UNCHANGED <<state_, running, Kind, apps_, at, k, num_updates, apps_info,
                 result_>>

-----------------------------------------------------------------------------
(* PollServer                                                              *)

\* Complete releases the bundle and stops the timer.
Complete(result) ==
  /\ state_' = "kComplete" /\ result_' = result /\ apps_' = <<>> /\ at' = "idle"

Poll(place) == at' = place /\ UNCHANGED <<state_, result_, apps_>>

\* HandleInitState.  The list of applications is final once the call was taken.
HandleInitState ==
  /\ running /\ at = "idle" /\ state_ = "kInit"
  /\ state_' = "kProcessing"
  /\ \/ /\ \/ /\ is_update_all_apps_
              /\ \E s \in AppLists, eula \in [AppIds -> {"NO", "YES"}] :
                   s # <<>> /\ UpdateAllApps(s, eula)
           \/ ~is_update_all_apps_ /\ CheckForUpdate
        /\ \/ at' = "idle" /\ apps_' = apps'
           \/ "com" \in Faults /\ at' = "fail" /\ UNCHANGED apps_
     \/ /\ is_update_all_apps_
        /\ \E s \in AppLists, eula \in [AppIds -> {"NO", "YES"}] :
             UpdateAllAppsFails(s, eula)
        /\ at' = "fail" /\ UNCHANGED apps_
     \/ /\ "queue" \in Faults \/ bundle # "Initialized"
        /\ at' = "fail" /\ UNCHANGED <<vars, apps_>>
  /\ UNCHANGED <<running, Kind, is_canceled_, k, num_updates, apps_info, result_>>

OnTimer ==
  /\ running /\ at = "idle" /\ state_ = "kProcessing"
  /\ Poll("poll") /\ k' = 1
  /\ UNCHANGED <<vars, running, Kind, is_canceled_, num_updates, apps_info>>

\* What the client reads of the application it is at.
Current == app[apps_[k]]

\* The states HandleProcessingState passes over.
Done == {"INSTALL_COMPLETE", "NO_UPDATE", "ERROR"}

\* One round of the loop of HandleProcessingState: the first application that is
\* not in a terminal state decides.
HandleProcessingState ==
  /\ at = "poll"
  /\ \/ IF Current.state \in Done
          THEN IF k < Len(apps_) THEN Poll("poll") /\ k' = k + 1
                                 ELSE Poll("report") /\ k' = 1
          ELSE /\ UNCHANGED k
               /\ Poll(IF Current.state = "UPDATE_AVAILABLE"
                          /\ ~is_update_all_apps_ THEN "busy" ELSE "idle")
     \/ "com" \in Faults /\ Poll("fail") /\ UNCHANGED k
  /\ UNCHANGED <<vars, running, Kind, is_canceled_, num_updates, apps_info>>

\* Bug variant: the results are read whether the bundle is busy or not.
ClientHandleUpdateAtOnce ==
  /\ at = "busy"
  /\ Poll("results")
  /\ k' = 1 /\ num_updates' = 0
  /\ UNCHANGED <<vars, running, Kind, is_canceled_, apps_info>>

\* Bug variant: the client leaves it to the bundle to go on, as with /ua.
ClientHandleUpdateNever ==
  /\ at = "busy"
  /\ Poll("idle")
  /\ k' = 1 /\ num_updates' = 0
  /\ UNCHANGED <<vars, running, Kind, is_canceled_, apps_info>>

\* HandleUpdateAvailable up to the results: wait while the bundle is busy.
ClientHandleUpdateAvailable ==
  /\ at = "busy"
  /\ Poll(IF bundle = "Busy" THEN "idle" ELSE "results")
  /\ k' = 1 /\ num_updates' = 0
  /\ UNCHANGED <<vars, running, Kind, is_canceled_, apps_info>>

\* One round of HandleUpdateCheckResults, and what follows its last.
HandleUpdateCheckResults ==
  /\ at = "results"
  /\ \/ IF Current.state \notin {"NO_UPDATE", "ERROR", "UPDATE_AVAILABLE"}
          THEN Poll("fail") /\ UNCHANGED <<k, num_updates>>
          ELSE /\ num_updates' = IF Current.state = "UPDATE_AVAILABLE"
                                   THEN num_updates + 1 ELSE num_updates
               /\ IF k < Len(apps_) THEN Poll("results") /\ k' = k + 1
                  ELSE /\ UNCHANGED k
                       /\ IF is_update_check_only_ THEN Complete("S_OK")
                                                   ELSE Poll("install")
     \/ "com" \in Faults /\ Poll("fail") /\ UNCHANGED <<k, num_updates>>
  /\ UNCHANGED <<vars, running, Kind, is_canceled_, apps_info>>

\* The call of install, which only a ready bundle takes.
CallInstall ==
  /\ at = "install"
  /\ \/ Install /\ Poll("idle")
     \/ /\ bundle # "Ready" \/ "queue" \in Faults
        /\ Poll("fail") /\ UNCHANGED vars
  /\ UNCHANGED <<running, Kind, is_canceled_, k, num_updates, apps_info>>

\* GetAppCompletionMessage: what the client tells about an application.
AppInfo(r) ==
  [state |-> r.state,
   error |-> IF r.state \notin {"INSTALL_COMPLETE", "NO_UPDATE"}
                /\ r.error = "S_OK" THEN "FAILED" ELSE r.error]

\* What it tells when the COM call fails.
NoInfo == [state |-> "INIT", error |-> "FAILED"]

\* Bug variant: the result of the last application is that of the bundle.
LastResult(infos) == infos[Len(infos)].error

\* The result of the bundle is that of the first application that failed.
BundleResult(infos) ==
  IF \A m \in DOMAIN infos : infos[m].error = "S_OK" THEN "S_OK"
  ELSE infos[CHOOSE m \in DOMAIN infos :
               /\ infos[m].error # "S_OK"
               /\ \A j \in 1..(m - 1) : infos[j].error = "S_OK"].error

\* One round of NotifyBundleInstallComplete.
NotifyBundleInstallComplete ==
  /\ at = "report"
  /\ \E info \in {AppInfo(Current)} \cup
                 IF "com" \in Faults THEN {NoInfo} ELSE {} :
       /\ apps_info' = Append(apps_info, info)
       /\ IF k < Len(apps_) THEN Poll("report") /\ k' = k + 1
          ELSE Complete(BundleResult(apps_info')) /\ UNCHANGED k
  /\ UNCHANGED <<vars, running, Kind, is_canceled_, num_updates>>

\* The end of PollServer when DoPollServer has failed: cancel, and complete with
\* the error.
PollServerFails ==
  /\ at = "fail"
  /\ Stop
  /\ Complete("FAILED")
  /\ UNCHANGED <<running, Kind, is_canceled_, k, num_updates, apps_info>>

PollServer ==
  \/ HandleInitState \/ OnTimer \/ HandleProcessingState
  \/ ClientHandleUpdateAvailable \/ HandleUpdateCheckResults \/ CallInstall
  \/ NotifyBundleInstallComplete \/ PollServerFails

ServerStep ==
  /\ Worker
  /\ UNCHANGED <<state_, running, Kind, is_canceled_, apps_, at, k,
                 num_updates, apps_info, result_>>

InstallerNext ==
  CreateBundle \/ InstallBundle \/ DoCancel \/ PollServer \/ ServerStep

\* The timer fires every 100 ms until the client is complete, and the worker
\* is never starved.  Nothing makes the user cancel.
InstallerSpec ==
  /\ InstallerInit /\ [][InstallerNext]_ivars
  /\ WF_ivars(PollServer) /\ WF_ivars(ServerStep)

-----------------------------------------------------------------------------
(* What the client promises.                                               *)

\* The assertions of bundle_installer.cc, whatever the worker does between two
\* reads of one poll: what the update check left when the client reads it, that
\* there is an update when it calls install and the bundle is ready to take the
\* call, and that applications are in a terminal state when their completion is
\* reported.
ClientAssertions ==
  /\ at = "results" =>
       Current.state \in {"NO_UPDATE", "ERROR", "UPDATE_AVAILABLE"}
  /\ at = "install" => num_updates > 0 /\ bundle = "Ready"
  /\ \A m \in DOMAIN apps_info :
       apps_info[m] # NoInfo => apps_info[m].state \in Terminal

\* What the client told the user is and stays the truth: the states it read one
\* by one are the states of the applications when it completes and for ever
\* after, though the bundle may be busy still; it returns success only if every
\* application has no update or was installed and registered, and no failure if
\* there was nothing but applications without update.
ReportTrue ==
  state_ = "kComplete" =>
    /\ \A m \in DOMAIN apps_info :
         apps_info[m] = NoInfo \/ apps_info[m].state = app[apps[m]].state
    /\ (result_ = "S_OK" /\ ~is_update_check_only_) =>
         \A a \in InBundle : app[a].state = "NO_UPDATE" \/ a \in installed
    /\ (result_ # "S_OK" /\ apps_info # <<>>) =>
         \E m \in DOMAIN apps_info : apps_info[m].state # "NO_UPDATE"

\* The client completes: polling never goes on for ever, whether the user has
\* cancelled or not.
ClientEnds == running ~> state_ = "kComplete"

-----------------------------------------------------------------------------
(* What comments and assertions say and the code does not do.              *)

\* CancelBundle: VERIFY_SUCCEEDED(app_bundle_->stop()).
CancelStopsBundle ==
  [][~is_canceled_ /\ is_canceled_' => bundle' = "Stopped"]_ivars
=============================================================================
