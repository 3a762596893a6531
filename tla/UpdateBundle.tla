---------------------------- MODULE UpdateBundle ----------------------------
(***************************************************************************)
(* One AppBundle of the Omaha COM server: the calls a client makes on it   *)
(* (goopdate/app_bundle.cc, app_bundle_state_*.cc) interleaved with the    *)
(* thread-pool work item that carries a call out (goopdate/worker.cc), the *)
(* download manager and the install manager it drives.                     *)
(*                                                                         *)
(* A client call runs under the model lock, so it is one action.  The      *)
(* worker takes the lock once per application event, and not at all while  *)
(* it dispatches App::Download and App::Install, waits for the network or  *)
(* waits for an installer; each of these is a step of its own, named by pc.*)
(***************************************************************************)
EXTENDS AppStates

CONSTANTS
  AppIds,       \* applications that exist on the machine or the server
  Omaha,        \* the application that is Omaha itself (kGoopdateGuid)
  MaxApps,      \* most applications one bundle holds
  ClientCalls,  \* calls the client of this run makes
  Faults        \* steps that may fail in this run

ASSUME MaxAppsAssumption == MaxApps \in Nat

BundleStates == {"Init", "Initialized", "Busy", "Ready", "Paused", "Stopped"}

Ops == {"None", "CheckForUpdate", "Download", "Install", "UpdateAllApps"}

\* The points at which the work item lets other threads run.
CheckPcs == {"check", "pre", "send", "post", "offline"}
DownloadAppPcs == {"downloading", "fetch", "put", "download_complete", "mark",
                   "download_error", "delete"}
InstallAppPcs == {"installing", "run", "report"}
InstallPcs == {"queue_install", "install", "copy"} \cup InstallAppPcs
LoopPcs == {"download", "create"} \cup DownloadAppPcs \cup InstallPcs
Pcs == {"idle", "queue", "impersonate", "complete"} \cup CheckPcs \cup LoopPcs

VARIABLES
  bundle,     \* the AppBundleState object
  apps,       \* AppBundle::apps_
  app,        \* the App object of every application
  auto,       \* is_auto_update_
  offline,    \* is_offline_install()
  allowed,    \* applications Group Policy lets be installed or updated
  cached,     \* applications whose packages are all in the package cache
  pending,    \* user_work_item_ is not NULL
  op, pc, i,  \* the work item: its function, where it is, the loop index
  hr,         \* the HRESULT the work item holds
  request,    \* applications in the update request
  answer,     \* the update response
  dl,         \* applications with a State in DownloadManager::download_state_
  dlCancelled,\* those whose network request was cancelled
  ran,        \* how often each application's installer was started
  installed   \* applications whose installer succeeded and registered

client == <<bundle, apps, auto, offline, allowed, pending>>
check == <<request, answer>>
history == <<ran, installed>>
vars == <<client, app, cached, op, pc, i, hr, check, dl, dlCancelled, history>>

InBundle == {apps[n] : n \in 1..Len(apps)}

AppLists == {s \in UNION {[1..n -> AppIds] : n \in 0..MaxApps} :
               \A m, n \in DOMAIN s : s[m] = s[n] => m = n}

\* Whether a step that may fail in this run succeeds.
Succeeds(fault) == IF fault \in Faults THEN BOOLEAN ELSE {TRUE}

NoAnswer == [a \in AppIds |-> "ERROR"]

\* The policies and the package cache are as earlier runs left them.  A client
\* that installs offline sets the directory when it creates the bundle.
Init ==
  /\ bundle = "Init" /\ apps = <<>> /\ auto = FALSE /\ pending = FALSE
  /\ offline \in IF "PutOfflineDirectory" \in ClientCalls
                  THEN BOOLEAN ELSE {FALSE}
  /\ allowed \in SUBSET AppIds /\ cached \in SUBSET AppIds
  /\ app = [a \in AppIds |-> NewApp(FALSE, a = Omaha, "NONE")]
  /\ op = "None" /\ pc = "idle" /\ i = 1 /\ hr = "S_OK"
  /\ request = {} /\ answer = NoAnswer
  /\ dl = {} /\ dlCancelled = {}
  /\ ran = [a \in AppIds |-> 0] /\ installed = {}

-----------------------------------------------------------------------------
(* Calls of the client.                                                    *)

worker == <<cached, op, pc, i, hr, check, dl, dlCancelled, history>>

Initialize ==
  /\ bundle = "Init"
  /\ bundle' = "Initialized"
  /\ UNCHANGED <<apps, app, auto, offline, allowed, pending, worker>>

HasInstalledApp == \E a \in InBundle : app[a].is_update
HasNewApp == \E a \in InBundle : ~app[a].is_update

AddApp(a, record) ==
  /\ bundle = "Initialized" /\ a \notin InBundle /\ Len(apps) < MaxApps
  /\ apps' = Append(apps, a)
  /\ app' = [app EXCEPT ![a] = record]
  /\ UNCHANGED <<bundle, auto, offline, allowed, pending, worker>>

CreateApp(a) ==
  /\ "CreateApp" \in ClientCalls
  /\ ~HasInstalledApp
  /\ AddApp(a, NewApp(FALSE, a = Omaha, "NONE"))

\* ReadAppPersistentData reads whether the EULA was accepted.
CreateInstalledApp(a, eula) ==
  /\ "CreateInstalledApp" \in ClientCalls
  /\ ~HasNewApp
  /\ AddApp(a, NewApp(TRUE, a = Omaha, eula))

PutIsEulaAccepted(a, eula) ==
  /\ "PutIsEulaAccepted" \in ClientCalls
  /\ a \in InBundle
  /\ app' = [app EXCEPT ![a].eula = eula]
  /\ UNCHANGED <<client, worker>>

\* The registered applications AddInstalledApp could add.  One whose own
\* updater is running, or whose data cannot be read, is skipped.
RegisteredApps(s, eula) ==
  [a \in AppIds |-> IF \E n \in DOMAIN s : s[n] = a
                      THEN NewApp(TRUE, a = Omaha, eula[a]) ELSE app[a]]

CreateAllInstalledApps(s, eula) ==
  /\ "CreateAllInstalledApps" \in ClientCalls
  /\ bundle = "Initialized" /\ apps = <<>>
  /\ apps' = s
  /\ app' = RegisteredApps(s, eula)
  /\ UNCHANGED <<bundle, auto, offline, allowed, pending, worker>>

\* QueueDeferredFunctionCall0: the work item is queued and recorded.
StartWork(operation, first) ==
  /\ pending' = TRUE
  /\ op' = operation /\ pc' = first /\ i' = 1 /\ hr' = "S_OK"
  /\ UNCHANGED <<offline, allowed, cached, check, dl, dlCancelled, history>>

OnBundle(F(_)) ==
  [a \in AppIds |-> IF a \in InBundle THEN F(app[a]) ELSE app[a]]

\* When the work item cannot be queued the call fails and nothing changes.
CheckForUpdate ==
  /\ "CheckForUpdate" \in ClientCalls
  /\ bundle = "Initialized" /\ apps # <<>>
  /\ StartWork("CheckForUpdate", "check")
  /\ app' = OnBundle(QueueUpdateCheck)
  /\ bundle' = "Busy"
  /\ UNCHANGED <<apps, auto>>

UpdateAllApps(s, eula) ==
  /\ "UpdateAllApps" \in ClientCalls
  /\ bundle = "Initialized" /\ apps = <<>>
  /\ StartWork("UpdateAllApps", "check")
  /\ auto' = TRUE
  /\ apps' = s
  /\ app' = LET read == RegisteredApps(s, eula)
            IN  [a \in AppIds |-> IF \E n \in DOMAIN s : s[n] = a
                                    THEN QueueUpdateCheck(read[a]) ELSE read[a]]
  /\ bundle' = "Busy"

\* updateAllApps fails after set_is_auto_update, either because the registered
\* applications cannot be enumerated (s is empty) or because the work item
\* cannot be queued: what was set stays set.
UpdateAllAppsFails(s, eula) ==
  /\ "UpdateAllApps" \in ClientCalls /\ "queue" \in Faults
  /\ bundle = "Initialized" /\ apps = <<>>
  /\ auto' = TRUE
  /\ apps' = s
  /\ app' = RegisteredApps(s, eula)
  /\ UNCHANGED <<bundle, offline, allowed, pending, worker>>

Download ==
  /\ "Download" \in ClientCalls
  /\ bundle = "Ready"
  /\ StartWork("Download", "impersonate")
  /\ app' = [a \in AppIds |-> IF a \in InBundle
                                THEN QueueDownload(app[a], a \in allowed)
                                ELSE app[a]]
  /\ bundle' = "Busy"
  /\ UNCHANGED <<apps, auto>>

Install ==
  /\ "Install" \in ClientCalls
  /\ bundle = "Ready"
  /\ StartWork("Install", "impersonate")
  /\ app' = [a \in AppIds |-> IF a \in InBundle
                                THEN QueueDownloadOrInstall(app[a], a \in allowed)
                                ELSE app[a]]
  /\ bundle' = "Busy"
  /\ UNCHANGED <<apps, auto>>

\* Only a bundle that was never used can be paused: Worker::Pause and
\* Worker::Resume return E_NOTIMPL, so a busy bundle stays busy and a paused
\* one stays paused.
Pause ==
  /\ "Pause" \in ClientCalls
  /\ bundle = "Initialized"
  /\ bundle' = "Paused"
  /\ UNCHANGED <<apps, app, auto, offline, allowed, pending, worker>>

StopInitialized ==
  /\ "Stop" \in ClientCalls
  /\ bundle = "Initialized"
  /\ bundle' = "Stopped"
  /\ UNCHANGED <<apps, app, auto, offline, allowed, pending, worker>>

\* Bug variant: Stop cancels the downloads and forgets the applications.
StopForgetsApps ==
  /\ "Stop" \in ClientCalls
  /\ bundle = "Busy"
  /\ dlCancelled' = dlCancelled \cup (dl \cap InBundle)
  /\ bundle' = "Stopped"
  /\ UNCHANGED <<apps, app, auto, offline, allowed, pending, cached, op, pc, i,
                 hr, check, dl, history>>

\* Worker::Stop cancels the network requests of the bundle's downloads and
\* then every application.
StopBusy ==
  /\ "Stop" \in ClientCalls
  /\ bundle = "Busy"
  /\ dlCancelled' = dlCancelled \cup (dl \cap InBundle)
  /\ app' = OnBundle(Cancel)
  /\ bundle' = "Stopped"
  /\ UNCHANGED <<apps, auto, offline, allowed, pending, cached, op, pc, i, hr,
                 check, dl, history>>

-----------------------------------------------------------------------------
(* Steps of the work item.                                                 *)

A == apps[i]

\* The loop over the applications: the next one, or the end of the loop.
Loop(body, end) ==
  IF i < Len(apps) THEN pc' = body /\ i' = i + 1 ELSE pc' = end /\ i' = 1

EnterLoop(body, end) ==
  /\ pc' = IF apps = <<>> THEN end ELSE body
  /\ i' = 1

Goto(next) == pc' = next /\ UNCHANGED i

\* The end of CheckForUpdateHelper.
AfterCheck == IF op = "UpdateAllApps" THEN "queue" ELSE "complete"

\* CheckForUpdateHelper: impersonate the client, or give the check up and leave
\* the applications as they are.
BeginCheck ==
  /\ pc = "check"
  /\ \E ok \in Succeeds("impersonation") :
       IF ok THEN EnterLoop("pre", "send")
       ELSE IF AfterCheck = "queue" THEN EnterLoop("queue", "impersonate")
       ELSE Goto("complete")
  /\ UNCHANGED <<client, app, cached, op, hr, check, dl, dlCancelled, history>>

DoPreUpdateCheck ==
  LET r == PreUpdateCheck(app[A], A \in allowed, auto, offline)
  IN  /\ pc = "pre"
      /\ app' = [app EXCEPT ![A] = r]
      /\ request' = IF r.state = "CHECKING" THEN request \cup {A} ELSE request
      /\ Loop("pre", "send")
      /\ UNCHANGED <<client, cached, op, hr, answer, dl, dlCancelled, history>>

\* An empty request is not sent.  Otherwise the server, or the offline
\* manifest, answers for the applications in the request, or the check fails.
DoUpdateCheck ==
  /\ pc = "send"
  /\ \/ /\ \E ans \in [request -> Answers] :
             answer' = [a \in AppIds |-> IF a \in request THEN ans[a]
                                                          ELSE "ERROR"]
        /\ hr' = "S_OK"
     \/ /\ request # {} /\ "network" \in Faults
        /\ hr' = "FAILED"
        /\ UNCHANGED answer
     \/ /\ request # {} /\ bundle = "Stopped"
        /\ hr' = "CANCELLED"
        /\ UNCHANGED answer
  /\ EnterLoop("post", "offline")
  /\ UNCHANGED <<client, app, cached, op, request, dl, dlCancelled, history>>

IsOmahaUpdateAvailable ==
  Omaha \in AppIds /\ Omaha \in request /\ answer[Omaha] = "UPDATE"

DoPostUpdateCheck ==
  /\ pc = "post"
  /\ \E built \in Succeeds("response") :
       app' = [app EXCEPT ![A] = PostUpdateCheck(@, hr, answer[A],
                                     IsOmahaUpdateAvailable, built)]
  /\ Loop("post", "offline")
  /\ UNCHANGED <<client, cached, op, hr, check, dl, dlCancelled, history>>

\* CacheOfflinePackages stops at the first package it cannot cache, and its
\* result is ignored.
CacheOfflinePackages ==
  /\ pc = "offline"
  /\ IF offline
       THEN \E last \in IF "cache" \in Faults THEN 0..Len(apps)
                                              ELSE {Len(apps)} :
              cached' = cached \cup {apps[n] : n \in 1..last}
       ELSE UNCHANGED cached
  /\ request' = {} /\ answer' = NoAnswer /\ hr' = "S_OK"
  /\ IF AfterCheck = "queue" THEN EnterLoop("queue", "impersonate")
                             ELSE Goto("complete")
  /\ UNCHANGED <<client, app, op, dl, dlCancelled, history>>

\* UpdateAllApps goes on to the downloads whatever the check returned.
QueueApp ==
  /\ pc = "queue"
  /\ app' = [app EXCEPT ![A] = QueueDownloadOrInstall(@, A \in allowed)]
  /\ Loop("queue", "impersonate")
  /\ UNCHANGED <<client, cached, op, hr, check, dl, dlCancelled, history>>

\* Worker::Download returns without CompleteAsyncCall when it cannot
\* impersonate; DownloadAndInstall completes the call.
BeginDownload ==
  /\ pc = "impersonate"
  /\ \E ok \in Succeeds("impersonation") :
       IF ok THEN EnterLoop("download", "complete") /\ UNCHANGED op
       ELSE IF op = "Download" THEN Goto("idle") /\ op' = "None"
       ELSE Goto("complete") /\ UNCHANGED op
  /\ UNCHANGED <<client, app, cached, hr, check, dl, dlCancelled, history>>

AfterDownload ==
  IF op = "Download" THEN Loop("download", "complete") ELSE Goto("queue_install")

\* App::Download reads the state without the model lock.  Only
\* AppStateWaitingToDownload goes to the download manager.
DispatchDownload ==
  /\ pc = "download"
  /\ IF app[A].state = "WAITING_TO_DOWNLOAD"
       THEN Goto("create") /\ UNCHANGED app
       ELSE AfterDownload /\ app' = [app EXCEPT ![A] = Unhandled(@, "Download")]
  /\ UNCHANGED <<client, cached, op, hr, check, dl, dlCancelled, history>>

\* When there is no network configuration DownloadApp returns before the
\* application leaves WAITING_TO_DOWNLOAD.
CreateStateForApp ==
  /\ pc = "create"
  /\ \E ok \in Succeeds("network_config") :
       IF ok THEN dl' = dl \cup {A} /\ Goto("downloading")
             ELSE AfterDownload /\ UNCHANGED dl
  /\ UNCHANGED <<client, app, cached, op, hr, check, dlCancelled, history>>

AppDownloading ==
  /\ pc = "downloading"
  /\ app' = [app EXCEPT ![A] = Downloading(@)]
  /\ Goto("fetch")
  /\ UNCHANGED <<client, cached, op, hr, check, dl, dlCancelled, history>>

\* DoDownloadPackage for every package: nothing to do when they are cached, and
\* otherwise refused, cancelled, failed or received.
FetchPackages ==
  /\ pc = "fetch"
  /\ \/ A \in cached /\ Goto("download_complete") /\ UNCHANGED hr
     \/ /\ A \notin cached
        /\ IF app[A].eula # "YES" THEN hr' = "EULA" /\ Goto("download_error")
           ELSE IF A \in dlCancelled
             THEN hr' = "CANCELLED" /\ Goto("download_error")
           ELSE \E ok \in Succeeds("network") :
                  IF ok THEN Goto("put") /\ UNCHANGED hr
                        ELSE hr' = "FAILED" /\ Goto("download_error")
  /\ UNCHANGED <<client, app, cached, op, check, dl, dlCancelled, history>>

\* Bug variant: a package that could not be cached counts as downloaded.
CachePackageUnchecked ==
  /\ pc = "put"
  /\ \E ok \in Succeeds("cache") :
       cached' = IF ok THEN cached \cup {A} ELSE cached
  /\ Goto("download_complete")
  /\ UNCHANGED <<client, app, op, hr, check, dl, dlCancelled, history>>

\* CachePackage copies the files into the package cache and verifies them.
CachePackage ==
  /\ pc = "put"
  /\ \E ok \in Succeeds("cache") :
       IF ok THEN /\ cached' = cached \cup {A}
                  /\ Goto("download_complete") /\ UNCHANGED hr
             ELSE /\ hr' = "FAILED" /\ Goto("download_error")
                  /\ UNCHANGED cached
  /\ UNCHANGED <<client, app, op, check, dl, dlCancelled, history>>

AppDownloadComplete ==
  /\ pc = "download_complete"
  /\ app' = [app EXCEPT ![A] = DownloadComplete(@)]
  /\ Goto("mark")
  /\ UNCHANGED <<client, cached, op, hr, check, dl, dlCancelled, history>>

AppMarkReadyToInstall ==
  /\ pc = "mark"
  /\ app' = [app EXCEPT ![A] = MarkReadyToInstall(@)]
  /\ Goto("delete")
  /\ UNCHANGED <<client, cached, op, hr, check, dl, dlCancelled, history>>

AppDownloadError ==
  /\ pc = "download_error"
  /\ app' = [app EXCEPT ![A] = Error(@, hr)]
  /\ hr' = "S_OK"
  /\ Goto("delete")
  /\ UNCHANGED <<client, cached, op, check, dl, dlCancelled, history>>

\* Bug variant: the State is only deleted when the download succeeded.
DeleteStateIfReady ==
  /\ pc = "delete"
  /\ dl' = IF app[A].state = "READY_TO_INSTALL" THEN dl \ {A} ELSE dl
  /\ dlCancelled' = dlCancelled \ {A}
  /\ AfterDownload
  /\ UNCHANGED <<client, app, cached, op, hr, check, history>>

DeleteStateForApp ==
  /\ pc = "delete"
  /\ dl' = dl \ {A} /\ dlCancelled' = dlCancelled \ {A}
  /\ AfterDownload
  /\ UNCHANGED <<client, app, cached, op, hr, check, history>>

AppQueueInstall ==
  /\ pc = "queue_install"
  /\ app' = [app EXCEPT ![A] = QueueInstall(@)]
  /\ Goto("install")
  /\ UNCHANGED <<client, cached, op, hr, check, dl, dlCancelled, history>>

\* App::Install reads the state without the model lock.
DispatchInstall ==
  /\ pc = "install"
  /\ IF app[A].state = "WAITING_TO_INSTALL"
       THEN Goto("copy") /\ UNCHANGED app
       ELSE /\ Loop("download", "complete")
            /\ app' = [app EXCEPT ![A] = Unhandled(@, "Install")]
  /\ UNCHANGED <<client, cached, op, hr, check, dl, dlCancelled, history>>

\* AppStateWaitingToInstall::Install copies the packages out of the cache.  On a
\* failure it calls Error of its own state object; if the application has left
\* that state meanwhile, the object is gone and the call may or may not act.
CopyPackages ==
  /\ pc = "copy"
  /\ \E ok \in Succeeds("copy") :
       IF ok THEN Goto("installing") /\ UNCHANGED app
       ELSE /\ Loop("download", "complete")
            /\ \/ app' = [app EXCEPT ![A] = BaseError(@, "FAILED")]
               \/ app[A].state # "WAITING_TO_INSTALL" /\ UNCHANGED app
  /\ UNCHANGED <<client, cached, op, hr, check, dl, dlCancelled, history>>

\* The block of InstallManager::InstallApp before the installer, under the
\* model lock.  It does not look at what Installing did.
AppInstalling ==
  /\ pc = "installing"
  /\ LET r == Installing(app[A])
     IN  \E ok \in IF app[A].is_update THEN {TRUE} ELSE Succeeds("preinstall") :
           IF ok THEN app' = [app EXCEPT ![A] = r] /\ Goto("run")
           ELSE /\ app' = [app EXCEPT ![A] = Error(r, "FAILED")]
                /\ Loop("download", "complete")
  /\ UNCHANGED <<client, cached, op, hr, check, dl, dlCancelled, history>>

\* InstallerWrapper::InstallApp, and the check that the application registered.
RunInstaller ==
  /\ pc = "run"
  /\ ran' = [ran EXCEPT ![A] = @ + 1]
  /\ hr' \in IF "installer" \in Faults
               THEN {"S_OK", "INSTALLER_FAILED", "FAILED"} ELSE {"S_OK"}
  /\ Goto("report")
  /\ UNCHANGED <<client, app, cached, op, check, dl, dlCancelled, installed>>

ReportResult ==
  /\ pc = "report"
  /\ app' = [app EXCEPT ![A] =
               CASE hr = "S_OK" -> ReportInstallerComplete(@, TRUE)
                 [] hr = "INSTALLER_FAILED" -> ReportInstallerComplete(@, FALSE)
                 [] OTHER -> Error(@, hr)]
  /\ installed' = IF hr = "S_OK" THEN installed \cup {A} ELSE installed
  /\ hr' = "S_OK"
  /\ Loop("download", "complete")
  /\ UNCHANGED <<client, cached, op, check, dl, dlCancelled, ran>>

\* Bug variant: user_work_item_ is only reset in a bundle that becomes ready.
CompleteKeepsWorkItem ==
  /\ pc = "complete"
  /\ bundle' = IF bundle = "Busy" THEN "Ready" ELSE bundle
  /\ pending' = (bundle # "Busy")
  /\ op' = "None" /\ Goto("idle")
  /\ UNCHANGED <<apps, app, auto, offline, allowed, cached, hr, check, dl,
                 dlCancelled, history>>

\* Bug variant: a stopped bundle becomes ready again.
CompleteRevivesBundle ==
  /\ pc = "complete"
  /\ bundle' = "Ready"
  /\ pending' = FALSE
  /\ op' = "None" /\ Goto("idle")
  /\ UNCHANGED <<apps, app, auto, offline, allowed, cached, hr, check, dl,
                 dlCancelled, history>>

CompleteAsyncCall ==
  /\ pc = "complete"
  /\ bundle' = IF bundle = "Busy" THEN "Ready" ELSE bundle
  /\ pending' = FALSE
  /\ op' = "None" /\ Goto("idle")
  /\ UNCHANGED <<apps, app, auto, offline, allowed, cached, hr, check, dl,
                 dlCancelled, history>>

-----------------------------------------------------------------------------

Client ==
  \/ Initialize \/ CheckForUpdate \/ Download \/ Install
  \/ Pause \/ StopInitialized \/ StopBusy
  \/ \E a \in AppIds : CreateApp(a)
  \/ \E a \in AppIds, eula \in {"NO", "YES"} :
       CreateInstalledApp(a, eula) \/ PutIsEulaAccepted(a, eula)
  \/ \E s \in AppLists, eula \in [AppIds -> {"NO", "YES"}] :
       \/ CreateAllInstalledApps(s, eula)
       \/ UpdateAllApps(s, eula)
       \/ UpdateAllAppsFails(s, eula)

Worker ==
  \/ BeginCheck \/ DoPreUpdateCheck \/ DoUpdateCheck \/ DoPostUpdateCheck
  \/ CacheOfflinePackages \/ QueueApp \/ BeginDownload \/ DispatchDownload
  \/ CreateStateForApp \/ AppDownloading \/ FetchPackages \/ CachePackage
  \/ AppDownloadComplete \/ AppMarkReadyToInstall \/ AppDownloadError
  \/ DeleteStateForApp \/ AppQueueInstall \/ DispatchInstall \/ CopyPackages
  \/ AppInstalling \/ RunInstaller \/ ReportResult \/ CompleteAsyncCall

Next == Client \/ Worker

\* The pool thread that runs the work item is never starved, network requests
\* time out and installers end, so the worker always gets its next step.  The
\* client may stop calling at any time.
Spec == Init /\ [][Next]_vars /\ WF_vars(Worker)

-----------------------------------------------------------------------------
(* What the bundle promises.                                               *)

\* Every variable keeps its type, and the work item's index is inside the list
\* of applications whenever the work item uses it.
TypeOK ==
  /\ bundle \in BundleStates
  /\ apps \in Seq(AppIds) /\ Len(apps) <= MaxApps
  /\ app \in [AppIds -> App]
  /\ auto \in BOOLEAN /\ offline \in BOOLEAN /\ pending \in BOOLEAN
  /\ allowed \subseteq AppIds /\ cached \subseteq AppIds
  /\ op \in Ops /\ pc \in Pcs /\ i \in Nat /\ hr \in Codes
  /\ request \subseteq AppIds /\ answer \in [AppIds -> Answers]
  /\ dl \subseteq AppIds /\ dlCancelled \subseteq AppIds
  /\ ran \in [AppIds -> Nat] /\ installed \subseteq AppIds
  /\ pc \in {"pre", "post", "queue"} \cup LoopPcs => i \in 1..Len(apps)

\* At most one work item carries out a call of the bundle.  While it runs the
\* call is recorded in user_work_item_ and the bundle is busy or stopped; a
\* bundle that accepts a new call has none outstanding.  These are the
\* assertions on IsPendingNonBlockingCall in the state classes and in
\* CompleteAsyncCall, over every order of client calls and worker steps.
SingleCall ==
  /\ pc # "idle" => pending /\ bundle \in {"Busy", "Stopped"}
  /\ bundle = "Busy" => pending
  /\ bundle \in {"Init", "Initialized", "Ready", "Paused"} => ~pending
  /\ pc = "idle" <=> op = "None"

\* The assertions of worker.cc on application states: what DoPostUpdateCheck
\* leaves behind, what the download loops start from, and that every
\* application the install loop has passed is in a terminal state.  A Stop may
\* come between any two steps.
WorkerAssertions ==
  /\ pc = "post" => \A n \in 1..(i - 1) :
       app[apps[n]].state \in {"UPDATE_AVAILABLE", "NO_UPDATE", "ERROR"}
  /\ pc = "download" =>
       app[A].state \in {"WAITING_TO_DOWNLOAD", "NO_UPDATE", "ERROR"} \cup
                        (IF op = "Download" THEN {} ELSE {"WAITING_TO_INSTALL"})
  /\ pc \in LoopPcs /\ op # "Download" => \A n \in 1..(i - 1) :
       app[apps[n]].state \in Terminal

\* The download manager holds a State for exactly the application it is
\* downloading, whatever order Stop, failures and the loop come in: Cancel finds
\* it, DeleteStateForApp deletes the right one, and none is left behind.
DownloadStateOwned ==
  /\ dl = IF pc \in DownloadAppPcs THEN {A} ELSE {}
  /\ dlCancelled \subseteq dl

\* Group Policy is checked before the check for manual calls and before the
\* download for automatic ones; no application it disallows, and none whose EULA
\* is not accepted, reaches a download or an installer (the assertions in
\* DoDownloadPackage and InstallApp).
PolicyRespected ==
  pc \in {"fetch", "put", "copy"} \cup InstallAppPcs =>
    A \in allowed /\ app[A].eula = "YES"

\* An application that is past its download has its packages in the cache, so
\* that CopyAppVersionPackages finds them, across the calls of the bundle.
DownloadedIsCached ==
  \A a \in AppIds :
    app[a].state \in {"DOWNLOAD_COMPLETE", "READY_TO_INSTALL",
                      "WAITING_TO_INSTALL", "INSTALLING", "INSTALL_COMPLETE"}
      => a \in cached

\* However calls, retries and cancellations follow each other, an installer is
\* started at most once per application, an application is INSTALLING only
\* while its installer runs, and INSTALL_COMPLETE means that it ran, succeeded
\* and registered.
InstallerRunsOnce ==
  \A a \in AppIds :
    /\ ran[a] <= 1
    /\ app[a].state = "INSTALLING" => pc \in {"run", "report"} /\ A = a
    /\ app[a].state = "INSTALL_COMPLETE" => ran[a] = 1 /\ a \in installed

\* While Omaha itself has an update in the bundle, no other update of the bundle
\* is downloaded or installed: GetUpdateResponseResult defers it.
OmahaUpdatesFirst ==
  \A a \in InBundle \ {Omaha} :
    (Omaha \in InBundle /\ app[Omaha].has_update /\ app[a].is_update)
      => ran[a] = 0 /\ (pc \in LoopPcs => a \notin dl)

\* The server sees each application's life once and in order: begin, download,
\* installer, one completion, and nothing after it.
PingsInOrder ==
  LET rank == [BEGIN |-> 1, DOWNLOAD_START |-> 2, DOWNLOAD_FINISH |-> 3,
               INSTALLER_START |-> 4, COMPLETE |-> 5]
  IN  \A a \in AppIds : \A m, n \in DOMAIN app[a].pings :
        m < n => rank[app[a].pings[m].type] < rank[app[a].pings[n].type]

\* The bundle implements the protocol promised to its client: calls begin only
\* when none is outstanding, each is completed once, Stop is never undone.
Protocol == INSTANCE BundleProtocol WITH
  phase <- CASE bundle \in {"Init", "Initialized"} -> "setup"
             [] bundle = "Busy"    -> "busy"
             [] bundle = "Ready"   -> "ready"
             [] bundle = "Paused"  -> "paused"
             [] bundle = "Stopped" -> "stopped",
  call <- pending

\* In every order of client calls and worker steps the bundle's state and
\* user_work_item_ take only the steps of the protocol.
ImplementsProtocol == Protocol!Safety

\* And the worker completes every call it was given, whatever fails and whether
\* the bundle is stopped meanwhile, but for a download whose client it cannot
\* impersonate.
CompletesCalls ==
  (op # "None" /\ ~(op = "Download" /\ pc = "impersonate")) ~> ~pending

\* Each application goes through the phases a client sees.
Lifecycle(a) == INSTANCE AppLifecycle WITH phase <- PhaseOf(app[a].state)

\* No step of the worker, of a late callback or of a client call takes any
\* application backwards, lets it skip a phase, or revives one that failed.
ImplementsLifecycle ==
  /\ \A a \in AppIds : Lifecycle(a)!Init
  /\ [][\A a \in AppIds :
          Lifecycle(a)!Next \/ UNCHANGED PhaseOf(app[a].state)]_vars

\* After Stop on a busy bundle every application ends in a terminal state, the
\* one whose installer is running included.
StopSettles ==
  (bundle = "Stopped" /\ pending) ~>
    \A a \in InBundle : app[a].state \in Terminal

\* The places of one application in the loop of Download or DownloadAndInstall, the
\* last first; each is left for a later one or for the next application.
LoopRank ==
  [report |-> 1, run |-> 2, installing |-> 3, copy |-> 4, install |-> 5, queue_install |-> 6,
   delete |-> 7, mark |-> 8, download_error |-> 9, download_complete |-> 10, put |-> 11,
   fetch |-> 12, downloading |-> 13, create |-> 14, download |-> 15]

\* How many steps the work item still takes at most.
StepsLeft ==
  LET n == Len(apps)
  IN  CASE pc = "idle" -> 0
        [] pc = "complete" -> 1
        [] pc \in LoopPcs -> 15 * (n - i) + LoopRank[pc] + 1
        [] pc = "impersonate" -> 15 * n + 2
        [] pc = "queue" -> 15 * n + 3 + (n - i)
        [] pc = "offline" -> 16 * n + 3
        [] pc = "post" -> 16 * n + 4 + (n - i)
        [] pc = "send" -> 17 * n + 4
        [] pc = "pre" -> 17 * n + 5 + (n - i)
        [] pc = "check" -> 18 * n + 5

\* A call is carried out in a number of steps that the number of applications
\* bounds, whatever fails: no step of the work item leads back, and no call of
\* the client, Stop included, makes its way longer.
CallsAreBounded ==
  [][/\ StepsLeft' <= 18 * MaxApps + 5
     /\ pc # "idle" => IF Worker THEN StepsLeft' < StepsLeft ELSE StepsLeft' = StepsLeft]_vars

\* From the moment Stop returns until the end every application of a bundle that
\* had begun to work is in a terminal state, except for the one whose installer
\* runs: no callback, no step of a loop and no later call takes one up again.
StoppedIsSettled ==
  bundle = "Stopped" =>
    \/ \A a \in InBundle : app[a].state = "INIT"
    \/ \A a \in InBundle : \/ app[a].state \in Terminal
                           \/ app[a].state = "INSTALLING" /\ pc \in {"run", "report"} /\ a = A

-----------------------------------------------------------------------------
(* What comments and assertions of the code say, and the code does not do. *)

\* install_manager.cc: ASSERT1(FAILED(hr) == (app->state() == STATE_ERROR)).
InstallAppPostcondition ==
  [][\A a \in installed' \ installed : app'[a].state # "ERROR"]_vars

\* app_state.cc: ASSERT(false) in HandleInvalidStateTransition.
NoInvalidTransition ==
  \A a \in AppIds : app[a].error # "INVALID_TRANSITION"

\* app_state_install_complete.cc: "Terminal states should not transition to
\* error."
TerminalStaysTerminal ==
  [][\A a \in AppIds : app[a].state \in {"INSTALL_COMPLETE", "NO_UPDATE"}
       => app'[a].state # "ERROR"]_vars

\* worker.cc: the assertion after App::Download in DownloadAndInstallHelper.
DownloadPostcondition ==
  pc = "queue_install" =>
    app[A].state \in {"READY_TO_INSTALL", "WAITING_TO_INSTALL", "NO_UPDATE",
                      "ERROR"}

\* download_manager.cc: "the offline case does not allow downloading if the
\* package cannot be found, so offline scenarios should never get here."
OfflineNeverDownloads == offline /\ pc = "fetch" => A \in cached

\* app_bundle_state_busy.cc: "The worker completes the pending bundle calls
\* while the bundle remains in the stopped state."
StoppedCallCompletes == (bundle = "Stopped" /\ pending) ~> ~pending

\* omaha3_idl.idl, isBusy: "Returns true if the bundle has an uncompleted
\* non-blocking request."
BusyWhilePending == pending => bundle = "Busy"
=============================================================================
