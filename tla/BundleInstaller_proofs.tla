----------------------- MODULE BundleInstaller_proofs -----------------------
(***************************************************************************)
(* ClientAssertions and ReportTrue for every number of applications, every *)
(* failure and every moment at which the user cancels.                     *)
(*                                                                         *)
(* Every step of the client or the worker is a step of UpdateBundle or     *)
(* leaves the bundle alone, so that its invariants and the arrows of its   *)
(* applications carry over.  What is added: ResultInv, what the two calls  *)
(* the client makes leave of the applications at each point of the work    *)
(* item, and PollInv, what the client knows at each point of a poll.  What *)
(* the client reports also needs DeferredInv, which tells an update that   *)
(* was put off from one that is not there, and ReportInv, which says that  *)
(* what was read of an application during the report is still true of it:  *)
(* a terminal state is not left.                                           *)
(***************************************************************************)
EXTENDS BundleInstaller, UpdateBundle_proofs

\* A leaf is given to Zenon, then to the SMT solver, unless it names one of them.
USE ZenonT(30), SMTT(30)

\* What an update check leaves, and what it starts from.
Checked == {"UPDATE_AVAILABLE", "NO_UPDATE", "ERROR"}
\* The states up to an update that was found.
Unchecked == {"INIT", "WAITING_TO_CHECK", "CHECKING", "UPDATE_AVAILABLE"}

\* Every application of the bundle is in one of these states.
All(S) == \A n \in 1..Len(apps) : app[apps[n]].state \in S

\* The loop has passed the applications before i.
Split(before, after) ==
  \A n \in 1..Len(apps) : app[apps[n]].state \in IF n < i THEN before ELSE after

\* All applications were checked, or there is none for install to take.
CheckOver == All(Checked) \/ All(States \ {"UPDATE_AVAILABLE"})

\* Where the update check is, application by application.
CheckInv ==
  /\ pc \in CheckPcs \cup {"complete"}
  /\ pc = "check" => All({"WAITING_TO_CHECK", "ERROR"})
  /\ pc = "pre" => Split({"CHECKING", "ERROR"}, {"WAITING_TO_CHECK", "ERROR"})
  /\ pc = "send" => All({"CHECKING", "ERROR"})
  /\ pc = "post" => Split(Checked, {"CHECKING", "ERROR"})
  /\ pc = "offline" => All(Checked)
  /\ pc = "complete" => CheckOver

\* A bundle whose client calls checkForUpdate and install.
ResultInv ==
  /\ Distinct
  /\ op \in {"None", "CheckForUpdate", "Install"}
  /\ bundle \in {"Init", "Initialized", "Paused"} => All({"INIT"})
  /\ bundle = "Stopped" => All(Settled \cup {"INIT"}) /\ (pc # "idle" => All(Settled))
  /\ bundle = "Ready" => CheckOver
  /\ op = "Install" => pc \notin CheckPcs \cup {"queue"} /\ All(States \ Unchecked)
  /\ op = "CheckForUpdate" => CheckInv

\* The client.
PollPlaces == {"poll", "busy", "results", "install", "report"}

\* What the client has seen at each place of a poll.
PollInv ==
  /\ at \in {"idle", "fail"} \cup PollPlaces
  /\ state_ \in {"kInit", "kProcessing", "kComplete"}
  /\ num_updates \in Nat
  /\ state_ # "kInit" => running
  /\ at # "idle" => state_ = "kProcessing"
  /\ state_ = "kProcessing" /\ at # "fail" =>
       apps_ = apps /\ apps # <<>> /\ bundle \in {"Busy", "Ready", "Stopped"}
  /\ at \in PollPlaces => k \in 1..Len(apps)
  /\ at = "poll" => \A n \in 1..(k - 1) : app[apps[n]].state \in Terminal
  /\ at = "report" => All(Terminal)
  /\ at \in {"busy", "results", "install"} => ~is_update_all_apps_
  /\ at = "busy" => app[apps[k]].state = "UPDATE_AVAILABLE"
  /\ at \in {"results", "install"} => bundle = "Ready" /\ All(Checked)
  /\ at = "results" =>
       \/ num_updates > 0
       \/ \E n \in k..Len(apps) : app[apps[n]].state = "UPDATE_AVAILABLE"
  /\ at = "install" => num_updates > 0

\* What is reported of an application, once it is, is a terminal state.
InfoInv ==
  /\ apps_info \in Seq([state : States, error : Codes])
  /\ \A m \in DOMAIN apps_info :
       apps_info[m] = NoInfo \/ apps_info[m].state \in Terminal

\* The inductive invariant behind the assertions of the client.
ClientInv == IInv /\ (~is_update_all_apps_ => ResultInv) /\ PollInv /\ InfoInv

-----------------------------------------------------------------------------
(* The events                                                              *)

\* Cancel keeps an application in any set of states that has ERROR, and leaves
\* none that waits.
LEMMA CancelState ==
  ASSUME NEW r \in App, NEW S, "ERROR" \in S, r.state \in S
  PROVE  Cancel(r).state \in S /\ Cancel(r).state \in Settled
<1>1. "Cancel" \in Ignores(r.state) => r.state \in Settled
  BY DEF Ignores, WaitingToInstallIgnores, Settled, Terminal
<1> QED
  BY <1>1, BaseErrorType DEF Cancel, Codes, Settled, Terminal

\* QueueUpdateCheck makes an application wait, or an error.
LEMMA QueueCheckState ==
  ASSUME NEW r \in App, r.state = "INIT"
  PROVE  QueueUpdateCheck(r).state \in {"WAITING_TO_CHECK", "ERROR"}
<1>1. BaseError(r, "CALL_UNEXPECTED") \in App
      /\ BaseError(r, "CALL_UNEXPECTED").state = "ERROR"
  BY BaseErrorType DEF Codes
<1>2. Error(r, "CALL_UNEXPECTED") = BaseError(r, "CALL_UNEXPECTED")
  BY DEF Error, Terminal
<1>3. CASE r.eula = "NONE"
  <2>1. QueueUpdateCheck(r)
          = Unhandled(BaseError(r, "CALL_UNEXPECTED"), "QueueUpdateCheck")
    BY <1>1, <1>2, <1>3 DEF QueueUpdateCheck
  <2> QED
    BY <1>1, <2>1, BaseErrorType DEF Unhandled, HandleInvalidStateTransition, Codes
<1>4. CASE r.eula # "NONE"
  BY <1>4, ChangeStateType DEF QueueUpdateCheck, States
<1> QED
  BY <1>3, <1>4

\* PreUpdateCheck leaves no application between waiting and checking.
LEMMA PreCheckState ==
  ASSUME NEW r \in App, r.state \in {"WAITING_TO_CHECK", "ERROR"},
         NEW a, NEW b, NEW c
  PROVE  PreUpdateCheck(r, a, b, c).state \in {"CHECKING", "ERROR"}
<1>1. CASE r.state = "ERROR"
  BY <1>1, BaseErrorType
  DEF PreUpdateCheck, Unhandled, HandleInvalidStateTransition, Codes
<1>2. CASE r.state = "WAITING_TO_CHECK"
  BY <1>2, BaseErrorType, ChangeStateType
  DEF PreUpdateCheck, Error, Terminal, Codes, States
<1> QED
  BY <1>1, <1>2

\* After PostUpdateCheck an application has an update, has none, or has failed.
LEMMA PostCheckState ==
  ASSUME NEW r \in App, r.state \in {"CHECKING", "ERROR"},
         NEW h \in Codes, NEW ans \in Answers, NEW update, NEW built
  PROVE  PostUpdateCheck(r, h, ans, update, built).state \in Checked
<1> USE DEF Checked
<1>1. CASE r.state = "ERROR"
  BY <1>1, BaseErrorType
  DEF PostUpdateCheck, Unhandled, HandleInvalidStateTransition, Codes
<1>2. CASE r.state = "CHECKING"
  <2>1. ASSUME NEW q \in App, q.state = "CHECKING", NEW e \in Codes
        PROVE  Error(q, e).state = "ERROR"
    BY <2>1, BaseErrorType DEF Error, Terminal
  <2>2. HandleUpdateAvailable(r, built).state \in Checked
    <3> DEFINE q == [r EXCEPT !.has_update = TRUE]
    <3>1. q \in App /\ q.state = "CHECKING"
      BY <1>2 DEF App
    <3>2. HandleUpdateAvailable(r, built) = IF built
            THEN ChangeState(q, "UPDATE_AVAILABLE") ELSE Error(q, "FAILED")
      BY DEF HandleUpdateAvailable
    <3> HIDE DEF q
    <3> QED
      BY <2>1, <3>1, <3>2, ChangeStateType, SMTT(30) DEF States, Codes
  <2>3. ASSUME NEW e \in Codes
        PROVE  ChangeState(SetNoUpdate(r, e), "NO_UPDATE").state = "NO_UPDATE"
    <3>1. SetNoUpdate(r, e) \in App
      BY DEF SetNoUpdate, App, Results
    <3> QED
      BY <3>1, ChangeStateType DEF States
  <2>4. HandleUpdateDeferred(r).state \in Checked
    BY <2>3 DEF HandleUpdateDeferred, Codes
  <2>5. HandleNoUpdate(r).state \in Checked
    BY <1>2, <2>1, <2>3 DEF HandleNoUpdate, Codes
  <2>6. Error(r, h).state \in Checked /\ Error(r, "FAILED").state \in Checked
    BY <1>2, <2>1 DEF Codes
  <2> HIDE DEF Checked
  <2> QED
    BY <1>2, <2>2, <2>4, <2>5, <2>6 DEF PostUpdateCheck, Answers
<1> QED
  BY <1>1, <1>2

\* QueueInstall keeps what has ended and moves what has an update.
LEMMA QueueInstallState ==
  ASSUME NEW r \in App, r.state \in Checked, NEW a
  PROVE  QueueDownloadOrInstall(r, a).state \in States \ Unchecked
<1> USE DEF Checked, Unchecked, States
<1>1. CASE r.state = "UPDATE_AVAILABLE"
  BY <1>1, BaseErrorType, ChangeStateType
  DEF QueueDownloadOrInstall, QueueDownload, Error, Terminal, Codes
<1>2. CASE r.state = "NO_UPDATE"
  <2>1. QueueDownloadOrInstall(r, a) = r
    BY <1>2 DEF QueueDownloadOrInstall, Unhandled, Ignores, NoUpdateIgnores
  <2> QED
    BY <1>2, <2>1
<1>3. CASE r.state = "ERROR"
  <2>1. QueueDownloadOrInstall(r, a) = r
    BY <1>3 DEF QueueDownloadOrInstall, Unhandled, Ignores, ErrorIgnores
  <2> QED
    BY <1>3, <2>1
<1> QED
  BY <1>1, <1>2, <1>3

\* The arrows lead out of none of these sets.
LEMMA Closed ==
  ASSUME NEW r \in App, NEW q \in App, Moves(r, q)
  PROVE  /\ r.state \in Terminal => q.state \in Terminal
         /\ r.state \in Settled => q.state \in Settled
         /\ r.state \in States \ Unchecked => q.state \in States \ Unchecked
  BY DEF Moves, Arrows, Terminal, Settled, States, Unchecked

-----------------------------------------------------------------------------
(* Steps of the client and the worker are steps of the bundle              *)

\* A stop, refused or not, is a step of the bundle.
LEMMA StopStep == Stop => [Next]_vars
  BY DEF Stop, Next, Client

\* The client and the worker together take only steps of the bundle.
LEMMA BundleStep == [InstallerNext]_ivars => [Next]_vars
<1> SUFFICES ASSUME [InstallerNext]_ivars PROVE [Next]_vars
  OBVIOUS
<1>1. CASE CreateBundle
  BY <1>1 DEF CreateBundle, Next, Client
<1>2. CASE DoCancel \/ PollServerFails
  BY <1>2, StopStep DEF DoCancel, PollServerFails
<1>3. CASE HandleInitState
  BY <1>3 DEF HandleInitState, Next, Client
<1>4. CASE CallInstall
  BY <1>4 DEF CallInstall, Next, Client
<1>5. CASE ServerStep
  BY <1>5 DEF ServerStep, Next
<1>6. CASE UNCHANGED vars
  BY <1>6
<1> QED
  BY <1>1, <1>2, <1>3, <1>4, <1>5, <1>6
  DEF InstallerNext, PollServer, InstallBundle, OnTimer, HandleProcessingState,
      ClientHandleUpdateAvailable, HandleUpdateCheckResults,
      NotifyBundleInstallComplete, ivars

-----------------------------------------------------------------------------
(* What the calls leave of the applications                                *)

\* The applications of the list have records.
LEMMA Records ==
  ASSUME IInv
  PROVE  \A n \in 1..Len(apps) : apps[n] \in AppIds /\ app[apps[n]] \in App
<1>1. \A n \in 1..Len(apps) : apps[n] \in AppIds
  BY ElementOfSeq DEF IInv, TypeOK
<1> QED
  BY <1>1 DEF IInv, TypeOK

\* Nothing ResultInv is about has changed.
LEMMA ResultSame ==
  ASSUME ResultInv, UNCHANGED <<bundle, apps, op, pc, i>>,
         \A n \in 1..Len(apps) : app'[apps[n]].state = app[apps[n]].state
  PROVE  ResultInv'
<1>1. ASSUME NEW S PROVE All(S) => All(S)'
  BY DEF All
<1>2. ASSUME NEW S, NEW T PROVE Split(S, T) => Split(S, T)'
  BY DEF Split
<1>3. CheckOver => CheckOver'
  BY <1>1 DEF CheckOver
<1>4. CheckInv => CheckInv'
  BY <1>1, <1>2, <1>3 DEF CheckInv
<1> QED
  BY <1>1, <1>3, <1>4 DEF ResultInv, Distinct

\* AddApp adds a new application in its initial state.
LEMMA ResultAdd ==
  ASSUME IInv, ResultInv, NEW a \in AppIds, NEW r \in App, r.state = "INIT",
         AddApp(a, r)
  PROVE  ResultInv'
<1> USE DEF worker
<1>1. apps \in Seq(AppIds) /\ Len(apps) \in Nat
  BY SMTT(30) DEF IInv, TypeOK
<1>2. /\ Len(apps') = Len(apps) + 1 /\ apps'[Len(apps) + 1] = a
      /\ \A n \in 1..Len(apps) : apps'[n] = apps[n]
  BY <1>1, SMTT(30) DEF AddApp
<1>3. \A n \in 1..Len(apps) : apps[n] # a
  BY DEF AddApp, InBundle
<1>4. bundle = "Initialized" /\ UNCHANGED <<bundle, op, pc>>
  BY DEF AddApp
<1>5. pc = "idle" /\ op = "None"
  BY <1>4 DEF IInv, SingleCall
<1>6. Distinct'
  BY <1>1, <1>2, <1>3, SMTT(30) DEF ResultInv, Distinct
<1>7. All({"INIT"})'
  <2>1. app' = [app EXCEPT ![a] = r] /\ app'[a] = r
    BY DEF AddApp, IInv, TypeOK
  <2> QED
    BY <1>1, <1>2, <1>3, <1>4, <2>1, Records, SMTT(30) DEF ResultInv, All
<1> QED
  BY <1>4, <1>5, <1>6, <1>7 DEF ResultInv

\* stop.
LEMMA ResultStop ==
  ASSUME IInv, ResultInv, Stop PROVE ResultInv'
<1>1. CASE UNCHANGED vars
  BY <1>1, ResultSame DEF vars, client
<1>2. CASE StopInitialized
  <2>1. UNCHANGED <<apps, app, op, pc>> /\ bundle = "Initialized" /\ bundle' = "Stopped"
    BY <1>2 DEF StopInitialized, worker
  <2>2. pc = "idle" /\ op = "None"
    BY <2>1 DEF IInv, SingleCall
  <2>3. All({"INIT"}) /\ Distinct
    BY <2>1 DEF ResultInv
  <2>4. All(Settled \cup {"INIT"})' /\ Distinct'
    BY <2>1, <2>3 DEF All, Distinct
  <2> QED
    BY <2>1, <2>2, <2>4 DEF ResultInv
<1>3. CASE StopBusy
  <2>1. UNCHANGED <<apps, op, pc, i>> /\ bundle = "Busy" /\ bundle' = "Stopped"
    BY <1>3 DEF StopBusy
  <2>2. \A n \in 1..Len(apps) : app'[apps[n]] = Cancel(app[apps[n]])
    BY <1>3, Records DEF StopBusy, OnBundle, InBundle
  <2>3. ASSUME NEW S, "ERROR" \in S, NEW n \in 1..Len(apps),
               app[apps[n]].state \in S
        PROVE  app'[apps[n]].state \in S
    BY <2>2, <2>3, Records, CancelState
  <2>4. ASSUME NEW S, "ERROR" \in S PROVE All(S) => All(S)'
    BY <2>1, <2>3, <2>4 DEF All
  <2>5. ASSUME NEW S, NEW T, "ERROR" \in S, "ERROR" \in T
        PROVE  Split(S, T) => Split(S, T)'
    BY <2>1, <2>3, <2>5 DEF Split
  <2>6. All(Settled)'
    <3>1. \A n \in 1..Len(apps) : app[apps[n]].state \in States \cup {"ERROR"}
      BY Records DEF App
    <3>2. \A n \in 1..Len(apps) : app'[apps[n]].state \in Settled
      BY <2>2, <3>1, Records, CancelState
    <3> QED
      BY <2>1, <3>2 DEF All
  <2>7. CheckOver => CheckOver'
    BY <2>4 DEF CheckOver, Checked, States
  <2>8. CheckInv => CheckInv'
    BY <2>1, <2>4, <2>5, <2>7, SMTT(30) DEF CheckInv, Checked
  <2>9. All(States \ Unchecked) => All(States \ Unchecked)'
    BY <2>4 DEF States, Unchecked
  <2>10. All(Settled \cup {"INIT"})'
    BY <2>6 DEF All
  <2>11. Distinct'
    BY <2>1 DEF ResultInv, Distinct
  <2> QED
    BY <2>1, <2>6, <2>8, <2>9, <2>10, <2>11 DEF ResultInv
<1> QED
  BY <1>1, <1>2, <1>3 DEF Stop

\* checkForUpdate: every application waits for the check, or has failed.
LEMMA ResultCheck ==
  ASSUME IInv, ResultInv, CheckForUpdate PROVE ResultInv'
<1>1. /\ UNCHANGED apps /\ bundle = "Initialized" /\ bundle' = "Busy"
      /\ op' = "CheckForUpdate" /\ pc' = "check"
  BY DEF CheckForUpdate, StartWork
<1>2. \A n \in 1..Len(apps) : app'[apps[n]] = QueueUpdateCheck(app[apps[n]])
  BY Records DEF CheckForUpdate, OnBundle, InBundle
<1>3. \A n \in 1..Len(apps) : app[apps[n]].state = "INIT"
  BY <1>1 DEF ResultInv, All
<1>4. \A n \in 1..Len(apps) : app'[apps[n]].state \in {"WAITING_TO_CHECK", "ERROR"}
  BY <1>2, <1>3, Records, QueueCheckState
<1>5. All({"WAITING_TO_CHECK", "ERROR"})'
  BY <1>1, <1>4 DEF All
<1>6. Distinct'
  BY <1>1 DEF ResultInv, Distinct
<1>7. CheckInv'
  BY <1>1, <1>5 DEF CheckInv, CheckPcs
<1> QED
  BY <1>1, <1>6, <1>7 DEF ResultInv

\* install, of a bundle whose applications were all checked.
LEMMA ResultInstall ==
  ASSUME IInv, ResultInv, All(Checked), Install PROVE ResultInv'
<1>1. /\ UNCHANGED apps /\ bundle' = "Busy"
      /\ op' = "Install" /\ pc' = "impersonate"
  BY DEF Install, StartWork
<1>2. \A n \in 1..Len(apps) :
        app'[apps[n]] = QueueDownloadOrInstall(app[apps[n]], apps[n] \in allowed)
  BY Records DEF Install, InBundle
<1>3. \A n \in 1..Len(apps) : app'[apps[n]].state \in States \ Unchecked
  BY <1>2, Records, QueueInstallState DEF All
<1>4. All(States \ Unchecked)'
  BY <1>1, <1>3 DEF All
<1>5. Distinct'
  BY <1>1 DEF ResultInv, Distinct
<1> QED
  BY <1>1, <1>4, <1>5 DEF ResultInv, CheckPcs

-----------------------------------------------------------------------------
(* The work item                                                           *)

\* Where the work item of a check can go, and what changes on the way.
LEMMA CheckSteps ==
  ASSUME IInv, ResultInv, Worker, op = "CheckForUpdate"
  PROVE  \/ BeginCheck \/ DoPreUpdateCheck \/ DoUpdateCheck \/ DoPostUpdateCheck
         \/ CacheOfflinePackages \/ CompleteAsyncCall
<1>1. pc \in CheckPcs \cup {"complete"}
  BY DEF ResultInv, CheckInv
<1> QED
  BY <1>1
  DEF Worker, CheckPcs, QueueApp, BeginDownload, DispatchDownload,
      CreateStateForApp, AppDownloading, FetchPackages, CachePackage,
      AppDownloadComplete, AppMarkReadyToInstall, AppDownloadError,
      DeleteStateForApp, AppQueueInstall, DispatchInstall, CopyPackages,
      AppInstalling, RunInstaller, ReportResult

\* The check takes one application after the other through PreUpdateCheck and
\* PostUpdateCheck.
LEMMA CheckWorker ==
  ASSUME IInv, ResultInv, Worker, op = "CheckForUpdate", ~CompleteAsyncCall
  PROVE  UNCHANGED <<apps, bundle, op>> /\ CheckInv'
<1> USE DEF client
<1>0. CheckInv /\ Distinct /\ apps \in Seq(AppIds)
  BY DEF ResultInv, IInv, TypeOK
<1>a. AfterCheck = "complete"
  BY DEF AfterCheck
<1>b. ASSUME NEW S, UNCHANGED <<app, apps>>, All(S) PROVE All(S)'
  BY <1>b DEF All
<1>1. CASE BeginCheck
  <2>1. UNCHANGED <<app, apps, bundle, op>> /\ pc = "check"
    BY <1>1 DEF BeginCheck
  <2>2. \A n \in 1..Len(apps) : app[apps[n]].state \in {"WAITING_TO_CHECK", "ERROR"}
    BY <1>0, <2>1 DEF CheckInv, All
  <2>3. CASE EnterLoop("pre", "send")
    <3>1. CASE apps = <<>>
      BY <2>1, <2>3, <3>1, SMTT(30) DEF EnterLoop, CheckInv, CheckPcs, All
    <3>2. CASE apps # <<>>
      <4>1. pc' = "pre" /\ i' = 1
        BY <2>3, <3>2 DEF EnterLoop
      <4>2. Split({"CHECKING", "ERROR"}, {"WAITING_TO_CHECK", "ERROR"})'
        BY <1>0, <2>1, <2>2, <4>1, SMTT(30) DEF Split
      <4> QED
        BY <2>1, <4>1, <4>2 DEF CheckInv, CheckPcs
    <3> QED
      BY <3>1, <3>2
  <2>4. CASE Goto("complete")
    <3>1. All(States \ {"UPDATE_AVAILABLE"})'
      BY <2>1, <2>2 DEF All, States
    <3> QED
      BY <2>1, <2>4, <3>1 DEF Goto, CheckInv, CheckOver
  <2> QED
    BY <1>1, <1>a, <2>3, <2>4 DEF BeginCheck
<1>2. CASE DoPreUpdateCheck
  <2> DEFINE r == PreUpdateCheck(app[A], A \in allowed, auto, offline)
  <2>1. /\ UNCHANGED <<apps, bundle, op>> /\ pc = "pre" /\ Loop("pre", "send")
        /\ app' = [app EXCEPT ![A] = r]
    BY <1>2 DEF DoPreUpdateCheck
  <2>2. i \in 1..Len(apps) /\ A = apps[i] /\ A \in AppIds /\ app[A] \in App
    BY <2>1, Records DEF A, IInv, TypeOK
  <2>3. Split({"CHECKING", "ERROR"}, {"WAITING_TO_CHECK", "ERROR"})
    BY <1>0, <2>1 DEF CheckInv
  <2>4. r.state \in {"CHECKING", "ERROR"}
    <3>1. app[A].state \in {"WAITING_TO_CHECK", "ERROR"}
      BY <1>0, <2>2, <2>3, SMTT(30) DEF Split
    <3> QED
      BY <2>2, <3>1, PreCheckState
  <2> HIDE DEF r
  <2>5. /\ app'[apps[i]] = r
        /\ \A n \in 1..Len(apps) : n # i => app'[apps[n]] = app[apps[n]]
    BY <1>0, <2>1, <2>2, Records DEF Distinct, IInv, TypeOK
  <2>6. \A n \in 1..Len(apps) :
          app'[apps[n]].state \in IF n < i + 1 THEN {"CHECKING", "ERROR"}
                                              ELSE {"WAITING_TO_CHECK", "ERROR"}
    BY <1>0, <2>2, <2>3, <2>4, <2>5, SMTT(30) DEF Split
  <2>7. CASE i < Len(apps)
    <3>1. pc' = "pre" /\ i' = i + 1
      BY <2>1, <2>7 DEF Loop
    <3>2. Split({"CHECKING", "ERROR"}, {"WAITING_TO_CHECK", "ERROR"})'
      BY <2>1, <2>6, <3>1 DEF Split
    <3> QED
      BY <2>1, <3>1, <3>2 DEF CheckInv, CheckPcs
  <2>8. CASE ~(i < Len(apps))
    <3>1. pc' = "send"
      BY <2>1, <2>8 DEF Loop
    <3>2. All({"CHECKING", "ERROR"})'
      BY <1>0, <2>1, <2>2, <2>6, <2>8, SMTT(30) DEF All
    <3> QED
      BY <2>1, <3>1, <3>2 DEF CheckInv, CheckPcs
  <2> QED
    BY <2>7, <2>8
<1>3. CASE DoUpdateCheck
  <2>1. UNCHANGED <<app, apps, bundle, op>> /\ pc = "send" /\ EnterLoop("post", "offline")
    BY <1>3 DEF DoUpdateCheck
  <2>2. \A n \in 1..Len(apps) : app[apps[n]].state \in {"CHECKING", "ERROR"}
    BY <1>0, <2>1 DEF CheckInv, All
  <2>3. CASE apps = <<>>
    BY <2>1, <2>3, SMTT(30) DEF EnterLoop, CheckInv, CheckPcs, All
  <2>4. CASE apps # <<>>
    <3>1. pc' = "post" /\ i' = 1
      BY <2>1, <2>4 DEF EnterLoop
    <3>2. Split(Checked, {"CHECKING", "ERROR"})'
      BY <1>0, <2>1, <2>2, <3>1, SMTT(30) DEF Split
    <3> QED
      BY <2>1, <3>1, <3>2 DEF CheckInv, CheckPcs
  <2> QED
    BY <2>3, <2>4
<1>4. CASE DoPostUpdateCheck
  <2>1. /\ UNCHANGED <<apps, bundle, op>> /\ pc = "post" /\ Loop("post", "offline")
    BY <1>4 DEF DoPostUpdateCheck
  <2>2. i \in 1..Len(apps) /\ A = apps[i] /\ A \in AppIds /\ app[A] \in App
    BY <2>1, Records DEF A, IInv, TypeOK
  <2>3. Split(Checked, {"CHECKING", "ERROR"})
    BY <1>0, <2>1 DEF CheckInv
  <2>4. PICK built : app' = [app EXCEPT ![A] = PostUpdateCheck(app[A], hr, answer[A],
                                                   IsOmahaUpdateAvailable, built)]
    BY <1>4 DEF DoPostUpdateCheck
  <2> DEFINE r == PostUpdateCheck(app[A], hr, answer[A], IsOmahaUpdateAvailable, built)
  <2>5. r.state \in Checked
    <3>1. app[A].state \in {"CHECKING", "ERROR"}
      BY <1>0, <2>2, <2>3, SMTT(30) DEF Split
    <3>2. hr \in Codes /\ answer[A] \in Answers
      BY <2>2 DEF IInv, TypeOK
    <3> QED
      BY <2>2, <3>1, <3>2, PostCheckState
  <2> HIDE DEF r
  <2>6. /\ app'[apps[i]] = r
        /\ \A n \in 1..Len(apps) : n # i => app'[apps[n]] = app[apps[n]]
    BY <1>0, <2>2, <2>4, Records DEF Distinct, IInv, TypeOK, r
  <2>7. \A n \in 1..Len(apps) :
          app'[apps[n]].state \in IF n < i + 1 THEN Checked ELSE {"CHECKING", "ERROR"}
    BY <1>0, <2>2, <2>3, <2>5, <2>6, SMTT(30) DEF Split
  <2>8. CASE i < Len(apps)
    <3>1. pc' = "post" /\ i' = i + 1
      BY <2>1, <2>8 DEF Loop
    <3>2. Split(Checked, {"CHECKING", "ERROR"})'
      BY <2>1, <2>7, <3>1 DEF Split
    <3> QED
      BY <2>1, <3>1, <3>2 DEF CheckInv, CheckPcs
  <2>9. CASE ~(i < Len(apps))
    <3>1. pc' = "offline"
      BY <2>1, <2>9 DEF Loop
    <3>2. All(Checked)'
      BY <1>0, <2>1, <2>2, <2>7, <2>9, SMTT(30) DEF All
    <3> QED
      BY <2>1, <3>1, <3>2 DEF CheckInv, CheckPcs
  <2> QED
    BY <2>8, <2>9
<1>5. CASE CacheOfflinePackages
  <2>1. UNCHANGED <<app, apps, bundle, op>> /\ pc = "offline" /\ Goto("complete")
    BY <1>5, <1>a DEF CacheOfflinePackages
  <2>2. All(Checked)'
    BY <1>0, <1>b, <2>1 DEF CheckInv
  <2> QED
    BY <2>1, <2>2 DEF Goto, CheckInv, CheckOver
<1> QED
  BY <1>1, <1>2, <1>3, <1>4, <1>5, CheckSteps

\* The work item of an install stays with the download and install loop.
LEMMA InstallWorker ==
  ASSUME IInv, ResultInv, Worker, op = "Install", ~CompleteAsyncCall
  PROVE  UNCHANGED <<apps, bundle, op>> /\ pc' \notin CheckPcs \cup {"queue", "idle"}
<1> USE DEF client, Goto, Loop, EnterLoop, AfterDownload, CheckPcs
<1>1. pc \notin CheckPcs \cup {"queue"}
  BY DEF ResultInv
<1>2. CASE \/ BeginDownload \/ DispatchDownload \/ CreateStateForApp \/ AppDownloading
           \/ FetchPackages \/ CachePackage \/ AppDownloadComplete
           \/ AppMarkReadyToInstall \/ AppDownloadError \/ DeleteStateForApp
  BY <1>2
  DEF BeginDownload, DispatchDownload, CreateStateForApp, AppDownloading,
      FetchPackages, CachePackage, AppDownloadComplete, AppMarkReadyToInstall,
      AppDownloadError, DeleteStateForApp
<1>3. CASE \/ AppQueueInstall \/ DispatchInstall \/ CopyPackages \/ AppInstalling
           \/ RunInstaller \/ ReportResult
  BY <1>3
  DEF AppQueueInstall, DispatchInstall, CopyPackages, AppInstalling, RunInstaller,
      ReportResult
<1> QED
  BY <1>1, <1>2, <1>3
  DEF Worker, BeginCheck, DoPreUpdateCheck, DoUpdateCheck, DoPostUpdateCheck,
      CacheOfflinePackages, QueueApp

\* What the arrows keep, for the whole list.
LEMMA AllClosed ==
  ASSUME IInv, [Next]_vars, UNCHANGED apps
  PROVE  /\ All(Terminal) => All(Terminal)'
         /\ All(Settled) => All(Settled)'
         /\ All(States \ Unchecked) => All(States \ Unchecked)'
         /\ \A n \in 1..Len(apps) : app[apps[n]].state \in Terminal
                                       => app'[apps[n]].state \in Terminal
<1>1. IInv' /\ \A a \in AppIds : Moves(app[a], app'[a])
  BY StepInvariant
<1>2. \A a \in AppIds : app'[a] \in App
  BY <1>1 DEF IInv, TypeOK
<1>3. \A n \in 1..Len(apps) :
        /\ apps[n] \in AppIds /\ app[apps[n]] \in App /\ app'[apps[n]] \in App
        /\ Moves(app[apps[n]], app'[apps[n]])
  BY <1>1, <1>2, Records
<1>4. \A n \in 1..Len(apps) :
        /\ app[apps[n]].state \in Terminal => app'[apps[n]].state \in Terminal
        /\ app[apps[n]].state \in Settled => app'[apps[n]].state \in Settled
        /\ app[apps[n]].state \in States \ Unchecked
             => app'[apps[n]].state \in States \ Unchecked
  BY <1>3, Closed
<1> QED
  BY <1>4 DEF All

\* ResultInv through a step of the worker.
LEMMA ResultWorker ==
  ASSUME IInv, ResultInv, Worker PROVE ResultInv'
<1>1. [Next]_vars /\ UNCHANGED apps
  BY WorkerTouches DEF Next
<1>2. /\ pc # "idle" /\ op \in {"CheckForUpdate", "Install"}
      /\ bundle \in {"Busy", "Stopped"}
  BY WorkerRuns DEF IInv, SingleCall, ResultInv
<1>3. Distinct'
  BY <1>1 DEF ResultInv, Distinct
<1>4. bundle = "Stopped" => All(Settled)' /\ All(Settled \cup {"INIT"})'
  <2>1. ASSUME bundle = "Stopped" PROVE All(Settled)'
    BY <1>1, <1>2, <2>1, AllClosed DEF ResultInv
  <2> QED
    BY <2>1 DEF All
<1>5. op = "Install" => All(States \ Unchecked)'
  BY <1>1, AllClosed DEF ResultInv
<1>6. CASE CompleteAsyncCall
  <2>1. /\ bundle' = IF bundle = "Busy" THEN "Ready" ELSE bundle
        /\ op' = "None" /\ UNCHANGED app /\ pc = "complete"
    BY <1>6 DEF CompleteAsyncCall
  <2>2. CheckOver'
    <3>1. CASE op = "Install"
      BY <1>5, <3>1 DEF CheckOver, All, Unchecked
    <3>2. CASE op = "CheckForUpdate"
      <4>1. CheckOver
        BY <2>1, <3>2 DEF ResultInv, CheckInv
      <4> QED
        BY <1>1, <2>1, <4>1 DEF CheckOver, All
    <3> QED
      BY <1>2, <3>1, <3>2
  <2> QED
    BY <1>2, <1>3, <1>4, <2>1, <2>2 DEF ResultInv
<1>7. CASE op = "CheckForUpdate" /\ ~CompleteAsyncCall
  BY <1>2, <1>3, <1>4, <1>7, CheckWorker DEF ResultInv
<1>8. CASE op = "Install" /\ ~CompleteAsyncCall
  BY <1>2, <1>3, <1>4, <1>5, <1>8, InstallWorker DEF ResultInv
<1> QED
  BY <1>2, <1>6, <1>7, <1>8

-----------------------------------------------------------------------------
(* The client                                                              *)

\* ResultInv through every step, if the client does not update everything.
LEMMA ResultStep ==
  ASSUME ClientInv, [InstallerNext]_ivars, ~is_update_all_apps_
  PROVE  ResultInv'
<1>0. IInv /\ ResultInv /\ PollInv
  BY DEF ClientInv
<1>1. CASE UNCHANGED vars
  BY <1>0, <1>1, ResultSame DEF vars, client
<1>2. CASE CreateBundle
  <2>1. CASE Initialize
    <3>1. /\ bundle = "Init" /\ bundle' = "Initialized"
          /\ UNCHANGED <<apps, app, op, pc>>
      BY <2>1 DEF Initialize, worker
    <3>2. pc = "idle" /\ op = "None"
      BY <1>0, <3>1 DEF IInv, SingleCall
    <3>3. All({"INIT"})' /\ Distinct'
      BY <1>0, <3>1 DEF ResultInv, All, Distinct
    <3> QED
      BY <3>1, <3>2, <3>3 DEF ResultInv
  <2>2. ASSUME NEW a \in AppIds, NEW eula \in {"NO", "YES"},
               CreateInstalledApp(a, eula) \/ CreateApp(a)
        PROVE  ResultInv'
    <3>1. \A u \in BOOLEAN, o \in BOOLEAN, e \in Eula :
            NewApp(u, o, e) \in App /\ NewApp(u, o, e).state = "INIT"
      BY NewAppType
    <3>2. PICK r \in App : r.state = "INIT" /\ AddApp(a, r)
      BY <2>2, <3>1 DEF CreateInstalledApp, CreateApp, Eula
    <3> QED
      BY <1>0, <3>2, ResultAdd
  <2>3. ASSUME NEW a \in AppIds, NEW eula \in {"NO", "YES"},
               PutIsEulaAccepted(a, eula)
        PROVE  ResultInv'
    <3>1. UNCHANGED <<bundle, apps, op, pc, i>> /\ app' = [app EXCEPT ![a].eula = eula]
      BY <2>3 DEF PutIsEulaAccepted, client, worker
    <3>2. \A b \in AppIds : app'[b].state = app[b].state
      BY <1>0, <3>1 DEF IInv, TypeOK, App
    <3>3. \A n \in 1..Len(apps) : app'[apps[n]].state = app[apps[n]].state
      BY <1>0, <3>2, Records
    <3> QED
      BY <1>0, <3>1, <3>3, ResultSame
  <2> QED
    BY <1>2, <2>1, <2>2, <2>3 DEF CreateBundle
<1>3. CASE DoCancel \/ PollServerFails
  BY <1>0, <1>3, ResultStop DEF DoCancel, PollServerFails
<1>4. CASE HandleInitState
  BY <1>0, <1>1, <1>4, ResultCheck DEF HandleInitState
<1>5. CASE CallInstall
  <2>1. at = "install" /\ (Install \/ UNCHANGED vars)
    BY <1>5 DEF CallInstall
  <2>2. All(Checked)
    BY <1>0, <2>1 DEF PollInv
  <2> QED
    BY <1>0, <1>1, <2>1, <2>2, ResultInstall
<1>6. CASE ServerStep
  BY <1>0, <1>6, ResultWorker DEF ServerStep
<1> QED
  BY <1>1, <1>2, <1>3, <1>4, <1>5, <1>6
  DEF InstallerNext, PollServer, InstallBundle, OnTimer, HandleProcessingState,
      ClientHandleUpdateAvailable, HandleUpdateCheckResults,
      NotifyBundleInstallComplete, ivars

\* An application with an update keeps it until install is called, whatever the
\* worker has still to do for the check.
LEMMA UpdateStays ==
  ASSUME IInv, ResultInv, Worker, NEW n \in 1..Len(apps),
         app[apps[n]].state = "UPDATE_AVAILABLE"
  PROVE  app'[apps[n]].state = "UPDATE_AVAILABLE"
<1>1. op = "CheckForUpdate"
  <2>1. op # "Install"
    BY DEF ResultInv, All, Unchecked
  <2>2. op # "None"
    BY WorkerRuns DEF IInv, SingleCall
  <2> QED
    BY <2>1, <2>2 DEF ResultInv
<1>2. CheckInv /\ (pc \in {"pre", "post"} => i \in 1..Len(apps))
  BY <1>1 DEF ResultInv, IInv, TypeOK
<1>3. CASE UNCHANGED app
  BY <1>3
<1>4. CASE DoPreUpdateCheck
  BY <1>2, <1>4 DEF DoPreUpdateCheck, CheckInv, Split
<1>5. CASE DoPostUpdateCheck
  <2>1. pc = "post" /\ \E r : app' = [app EXCEPT ![A] = r]
    BY <1>5 DEF DoPostUpdateCheck
  <2>2. app[A].state \in {"CHECKING", "ERROR"}
    BY <1>2, <2>1, SMTT(30) DEF CheckInv, Split, A
  <2>3. apps[n] # A
    BY <2>2
  <2> QED
    BY <2>1, <2>3, Records DEF IInv, TypeOK
<1> QED
  BY <1>1, <1>3, <1>4, <1>5, CheckSteps
  DEF BeginCheck, DoUpdateCheck, CacheOfflinePackages, CompleteAsyncCall

\* The worker goes on while the client is anywhere in its poll.
LEMMA PollServerStep ==
  ASSUME ClientInv, ServerStep PROVE PollInv'
<1>0. IInv /\ PollInv /\ Worker /\ [Next]_vars
  BY DEF ClientInv, ServerStep, Next
<1>1. UNCHANGED <<state_, running, is_update_all_apps_, apps_, at, k, num_updates>>
  BY DEF ServerStep, Kind
<1>2. UNCHANGED apps /\ (UNCHANGED bundle \/ CompleteAsyncCall)
  BY <1>0, WorkerTouches
<1>3. pc # "idle" /\ bundle \in {"Busy", "Stopped"}
  BY <1>0, WorkerRuns DEF IInv, SingleCall
<1>4. bundle' \in {bundle, "Ready"}
  BY <1>2 DEF CompleteAsyncCall
<1>5. at \notin {"results", "install"}
  BY <1>0, <1>3 DEF PollInv
<1>6. at = "poll" => \A n \in 1..(k - 1) : app'[apps[n]].state \in Terminal
  <2> SUFFICES ASSUME at = "poll", NEW n \in 1..(k - 1)
               PROVE  app'[apps[n]].state \in Terminal
    OBVIOUS
  <2>1. k \in 1..Len(apps) /\ Len(apps) \in Nat /\ app[apps[n]].state \in Terminal
    BY <1>0, SMTT(30) DEF PollInv, PollPlaces, IInv, TypeOK
  <2>2. n \in 1..Len(apps)
    BY <2>1, SMTT(30)
  <2> QED
    BY <1>0, <1>2, <2>1, <2>2, AllClosed
<1>7. at = "report" => All(Terminal)'
  BY <1>0, <1>2, AllClosed DEF PollInv
<1>8. at = "busy" => app'[apps[k]].state = "UPDATE_AVAILABLE"
  BY <1>0, UpdateStays DEF ClientInv, PollInv, PollPlaces
<1> QED
  BY <1>0, <1>1, <1>2, <1>3, <1>4, <1>5, <1>6, <1>7, <1>8 DEF PollInv

\* HandleProcessingState.
LEMMA PollProcessing ==
  ASSUME ClientInv, HandleProcessingState PROVE PollInv'
<1>0. IInv /\ PollInv
  BY DEF ClientInv
<1>1. /\ at = "poll" /\ UNCHANGED <<app, apps, bundle>>
      /\ UNCHANGED <<state_, running, is_update_all_apps_, apps_, num_updates>>
  BY DEF HandleProcessingState, Poll, Kind, vars, client
<1>2. /\ apps_ = apps /\ apps # <<>> /\ k \in 1..Len(apps) /\ Len(apps) \in Nat
      /\ \A n \in 1..(k - 1) : app[apps[n]].state \in Terminal
  BY <1>0, <1>1, SMTT(30) DEF PollInv, PollPlaces, IInv, TypeOK
<1>3. CASE at' \in {"idle", "fail"}
  BY <1>0, <1>1, <1>3 DEF PollInv, PollPlaces
<1>4. CASE at' = "busy"
  <2>1. /\ app[apps[k]].state = "UPDATE_AVAILABLE" /\ ~is_update_all_apps_
        /\ UNCHANGED k
    BY <1>2, <1>4 DEF HandleProcessingState, Poll, Current
  <2> QED
    BY <1>0, <1>1, <1>2, <1>4, <2>1 DEF PollInv, PollPlaces
<1>5. CASE at' = "poll"
  <2>1. app[apps[k]].state \in Terminal /\ k < Len(apps) /\ k' = k + 1
    BY <1>2, <1>5 DEF HandleProcessingState, Poll, Current, Done, Terminal
  <2>2. k' \in 1..Len(apps)
    BY <1>2, <2>1, SMTT(30)
  <2>3. \A n \in 1..(k' - 1) : app[apps[n]].state \in Terminal
    BY <1>2, <2>1, SMTT(30)
  <2> QED
    BY <1>0, <1>1, <1>2, <1>5, <2>2, <2>3 DEF PollInv, PollPlaces
<1>6. CASE at' = "report"
  <2>1. app[apps[k]].state \in Terminal /\ k = Len(apps) /\ k' = 1
    BY <1>2, <1>6, SMTT(30) DEF HandleProcessingState, Poll, Current, Done, Terminal
  <2>2. k' \in 1..Len(apps)
    BY <1>2, <2>1, SMTT(30)
  <2>3. All(Terminal)'
    BY <1>1, <1>2, <2>1, SMTT(30) DEF All
  <2> QED
    BY <1>0, <1>1, <1>2, <1>6, <2>2, <2>3 DEF PollInv, PollPlaces
<1> QED
  BY <1>3, <1>4, <1>5, <1>6 DEF HandleProcessingState, Poll

\* HandleUpdateAvailable: a bundle with an update that is not busy is ready, and
\* all its applications were checked.
LEMMA PollUpdate ==
  ASSUME ClientInv, ClientHandleUpdateAvailable PROVE PollInv'
<1>0. IInv /\ PollInv /\ at = "busy"
  BY DEF ClientInv, ClientHandleUpdateAvailable
<1>1. /\ UNCHANGED <<app, apps, bundle, state_, running, is_update_all_apps_, apps_>>
      /\ k' = 1 /\ num_updates' = 0
      /\ at' = IF bundle = "Busy" THEN "idle" ELSE "results"
  BY DEF ClientHandleUpdateAvailable, Poll, Kind, vars, client
<1>2. /\ apps_ = apps /\ apps # <<>> /\ k \in 1..Len(apps) /\ Len(apps) \in Nat
      /\ bundle \in {"Busy", "Ready", "Stopped"}
      /\ ~is_update_all_apps_ /\ app[apps[k]].state = "UPDATE_AVAILABLE"
  BY <1>0, SMTT(30) DEF PollInv, PollPlaces, IInv, TypeOK
<1>3. ResultInv
  BY <1>2 DEF ClientInv
<1>4. CASE bundle = "Busy"
  BY <1>0, <1>1, <1>2, <1>4 DEF PollInv, PollPlaces
<1>5. CASE bundle # "Busy"
  <2>1. bundle = "Ready"
    BY <1>2, <1>3, <1>5 DEF ResultInv, All, Settled, Terminal
  <2>2. All(Checked)
    BY <1>2, <1>3, <2>1 DEF ResultInv, CheckOver, All
  <2>3. \E n \in 1..Len(apps) : app[apps[n]].state = "UPDATE_AVAILABLE"
    BY <1>2
  <2>4. All(Checked)' /\ 1 \in 1..Len(apps)
    BY <1>1, <1>2, <2>2, SMTT(30) DEF All
  <2> QED
    BY <1>0, <1>1, <1>2, <1>5, <2>1, <2>3, <2>4 DEF PollInv, PollPlaces
<1> QED
  BY <1>4, <1>5

\* HandleUpdateCheckResults.
LEMMA PollResults ==
  ASSUME ClientInv, HandleUpdateCheckResults PROVE PollInv'
<1>0. IInv /\ PollInv /\ at = "results"
  BY DEF ClientInv, HandleUpdateCheckResults
<1>1. UNCHANGED <<app, apps, bundle, running, is_update_all_apps_>>
  BY DEF HandleUpdateCheckResults, Kind, vars, client
<1>2. /\ apps_ = apps /\ apps # <<>> /\ k \in 1..Len(apps) /\ Len(apps) \in Nat
      /\ bundle = "Ready" /\ ~is_update_all_apps_ /\ All(Checked)
      /\ num_updates \in Nat /\ state_ = "kProcessing"
      /\ \/ num_updates > 0
         \/ \E n \in k..Len(apps) : app[apps[n]].state = "UPDATE_AVAILABLE"
  BY <1>0, SMTT(30) DEF PollInv, PollPlaces, IInv, TypeOK
<1>3. All(Checked)'
  BY <1>1, <1>2 DEF All
<1>4. CASE Poll("fail") /\ UNCHANGED <<k, num_updates>>
  BY <1>0, <1>1, <1>4 DEF PollInv, PollPlaces, Poll
<1>5. CASE /\ num_updates' = IF Current.state = "UPDATE_AVAILABLE"
                                THEN num_updates + 1 ELSE num_updates
           /\ IF k < Len(apps_) THEN Poll("results") /\ k' = k + 1
              ELSE /\ UNCHANGED k
                   /\ IF is_update_check_only_ THEN Complete("S_OK")
                                               ELSE Poll("install")
  <2>1. num_updates' \in Nat
    BY <1>2, <1>5, SMTT(30)
  <2>2. \/ num_updates' > 0
        \/ \E n \in (k + 1)..Len(apps) : app[apps[n]].state = "UPDATE_AVAILABLE"
    <3>1. app[apps[k]].state = "UPDATE_AVAILABLE" => num_updates' > 0
      BY <1>2, <1>5, SMTT(30) DEF Current
    <3>2. num_updates > 0 => num_updates' > 0
      BY <1>2, <1>5, SMTT(30)
    <3>3. ASSUME NEW n \in k..Len(apps), app[apps[n]].state = "UPDATE_AVAILABLE"
          PROVE  n = k \/ n \in (k + 1)..Len(apps)
      BY <1>2, SMTT(30)
    <3> QED
      BY <1>2, <3>1, <3>2, <3>3
  <2>3. CASE k < Len(apps)
    <3>1. at' = "results" /\ k' = k + 1 /\ UNCHANGED <<state_, apps_>>
      BY <1>2, <1>5, <2>3 DEF Poll
    <3>2. k' \in 1..Len(apps)
      BY <1>2, <2>3, <3>1, SMTT(30)
    <3> QED
      BY <1>0, <1>1, <1>2, <1>3, <2>1, <2>2, <3>1, <3>2 DEF PollInv, PollPlaces
  <2>4. CASE ~(k < Len(apps)) /\ is_update_check_only_
    <3>1. at' = "idle" /\ state_' = "kComplete"
      BY <1>2, <1>5, <2>4 DEF Complete
    <3> QED
      BY <1>0, <1>1, <1>2, <2>1, <3>1 DEF PollInv, PollPlaces
  <2>5. CASE ~(k < Len(apps)) /\ ~is_update_check_only_
    <3>1. at' = "install" /\ UNCHANGED <<k, state_, apps_>>
      BY <1>2, <1>5, <2>5 DEF Poll
    <3>2. num_updates' > 0
      BY <1>2, <2>2, <2>5, SMTT(30)
    <3> QED
      BY <1>0, <1>1, <1>2, <1>3, <2>1, <3>1, <3>2 DEF PollInv, PollPlaces
  <2> QED
    BY <2>3, <2>4, <2>5
<1> QED
  BY <1>4, <1>5 DEF HandleUpdateCheckResults

\* NotifyBundleInstallComplete.
LEMMA PollReport ==
  ASSUME ClientInv, NotifyBundleInstallComplete PROVE PollInv' /\ InfoInv'
<1>0. IInv /\ PollInv /\ InfoInv /\ at = "report"
  BY DEF ClientInv, NotifyBundleInstallComplete
<1>1. UNCHANGED <<app, apps, bundle, running, is_update_all_apps_, num_updates>>
  BY DEF NotifyBundleInstallComplete, Kind, vars, client
<1>2. /\ apps_ = apps /\ apps # <<>> /\ k \in 1..Len(apps) /\ Len(apps) \in Nat
      /\ All(Terminal) /\ state_ = "kProcessing"
  BY <1>0, SMTT(30) DEF PollInv, PollPlaces, IInv, TypeOK
<1>3. PollInv'
  <2>1. CASE k < Len(apps)
    <3>1. at' = "report" /\ k' = k + 1 /\ UNCHANGED <<state_, apps_>>
      BY <1>2, <2>1 DEF NotifyBundleInstallComplete, Poll
    <3>2. k' \in 1..Len(apps) /\ All(Terminal)'
      BY <1>1, <1>2, <2>1, <3>1, SMTT(30) DEF All
    <3> QED
      BY <1>0, <1>1, <1>2, <3>1, <3>2 DEF PollInv, PollPlaces
  <2>2. CASE ~(k < Len(apps))
    <3>1. at' = "idle" /\ state_' = "kComplete"
      BY <1>2, <2>2 DEF NotifyBundleInstallComplete, Complete
    <3> QED
      BY <1>0, <1>1, <3>1 DEF PollInv, PollPlaces
  <2> QED
    BY <2>1, <2>2
<1>4. InfoInv'
  <2> DEFINE Info == [state : States, error : Codes]
  <2>1. PICK info \in {AppInfo(Current), NoInfo} : apps_info' = Append(apps_info, info)
    BY DEF NotifyBundleInstallComplete
  <2>2. Current \in App /\ Current.state \in Terminal
    BY <1>0, <1>2, Records DEF Current, All
  <2>3. AppInfo(Current) \in Info /\ AppInfo(Current).state \in Terminal
    BY <2>2 DEF AppInfo, App, Codes
  <2>4. NoInfo \in Info
    BY DEF NoInfo, States, Codes
  <2>5. info \in Info /\ (info = NoInfo \/ info.state \in Terminal)
    BY <2>1, <2>3, <2>4
  <2>6. apps_info \in Seq(Info)
    BY <1>0 DEF InfoInv
  <2> HIDE DEF Info
  <2>7. /\ apps_info' \in Seq(Info) /\ Len(apps_info') = Len(apps_info) + 1
        /\ apps_info'[Len(apps_info) + 1] = info
        /\ \A m \in 1..Len(apps_info) : apps_info'[m] = apps_info[m]
    BY <2>1, <2>5, <2>6, SMTT(30)
  <2>8. DOMAIN apps_info = 1..Len(apps_info) /\ DOMAIN apps_info' = 1..Len(apps_info')
        /\ Len(apps_info) \in Nat
    BY <2>6, <2>7, SMTT(30)
  <2>9. \A m \in DOMAIN apps_info' :
          apps_info'[m] = NoInfo \/ apps_info'[m].state \in Terminal
    BY <1>0, <2>5, <2>7, <2>8, SMTT(30) DEF InfoInv
  <2> QED
    BY <2>7, <2>9 DEF InfoInv, Info, NoInfo
<1> QED
  BY <1>3, <1>4

\* The other steps of the client.
LEMMA PollOther ==
  ASSUME ClientInv,
         \/ CreateBundle \/ InstallBundle \/ DoCancel \/ HandleInitState \/ OnTimer
         \/ CallInstall \/ PollServerFails
  PROVE  PollInv'
<1>0. IInv /\ PollInv
  BY DEF ClientInv
<1>a. Stop => UNCHANGED apps /\ bundle' \in {bundle, "Stopped"}
  BY DEF Stop, StopInitialized, StopBusy, vars, client
<1>1. CASE CreateBundle
  <2>1. ~running /\ UNCHANGED <<state_, running, is_update_all_apps_, at, num_updates>>
    BY <1>1 DEF CreateBundle, Kind
  <2> QED
    BY <1>0, <2>1 DEF PollInv, PollPlaces
<1>2. CASE InstallBundle
  <2>1. /\ ~running /\ running' = TRUE
        /\ UNCHANGED <<state_, is_update_all_apps_, at, num_updates>>
    BY <1>2 DEF InstallBundle, Kind
  <2> QED
    BY <1>0, <2>1 DEF PollInv, PollPlaces
<1>3. CASE DoCancel
  <2>1. /\ at = "idle" /\ UNCHANGED apps /\ bundle' \in {bundle, "Stopped"}
        /\ UNCHANGED <<state_, running, is_update_all_apps_, apps_, at, num_updates>>
    BY <1>3, <1>a DEF DoCancel, Kind
  <2> QED
    BY <1>0, <2>1 DEF PollInv, PollPlaces
<1>4. CASE HandleInitState
  <2>1. /\ running /\ state_' = "kProcessing"
        /\ UNCHANGED <<running, is_update_all_apps_, num_updates>>
    BY <1>4 DEF HandleInitState, Kind
  <2>2. \/ at' = "fail"
        \/ at' = "idle" /\ apps_' = apps' /\ apps' # <<>> /\ bundle' = "Busy"
    BY <1>4 DEF HandleInitState, CheckForUpdate, UpdateAllApps
  <2> QED
    BY <1>0, <2>1, <2>2 DEF PollInv, PollPlaces
<1>5. CASE OnTimer
  <2>1. /\ at = "idle" /\ state_ = "kProcessing" /\ at' = "poll" /\ k' = 1
        /\ UNCHANGED <<apps, bundle, state_, running, is_update_all_apps_, apps_,
                       num_updates>>
    BY <1>5 DEF OnTimer, Poll, Kind, vars, client
  <2>2. apps # <<>> /\ 1 \in 1..Len(apps)
    BY <1>0, <2>1, SMTT(30) DEF PollInv, IInv, TypeOK
  <2> QED
    BY <1>0, <2>1, <2>2, SMTT(30) DEF PollInv, PollPlaces
<1>6. CASE CallInstall
  <2>1. /\ at = "install"
        /\ UNCHANGED <<apps, state_, running, is_update_all_apps_, apps_, num_updates>>
        /\ \/ at' = "idle" /\ bundle' = "Busy"
           \/ at' = "fail"
    BY <1>6 DEF CallInstall, Install, Poll, Kind, vars, client
  <2> QED
    BY <1>0, <2>1 DEF PollInv, PollPlaces
<1>7. CASE PollServerFails
  <2>1. /\ at = "fail" /\ at' = "idle" /\ state_' = "kComplete"
        /\ UNCHANGED <<running, is_update_all_apps_, num_updates>>
    BY <1>7 DEF PollServerFails, Complete, Kind
  <2> QED
    BY <1>0, <2>1 DEF PollInv, PollPlaces
<1> QED
  BY <1>1, <1>2, <1>3, <1>4, <1>5, <1>6, <1>7

-----------------------------------------------------------------------------

\* The invariant holds initially.
LEMMA ClientInit == InstallerInit => ClientInv
<1> SUFFICES ASSUME InstallerInit PROVE ClientInv
  OBVIOUS
<1>1. IInv
  BY InitInvariant DEF InstallerInit
<1>2. apps = <<>> /\ bundle = "Init" /\ op = "None" /\ pc = "idle"
  BY DEF InstallerInit, Init
<1>3. ResultInv
  BY <1>2, SMTT(30) DEF ResultInv, Distinct, All
<1>4. PollInv
  BY DEF InstallerInit, PollInv, PollPlaces
<1>5. InfoInv
  BY SMTT(30) DEF InstallerInit, InfoInv
<1> QED
  BY <1>1, <1>3, <1>4, <1>5 DEF ClientInv

\* The invariant through every step of the client and of the worker.
LEMMA ClientStep == ClientInv /\ [InstallerNext]_ivars => ClientInv'
<1> SUFFICES ASSUME ClientInv, [InstallerNext]_ivars PROVE ClientInv'
  OBVIOUS
<1>0. IInv /\ PollInv /\ InfoInv
  BY DEF ClientInv
<1>1. IInv'
  BY <1>0, BundleStep, StepInvariant
<1>2. UNCHANGED is_update_all_apps_
  BY DEF InstallerNext, PollServer, CreateBundle, InstallBundle, DoCancel,
         HandleInitState, OnTimer, HandleProcessingState,
         ClientHandleUpdateAvailable, HandleUpdateCheckResults, CallInstall,
         NotifyBundleInstallComplete, PollServerFails, ServerStep, Kind, ivars
<1>3. ~is_update_all_apps_' => ResultInv'
  BY <1>2, ResultStep
<1>4. CASE NotifyBundleInstallComplete
  BY <1>1, <1>3, <1>4, PollReport DEF ClientInv
<1>5. CASE ~NotifyBundleInstallComplete
  <2>1. UNCHANGED apps_info
    BY <1>5
    DEF InstallerNext, PollServer, CreateBundle, InstallBundle, DoCancel,
        HandleInitState, OnTimer, HandleProcessingState,
        ClientHandleUpdateAvailable, HandleUpdateCheckResults, CallInstall,
        PollServerFails, ServerStep, ivars
  <2>2. InfoInv'
    BY <1>0, <2>1 DEF InfoInv, NoInfo
  <2>3. ASSUME UNCHANGED ivars PROVE PollInv'
    <3>1. UNCHANGED <<app, apps, bundle, state_, running, is_update_all_apps_, apps_,
                      at, k, num_updates>>
      BY <2>3 DEF ivars, vars, client, Kind
    <3> QED
      BY <1>0, <3>1 DEF PollInv, PollPlaces, All
  <2>4. PollInv'
    BY <1>5, <2>3, PollServerStep, PollProcessing, PollUpdate, PollResults, PollOther
    DEF InstallerNext, PollServer
  <2> QED
    BY <1>1, <1>3, <2>2, <2>4 DEF ClientInv
<1> QED
  BY <1>4, <1>5

\* The client's assertions hold for every number of applications, whatever
\* fails, whenever the user cancels and however far the worker gets between two
\* reads of one poll (client/bundle_installer.cc, HandleProcessingState,
\* HandleUpdateAvailable, HandleUpdateCheckResults, NotifyBundleInstallComplete).
THEOREM ClientTheorem == InstallerSpec => []ClientAssertions
<1>1. ClientInv => ClientAssertions
  <2> SUFFICES ASSUME ClientInv PROVE ClientAssertions
    OBVIOUS
  <2>1. PollInv /\ InfoInv /\ IInv
    BY DEF ClientInv
  <2>2. at = "results" => Current.state \in Checked
    BY <2>1 DEF PollInv, PollPlaces, All, Current
  <2> QED
    BY <2>1, <2>2 DEF ClientAssertions, PollInv, InfoInv, Checked
<1> QED
  BY <1>1, ClientInit, ClientStep, PTL DEF InstallerSpec

-----------------------------------------------------------------------------
(* The deferred updates.                                                   *)

\* An update that waits for the one of Omaha.
Deferred(r) == r.state = "NO_UPDATE" /\ r.error # "S_OK"

\* It waits only if Omaha has an update, so that Omaha's application is not one
\* without update.
DeferredInv ==
  /\ request \subseteq InBundle
  /\ pc = "post" /\ hr = "S_OK" /\ IsOmahaUpdateAvailable =>
       app[Omaha].state # "NO_UPDATE"
  /\ \A n \in 1..Len(apps) : Deferred(app[apps[n]]) =>
       /\ Omaha \in InBundle /\ app[Omaha].state # "NO_UPDATE"
       /\ pc = "post" => hr = "S_OK" /\ IsOmahaUpdateAvailable

\* PostUpdateCheck defers an update only if Omaha has one, and never Omaha's.
LEMMA PostDeferred ==
  ASSUME NEW r \in App, NEW h \in Codes, NEW ans \in Answers,
         NEW omahaUpdate \in BOOLEAN, NEW built \in BOOLEAN,
         NEW q, q = PostUpdateCheck(r, h, ans, omahaUpdate, built), q.state = "NO_UPDATE"
  PROVE  /\ r.omaha => ans # "UPDATE"
         /\ q.error # "S_OK" => h = "S_OK" /\ omahaUpdate /\ ~r.omaha
<1>1. r.state = "CHECKING"
  BY PostUpdateCheckResult, SMTT(30)
<1>2. h = "S_OK"
  BY <1>1, ErrorResult DEF PostUpdateCheck
<1>3. CASE IsDeferred(r, ans, omahaUpdate)
  BY <1>2, <1>3 DEF IsDeferred
<1>4. CASE ~IsDeferred(r, ans, omahaUpdate)
  <2>1. HandleUpdateAvailable(r, built).state # "NO_UPDATE"
    <3> DEFINE u == [r EXCEPT !.has_update = TRUE]
    <3>1. u \in App
      BY DEF App
    <3>2. HandleUpdateAvailable(r, built) =
            IF built THEN ChangeState(u, "UPDATE_AVAILABLE") ELSE Error(u, "FAILED")
      BY DEF HandleUpdateAvailable
    <3> HIDE DEF u
    <3> QED
      BY <3>1, <3>2, ErrorResult, ChangeStateType DEF Codes, States
  <2>2. Error(r, "FAILED").state = "ERROR"
    BY ErrorResult DEF Codes
  <2>3. ans = "NO_UPDATE" /\ q = HandleNoUpdate(r)
    BY <1>1, <1>2, <1>4, <2>1, <2>2 DEF PostUpdateCheck, Answers
  <2>4. q = ChangeState(SetNoUpdate(r, "S_OK"), "NO_UPDATE")
    BY <2>2, <2>3 DEF HandleNoUpdate
  <2>5. q.error = "S_OK"
    <3> DEFINE u == SetNoUpdate(r, "S_OK")
               v == [u EXCEPT !.state = "NO_UPDATE"]
    <3>1. u \in App /\ u.error = "S_OK"
      BY DEF SetNoUpdate, App, Results, Codes
    <3> HIDE DEF u
    <3>2. v \in App /\ v.error = "S_OK"
      BY <3>1 DEF App, States
    <3>3. q = [v EXCEPT !.pings = @ \o CreatePingEvent(v)]
      BY <2>4 DEF ChangeState, u
    <3> HIDE DEF v
    <3> QED
      BY <3>2, <3>3 DEF App
  <2> QED
    BY <2>3, <2>5
<1> QED
  BY <1>3, <1>4

\* A step that makes no application one without update.
LEMMA DeferredSame ==
  ASSUME IInv, DeferredInv, UNCHANGED apps, request' \subseteq InBundle,
         \A a \in AppIds : app'[a].state = "NO_UPDATE" =>
           app[a].state = "NO_UPDATE" /\ app'[a].error = app[a].error,
         pc' = "post" => pc = "post" /\ UNCHANGED <<hr, request, answer>>
  PROVE  DeferredInv'
<1>1. \A n \in 1..Len(apps) : apps[n] \in AppIds
  BY ElementOfSeq DEF IInv, TypeOK
<1>2. InBundle' = InBundle /\ (Omaha \in InBundle => Omaha \in AppIds)
  BY <1>1 DEF InBundle
<1>3. \A n \in 1..Len(apps) : Deferred(app[apps[n]])' => Deferred(app[apps[n]])
  BY <1>1 DEF Deferred
<1>4. IsOmahaUpdateAvailable => Omaha \in AppIds
  BY DEF IsOmahaUpdateAvailable
<1>5. pc' = "post" => IsOmahaUpdateAvailable' = IsOmahaUpdateAvailable
  BY DEF IsOmahaUpdateAvailable
<1>6. Omaha \in AppIds /\ app[Omaha].state # "NO_UPDATE" => app'[Omaha].state # "NO_UPDATE"
  OBVIOUS
<1>7. pc' = "post" /\ hr' = "S_OK" /\ IsOmahaUpdateAvailable' =>
        app'[Omaha].state # "NO_UPDATE"
  BY <1>4, <1>5, <1>6 DEF DeferredInv
<1>8. ASSUME NEW n \in 1..Len(apps), Deferred(app[apps[n]])'
      PROVE  /\ Omaha \in InBundle' /\ app'[Omaha].state # "NO_UPDATE"
             /\ pc' = "post" => hr' = "S_OK" /\ IsOmahaUpdateAvailable'
  <2>1. Deferred(app[apps[n]])
    BY <1>3, <1>8
  <2>2. /\ Omaha \in InBundle /\ app[Omaha].state # "NO_UPDATE"
        /\ pc = "post" => hr = "S_OK" /\ IsOmahaUpdateAvailable
    BY <2>1 DEF DeferredInv
  <2>3. pc' = "post" => hr' = "S_OK" /\ IsOmahaUpdateAvailable'
    BY <1>5, <2>2
  <2> QED
    BY <1>2, <1>6, <2>2, <2>3
<1> QED
  BY <1>2, <1>7, <1>8 DEF DeferredInv

\* A step after which no application is without update.
LEMMA DeferredNone ==
  ASSUME IInv', request' \subseteq InBundle',
         \A n \in 1..Len(apps') : app'[apps'[n]].state # "NO_UPDATE"
  PROVE  DeferredInv'
<1>1. \A a \in InBundle' : app'[a].state # "NO_UPDATE"
  BY DEF InBundle
<1>2. IsOmahaUpdateAvailable' => app'[Omaha].state # "NO_UPDATE"
  BY <1>1 DEF IsOmahaUpdateAvailable
<1> QED
  BY <1>2 DEF DeferredInv, Deferred

\* The steps of the work item.
LEMMA DeferredWorker ==
  ASSUME IInv, IInv', WorkInv, PhaseInv, DeferredInv, Worker PROVE DeferredInv'
<1>1. apps' = apps /\ InBundle' = InBundle
  BY WorkerTouches DEF InBundle
<1>2. \A n \in 1..Len(apps) : apps[n] \in AppIds
  BY ElementOfSeq DEF IInv, TypeOK
<1>3. request' \subseteq InBundle
  <2>1. request \subseteq InBundle
    BY DEF DeferredInv
  <2>2. DoPreUpdateCheck => request' \subseteq request \cup {A} /\ A \in InBundle
    BY CurrentApp, TypeSplit DEF DoPreUpdateCheck, IInv, InBundle, A
  <2>3. request' \subseteq request \/ DoPreUpdateCheck
    BY DEF Worker, BeginCheck, DoUpdateCheck, DoPostUpdateCheck,
       CacheOfflinePackages, QueueApp, BeginDownload, DispatchDownload,
       CreateStateForApp, AppDownloading, FetchPackages, CachePackage,
       AppDownloadComplete, AppMarkReadyToInstall, AppDownloadError,
       DeleteStateForApp, AppQueueInstall, DispatchInstall, CopyPackages,
       AppInstalling, RunInstaller, ReportResult, CompleteAsyncCall, check
  <2> QED
    BY <2>1, <2>2, <2>3
<1>4. CASE DoUpdateCheck
  <2>1. app' = app /\ pc = "send"
    BY <1>4 DEF DoUpdateCheck
  <2>2. \A n \in 1..Len(apps) : app[apps[n]].state # "NO_UPDATE"
    BY <2>1 DEF PhaseInv, BeforeResult
  <2> QED
    BY <1>1, <1>3, <2>1, <2>2, DeferredNone
<1>5. CASE ~DoUpdateCheck /\ ~DoPostUpdateCheck
  <2>1. pc' # "post"
    BY <1>5 DEF Worker, BeginCheck, DoPreUpdateCheck,
       CacheOfflinePackages, QueueApp, BeginDownload, DispatchDownload,
       CreateStateForApp, AppDownloading, FetchPackages, CachePackage,
       AppDownloadComplete, AppMarkReadyToInstall, AppDownloadError,
       DeleteStateForApp, AppQueueInstall, DispatchInstall, CopyPackages,
       AppInstalling, RunInstaller, ReportResult, CompleteAsyncCall, Goto, Loop,
       EnterLoop, AfterDownload, AfterCheck
  <2>2. \A a \in AppIds : app'[a].state = "NO_UPDATE" =>
          app[a].state = "NO_UPDATE" /\ app'[a].error = app[a].error
    BY <1>5, EndStays
  <2> QED
    BY <1>1, <1>3, <2>1, <2>2, DeferredSame
<1>6. CASE DoPostUpdateCheck
  <2>1. PICK built \in Succeeds("response") :
          app' = [app EXCEPT ![A] = PostUpdateCheck(@, hr, answer[A],
                                        IsOmahaUpdateAvailable, built)]
    BY <1>6 DEF DoPostUpdateCheck
  <2> DEFINE r == PostUpdateCheck(app[A], hr, answer[A], IsOmahaUpdateAvailable, built)
  <2>2. app' = [app EXCEPT ![A] = r] /\ pc = "post" /\ UNCHANGED <<hr, request, answer>>
    BY <1>6, <2>1 DEF DoPostUpdateCheck, check
  <2>3. /\ i \in 1..Len(apps) /\ A = apps[i] /\ A \in AppIds /\ app[A] \in App
        /\ app'[A] = r /\ \A b \in AppIds \ {A} : app'[b] = app[b]
    BY <2>2, OneChanges
  <2>4. /\ IsOmahaUpdateAvailable \in BOOLEAN /\ built \in BOOLEAN
        /\ answer[A] \in Answers /\ hr \in Codes
    BY <2>3 DEF IsOmahaUpdateAvailable, Succeeds, IInv, TypeOK
  <2>5. /\ app[A].omaha = (A = Omaha)
        /\ IsOmahaUpdateAvailable => Omaha \in AppIds /\ Omaha \in InBundle
                                     /\ answer[Omaha] = "UPDATE"
    BY <2>3 DEF WorkInv, AnswerInv, IsOmahaUpdateAvailable, DeferredInv
  <2>6. /\ r.state = "NO_UPDATE" /\ A = Omaha => ~IsOmahaUpdateAvailable
        /\ Deferred(r) => hr = "S_OK" /\ IsOmahaUpdateAvailable /\ A # Omaha
    <3>1. r.state = "NO_UPDATE" =>
            /\ app[A].omaha => answer[A] # "UPDATE"
            /\ r.error # "S_OK" => hr = "S_OK" /\ IsOmahaUpdateAvailable /\ ~app[A].omaha
      BY <2>3, <2>4, PostDeferred, SMTT(30)
    <3> QED
      BY <2>5, <3>1 DEF Deferred
  <2> HIDE DEF r
  <2>7. IsOmahaUpdateAvailable' = IsOmahaUpdateAvailable
    BY <2>2 DEF IsOmahaUpdateAvailable
  <2>8. hr = "S_OK" /\ IsOmahaUpdateAvailable => app'[Omaha].state # "NO_UPDATE"
    BY <2>2, <2>3, <2>5, <2>6 DEF DeferredInv
  <2>9. ASSUME NEW n \in 1..Len(apps), Deferred(app'[apps[n]])
        PROVE  hr = "S_OK" /\ IsOmahaUpdateAvailable
    <3>1. apps[n] = A \/ app'[apps[n]] = app[apps[n]]
      BY <1>2, <2>3
    <3> QED
      BY <2>2, <2>3, <2>6, <2>9, <3>1 DEF DeferredInv
  <2> QED
    BY <1>1, <1>3, <2>2, <2>5, <2>7, <2>8, <2>9 DEF DeferredInv
<1> QED
  BY <1>4, <1>5, <1>6

\* The calls of the client.
LEMMA DeferredClient ==
  ASSUME IInv, IInv', PhaseInv, DeferredInv, Client,
         \A a \in AppIds : Moves(app[a], app'[a])
  PROVE  DeferredInv'
<1>1. \A a \in AppIds : app[a] \in App /\ (a \in allowed) \in BOOLEAN
  BY SMTT(30) DEF IInv, TypeOK
<1>2. \A n \in 1..Len(apps') : apps'[n] \in AppIds
  BY ElementOfSeq DEF IInv, TypeOK
<1>3. ASSUME bundle \in {"Init", "Initialized"}, request' = request,
             InBundle \subseteq InBundle'
      PROVE  DeferredInv'
  <2>1. \A a \in AppIds : app'[a].state # "NO_UPDATE"
    BY <1>3 DEF PhaseInv, Moves, Arrows
  <2>2. request' \subseteq InBundle'
    BY <1>3 DEF DeferredInv
  <2> QED
    BY <1>2, <2>1, <2>2, DeferredNone
<1>4. CASE Initialize \/ Pause \/ StopInitialized \/ CheckForUpdate
  BY <1>3, <1>4 DEF Initialize, Pause, StopInitialized, CheckForUpdate, StartWork,
     worker, check, InBundle
<1>5. ASSUME NEW a, NEW r, AddApp(a, r) PROVE DeferredInv'
  <2>1. bundle = "Initialized" /\ apps' = Append(apps, a) /\ request' = request
    BY <1>5 DEF AddApp, worker, check
  <2>2. \A n \in 1..Len(apps) : n \in 1..Len(apps') /\ apps'[n] = apps[n]
    BY <2>1, SMTT(30) DEF IInv, TypeOK
  <2>3. InBundle \subseteq InBundle'
    BY <2>2 DEF InBundle
  <2> QED
    BY <1>3, <2>1, <2>3
<1>6. ASSUME NEW s, NEW eula, \/ CreateAllInstalledApps(s, eula)
                              \/ UpdateAllApps(s, eula)
                              \/ UpdateAllAppsFails(s, eula)
      PROVE  DeferredInv'
  <2>1. bundle = "Initialized" /\ apps = <<>> /\ request' = request
    BY <1>6 DEF CreateAllInstalledApps, UpdateAllApps, UpdateAllAppsFails, StartWork,
       worker, check
  <2>2. \A n \in 1..Len(apps) : FALSE
    BY <2>1, SMTT(30)
  <2>3. InBundle \subseteq InBundle'
    BY <2>2 DEF InBundle
  <2> QED
    BY <1>3, <2>1, <2>3
<1>7. ASSUME NEW a \in AppIds, NEW eula, PutIsEulaAccepted(a, eula) PROVE DeferredInv'
  <2>1. UNCHANGED <<apps, pc, hr, request, answer>>
    BY <1>7 DEF PutIsEulaAccepted, client, worker, check
  <2>2. \A b \in AppIds : app'[b].state = app[b].state /\ app'[b].error = app[b].error
    <3>1. app \in [AppIds -> App]
      BY DEF IInv, TypeOK
    <3> QED
      BY <1>7, <3>1 DEF PutIsEulaAccepted, App
  <2>3. request' \subseteq InBundle
    BY <2>1 DEF DeferredInv
  <2> QED
    BY <2>1, <2>2, <2>3, DeferredSame
<1>8. CASE StopBusy
  <2>1. UNCHANGED <<apps, pc, hr, request, answer>>
    BY <1>8 DEF StopBusy, check
  <2>2. \A a \in AppIds : app'[a] = app[a] \/ app'[a] = Cancel(app[a])
    BY <1>8 DEF StopBusy, OnBundle
  <2>3. \A a \in AppIds : Cancel(app[a]).state = "NO_UPDATE" => Cancel(app[a]) = app[a]
    BY <1>1, BaseErrorType DEF Cancel, Codes
  <2>4. request' \subseteq InBundle
    BY <2>1 DEF DeferredInv
  <2> QED
    BY <2>1, <2>2, <2>3, <2>4, DeferredSame
<1>9. CASE Download \/ Install
  <2>1. UNCHANGED <<apps, request>> /\ pc' = "impersonate"
    BY <1>9 DEF Download, Install, StartWork, check
  <2>2. \A a \in AppIds : app'[a] \in {app[a], QueueDownload(app[a], a \in allowed),
                                       QueueDownloadOrInstall(app[a], a \in allowed)}
    BY <1>9 DEF Download, Install
  <2>3. \A a \in AppIds :
          /\ QueueDownload(app[a], a \in allowed).state = "NO_UPDATE" =>
               app[a].state = "NO_UPDATE"
          /\ QueueDownloadOrInstall(app[a], a \in allowed).state = "NO_UPDATE" =>
               app[a].state = "NO_UPDATE"
    BY <1>1, DownloadEventsResult, InstallEventsResult
  <2>4. \A a \in AppIds : app[a].state = "NO_UPDATE" =>
          /\ QueueDownload(app[a], a \in allowed) = app[a]
          /\ QueueDownloadOrInstall(app[a], a \in allowed) = app[a]
    BY <1>1, EndIgnores DEF QueueDownload, Unhandled, Ignores, NoUpdateIgnores
  <2>5. request' \subseteq InBundle
    BY <2>1 DEF DeferredInv
  <2>6. \A a \in AppIds : app'[a].state = "NO_UPDATE" =>
          app[a].state = "NO_UPDATE" /\ app'[a].error = app[a].error
    BY <2>2, <2>3, <2>4
  <2> QED
    BY <2>1, <2>5, <2>6, DeferredSame
<1> QED
  BY <1>4, <1>5, <1>6, <1>7, <1>8, <1>9 DEF Client, CreateApp, CreateInstalledApp

\* Initially.
LEMMA InitDeferred == Init => DeferredInv
<1> SUFFICES ASSUME Init PROVE DeferredInv
  OBVIOUS
<1>1. request = {} /\ apps = <<>> /\ pc = "idle"
  BY DEF Init
<1>2. \A n \in 1..Len(apps) : FALSE
  BY <1>1, SMTT(30)
<1> QED
  BY <1>1, <1>2 DEF DeferredInv

\* Every step of the bundle.
LEMMA StepDeferred ==
  IInv /\ WorkInv /\ PhaseInv /\ DeferredInv /\ [Next]_vars => DeferredInv'
<1> SUFFICES ASSUME IInv, WorkInv, PhaseInv, DeferredInv, [Next]_vars
             PROVE  DeferredInv'
  OBVIOUS
<1>1. IInv' /\ \A a \in AppIds : Moves(app[a], app'[a])
  BY StepInvariant
<1>2. CASE UNCHANGED vars
  BY <1>2 DEF vars, client, check, DeferredInv, InBundle, IsOmahaUpdateAvailable,
     Deferred
<1> QED
  BY <1>1, <1>2, DeferredWorker, DeferredClient DEF Next

-----------------------------------------------------------------------------
(* The report.                                                             *)

\* What was told of an application is what its record says still.
Told(m) ==
  \/ apps_info[m] = NoInfo
  \/ /\ apps_info[m].state = app[apps[m]].state
     /\ IF apps_info[m].state \in {"NO_UPDATE", "INSTALL_COMPLETE"}
          THEN apps_info[m].error = app[apps[m]].error
          ELSE apps_info[m].error # "S_OK"

\* There is a first failure, if there is one.
FirstFailure(infos) ==
  \/ \A m \in DOMAIN infos : infos[m].error = "S_OK"
  \/ \E m \in DOMAIN infos : /\ infos[m].error # "S_OK"
                             /\ \A j \in 1..(m - 1) : infos[j].error = "S_OK"

\* What the report has said so far, and what it says in the end.
ReportInv ==
  /\ is_update_check_only_ \in BOOLEAN
  /\ Len(apps_info) <= Len(apps)
  /\ state_ # "kComplete" /\ at # "report" => apps_info = <<>>
  /\ at = "report" => Len(apps_info) = k - 1 /\ FirstFailure(apps_info)
  /\ \A m \in 1..Len(apps_info) : Told(m)
  /\ state_ = "kComplete" /\ result_ = "S_OK" /\ ~is_update_check_only_ =>
       \A n \in 1..Len(apps) : app[apps[n]].state \in {"NO_UPDATE", "INSTALL_COMPLETE"}
  /\ state_ = "kComplete" /\ result_ # "S_OK" /\ apps_info # <<>> =>
       \E m \in 1..Len(apps_info) : apps_info[m].state # "NO_UPDATE"

\* All of it together is inductive.
FullInv == ClientInv /\ WorkInv /\ PhaseInv /\ DeferredInv /\ ReportInv

\* What ReportInv is about, when the client has not begun its report.
LEMMA ReportNone ==
  ASSUME ClientInv', apps_info' = <<>>, is_update_check_only_' \in BOOLEAN,
         at' = "report" => k' = 1,
         state_' = "kComplete" => result_' # "S_OK" \/ is_update_check_only_'
  PROVE  ReportInv'
<1>1. Len(apps_info') = 0 /\ DOMAIN apps_info' = {} /\ \A m \in 1..0 : FALSE
  BY SMTT(30)
<1>2. Len(apps_info') <= Len(apps')
  BY <1>1, SMTT(30) DEF ClientInv, IInv, TypeOK
<1>3. at' = "report" => Len(apps_info') = k' - 1
  BY <1>1, SMTT(30)
<1>4. FirstFailure(apps_info')
  BY <1>1 DEF FirstFailure
<1> QED
  BY <1>1, <1>2, <1>3, <1>4 DEF ReportInv

\* The worker goes on while the client reports, and after it has completed.
LEMMA ReportServer ==
  ASSUME FullInv, ServerStep \/ UNCHANGED ivars PROVE ReportInv'
<1>1. /\ UNCHANGED <<apps_info, state_, at, k, result_, is_update_check_only_, apps>>
      /\ Worker \/ UNCHANGED app
  BY WorkerTouches DEF ServerStep, ivars, Kind, vars, client
<1>2. IInv /\ WorkInv /\ PhaseInv /\ InfoInv /\ ReportInv
  BY DEF FullInv, ClientInv
<1>3. [Next]_vars
  BY DEF ServerStep, Next, ivars
<1>4. \A a \in AppIds : Moves(app[a], app'[a])
  BY <1>2, <1>3, StepInvariant
<1>5. \A n \in 1..Len(apps) : apps[n] \in AppIds
  BY <1>2, Records
<1>6. \A n \in 1..Len(apps) :
        app[apps[n]].state \in {"NO_UPDATE", "INSTALL_COMPLETE"} =>
          app'[apps[n]] = app[apps[n]]
  BY <1>1, <1>2, <1>5, EndStays
<1>7. \A n \in 1..Len(apps) : app[apps[n]].state \in Terminal =>
        app'[apps[n]].state = app[apps[n]].state
  BY <1>4, <1>5, <1>6 DEF Moves, Arrows, Terminal
<1>8. /\ DOMAIN apps_info = 1..Len(apps_info)
      /\ \A m \in 1..Len(apps_info) : m \in 1..Len(apps)
  BY <1>2, SMTT(30) DEF InfoInv, ReportInv, IInv, TypeOK
<1>9. \A m \in 1..Len(apps_info) : Told(m)'
  <2> SUFFICES ASSUME NEW m \in 1..Len(apps_info), apps_info[m] # NoInfo
               PROVE  Told(m)'
    BY <1>1 DEF Told, NoInfo
  <2>1. Told(m) /\ apps_info[m].state \in Terminal
    BY <1>2, <1>8 DEF ReportInv, InfoInv
  <2> QED
    BY <1>1, <1>6, <1>7, <1>8, <2>1 DEF Told
<1>10. FirstFailure(apps_info)' = FirstFailure(apps_info)
  BY <1>1 DEF FirstFailure
<1> QED
  BY <1>1, <1>2, <1>6, <1>9, <1>10 DEF ReportInv

\* What an information tells about the application it was read from.
LEMMA InfoTells ==
  ASSUME NEW r \in App
  PROVE  /\ AppInfo(r).state = r.state
         /\ IF r.state \in {"NO_UPDATE", "INSTALL_COMPLETE"}
              THEN AppInfo(r).error = r.error ELSE AppInfo(r).error # "S_OK"
  BY DEF AppInfo

\* The result is S_OK only if no application failed.
LEMMA ResultOfBundle ==
  ASSUME NEW infos, FirstFailure(infos), BundleResult(infos) = "S_OK"
  PROVE  \A m \in DOMAIN infos : infos[m].error = "S_OK"
<1> DEFINE First(m) == /\ infos[m].error # "S_OK"
                       /\ \A j \in 1..(m - 1) : infos[j].error = "S_OK"
<1>1. SUFFICES ASSUME ~\A m \in DOMAIN infos : infos[m].error = "S_OK" PROVE FALSE
  OBVIOUS
<1>2. \E m \in DOMAIN infos : First(m)
  BY <1>1 DEF FirstFailure
<1>3. First(CHOOSE m \in DOMAIN infos : First(m))
  BY <1>2
<1>4. BundleResult(infos) = infos[CHOOSE m \in DOMAIN infos : First(m)].error
  BY <1>1 DEF BundleResult
<1> QED
  BY <1>3, <1>4

\* NotifyBundleInstallComplete.
LEMMA ReportStep ==
  ASSUME FullInv, ClientInv', NotifyBundleInstallComplete PROVE ReportInv'
<1>1. IInv /\ PollInv /\ InfoInv /\ ReportInv /\ at = "report"
  BY DEF FullInv, ClientInv, NotifyBundleInstallComplete
<1>2. UNCHANGED <<app, apps, is_update_check_only_>>
  BY DEF NotifyBundleInstallComplete, vars, client, Kind
<1>3. /\ apps_ = apps /\ k \in 1..Len(apps) /\ Len(apps) \in Nat /\ All(Terminal)
  BY <1>1, SMTT(30) DEF PollInv, PollPlaces, IInv, TypeOK
<1>4. PICK info \in {AppInfo(Current), NoInfo} : apps_info' = Append(apps_info, info)
  BY DEF NotifyBundleInstallComplete
<1>5. Len(apps_info) = k - 1 /\ FirstFailure(apps_info)
  BY <1>1 DEF ReportInv
<1> DEFINE Info == [state : States, error : Codes]
<1>6. apps_info \in Seq(Info)
  BY <1>1 DEF InfoInv
<1> HIDE DEF Info
<1>7. /\ Len(apps_info') = k /\ apps_info'[k] = info /\ k \in 1..k
      /\ DOMAIN apps_info' = 1..k /\ DOMAIN apps_info = 1..(k - 1)
      /\ \A m \in 1..(k - 1) : apps_info'[m] = apps_info[m]
      /\ \A m \in 1..k : m \in 1..(k - 1) \/ m = k
      /\ k <= Len(apps)
  BY <1>3, <1>4, <1>5, <1>6, SMTT(30)
<1>8. Current \in App /\ Current = app[apps[k]]
  BY <1>1, <1>3, Records DEF Current
<1>9. \A m \in 1..k : Told(m)'
  <2>1. \A m \in {k} : Told(m)'
    <3> SUFFICES ASSUME NEW m, m = k PROVE Told(m)'
      OBVIOUS
    <3>1. NoInfo' = NoInfo
      BY DEF NoInfo
    <3>2. apps_info'[m] = info /\ app'[apps'[m]] = Current
      BY <1>2, <1>7, <1>8
    <3>3. CASE info = NoInfo
      BY <3>1, <3>2, <3>3 DEF Told
    <3>4. CASE info = AppInfo(Current)
      BY <1>8, <3>2, <3>4, InfoTells DEF Told
    <3> QED
      BY <1>4, <3>3, <3>4
  <2>2. \A m \in 1..(k - 1) : Told(m)'
    <3> SUFFICES ASSUME NEW m \in 1..(k - 1) PROVE Told(m)'
      OBVIOUS
    <3>1. Told(m) /\ apps_info'[m] = apps_info[m]
      BY <1>1, <1>5, <1>7 DEF ReportInv
    <3> QED
      BY <1>2, <3>1 DEF Told, NoInfo
  <2> QED
    BY <1>7, <2>1, <2>2
<1>10. NoInfo.state = "INIT" /\ NoInfo.error = "FAILED"
  BY DEF NoInfo
<1>11. \A m \in 1..k :
        \/ apps_info'[m].state = "INIT" /\ apps_info'[m].error = "FAILED"
        \/ /\ apps_info'[m].state = app[apps[m]].state
           /\ IF apps_info'[m].state \in {"NO_UPDATE", "INSTALL_COMPLETE"}
                THEN apps_info'[m].error = app[apps[m]].error
                ELSE apps_info'[m].error # "S_OK"
  BY <1>2, <1>9, <1>10 DEF Told
<1>12. FirstFailure(apps_info')
  <2>1. CASE \A m \in 1..(k - 1) : apps_info[m].error = "S_OK"
    BY <1>7, <2>1 DEF FirstFailure
  <2>2. CASE ~\A m \in 1..(k - 1) : apps_info[m].error = "S_OK"
    <3>1. PICK m \in 1..(k - 1) : /\ apps_info[m].error # "S_OK"
                                  /\ \A j \in 1..(m - 1) : apps_info[j].error = "S_OK"
      BY <1>5, <1>7, <2>2 DEF FirstFailure
    <3>2. m \in 1..k /\ \A j \in 1..(m - 1) : j \in 1..(k - 1)
      BY <1>3, <3>1, SMTT(30)
    <3> QED
      BY <1>7, <3>1, <3>2 DEF FirstFailure
  <2> QED
    BY <2>1, <2>2
<1>13. CASE k < Len(apps)
  <2>1. at' = "report" /\ k' = k + 1 /\ state_' = state_
    BY <1>3, <1>13 DEF NotifyBundleInstallComplete, Poll
  <2>2. state_' # "kComplete"
    BY <1>1, <2>1 DEF PollInv
  <2>3. Len(apps_info') <= Len(apps) /\ Len(apps_info') = k' - 1
    BY <1>3, <1>7, <2>1, SMTT(30)
  <2> QED
    BY <1>1, <1>2, <1>7, <1>9, <1>12, <2>1, <2>2, <2>3 DEF ReportInv
<1>14. CASE ~(k < Len(apps))
  <2>1. at' = "idle" /\ state_' = "kComplete" /\ result_' = BundleResult(apps_info')
    BY <1>3, <1>14 DEF NotifyBundleInstallComplete, Complete
  <2>2. k = Len(apps)
    BY <1>3, <1>14, SMTT(30)
  <2>3. ASSUME result_' = "S_OK", NEW n \in 1..Len(apps)
        PROVE  app[apps[n]].state \in {"NO_UPDATE", "INSTALL_COMPLETE"}
    <3>1. apps_info'[n].error = "S_OK"
      BY <1>7, <1>12, <2>1, <2>2, <2>3, ResultOfBundle
    <3> QED
      BY <1>11, <2>2, <3>1
  <2>4. ASSUME result_' # "S_OK"
        PROVE  \E m \in 1..k : apps_info'[m].state # "NO_UPDATE"
    <3>1. PICK m \in 1..k : apps_info'[m].error # "S_OK"
      BY <1>7, <2>1, <2>4 DEF BundleResult
    <3>2. SUFFICES ASSUME apps_info'[m].state = "NO_UPDATE"
                   PROVE  \E p \in 1..k : apps_info'[p].state # "NO_UPDATE"
      OBVIOUS
    <3>3. app[apps[m]].state = "NO_UPDATE" /\ app[apps[m]].error # "S_OK"
      BY <1>11, <3>1, <3>2
    <3>4. Omaha \in InBundle /\ app[Omaha].state # "NO_UPDATE"
      BY <2>2, <3>3 DEF FullInv, DeferredInv, Deferred
    <3>5. PICK p \in 1..k : apps[p] = Omaha
      BY <2>2, <3>4 DEF InBundle
    <3> QED
      BY <1>11, <3>4, <3>5
  <2> QED
    BY <1>1, <1>2, <1>7, <1>9, <2>1, <2>2, <2>3, <2>4 DEF ReportInv
<1> QED
  BY <1>13, <1>14

\* The steps of the client before its report.
LEMMA ReportOther ==
  ASSUME FullInv, ClientInv',
         \/ CreateBundle \/ InstallBundle \/ DoCancel \/ HandleInitState \/ OnTimer
         \/ HandleProcessingState \/ ClientHandleUpdateAvailable
         \/ HandleUpdateCheckResults \/ CallInstall \/ PollServerFails
  PROVE  ReportInv'
<1>1. PollInv /\ ReportInv
  BY DEF FullInv, ClientInv
<1>2. at # "report" /\ state_ # "kComplete"
  BY <1>1 DEF PollInv, CreateBundle, InstallBundle, DoCancel, HandleInitState, OnTimer,
     HandleProcessingState, ClientHandleUpdateAvailable, HandleUpdateCheckResults,
     CallInstall, PollServerFails
<1>3. apps_info' = <<>>
  <2>1. apps_info' = apps_info
    BY DEF CreateBundle, InstallBundle, DoCancel, HandleInitState, OnTimer,
       HandleProcessingState, ClientHandleUpdateAvailable, HandleUpdateCheckResults,
       CallInstall, PollServerFails
  <2> QED
    BY <1>1, <1>2, <2>1 DEF ReportInv
<1>4. at' = "report" => k' = 1
  BY <1>2 DEF CreateBundle, InstallBundle, DoCancel, HandleInitState, OnTimer,
     HandleProcessingState, ClientHandleUpdateAvailable, HandleUpdateCheckResults,
     CallInstall, PollServerFails, Poll, Complete
<1>5. /\ is_update_check_only_' = is_update_check_only_
      /\ is_update_check_only_ \in BOOLEAN
  BY <1>1
  DEF ReportInv, CreateBundle, InstallBundle, DoCancel, HandleInitState, OnTimer,
      HandleProcessingState, ClientHandleUpdateAvailable, HandleUpdateCheckResults,
      CallInstall, PollServerFails, Kind
<1>6. is_update_check_only_ => is_update_check_only_'
  BY <1>5
<1>7. state_' = "kComplete" => result_' # "S_OK" \/ is_update_check_only_'
  <2>1. HandleUpdateCheckResults => state_' = state_ \/ is_update_check_only_
    BY DEF HandleUpdateCheckResults, Poll
  <2>2. PollServerFails => result_' # "S_OK"
    BY DEF PollServerFails, Complete
  <2>3. HandleInitState => state_' # "kComplete"
    BY DEF HandleInitState
  <2>4. (\/ CreateBundle \/ InstallBundle \/ DoCancel \/ OnTimer
         \/ HandleProcessingState \/ ClientHandleUpdateAvailable \/ CallInstall) =>
          state_' = state_
    BY DEF CreateBundle, InstallBundle, DoCancel, OnTimer, HandleProcessingState,
       ClientHandleUpdateAvailable, CallInstall, Poll
  <2> QED
    BY <1>2, <1>6, <2>1, <2>2, <2>3, <2>4
<1> QED
  BY <1>3, <1>4, <1>5, <1>7, ReportNone

\* What the client told the user is and stays the truth, though the worker goes
\* on: the states are those of the applications for ever after, success means
\* that every application has no update or was installed and registered, and
\* a failure that not all were without update (client/bundle_installer.cc,
\* NotifyBundleInstallComplete).
THEOREM ReportStaysTrue == InstallerSpec => []ReportTrue
<1>1. InstallerInit => FullInv
  <2> SUFFICES ASSUME InstallerInit PROVE FullInv
    OBVIOUS
  <2>1. /\ Init /\ apps_info = <<>> /\ at = "idle" /\ state_ = "kInit" /\ apps = <<>>
        /\ is_update_check_only_ \in BOOLEAN
    BY DEF InstallerInit, Init
  <2>2. /\ Len(apps_info) = 0 /\ Len(apps) = 0 /\ \A m \in 1..0 : FALSE
        /\ Len(apps_info) <= Len(apps)
    BY <2>1, SMTT(30)
  <2>3. ReportInv
    BY <2>1, <2>2 DEF ReportInv
  <2> QED
    BY <2>1, <2>3, ClientInit, InitWork, InitPhase, InitDeferred DEF FullInv
<1>2. FullInv /\ [InstallerNext]_ivars => FullInv'
  <2> SUFFICES ASSUME FullInv, [InstallerNext]_ivars PROVE FullInv'
    OBVIOUS
  <2>1. ClientInv' /\ [Next]_vars /\ IInv
    BY ClientStep, BundleStep DEF FullInv, ClientInv
  <2>2. WorkInv' /\ PhaseInv' /\ DeferredInv'
    BY <2>1, StepWork, StepPhase, StepDeferred DEF FullInv
  <2>3. ReportInv'
    BY <2>1, ReportServer, ReportStep, ReportOther DEF InstallerNext, PollServer
  <2> QED
    BY <2>1, <2>2, <2>3 DEF FullInv
<1>3. FullInv => ReportTrue
  <2> SUFFICES ASSUME FullInv, state_ = "kComplete" PROVE ReportTrue
    BY DEF ReportTrue
  <2>1. InfoInv /\ ReportInv /\ WorkInv /\ IInv
    BY DEF FullInv, ClientInv
  <2>2. DOMAIN apps_info = 1..Len(apps_info)
    BY <2>1, SMTT(30) DEF InfoInv
  <2>3. \A a \in AppIds : app[a].state = "INSTALL_COMPLETE" => a \in installed
    BY <2>1 DEF WorkInv, RunInv, InstallerRunsOnce
  <2>4. \A n \in 1..Len(apps) : apps[n] \in AppIds
    BY <2>1, Records
  <2>5. \A m \in DOMAIN apps_info :
          apps_info[m] = NoInfo \/ apps_info[m].state = app[apps[m]].state
    BY <2>1, <2>2 DEF ReportInv, Told
  <2>6. ASSUME result_ = "S_OK", ~is_update_check_only_
        PROVE \A a \in InBundle : app[a].state = "NO_UPDATE" \/ a \in installed
    <3>1. \A n \in 1..Len(apps) : app[apps[n]].state \in {"NO_UPDATE", "INSTALL_COMPLETE"}
      BY <2>1, <2>6 DEF ReportInv
    <3> QED
      BY <3>1, <2>3, <2>4 DEF InBundle
  <2>7. ASSUME result_ # "S_OK", apps_info # <<>>
        PROVE \E m \in DOMAIN apps_info : apps_info[m].state # "NO_UPDATE"
    BY <2>1, <2>2, <2>7 DEF ReportInv
  <2> QED
    BY <2>5, <2>6, <2>7 DEF ReportTrue
<1> QED
  BY <1>1, <1>2, <1>3, PTL DEF InstallerSpec

-----------------------------------------------------------------------------
(* The bundle under its client *)

\* The client and the worker together take only steps of the bundle of UpdateBundle:
\* the client relies on nothing of the bundle but its calls (client/bundle_installer.cc
\* over the interfaces of app_bundle.cc).
THEOREM ClientUsesBundle == InstallerSpec => Init /\ [][Next]_vars
<1>1. InstallerInit => Init
  BY DEF InstallerInit
<1> QED
  BY <1>1, BundleStep, PTL DEF InstallerSpec

\* The bundle keeps its promises while the client polls, cancels and gives up at any
\* moment, with any application list and any failure: one call at a time, the assertions
\* of worker.cc, the downloads, the package cache, one run of each installer, Omaha
\* first, what Stop leaves, the protocol of the calls and their bound, and the life of
\* each application (app_bundle.cc, worker.cc, download_manager.cc, install_manager.cc).
THEOREM BundleKeepsPromises ==
  InstallerSpec =>
    /\ [](/\ TypeOK /\ SingleCall /\ WorkerAssertions /\ DownloadStateOwned
          /\ DownloadedIsCached /\ InstallerRunsOnce /\ OmahaUpdatesFirst /\ StoppedIsSettled)
    /\ ImplementsProtocol /\ ImplementsLifecycle /\ CallsAreBounded
<1> DEFINE Safe == Init /\ [][Next]_vars
           Promises == /\ TypeOK /\ SingleCall /\ WorkerAssertions /\ DownloadStateOwned
                       /\ DownloadedIsCached /\ InstallerRunsOnce /\ OmahaUpdatesFirst
                       /\ StoppedIsSettled
<1>1. Init => StoppedInv
  BY DEF Init, StoppedInv
<1>2. Safe => [](IInv /\ WorkInv /\ PhaseInv /\ StoppedInv)
  <2>1. IInv /\ PhaseInv /\ StoppedInv /\ [Next]_vars => StoppedInv'
    BY StepStopped
  <2> QED
    BY <1>1, <2>1, InitInvariant, StepInvariant, InitWork, StepWork, InitPhase, StepPhase, PTL
<1>3. IInv /\ WorkInv /\ StoppedInv => Promises
  BY OmahaBlocks, SettledMeans
  DEF IInv, WorkInv, QueueInv, PastInv, WorkerAssertions, Queued, CacheInv, RunInv
<1>4. Safe => ImplementsProtocol
  <2>1. Init => Protocol!Init
    BY DEF Init, Protocol!Init
  <2>2. IInv /\ [Next]_vars => [Protocol!Next]_(Protocol!vars)
    BY ProtocolStep
  <2> QED
    BY <1>2, <2>1, <2>2, PTL DEF ImplementsProtocol, Protocol!Safety
<1>5. Safe => ImplementsLifecycle
  <2>1. IInv /\ [Next]_vars => [LifecycleStep]_vars
    BY LifecycleSteps
  <2> QED
    BY <1>2, <2>1, LifecycleSteps, LifecycleForm, PTL
<1>6. Safe => CallsAreBounded
  <2>1. IInv /\ IInv' /\ [Next]_vars => [BoundedStep]_vars
    BY BoundedSteps
  <2> QED
    BY <1>2, <2>1, BoundedForm, PTL
<1> QED
  BY <1>2, <1>3, <1>4, <1>5, <1>6, ClientUsesBundle, PTL
=============================================================================
