# Omaha: a TLA+ model of installing and updating

This directory models the part of Omaha that carries out installations and
updates: the COM server of `omaha/goopdate`, the client that drives it, and the
services below it (package cache, network, installers, registry, pings).  A
client process creates an *application bundle*, adds applications to it, and asks
it to check for updates, to download and to install.  The server does this on a
thread of its pool while the client polls, and may be told to stop at any time.

## The system and its parts

```
 client process         server: pool thread         services of the worker
 ----------------       ------------------------    ------------------------------
 BundleInstaller        Worker work item       -->  WebServicesClient -> NetworkRequest
   polls, cancels         CheckForUpdateHelper                        -> SimpleRequest
      |                   Download             -->  DownloadManager, PackageCache
 AppBundle calls  -->     DownloadAndInstallHelper
 checkForUpdate ...          |                 -->  InstallManager, InstallerWrapper
 stop, pause                 |                          | registry (AppManager)
      \                      |                 -->  Ping, persisted in the registry
       `---- model lock -----'---- App objects, one state machine each
```

* **AppBundle** has a state object (Init, Initialized, Busy, Ready, Paused,
  Stopped) and at most one outstanding call (`user_work_item_`).
* **App** has a state object per phase; an event a state does not expect becomes
  an error (`HandleInvalidStateTransition`).  Transitions queue pings.
* **Worker** runs the call as a work item of the **ThreadPool**.
* All of them share the *model lock*.  Client calls hold it from start to end.
  The work item takes it once for each event of an application; it does not hold
  it while it dispatches `App::Download` and `App::Install`, while it waits for
  the network, or while an installer runs.
* **BundleInstaller** learns what happens by polling every 100 ms.

## Modules

| module | models |
|---|---|
| `AppStates` | one application: every event of every state as an operator from the record before to the record after, with the pings it queues |
| `UpdateBundle` | one bundle: client calls as atomic actions, the work item as a process whose `pc` is at a point where other threads can run, the download and install managers as its steps |
| `BundleProtocol` | abstract: what a client of `IAppBundle` may rely on (one call at a time, completed once, Stop final) |
| `AppLifecycle` | abstract: what a client that polls `currentState` may rely on (phases in order, failure final) |
| `HttpRequest` | abstract: what `NetworkRequest` takes an http request for (no Send that ends after Cancel succeeds) |
| `BundleInstaller` | the polling client composed with `UpdateBundle` |
| `ThreadPool` | the pool: QueueUserWorkItem, the processing of items, Initialize, Stop and the destructor, a step per access to the shared counters |
| `PackageCache` | Put, Get, IsCached and the purges of the cache, and the download and install of several bundles that share it |
| `NetworkRequest` | the rounds, configurations and http requests of a call, nested loops with back-off, and Cancel from another thread |
| `WebServicesClient` | Send with its https attempt and http fallback, composed with `NetworkRequest` |
| `SimpleRequest` | the WinHTTP request below: Send, Close, the destructors, Cancel from another thread, callbacks of WinHTTP |
| `AppInstall` | InstallApp, InstallerWrapper and AddUninstalledAppsPings of several bundles over the registry, with installers as processes and three locks |
| `Pings` | pings that are persisted, sent in or out of process, and sent again by /ua |
| `Measures` | the lexicographic order on sequences of numbers, by which calls are shown to end |
| `MC...` | instances for TLC: sequences and scenarios a cfg cannot state, symmetry of applications other than Omaha |
| `..._proofs` | the theorems about the module of that name; those about `AppStates` are in `UpdateBundle_proofs`, those about `WebServicesClient` in `NetworkRequest_proofs` |

### State

`UpdateBundle`: `bundle` is the class of `app_bundle_state_`, `apps` is `apps_`,
`app` holds the `App` objects, `pending` is `user_work_item_ != NULL`, `dl` and
`dlCancelled` are `download_state_` and the cancelled requests in it, `cached` is
what the package cache holds.  `op`, `pc` and `i` are the function the work item
runs, where it is, and the index of its loop.  `request`, `answer` and `hr` are
locals of `CheckForUpdateHelper` and of the download and install calls.  `ran`
and `installed` are history: how often an installer was started, and which
succeeded.

`BundleInstaller`: `state_`, `is_canceled_`, `apps_` and `result_` are members;
`at` and `k` are where a poll is and which application it reads next.

`ThreadPool`: `stopped`, `count` and `event` are `is_stopped_`,
`work_item_count_` and the existence of `shutdown_event_`; `place` says how far an
item is between the check in `QueueUserWorkItem` and the decrement after
`Process`, and `caller` who queued it.

`PackageCache`: `files` are the cached files, each a sequence of blocks with a
creation time; `doomed` those to be deleted at the next reboot; `pc`, `want`,
`url` and `got` are a download and the file it gave to an installer.

`NetworkRequest`: the members of the same meaning; `last`, `chainError` and
`configError` are the errors the three loops hold, `published` what the caller can
ask for.  `canceller` is the other thread, which signals the event and then
cancels the requests of the chain one by one.

`SimpleRequest`: the members with their names; `call`, `completion` and
`is_error` are the members of `WinHttpAdapter`, `handle` and `pending` what
WinHTTP knows of the request handle and of the call it has not answered.

`AppInstall`: `clients` and `cstate` are the registry keys, `stable`, `model` and
`access` the owners of the locks, `procs` the installer processes.

`Pings`: `reg` is the PersistedPings key, whose string and time are two values
written one after the other; `server` is what the server has received.

### Actions

A client call is one action, with the early returns of its state class as guards
and with the transitions of the applications it makes before it returns.  A call
that is refused changes nothing and is not an action, except where the client
looks at the refusal (`DoCancel`).  Each action of a thread is the code between
two points where others can run: where a lock is free, where another process can
see a registry value or a file, or where a callback is waited for.  For instance
`DispatchDownload` is the unlocked read of `app_state_` in `App::Download`,
`CreateStateForApp` the insertion into `download_state_`, and `AppDownloading` the
locked event that follows; Stop may come between any two.

Abstractions: the packages of an application are one unit; a failure is one of the
codes that control flow tells apart; the update response gives each application
in the request one of three answers; Group Policy does not change while a bundle
lives.  `AppStateWaitingToInstall::Install` can call `Error` of a state object
that Stop has deleted; that call may act or not.  A file or a response is a number
of blocks; a ping is the set of its events.  `UpdateBundle` sees the cache as the
set of applications whose packages are there, and `NetworkRequest` sees an http
request as its answer; `PackageCache` and `SimpleRequest` show what these
abstractions rest on (`GetAuthentic`, `AnswerTrue`, `ImplementsHttpRequest`).

## Runs

`Faults` names the steps that may fail in a run, `ClientCalls` the calls its
client makes, `Environments` a choice of scenarios made in the initial state.

| run | question |
|---|---|
| `bundle_client` | Every call in every order including Stop and Pause, every step failing: the assertions of `worker.cc`, ownership of download states, cached packages, installers run once, both implementation relations; every call completes, and after Stop every application settles. |
| `bundle_update_all` | The silent update: policy and EULA, Omaha first, pings in order. |
| `client_polls` | The polling client with failures on both sides and a user who cancels: its assertions hold, what it reports is and stays true, and it ends. |
| `pool_shutdown` | Items that queue each other and a shutdown at any point: the count is exact, Stop drains the pool or times out, and it returns. |
| `cache_shared` | Two downloads share the cache, with copies that stop, undeletable files and crashes: an installer gets only the package the response named, a second URL heals what an earlier crash left, packages are lost only to newer versions, purges keep the newest. |
| `net_request` | Cancel at any point of two calls: at most one late request, a cancelled call says so, errors are those of the preferred configuration, delays stay in range. |
| `web_fallback` | X-Retry-After is believed only over https; Send returns. |
| `winhttp_cancel` | Cancel at any point of two Sends: callbacks find their adapter and the thread waiting for them, a transfer ends, the answer is true of the file, every call returns. |
| `install_registry` | Two bundles install and update an application that may be uninstalled meanwhile: data kept for the installer, its own result read, uninstalls reported once, no thread stuck. |
| `ping_crash` | A crash between any two writes: no uninstall is lost, failed pings are kept, S_OK means sent, persisted pings go. |

### Bounds

* Bundles: two applications suffice for the loops (there is a first, a last, and
  one before and after the one at work); the silent update has three, since the
  relation of Omaha to several others matters.  A client may call install or
  download again without bound, since the applications have finitely many states
  and pings grow by at most one per transition.
* `pool_shutdown`: three items allow a chain (an item queues one that queues one)
  and two that are unrelated; a delay of two rounds lets items end before, during
  and after the wait.  `LateCallers = FALSE` says that calls from outside have
  returned before Stop, as when the server has no client left.
* `cache_shared`: two users, two versions, packages of one and of two blocks (so
  that one may be written over the longer other), two URLs, a size limit of three
  blocks, which two versions together may reach.
* `net_request`: two configurations, BITS and WinHTTP, one retry and two calls on
  one object; delays 2, 3 and 5 with a jitter of 1 meet `DelayAssumption` as the
  real ones do.  `web_fallback`: two Sends, each with its fallback.
* `winhttp_cancel`: a response of at most two blocks (a first, a last, an end), two
  Sends, of which the second meets what the first left; `kMaxResendAttempts` is 3
  as in the code.
* `install_registry`: two workers, a client thread, an msi application in two
  versions (msi installers are retried), two jobs, one installer at a time, one
  uninstall, one reboot.
* `ping_crash`: four scenarios; two bundles, the OEM ping and a fire-and-forget
  ping, one crash or change of the clock, and time to expire twice.

Deadlock is not checked: a client may stop calling, a paused or stopped bundle, a
destroyed pool or request takes no further call, and bounded counters run out.
`NeverStuck` and the liveness properties say where something must go on.

### Fairness

* `UpdateBundle`: `WF(Worker)`.  The pool runs the work item on a thread of its
  own, network requests time out, and so does the wait for an installer.  Nothing
  is assumed about the client.  `CompletesCalls` leaves out a download whose
  client cannot be impersonated, which drops the call (see below).
* `BundleInstaller`: the worker, and the poll, which a timer of the client's
  message loop starts every 100 ms.
* `ThreadPool`: the thread in Stop only; that Stop returns is due to its timeout.
* `WebServicesClient` and `SimpleRequest`: the thread in Send, and WinHTTP, whose
  timeouts end every phase of a request with a callback.
* `Pings`: senders, the clock, the hourly /ua, and the end of the `/ping` process.

### What the code does otherwise

Two runs end in a counterexample; they state what an assertion or a comment says.

| run | what happens |
|---|---|
| `stop_races_install` | Stop after `App::Install` was dispatched: `InstallApp` does not look at what `Installing` did and runs the installer of a cancelled application. It succeeds, and the application is in ERROR (`install_manager.cc:134`). |
| `cancel_refused` | Cancel between the end of the update check and the next poll: the bundle is Ready and refuses stop, and the next poll calls install (`bundle_installer.cc:1134`). |

The modules define further properties of this kind, which TLC refutes and no run
lists; to see one, put it in place of the properties of the module's run.

| definition | what happens |
|---|---|
| `UpdateBundle!NoInvalidTransition` | Stop after `App::Download` was dispatched: `Downloading` is an invalid transition of `AppStateError` (`app_state.cc:153`) |
| `UpdateBundle!TerminalStaysTerminal` | a second `install()` makes an installed application an ERROR (`app_state_install_complete.cc:91`) |
| `UpdateBundle!DownloadPostcondition` | `DownloadApp` returns before it touches the application (`worker.cc:645`) |
| `UpdateBundle!OfflineNeverDownloads` | the result of `CacheOfflinePackages` is only asserted, and an offline bundle goes to the network (`download_manager.cc:365`) |
| `UpdateBundle!StoppedCallCompletes` | `Worker::Download` returns without completing the call when it cannot impersonate (`app_bundle_state_busy.cc:57`) |
| `UpdateBundle!BusyWhilePending` | a stopped bundle is not busy although its call still runs (`omaha3_idl.idl:225`) |
| `ThreadPool!StoppedMeansProcessed` | with `LateCallers = TRUE`: Queue checks `is_stopped_`, Stop finds no item and returns, and the item is counted afterwards (`thread_pool.h:89`) |
| `PackageCache!AssertCached` | another bundle purges the version between Put and the assertion (`download_manager.cc:437`) |
| `WebServicesClient!CancelStopsClient` | Cancel between two attempts finds no request to cancel (`worker.cc:787`) |
| `WebServicesClient!RetryAfterStops` | X-Retry-After came in the answer to the second configuration, the call reports the first, and the http fallback follows (`web_services_client.h:90`) |
| `AppInstall!FailureIsNotSuccess` | an installer that has just timed out writes its success before its result is read (`install_manager.cc:285`) |
| `AppInstall!StateDeletedWhenSafe` | ClientState is deleted under an installer that was given up after its timeout (`install_manager.cc:291`) |
| `Pings!WaitEnds` | under `HangSpec`: the wait for `/ping` is INFINITE, not 60 seconds (`ping.h:135`, `ping.cc:195`) |
| `Pings!RetainedOnFailure` | /ua deletes by request id what a bundle beside it has persisted again (`ping.cc:176`) |
| `SimpleRequest!FailedFileDeleted` | Cancel after the last block: Send says cancelled, the file stays (`simple_request.cc:104`) |

With the fault `"impersonation"`, `BundleInstaller!ClientEnds` fails too: the
applications stay where they are and the client polls for ever.

## Proofs

TLAPS proves the following for every value of the constants that meets the named
assumptions: any number of applications, bundles, items, users or senders, any
number of retries and any combination of failures.

| theorem | establishes | assumption |
|---|---|---|
| `UpdateBundle_proofs!TypeCorrect`, `OneCallAtATime` | `[]TypeOK`, `[]SingleCall` | `MaxAppsAssumption` |
| `ProtocolImplemented`, `LifecycleImplemented` | the bundle implements `BundleProtocol`, every application `AppLifecycle` | `MaxAppsAssumption` |
| `WorkerAssertionsHold`, `DownloadStateIsOwned`, `DownloadedStaysCached`, `OneInstallerRun`, `OmahaComesFirst` | `WorkerAssertions`, `DownloadStateOwned`, `DownloadedIsCached`, `InstallerRunsOnce`, `OmahaUpdatesFirst`, for every client | `MaxAppsAssumption` |
| `CallsEnd` | `CallsAreBounded`: a call takes at most 18 steps of the work item for each application and 5 more, and no call of the client makes it longer | `MaxAppsAssumption` |
| `StopIsFinal` | `[]StoppedIsSettled`: in a stopped bundle that had begun to work every application is terminal, or its installer runs, and stays so | `MaxAppsAssumption` |
| `GroupPolicyRespected`, `SilentClientRespectsPolicy` | the Group Policy half of `PolicyRespected` for every client; all of it for a `Silent` one | `MaxAppsAssumption` |
| `WorkerKeepsEnded` | the work item takes no application out of INSTALL_COMPLETE or NO_UPDATE | `MaxAppsAssumption` |
| `PingsStayInOrder` | `PingsInOrder` for a client that `UpdatesAll` | `MaxAppsAssumption` |
| `BundleInstaller_proofs!ClientTheorem`, `ReportStaysTrue` | `ClientAssertions`, `ReportTrue` of the composed system | `MaxAppsAssumption` |
| `ClientUsesBundle`, `BundleKeepsPromises` | the polling client makes only calls `UpdateBundle` allows, so that the invariants, the two implementation relations and the bound on calls, proved of a bundle under every client, hold in the composed system | `MaxAppsAssumption` |
| `ThreadPool_proofs!CountIsExact`, `StopDrains` | `[]CountExact`; `[]Drained` if calls from outside do not overlap Stop | `PoolAssumption` |
| `NetworkRequest_proofs!LateSendTheorem`, `DelayTheorem`, `BackoffTheorem`, `CancelTheorem`, `ReportTheorem` | `AtMostOneLateSend`, `DelayInRange`, `BackoffGrows`, `CancelWins`, `ReportsFirstError` | `DelayAssumption`, `ChainAssumption` |
| `RequestEndsTheorem`, `ClientEndsTheorem` | `RequestEnds`, `WebServicesClient!ClientEnds`: every step of a call brings it nearer its end, and Cancel does not take it back | `ChainAssumption` |
| `RetryAfterTheorem` | `RetryAfterTrusted` of the client and its network request | none |
| `SimpleRequest_proofs!CallbacksTheorem`, `TransferTheorem`, `AnswerTheorem` | `CallbacksExpected`, `CancelEndsTransfer`, `AnswerTrue` | none |
| `HttpRequestImplemented` | the WinHTTP request implements `HttpRequest` | none |
| `AnswerComesTheorem`, `SendShrinksTheorem` | `AnswerComes`, `SendShrinks`: the thread waits only for callbacks that come, and every step brings it nearer its end | `RequestAssumption` |
| `PackageCache_proofs!AuthenticTheorem`, `LostTheorem`, `HealTheorem`, `PurgeTheorem` | `GetAuthentic`, `LostOnlyToNewer`; `DownloadHeals` if `Urls > 1`; `PurgeKeepsNewest` | `CacheAssumption` |
| `Pings_proofs!OkTheorem`, `OemTheorem`, `RetainedTheorem`, `UninstallTheorem` | `OkMeansSent`, `OemClearedAfterPing`, `RetainedUnlessOverlap`, `UninstallNotLost` | `ExpiryAssumption`, `SenderAssumption` |
| `AppInstall_proofs!DataTheorem`, `ResultTheorem`, `StateTheorem`, `ReportTheorem` | `PreInstallDataKept`, `ResultOfThisRun`, `StateKeptForInstaller`, `UninstallReportedOnce` | `InstallAssumption` |
| `LockTheorem` | `NeverStuck`: whatever the threads wait for, one of them, or an installer, can go on | `InstallAssumption` |

`TypeOK`, `SingleCall`, `BackoffGrows` and `OemClearedAfterPing` are proved and in
no run, and neither are `GroupPolicyRespected` and `WorkerKeepsEnded`, which say
how much of a property that needs a certain client holds for every client, nor
`CallsAreBounded`, `StoppedIsSettled`, `RequestEnds`, `WebServicesClient!ClientEnds`,
`SendShrinks`, `AnswerComes` and `ImplementsHttpRequest`.  TLC finds no error in
these seven when they take the place of the properties of their module's run.

Some theorems have a hypothesis beyond the assumptions.  `Silent`: the client
neither overwrites the EULA that was read nor installs offline.  A client that does
may clear the flag of an application that was already let through, and an offline
install is not held up by it.  `UpdatesAll`: the client makes the one call of the
silent update and does not stop it.  Each call this leaves out can make an
application end twice, with a ping each time: Stop before the event of a download
that was dispatched, Install or Download of an application that is already
installed, CheckForUpdate of a new application whose EULA was never set.
`StopDrains` needs that no call from outside overlaps Stop, and `HealTheorem` a
second URL, since the first may be spent on the remains of a crash.

The inductive invariants and why they are needed:

* **Bundle.** `IInv` is `TypeOK`, `SingleCall` and `Fresh` (an application outside
  the bundle is in its initial state).  `TypeOK` alone is not inductive: that the
  index of the work item stays inside the list needs that no call changes the list
  while the work item runs, which is `SingleCall`.  `Fresh` is needed because
  adding an application puts a new record in place.  The module shows first, for
  each event, that it yields a record and follows an arrow (`Moves`); then that
  calls and worker steps keep the control state and apply only such events.
* **Work item.** `WorkInv` says how the work item and the applications agree, while
  Stop may turn any of them to ERROR between two steps.  `QueueInv`, `PastInv` and
  `AtInv` are the states of the applications the loop has still to come to, has
  passed, and is at; they need `Distinct`, without which a step would change an
  application at another index.  `DownloadStateOwned` and `CacheInv` follow a
  download to the cache.  `RunInv` adds to `InstallerRunsOnce` that an application
  whose installer was started is terminal, so no loop finds it queued again.
  `AllowedInv` and `EulaInv` say that what was let through stays allowed.  For
  Omaha's update, `EarlyInv`, `AnswerInv` and `DeferInv` follow the answer through
  the loop that hands it out, and `BlockedInv` draws the consequence.  None of them
  is inductive alone: which step a loop takes depends on what it finds.
* **What the work item finds.** `PhaseInv`: a bundle is checked once, and queued
  before anything of it is installed.  The events that would take an ended
  application back are thus dispatched only to others, which is `WorkerKeepsEnded`.
  `PingInv` bounds the pings of an application by its state, so that the next
  transition adds a later one.
* **Calls that end.** Liveness is out of reach, but what it rests on is not.
  `StepsLeft` counts down from at most `18 * MaxApps + 5`: the loops of the work
  item visit an application once for each part of a call and never go back
  (`LoopShrinks`, from `LoopRank` and the index).  `StoppedInv` says what Stop did to
  the applications of a busy bundle; no arrow leads out of those states
  (`SettledStays`), so the rest of the call does not undo it.
* **Client.** Every step of the composed system is a step, or a stutter, of the
  bundle, so `IInv` holds there too.  The client reads the applications one by one;
  `PollInv` says that what it has read stays true while the worker goes on.  This
  rests on sets of states that the arrows do not leave (terminal ones, those past
  the update check) and on `ResultInv`, which follows the work item through the
  update check: only when it has completed is the bundle Ready, and an
  application with an update then keeps it until install is called.
  `ReportInv` says of the report what `PollInv` says of a poll, and that the result
  is the first failure among what was read.  Its last part, that a failure is never
  reported of applications without update alone, needs `DeferredInv`: an
  application without update has an error only when it waits for Omaha's, and
  Omaha's application is then in another state.  `ClientUsesBundle` turns the
  theorems about a bundle with any client into theorems about this one.
* **Pool.** `Drained` needs to know where calls come from: `CallerRuns` (a call
  made by an item is made while it is processed) and `NoOutsideCalls`.  When the
  count is zero no item is processed, so none makes a call (`NothingLeft`).
* **Network request.** `CancelInv` orders the parts of Cancel; `LateInv` says that
  after one late request the event is signaled, so that the next check fails;
  `ErrorInv` that no error the loops have saved says "cancelled" without Cancel;
  `DelayInv` that a delay above the limit ends the call before it is doubled.
  `ReportInv` follows the first error through the three loops.  For `RequestEnds`
  the measure is a sequence, since the loops are nested and the number of
  configurations is found anew in each round: rounds, part of the round,
  configurations, requests, steps.  `MeasureInv`, the part of the invariant it
  needs, also holds of the objects `WebServicesClient` replaces.
* **Web services client.** `RetryInv`: during an attempt over https every response
  the loops hold has the header only if the server sent it in this Send.  It needs
  `SavedInv`, that the loops begin an attempt with nothing saved by the last.
* **WinHTTP request.** `HandleInv`: the adapter and WinHTTP agree on whether the
  request is open.  `CutInv`: after a Cancel that closed it nothing opens it before
  the next Send, and a thread that has written a block since is past the place
  where it could read another.  `ResponseInv` ties the file, the bytes counted and
  the length announced from the headers to the return.  That Send ends has two
  parts.  `WaitInv`: a thread that waits has made the call it waits for, and only
  the callback takes a call from WinHTTP; with `CallbacksExpected` and `HandleInv`
  this is `AnswerComes`.  `MeasureInv`: a proxy asks three times at most, since the
  limit is raised once, and the resends, whose count a response resets, are counted
  again only after the proxy has asked.
  `HttpRequestImplemented` maps a Send to one step that begins it and one that
  returns; the second look at `is_canceled_` in DoSend decides what it returns.
  `AnswersAsPromised` says that `NetworkRequest` expects of a WinHTTP request
  exactly these results.
* **Cache.** `SharedInv`: users that want the same version want the same content.
  Without it a second download could replace what the first was promised.
  `HealInv`: once a download has tried its first URL, no remains are left under
  its key that Put would keep.  `FileInv`: there are finitely many files, each a
  sequence of blocks, so that their total size is a number.  The size is a fold, a
  recursive function over subsets; that it exists is shown with the smallest set on
  which it would not (`Least`, from well-foundedness), since the library's
  induction schemes take an operator the provers cannot instantiate.  `PurgeTheorem`
  then follows the sorted list to where it is cut.
* **Pings.** `SendersInv` places every ping between its sender, its `/ping` process
  and the server.  `QuietInv` (without registry failures and overlap) says that the
  registry holds what the sender has, and that what /ua has loaded is what is there.
* **Install.** `LockInv` (who is inside holds `registry_stable_state_lock_`) makes
  the others work: `ProcInv` ties an installer to the worker that waits for it,
  `DataInv` and `ResultInv` say what ClientState holds at each point, `TodoInv`
  that what is being reported stays uninstalled.  `CountInv` counts the reports
  that are still owed.  For `NeverStuck`, `OwnerInv` says of each lock where its
  owner is: the access lock is kept between two steps by a running installer only, the
  owner of the model lock waits for the access lock at most, and that of the
  stable-state lock for these two, for its installer or for a place to start it.  So whoever waits, somebody down
  the chain does not.  `NeverStuck` names the steps that are possible by their
  guards (`Ready`, `Awaited`); that these are the enabled ones is `ReadyIsEnabled`,
  which TLC finds true in `install_registry`.

Only model-checked:

* liveness, which is out of the prover's reach: `CompletesCalls`, `StopSettles`,
  `BundleInstaller!ClientEnds`, `StopEnds`, `SendReturns`, `SendEnds`,
  `PersistedPingsGo`.  The theorems on measures are the part of `CompletesCalls`,
  `StopSettles`, `SendReturns` and `SendEnds` that is about safety: no step goes
  back.  The step from there to "it ends" needs fairness, and that a step is
  always enabled;
* `ReadyIsEnabled`, which uses ENABLED.

Every other invariant, action property and implementation relation of the passing
runs is proved.

## What is not modelled

`PROJECT.json` lists every part with the reason.  In short:

* In the modelled parts: `downloadPackage` of a bundle, which looks for packages of
  the current version, which never has any, and always fails; the Retry-After that
  the worker stores; cache operations that only tests call; headers, certificates,
  proxy detection and download metrics; pause of a WinHTTP request, which is not
  supported; COM re-entrancy of the client, which `is_handling_message_` guards.
  A persisted ping whose time value was never written is skipped by
  `LoadPersistedPings` for ever; `PersistedPingsGo` speaks of loadable pings.
* BITS jobs, which outlive the process and follow an interface of the system.
* The process level: goopdate modes, core and its scheduler, setup and its
  rollback, the service, COM front ends, the on-demand classes.  They start and
  stop processes and write files and registry keys; what matters of them here is
  that processes may end at any point, which the modules include as crashes.
* Pure code: XML of the protocol, CUP signing, version and string helpers, policy
  lookups, which the modules use as a choice of outcomes.
* User interface, crash handling, statistics, the base library but for the pool.
