------------------------------ MODULE AppInstall ------------------------------
(***************************************************************************)
(* Installing an application, seen from the registry: the worker threads   *)
(* of several bundles run AddUninstalledAppsPings and then                 *)
(* InstallManager::InstallApp, with InstallerWrapper, over the Clients and *)
(* ClientState keys that AppManager guards.  The installers are processes  *)
(* of their own, applications may be uninstalled behind Omaha's back, and  *)
(* a client thread synchronizes ClientState before an update check.        *)
(*                                                                         *)
(* Three locks are modelled: registry_stable_state_lock_, the model lock   *)
(* and registry_access_lock_, which installers may take too.  The global   *)
(* installer_lock_ is taken inside the first of them only, by the one      *)
(* process that serves COM, and is free whenever it is asked for.          *)
(* Apps does not contain Omaha itself, whose registration is not checked.  *)
(***************************************************************************)
EXTENDS Naturals, FiniteSets

CONSTANTS
  Workers,       \* threads of the pool, one per busy bundle
  Callers,       \* threads of COM clients
  Apps,
  MsiApps,       \* applications whose installer is an msi package
  MaxVersion,    \* versions are 1..MaxVersion; 0 is "no pv value"
  NumTries,      \* num_tries_when_msi_busy_
  MaxJobs, MaxProcs, MaxUninstalls, MaxCalls, MaxReboots,  \* bounds
  Faults,        \* subset of {"start", "registry", "timeout", "reboot"}
  NoOne

VARIABLES
  clients,       \* pv in an application's Clients key
  cstate,        \* its ClientState key
  stable,        \* owner of registry_stable_state_lock_
  model,         \* owner of the model lock
  access,        \* owner of registry_access_lock_ between steps
  pc, job,       \* where each worker is, and what its bundle installs
  todo,          \* uninstalled applications still to be reported
  info, hr,      \* InstallerResultInfo and HRESULT of the current install
  tries,
  procs,         \* the installer processes
  calling,       \* where each client thread is
  jobs, calls, reboots,
  overdue,       \* history: an installer of the application was given up
  uninstalls,    \* how often each application was uninstalled
  reported       \* how many uninstall events it got

locks == <<stable, model, access>>
registry == <<clients, cstate>>
local == <<job, todo, info, hr, tries>>
env == <<calling, jobs, calls, reboots, overdue, uninstalls, reported>>
vars == <<registry, locks, pc, local, procs, env>>

ASSUME InstallAssumption ==
  /\ NumTries \in Nat \ {0} /\ MaxVersion \in Nat \ {0} /\ MaxProcs \in Nat \ {0}
  /\ NoOne \notin Workers \cup Callers /\ Workers \cap Callers = {}

Versions == 1..MaxVersion
Codes == {"ok", "error", "busy", "reboot"}
Types == {"SUCCESS", "MSI", "OTHER", "UNKNOWN"}
Infos == [type : Types, code : Codes \cup {"timeout"}]
Unknown == [type |-> "UNKNOWN", code |-> "ok"]

\* The InstallerResult API: what an installer may leave in ClientState.
NoResult == Unknown
ApiResults == {[type |-> "SUCCESS", code |-> "ok"], [type |-> "OTHER", code |-> "error"],
               [type |-> "MSI", code |-> "busy"]}

NoState == [key |-> FALSE, pv |-> 0, pre |-> FALSE, result |-> NoResult]
NoJob == [app |-> NoOne, update |-> FALSE, next |-> 0, prev |-> 0]
NoProc == [st |-> "free", by |-> NoOne, job |-> NoJob, exit |-> "ok", wrote |-> FALSE]

Jobs == {j \in [app : Apps, update : BOOLEAN, next : Versions, prev : 0..MaxVersion] :
           j.update => j.prev < j.next}

Init ==
  /\ clients \in [Apps -> {0, 1}]
  /\ cstate \in {[a \in Apps |-> IF clients[a] = 0 THEN s[a] ELSE [NoState EXCEPT !.key = TRUE, !.pv = 1]] :
                   s \in [Apps -> {NoState, [NoState EXCEPT !.key = TRUE, !.pv = 1]}]}
  /\ stable = NoOne /\ model = NoOne /\ access = NoOne
  /\ pc = [w \in Workers |-> "idle"] /\ job = [w \in Workers |-> NoJob]
  /\ todo = [w \in Workers |-> {}] /\ tries = [w \in Workers |-> 0]
  /\ info = [w \in Workers |-> Unknown] /\ hr = [w \in Workers |-> "S_OK"]
  /\ procs = [p \in 1..MaxProcs |-> NoProc]
  /\ calling = [c \in Callers |-> "idle"]
  /\ jobs = 0 /\ calls = 0 /\ reboots = 0 /\ overdue = {}
  /\ uninstalls = [a \in Apps |-> IF clients[a] = 0 /\ cstate[a].key THEN 1 ELSE 0]
  /\ reported = [a \in Apps |-> 0]

Goto(w, from, to) == pc[w] = from /\ pc' = [pc EXCEPT ![w] = to]

-----------------------------------------------------------------------------
(* AppManager.  Its functions hold registry_access_lock_ while they run,    *)
(* so each is one step that needs the lock to be free.                      *)

IsAppRegistered(a) == clients[a] # 0
IsAppUninstalled(a) == ~IsAppRegistered(a) /\ cstate[a].pv # 0
GetUninstalledApps == {a \in Apps : IsAppUninstalled(a)}

RemoveClientState(a) == cstate' = [cstate EXCEPT ![a] = NoState]

WritePreInstallData(a) == cstate' = [cstate EXCEPT ![a].key = TRUE, ![a].pre = TRUE]

PersistSuccessfulInstall(a, v) == cstate' = [cstate EXCEPT ![a].key = TRUE, ![a].pv = v]

\* Bug variant: the values of an earlier installer stay.
KeepInstallerResultApiValues(a) == UNCHANGED cstate

\* The values move to LastInstallerResult and its companions, which the
\* program never reads.
ClearInstallerResultApiValues(a) == cstate' = [cstate EXCEPT ![a].result = NoResult]

-----------------------------------------------------------------------------
(* Worker::DownloadAndInstall: AddUninstalledAppsPings, then the install.   *)

BeginJob(w) ==
  /\ jobs < MaxJobs
  /\ Goto(w, "idle", "uninstalled")
  /\ \E j \in Jobs :
       /\ j.prev = clients[j.app]
       /\ j.update => IsAppRegistered(j.app)
       /\ job' = [job EXCEPT ![w] = j]
  /\ jobs' = jobs + 1
  /\ UNCHANGED <<registry, locks, todo, info, hr, tries, procs, calling, calls, reboots,
                 overdue, uninstalls, reported>>

\* Bug variant: uninstalled applications are looked for without the lock.
AddUninstalledAppsPingsUnlocked(w) ==
  /\ Goto(w, "uninstalled", "next")
  /\ todo' = [todo EXCEPT ![w] = GetUninstalledApps]
  /\ UNCHANGED <<registry, locks, job, info, hr, tries, procs, env>>

AddUninstalledAppsPings(w) ==
  /\ stable = NoOne /\ stable' = w
  /\ Goto(w, "uninstalled", "next")
  /\ todo' = [todo EXCEPT ![w] = GetUninstalledApps]
  /\ UNCHANGED <<registry, model, access, job, info, hr, tries, procs, env>>

\* CreateUninstalledApp takes the model lock, and reads the registry in it.
CreateUninstalledApp(w) ==
  /\ todo[w] # {}
  /\ model = NoOne /\ model' = w
  /\ Goto(w, "next", "read")
  /\ UNCHANGED <<registry, stable, access, local, procs, env>>

\* When it fails, the applications that are left are not reported this time.
ReadUninstalledAppPersistentData(w) ==
  /\ access = NoOne
  /\ model' = NoOne
  /\ \/ Goto(w, "read", "event") /\ UNCHANGED todo
     \/ /\ "registry" \in Faults
        /\ Goto(w, "read", "next")
        /\ todo' = [todo EXCEPT ![w] = {}]
  /\ UNCHANGED <<registry, stable, access, job, info, hr, tries, procs, env>>

\* The keys are visited in the order of the registry.
Current(w) == CHOOSE a \in todo[w] : TRUE

\* App::AddPingEvent, which also persists the bundle's ping.
AddPingEvent(w) ==
  /\ model = NoOne
  /\ Goto(w, "event", "remove")
  /\ reported' = [reported EXCEPT ![Current(w)] = @ + 1]
  /\ UNCHANGED <<registry, locks, local, procs, calling, jobs, calls, reboots, overdue,
                 uninstalls>>

ForgetUninstalledApp(w) ==
  /\ access = NoOne
  /\ Goto(w, "remove", "next")
  /\ RemoveClientState(Current(w))
  /\ todo' = [todo EXCEPT ![w] = @ \ {Current(w)}]
  /\ UNCHANGED <<clients, locks, job, info, hr, tries, procs, env>>

EndUninstalledAppsPings(w) ==
  /\ todo[w] = {}
  /\ stable' = IF stable = w THEN NoOne ELSE stable
  /\ Goto(w, "next", "install")
  /\ UNCHANGED <<registry, model, access, local, procs, env>>

-----------------------------------------------------------------------------
(* InstallManager::InstallApp up to the installer.                          *)

\* Bug variant: the model lock is taken first.
TakeStableStateLockLast(w) ==
  /\ pc[w] = "install"
  /\ \/ model = NoOne /\ model' = w /\ UNCHANGED <<stable, pc>>
     \/ /\ model = w /\ stable = NoOne /\ stable' = w
        /\ Goto(w, "install", "pre")
        /\ UNCHANGED model
  /\ UNCHANGED <<registry, access, local, procs, env>>

TakeStableStateLock(w) ==
  /\ stable = NoOne /\ stable' = w
  /\ Goto(w, "install", "prepare")
  /\ UNCHANGED <<registry, model, access, local, procs, env>>

\* The block under the model lock; it writes the registry for new installs.
TakeModelLock(w) ==
  /\ model = NoOne /\ model' = w
  /\ Goto(w, "prepare", "pre")
  /\ UNCHANGED <<registry, stable, access, local, procs, env>>

\* Bug variant: the block ends the stable state too.
PrepareOnlyLocked(w) ==
  /\ pc[w] = "pre"
  /\ access = NoOne
  /\ model' = NoOne /\ stable' = NoOne
  /\ WritePreInstallData(job[w].app)
  /\ Goto(w, "pre", "clear")
  /\ UNCHANGED <<clients, access, local, procs, env>>

Prepare(w) ==
  /\ pc[w] = "pre"
  /\ model' = NoOne
  /\ \/ /\ job[w].update
        /\ Goto(w, "pre", "clear")
        /\ UNCHANGED <<cstate, stable, job>>
     \/ /\ ~job[w].update /\ access = NoOne
        /\ WritePreInstallData(job[w].app)
        /\ Goto(w, "pre", "clear")
        /\ UNCHANGED <<stable, job>>
     \/ /\ ~job[w].update /\ access = NoOne /\ "registry" \in Faults
        /\ Goto(w, "pre", "idle")
        /\ stable' = NoOne
        /\ job' = [job EXCEPT ![w] = NoJob]
        /\ cstate' \in {cstate, [cstate EXCEPT ![job[w].app].key = TRUE]}
  /\ UNCHANGED <<clients, access, todo, info, hr, tries, procs, env>>

-----------------------------------------------------------------------------
(* InstallerWrapper.                                                        *)

\* DoExecuteAndWaitForInstaller forgets what earlier installers left behind
\* and starts the process.
Clear(w) ==
  /\ access = NoOne
  /\ Goto(w, "clear", "start")
  /\ ClearInstallerResultApiValues(job[w].app)
  /\ info' = [info EXCEPT ![w] = Unknown]
  /\ UNCHANGED <<clients, locks, job, todo, hr, tries, procs, env>>

Start(w) ==
  \/ /\ Goto(w, "start", "wait")
     /\ \E p \in 1..MaxProcs :
          /\ procs[p].st = "free" /\ \A q \in 1..(p - 1) : procs[q].st # "free"
          /\ procs' = [procs EXCEPT ![p].st = "running", ![p].by = w, ![p].job = job[w]]
     /\ UNCHANGED <<registry, locks, local, env>>
  \/ /\ "start" \in Faults
     /\ Goto(w, "start", "locked")
     /\ hr' = [hr EXCEPT ![w] = "FAILED_START"]
     /\ UNCHANGED <<registry, locks, job, todo, info, tries, procs, env>>

\* The process the worker waits for; one it has given up is nobody's.
Waiting(w, p) == pc[w] \in {"wait", "result"} /\ procs[p].by = w

\* WaitUntilDead returns when the process ended or after half an hour.
Wait(w) ==
  /\ \E p \in 1..MaxProcs :
       /\ Waiting(w, p)
       /\ \/ /\ procs[p].st = "exited" /\ hr' = [hr EXCEPT ![w] = "S_OK"]
             /\ UNCHANGED overdue
          \/ /\ procs[p].st = "running" /\ "timeout" \in Faults
             /\ hr' = [hr EXCEPT ![w] = "TIMED_OUT"]
             /\ overdue' = overdue \cup {job[w].app}
  /\ Goto(w, "wait", "result")
  /\ UNCHANGED <<registry, locks, job, todo, info, tries, procs, calling, jobs, calls, reboots,
                 uninstalls, reported>>

\* What the exit code says when the installer did not use the API.
ExitInfo(a, exit) ==
  [type |-> CASE exit = "ok" -> "SUCCESS"
              [] exit = "timeout" -> "UNKNOWN"
              [] OTHER -> IF a \in MsiApps THEN "MSI" ELSE "OTHER",
   code |-> exit]

GetInstallerResultHelper(a, exit) ==
  LET api == cstate[a].result
      result == IF api = NoResult THEN ExitInfo(a, exit)
                                  ELSE [type |-> api.type, code |-> api.code]
  IN  IF result.type = "MSI" /\ result.code = "reboot"
      THEN [type |-> "SUCCESS", code |-> "ok"]
      ELSE result

MayTryAgain(w) == tries[w] + 1 < NumTries

\* GetInstallerResult, and the decision of ExecuteAndWaitForInstaller to try
\* again, under DoInstallApp's translation of the result.
Busy(result) == result.type = "MSI" /\ result.code = "busy"

GetInstallerResult(w) ==
  /\ access = NoOne
  /\ \E p \in 1..MaxProcs :
       /\ Waiting(w, p)
       /\ LET a == job[w].app
              result == GetInstallerResultHelper(
                          a, IF hr[w] = "TIMED_OUT" THEN "timeout" ELSE procs[p].exit)
              retry == hr[w] = "S_OK" /\ Busy(result) /\ MayTryAgain(w)
          IN  /\ info' = [info EXCEPT ![w] = result]
              /\ hr' = [hr EXCEPT ![w] = CASE @ = "TIMED_OUT" -> @
                                           [] Busy(result) -> "MSI_BUSY"
                                           [] result.type # "SUCCESS" -> "INSTALLER_FAILED"
                                           [] OTHER -> "S_OK"]
              /\ tries' = [tries EXCEPT ![w] = @ + 1]
              /\ Goto(w, "result", IF retry THEN "clear" ELSE "locked")
              /\ ClearInstallerResultApiValues(a)
       /\ procs' = [procs EXCEPT ![p] = IF @.st = "exited" THEN NoProc
                                                          ELSE [@ EXCEPT !.by = NoOne]]
  /\ UNCHANGED <<clients, locks, job, todo, env>>

-----------------------------------------------------------------------------
(* InstallManager::InstallApp after the installer.                          *)

RetakeModelLock(w) ==
  /\ model = NoOne /\ model' = w
  /\ Goto(w, "locked", "report")
  /\ UNCHANGED <<registry, stable, access, local, procs, env>>

\* The registered version is the expected one, or a newer one that an install
\* found in place; and an update changed the version.
CheckApplicationRegistration(j, registered) ==
  /\ registered # 0
  /\ registered # j.next => ~j.update /\ registered > j.next
  /\ j.update => registered # j.prev

\* ReadInstallerRegistrationValues, which makes the registered version the
\* one that was installed, and CheckApplicationRegistration.
Check(w) ==
  /\ Goto(w, "report", "finish")
  /\ IF hr[w] # "S_OK" THEN UNCHANGED <<job, hr>>
     ELSE LET registered == clients[job[w].app]
          IN  /\ access = NoOne
              /\ job' = [job EXCEPT ![w].next = IF registered = 0 THEN @ ELSE registered]
              /\ hr' = [hr EXCEPT ![w] = IF CheckApplicationRegistration(job[w], registered)
                                         THEN @ ELSE "NOT_REGISTERED"]
  /\ UNCHANGED <<registry, locks, todo, info, tries, procs, env>>

\* Bug variant: the state of a failed install goes, registered or not.
RemovesAnyClientState(w) == ~job[w].update

\* What a failed install leaves is removed unless the product is registered.
RemovesClientState(w) == ~job[w].update /\ ~IsAppRegistered(job[w].app)

Finish(w) ==
  /\ access = NoOne
  /\ Goto(w, "finish", "idle")
  /\ \/ hr[w] = "S_OK" /\ PersistSuccessfulInstall(job[w].app, job[w].next)
     \/ hr[w] # "S_OK" /\ RemovesClientState(w) /\ RemoveClientState(job[w].app)
     \/ hr[w] # "S_OK" /\ ~RemovesClientState(w) /\ UNCHANGED cstate
  /\ model' = NoOne /\ stable' = NoOne
  /\ job' = [job EXCEPT ![w] = NoJob]
  /\ tries' = [tries EXCEPT ![w] = 0]
  /\ info' = [info EXCEPT ![w] = Unknown]
  /\ hr' = [hr EXCEPT ![w] = "S_OK"]
  /\ UNCHANGED <<clients, access, todo, procs, env>>

-----------------------------------------------------------------------------
(* The installers, and the applications' own uninstallers.                  *)

InstallerLocks(p) ==
  /\ procs[p].st = "running" /\ access = NoOne
  /\ access' = p
  /\ UNCHANGED <<registry, stable, model, pc, local, procs, env>>

Register(p) ==
  /\ procs[p].st = "running"
  /\ clients[procs[p].job.app] # procs[p].job.next
  /\ clients' = [clients EXCEPT ![procs[p].job.app] = procs[p].job.next]
  /\ UNCHANGED <<cstate, locks, pc, local, procs, env>>

SetInstallerResult(p) ==
  /\ procs[p].st = "running" /\ ~procs[p].wrote
  /\ \E r \in ApiResults :
       cstate' = [cstate EXCEPT ![procs[p].job.app].key = TRUE, ![procs[p].job.app].result = r]
  /\ procs' = [procs EXCEPT ![p].wrote = TRUE]
  /\ UNCHANGED <<clients, locks, pc, local, env>>

\* The lock of a process that ends is abandoned, and free.
Exit(p) ==
  /\ procs[p].st = "running"
  /\ \E code \in Codes :
       procs' = [procs EXCEPT ![p] = IF @.by = NoOne THEN NoProc
                                     ELSE [@ EXCEPT !.st = "exited", !.exit = code]]
  /\ access' = IF access = p THEN NoOne ELSE access
  /\ UNCHANGED <<registry, stable, model, pc, local, env>>

Uninstall(a) ==
  /\ IsAppRegistered(a) /\ uninstalls[a] < MaxUninstalls
  /\ clients' = [clients EXCEPT ![a] = 0]
  /\ uninstalls' = [uninstalls EXCEPT ![a] = @ + 1]
  /\ UNCHANGED <<cstate, locks, pc, local, procs, calling, jobs, calls, reboots, overdue,
                 reported>>

-----------------------------------------------------------------------------
(* PreUpdateCheck on another thread: the model lock, and in it              *)
(* SynchronizeClientState.                                                  *)

PreUpdateCheck(c) ==
  /\ calling[c] = "idle" /\ calls < MaxCalls
  /\ model = NoOne /\ model' = c
  /\ calling' = [calling EXCEPT ![c] = "sync"]
  /\ calls' = calls + 1
  /\ UNCHANGED <<registry, stable, access, pc, local, procs, jobs, reboots, overdue,
                 uninstalls, reported>>

SynchronizeClientState(c) ==
  /\ calling[c] = "sync" /\ access = NoOne
  /\ \E a \in Apps :
       cstate' = IF IsAppRegistered(a)
                 THEN [cstate EXCEPT ![a].key = TRUE, ![a].pv = clients[a]] ELSE cstate
  /\ calling' = [calling EXCEPT ![c] = "idle"]
  /\ model' = NoOne
  /\ UNCHANGED <<clients, stable, access, pc, local, procs, jobs, calls, reboots, overdue,
                 uninstalls, reported>>

\* Power loss: the registry is all that is left.
Reboot ==
  /\ "reboot" \in Faults /\ reboots < MaxReboots
  /\ reboots' = reboots + 1
  /\ stable' = NoOne /\ model' = NoOne /\ access' = NoOne
  /\ pc' = [w \in Workers |-> "idle"] /\ job' = [w \in Workers |-> NoJob]
  /\ todo' = [w \in Workers |-> {}] /\ tries' = [w \in Workers |-> 0]
  /\ info' = [w \in Workers |-> Unknown] /\ hr' = [w \in Workers |-> "S_OK"]
  /\ procs' = [p \in 1..MaxProcs |-> NoProc]
  /\ calling' = [c \in Callers |-> "idle"]
  /\ UNCHANGED <<registry, jobs, calls, overdue, uninstalls, reported>>

WorkerStep(w) ==
  \/ AddUninstalledAppsPings(w) \/ CreateUninstalledApp(w)
  \/ ReadUninstalledAppPersistentData(w) \/ AddPingEvent(w) \/ ForgetUninstalledApp(w)
  \/ EndUninstalledAppsPings(w) \/ TakeStableStateLock(w) \/ TakeModelLock(w)
  \/ Prepare(w) \/ Clear(w) \/ Start(w) \/ Wait(w) \/ GetInstallerResult(w)
  \/ RetakeModelLock(w) \/ Check(w) \/ Finish(w)

Next ==
  \/ \E w \in Workers : BeginJob(w) \/ WorkerStep(w)
  \/ \E p \in 1..MaxProcs :
       InstallerLocks(p) \/ Register(p) \/ SetInstallerResult(p) \/ Exit(p)
  \/ \E a \in Apps : Uninstall(a)
  \/ \E c \in Callers : PreUpdateCheck(c) \/ SynchronizeClientState(c)
  \/ Reboot

Spec == Init /\ [][Next]_vars

-----------------------------------------------------------------------------
(* Properties.                                                              *)

Pcs == {"idle", "uninstalled", "next", "read", "event", "remove", "install", "prepare",
        "pre", "clear", "start", "wait", "result", "locked", "report", "finish"}

JobRecords == [app : Apps \cup {NoOne}, update : BOOLEAN, next : 0..MaxVersion,
               prev : 0..MaxVersion]

\* Every variable the other properties are about keeps its type.
TypeOK ==
  /\ clients \in [Apps -> 0..MaxVersion]
  /\ cstate \in [Apps -> [key : BOOLEAN, pv : 0..MaxVersion, pre : BOOLEAN, result : Infos]]
  /\ stable \in Workers \cup {NoOne}
  /\ pc \in [Workers -> Pcs] /\ job \in [Workers -> JobRecords]
  /\ todo \in [Workers -> SUBSET Apps]
  /\ hr \in [Workers -> {"S_OK", "TIMED_OUT", "MSI_BUSY", "INSTALLER_FAILED", "FAILED_START",
                         "NOT_REGISTERED"}]
  /\ procs \in [1..MaxProcs -> [st : {"free", "running", "exited"}, by : Workers \cup {NoOne},
                                job : JobRecords, exit : Codes, wrote : BOOLEAN]]
  /\ reboots \in Nat /\ overdue \subseteq Apps
  /\ uninstalls \in [Apps -> Nat] /\ reported \in [Apps -> Nat]

\* The values WritePreInstallData leaves for an installer are still there
\* while it runs, although workers of other bundles remove the ClientState of
\* applications that look uninstalled, which one being reinstalled does.
PreInstallDataKept ==
  \A p \in 1..MaxProcs :
    procs[p].st = "running" /\ procs[p].by # NoOne /\ ~procs[p].job.update =>
      cstate[procs[p].job.app].key /\ cstate[procs[p].job.app].pre

\* The result an installer reports through the registry is taken for its own:
\* nothing that an earlier installer of the application left, in an attempt
\* that met a busy Windows Installer or before a power loss, is read for it.
ResultOfThisRun ==
  \A w \in Workers : \A p \in 1..MaxProcs :
    /\ Waiting(w, p) /\ job[w].app \notin overdue
    /\ cstate[job[w].app].result # NoResult
    => procs[p].wrote

SafeToDelete(a) ==
  /\ ~IsAppRegistered(a)
  /\ \A p \in 1..MaxProcs : procs[p].st = "running" => procs[p].job.app # a

Deleted(a) == cstate[a].key /\ ~cstate'[a].key

\* As long as no installer of the application was given up, its ClientState key
\* is deleted only when that is safe, after a failed install as after an
\* uninstall: the application is not registered, and none of its installers is
\* still running that would register it without its data.
StateKeptForInstaller == [][\A a \in Apps : Deleted(a) /\ a \notin overdue => SafeToDelete(a)]_vars

\* One uninstall is reported once, however many bundles look for it; a power
\* loss between the event and RemoveClientState can repeat it.
UninstallReportedOnce == \A a \in Apps : reported[a] =< uninstalls[a] + reboots

\* What a worker needs for its next step, if installers start and nobody's
\* patience ends: a lock, a place for a process, or the end of its installer.
Ready(w) ==
  \/ pc[w] \in {"uninstalled", "install"} /\ stable = NoOne
  \/ pc[w] \in {"event", "prepare", "locked"} /\ model = NoOne
  \/ pc[w] = "next" /\ (todo[w] = {} \/ model = NoOne)
  \/ pc[w] \in {"read", "remove", "clear", "finish"} /\ access = NoOne
  \/ pc[w] = "pre" /\ (job[w].update \/ access = NoOne)
  \/ pc[w] = "report" /\ (hr[w] # "S_OK" \/ access = NoOne)
  \/ pc[w] = "start" /\ \E p \in 1..MaxProcs : procs[p].st = "free"
  \/ pc[w] = "wait" /\ \E p \in 1..MaxProcs : Waiting(w, p) /\ procs[p].st = "exited"
  \/ pc[w] = "result" /\ access = NoOne /\ \E p \in 1..MaxProcs : Waiting(w, p)

\* An installer whose end somebody may be waiting for.  One that was given up
\* and does not own a lock is not, unless it takes the last place.
Awaited(p) ==
  /\ procs[p].st = "running"
  /\ access = p \/ procs[p].by # NoOne \/ \A q \in 1..MaxProcs : procs[q].st # "free"

\* No order of the three locks, the installers' included, leaves a bundle
\* waiting for ever: as long as one is at work, some thread can go on, or an
\* installer runs that somebody waits for.
NeverStuck ==
  (\E w \in Workers : pc[w] # "idle") =>
    \/ \E w \in Workers : Ready(w)
    \/ \E p \in 1..MaxProcs : Awaited(p)
    \/ \E c \in Callers : calling[c] = "sync" /\ access = NoOne

\* Ready, Awaited and the lock a client thread needs are the guards of their
\* steps; Exit and SynchronizeClientState need nothing else.
ReadyIsEnabled ==
  /\ \A w \in Workers : Ready(w) => ENABLED WorkerStep(w)
  /\ \A p \in 1..MaxProcs : Awaited(p) => ENABLED Exit(p)
  /\ \A c \in Callers : calling[c] = "sync" /\ access = NoOne => ENABLED SynchronizeClientState(c)

-----------------------------------------------------------------------------
(* What comments and assertions say and an installer that is given up        *)
(* contradicts.                                                              *)

\* InstallManager::InstallApp says so of every install that failed: "If we failed
\* the install job and the product wasn't registered, it's safe to delete the
\* ClientState key."
StateDeletedWhenSafe == [][\A a \in Apps : Deleted(a) => SafeToDelete(a)]_vars

\* InstallManager::InstallApp asserts that the result of an installer whose
\* install failed is not a success.
FailureIsNotSuccess ==
  \A w \in Workers :
    pc[w] \in {"locked", "report"} /\ hr[w] # "S_OK" => info[w].type # "SUCCESS"
=============================================================================
