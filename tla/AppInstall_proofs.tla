-------------------------- MODULE AppInstall_proofs --------------------------
(* Installs and uninstall reports of any number of bundles, applications and *)
(* installers, with every failure and any number of restarts.                *)
EXTENDS AppInstall, TLAPS

\* A leaf is given to Zenon, then to the SMT solver, unless it names one of them.
USE ZenonT(30), SMTT(30)

\* The places between taking and leaving registry_stable_state_lock_.
Locked == {"next", "read", "event", "remove", "prepare", "pre", "clear", "start", "wait",
           "result", "locked", "report", "finish"}

\* Who is between acquiring and releasing registry_stable_state_lock_ holds it.
LockInv == \A w \in Workers : pc[w] \in Locked => stable = w

\* A worker that is not idle has a job, and one that reports has something to report.
JobInv == \A w \in Workers : /\ pc[w] # "idle" => job[w].app \in Apps
                             /\ pc[w] \in {"read", "event", "remove"} => todo[w] # {}

\* An installer that somebody waits for is the one of its job; one that nobody
\* waits for was given up.
ProcOK(p) ==
  /\ procs[p].st = "free" => procs[p].by = NoOne
  /\ procs[p].st # "free" => procs[p].job.app \in Apps
  /\ procs[p].by # NoOne => /\ pc[procs[p].by] \in {"wait", "result"}
                            /\ procs[p].job = job[procs[p].by]
                            /\ \A q \in 1..MaxProcs : procs[q].by = procs[p].by => q = p
  /\ procs[p].st = "running" /\ (procs[p].by = NoOne \/ pc[procs[p].by] = "result")
       => procs[p].job.app \in overdue

ProcInv == \A p \in 1..MaxProcs : ProcOK(p)

\* The data of a new install stay from Prepare on.
DataInv ==
  \A w \in Workers :
    pc[w] \in {"clear", "start", "wait", "result"} /\ ~job[w].update =>
      cstate[job[w].app].key /\ cstate[job[w].app].pre

\* The result is cleared before the installer starts.
ResultInv ==
  /\ \A w \in Workers : pc[w] = "start" /\ job[w].app \notin overdue =>
                          cstate[job[w].app].result = NoResult
  /\ ResultOfThisRun

\* What was found uninstalled stays so while it is reported.
TodoInv ==
  \A w \in Workers : \A a \in todo[w] :
    pc[w] \in {"next", "read", "event", "remove"} /\ a \notin overdue => clients[a] = 0

\* The inductive invariant of the installs.
IInv == TypeOK /\ LockInv /\ JobInv /\ ProcInv /\ DataInv /\ ResultInv /\ TodoInv

\* A job installs a version, and so does its installer.
VersionInv ==
  /\ \A w \in Workers : pc[w] # "idle" => job[w].next # 0
  /\ \A p \in 1..MaxProcs : procs[p].st = "running" => procs[p].job.next # 0

\* Reports that are owed: an uninstalled application is, or will be once its
\* install has finished; or somebody is about to report it.
Finishing(a) == \E w \in Workers : pc[w] = "finish" /\ hr[w] = "S_OK" /\ job[w].app = a

\* A ClientState key that is being removed, and an uninstall that is being reported.
Removing(a) == \E w \in Workers : pc[w] = "remove" /\ Current(w) = a
Reporting(a) ==
  \E w \in Workers : /\ a \in todo[w] /\ pc[w] \in {"next", "read", "event", "remove"}
                     /\ pc[w] = "remove" => Current(w) # a

\* Whether the uninstall of an application is still to be reported.
Owed(a) ==
  \/ ~Removing(a) /\ clients[a] = 0 /\ (cstate[a].pv # 0 \/ Finishing(a))
  \/ Reporting(a)

\* The reports made and owed are at most the uninstalls and the restarts.
CountInv ==
  \A a \in Apps : /\ reported[a] <= uninstalls[a] + reboots
                  /\ Owed(a) => reported[a] < uninstalls[a] + reboots

-----------------------------------------------------------------------------
(* Types *)

States == [key : BOOLEAN, pv : 0..MaxVersion, pre : BOOLEAN, result : Infos]
Procs == [st : {"free", "running", "exited"}, by : Workers \cup {NoOne}, job : JobRecords,
          exit : Codes, wrote : BOOLEAN]

\* What the assumption says of the constants, and the values the steps assign.
LEMMA Constants ==
  /\ NoState \in States /\ NoProc \in Procs /\ NoJob \in JobRecords
  /\ NoResult \in Infos /\ ApiResults \subseteq Infos /\ Jobs \subseteq JobRecords
  /\ \A j \in Jobs : j.app \in Apps
  /\ NoState.pv = 0 /\ NoState.key = FALSE /\ NoState.result = NoResult
  /\ NoProc.st = "free" /\ NoProc.by = NoOne /\ NoProc.wrote = FALSE
<1>1. NoResult \in Infos /\ ApiResults \subseteq Infos
  BY SMTT(30) DEF NoResult, Unknown, Infos, Types, Codes, ApiResults
<1>2. NoJob \in JobRecords /\ Jobs \subseteq JobRecords /\ \A j \in Jobs : j.app \in Apps
  BY InstallAssumption, SMTT(30) DEF NoJob, JobRecords, Jobs, Versions
<1> QED
  BY <1>1, <1>2, InstallAssumption, SMTT(30) DEF NoState, NoProc, States, Procs, Codes

\* A slot of the process table without a process.
LEMMA FreeProc == NoProc.st = "free" /\ NoProc.by = NoOne
BY DEF NoProc

\* The initial state has its types.
LEMMA InitType == Init => TypeOK
<1> SUFFICES ASSUME Init PROVE TypeOK
  OBVIOUS
<1>1. 1 \in 0..MaxVersion /\ 0 \in 0..MaxVersion
  BY InstallAssumption, SMTT(30)
<1>2. [NoState EXCEPT !.key = TRUE, !.pv = 1] \in States
  BY <1>1, Constants DEF States
<1>3. cstate \in [Apps -> States]
  BY <1>2, Constants, SMTT(30) DEF Init
<1>4. uninstalls \in [Apps -> Nat]
  BY DEF Init
<1> QED
  BY <1>1, <1>3, <1>4, Constants DEF Init, TypeOK, States, Procs, Pcs

\* The application that is being reported is one of those that were found.
LEMMA CurrentInTodo ==
  ASSUME TypeOK, JobInv, NEW w \in Workers, pc[w] \in {"read", "event", "remove"}
  PROVE  Current(w) \in todo[w] /\ Current(w) \in Apps
<1>1. Current(w) \in todo[w]
  BY DEF JobInv, Current
<1> QED
  BY <1>1 DEF TypeOK

\* The steps of AddUninstalledAppsPings keep the types.
LEMMA ReportType ==
  ASSUME TypeOK, JobInv, NEW w \in Workers,
         \/ BeginJob(w) \/ AddUninstalledAppsPings(w) \/ CreateUninstalledApp(w)
         \/ ReadUninstalledAppPersistentData(w) \/ AddPingEvent(w) \/ ForgetUninstalledApp(w)
         \/ EndUninstalledAppsPings(w)
  PROVE  TypeOK'
<1>1. CASE BeginJob(w)
  BY <1>1, Constants DEF TypeOK, BeginJob, Goto, Pcs, registry, locks
<1>2. CASE AddUninstalledAppsPings(w)
  BY <1>2 DEF TypeOK, AddUninstalledAppsPings, GetUninstalledApps, Goto, Pcs, registry, env
<1>3. CASE CreateUninstalledApp(w) \/ EndUninstalledAppsPings(w)
  BY <1>3 DEF TypeOK, CreateUninstalledApp, EndUninstalledAppsPings, Goto, Pcs, registry, local, env
<1>4. CASE ReadUninstalledAppPersistentData(w)
  BY <1>4 DEF TypeOK, ReadUninstalledAppPersistentData, Goto, Pcs, registry, env
<1>5. CASE AddPingEvent(w)
  <2>1. reported' \in [Apps -> Nat]
    BY <1>5, CurrentInTodo, SMTT(30) DEF TypeOK, AddPingEvent, Goto
  <2> QED
    BY <1>5, <2>1 DEF TypeOK, AddPingEvent, Goto, Pcs, registry, locks, local
<1>6. CASE ForgetUninstalledApp(w)
  BY <1>6, Constants
  DEF TypeOK, States, ForgetUninstalledApp, RemoveClientState, Goto, Pcs, locks, env
<1> QED
  BY <1>1, <1>2, <1>3, <1>4, <1>5, <1>6


\* The steps of InstallApp keep the types.
LEMMA InstallType ==
  ASSUME TypeOK, JobInv, NEW w \in Workers,
         \/ TakeStableStateLock(w) \/ TakeModelLock(w) \/ Prepare(w) \/ Clear(w) \/ Start(w)
         \/ Wait(w) \/ GetInstallerResult(w) \/ RetakeModelLock(w) \/ Check(w) \/ Finish(w)
  PROVE  TypeOK'
<1> cstate \in [Apps -> States] /\ procs \in [1..MaxProcs -> Procs] /\ job[w] \in JobRecords
  BY DEF TypeOK, States, Procs
<1> NoResult \in Infos /\ NoJob \in JobRecords
  BY Constants
<1>1. CASE TakeStableStateLock(w) \/ TakeModelLock(w) \/ RetakeModelLock(w)
  BY <1>1 DEF TypeOK, TakeStableStateLock, TakeModelLock, RetakeModelLock, Goto, Pcs,
              registry, local, env
<1>2. CASE Prepare(w)
  <2>1. \/ cstate' = cstate
        \/ cstate' = [cstate EXCEPT ![job[w].app].key = TRUE, ![job[w].app].pre = TRUE]
        \/ cstate' = [cstate EXCEPT ![job[w].app].key = TRUE]
    BY <1>2 DEF Prepare, WritePreInstallData
  <2>2. cstate' \in [Apps -> States]
    <3>1. CASE cstate' = [cstate EXCEPT ![job[w].app].key = TRUE, ![job[w].app].pre = TRUE]
      BY <3>1 DEF States
    <3>2. CASE cstate' = [cstate EXCEPT ![job[w].app].key = TRUE]
      BY <3>2 DEF States
    <3> QED
      BY <2>1, <3>1, <3>2
  <2>3. stable' \in {stable, NoOne} /\ job' \in {job, [job EXCEPT ![w] = NoJob]}
        /\ pc' \in {[pc EXCEPT ![w] = "clear"], [pc EXCEPT ![w] = "idle"]}
    BY <1>2 DEF Prepare, Goto
  <2>4. UNCHANGED <<clients, todo, hr, procs, reboots, overdue, uninstalls, reported>>
    BY <1>2 DEF Prepare, env
  <2>5. pc' \in [Workers -> Pcs]
    BY <2>3 DEF TypeOK, Pcs
  <2>6. job' \in [Workers -> JobRecords]
    BY <2>3 DEF TypeOK
  <2> QED
    BY <2>2, <2>3, <2>4, <2>5, <2>6 DEF TypeOK, States
<1>3. CASE Clear(w)
  <2>1. cstate' \in [Apps -> States]
    BY <1>3 DEF States, Clear, ClearInstallerResultApiValues
  <2> QED
    BY <1>3, <2>1 DEF TypeOK, States, Clear, Goto, Pcs, locks, env
<1>4. CASE Start(w)
  <2>1. \/ procs' = procs
        \/ \E p \in 1..MaxProcs :
             procs' = [procs EXCEPT ![p].st = "running", ![p].by = w, ![p].job = job[w]]
    BY <1>4 DEF Start
  <2>2. ASSUME NEW p \in 1..MaxProcs,
               procs' = [procs EXCEPT ![p].st = "running", ![p].by = w, ![p].job = job[w]]
        PROVE  procs' \in [1..MaxProcs -> Procs]
    <3>1. procs'[p] = [procs[p] EXCEPT !.st = "running", !.by = w, !.job = job[w]]
      BY <2>2
    <3>2. procs'[p] \in Procs
      BY <3>1 DEF Procs
    <3>3. procs' = [procs EXCEPT ![p] = procs'[p]]
      BY <2>2
    <3> QED
      BY <3>2, <3>3
  <2>3. hr' \in {hr, [hr EXCEPT ![w] = "FAILED_START"]}
        /\ pc' \in {[pc EXCEPT ![w] = "wait"], [pc EXCEPT ![w] = "locked"]}
    BY <1>4 DEF Start, Goto, local
  <2>4. UNCHANGED <<registry, stable, job, todo, reboots, overdue, uninstalls, reported>>
    BY <1>4 DEF Start, registry, locks, local, env
  <2> QED
    BY <2>1, <2>2, <2>3, <2>4 DEF TypeOK, Procs, Pcs, registry
<1>5. CASE Wait(w)
  <2>1. job[w].app \in Apps
    BY <1>5 DEF JobInv, Wait, Goto
  <2> QED
    BY <1>5, <2>1 DEF TypeOK, Wait, Goto, Pcs, registry, locks
<1>6. CASE GetInstallerResult(w)
  <2>1. cstate' = [cstate EXCEPT ![job[w].app].result = NoResult]
    BY <1>6 DEF GetInstallerResult, ClearInstallerResultApiValues
  <2>2. cstate' \in [Apps -> States]
    BY <2>1 DEF States
  <2>3. PICK p \in 1..MaxProcs :
          procs' = [procs EXCEPT ![p] = IF @.st = "exited" THEN NoProc ELSE [@ EXCEPT !.by = NoOne]]
    BY <1>6 DEF GetInstallerResult
  <2>4. procs' \in [1..MaxProcs -> Procs]
    <3>1. NoProc \in Procs /\ [procs[p] EXCEPT !.by = NoOne] \in Procs
      BY Constants DEF Procs
    <3>2. procs' = [procs EXCEPT ![p] = procs'[p]] /\ procs'[p] \in Procs
      BY <2>3, <3>1
    <3> QED
      BY <3>2
  <2>5. pc' \in {[pc EXCEPT ![w] = "clear"], [pc EXCEPT ![w] = "locked"]}
    BY <1>6 DEF GetInstallerResult, Goto
  <2>6. \E x \in {hr[w], "S_OK", "MSI_BUSY", "INSTALLER_FAILED"} : hr' = [hr EXCEPT ![w] = x]
    BY <1>6 DEF GetInstallerResult
  <2>7. UNCHANGED <<clients, stable, job, todo, reboots, overdue, uninstalls, reported>>
    BY <1>6 DEF GetInstallerResult, locks, env
  <2>8. pc' \in [Workers -> Pcs]
    BY <2>5 DEF TypeOK, Pcs
  <2>9. hr' \in [Workers -> {"S_OK", "TIMED_OUT", "MSI_BUSY", "INSTALLER_FAILED", "FAILED_START",
                             "NOT_REGISTERED"}]
    BY <2>6 DEF TypeOK
  <2> QED
    BY <2>2, <2>4, <2>7, <2>8, <2>9 DEF TypeOK, States, Procs
<1>7. CASE Check(w)
  <2>1. job[w].app \in Apps
    BY <1>7 DEF JobInv, Check, Goto
  <2>2. clients[job[w].app] \in 0..MaxVersion /\ job \in [Workers -> JobRecords]
    BY <2>1 DEF TypeOK
  <2>3. job' = job \/ \E v \in {job[w].next, clients[job[w].app]} : job' = [job EXCEPT ![w].next = v]
    BY <1>7 DEF Check
  <2>4. job' \in [Workers -> JobRecords]
    BY <2>2, <2>3 DEF JobRecords
  <2>5. hr' = hr \/ \E x \in {hr[w], "NOT_REGISTERED"} : hr' = [hr EXCEPT ![w] = x]
    BY <1>7 DEF Check
  <2>6. pc' = [pc EXCEPT ![w] = "finish"]
        /\ UNCHANGED <<registry, stable, todo, procs, reboots, overdue, uninstalls, reported>>
    BY <1>7 DEF Check, Goto, registry, locks, env
  <2> QED
    BY <2>4, <2>5, <2>6 DEF TypeOK, Pcs, registry
<1>8. CASE Finish(w)
  <2>1. \/ cstate' = cstate
        \/ cstate' = [cstate EXCEPT ![job[w].app].key = TRUE, ![job[w].app].pv = job[w].next]
        \/ cstate' = [cstate EXCEPT ![job[w].app] = NoState]
    BY <1>8 DEF Finish, PersistSuccessfulInstall, RemoveClientState
  <2>2. cstate' \in [Apps -> States]
    <3>1. CASE cstate' = [cstate EXCEPT ![job[w].app].key = TRUE, ![job[w].app].pv = job[w].next]
      BY <3>1 DEF States, JobRecords
    <3>2. CASE cstate' = [cstate EXCEPT ![job[w].app] = NoState]
      BY <3>2, Constants
    <3> QED
      BY <2>1, <3>1, <3>2
  <2> QED
    BY <1>8, <2>2 DEF TypeOK, States, Finish, Goto, Pcs, env
<1> QED
  BY <1>1, <1>2, <1>3, <1>4, <1>5, <1>6, <1>7, <1>8

\* The steps of installers, users and the machine keep the types.
LEMMA OtherType ==
  ASSUME TypeOK, ProcInv,
         \/ \E p \in 1..MaxProcs : InstallerLocks(p) \/ Register(p) \/ SetInstallerResult(p) \/ Exit(p)
         \/ \E a \in Apps : Uninstall(a)
         \/ \E c \in Callers : PreUpdateCheck(c) \/ SynchronizeClientState(c)
         \/ Reboot \/ UNCHANGED vars
  PROVE  TypeOK'
<1> cstate \in [Apps -> States] /\ procs \in [1..MaxProcs -> Procs]
  BY DEF TypeOK, States, Procs
<1>1. CASE \E p \in 1..MaxProcs : InstallerLocks(p)
  BY <1>1 DEF TypeOK, InstallerLocks, registry, local, env
<1>2. ASSUME NEW p \in 1..MaxProcs, Register(p) PROVE TypeOK'
  BY <1>2 DEF TypeOK, JobRecords, Register, locks, local, env
<1>3. ASSUME NEW p \in 1..MaxProcs, SetInstallerResult(p) PROVE TypeOK'
  <2>1. PICK r \in Infos : cstate' = [cstate EXCEPT ![procs[p].job.app].key = TRUE,
                                                    ![procs[p].job.app].result = r]
    BY <1>3, Constants DEF SetInstallerResult
  <2>2. cstate' \in [Apps -> States]
    BY <2>1 DEF States
  <2>3. procs' \in [1..MaxProcs -> Procs]
    <3>1. procs' = [procs EXCEPT ![p].wrote = TRUE]
      BY <1>3 DEF SetInstallerResult
    <3> QED
      BY <3>1 DEF Procs
  <2> QED
    BY <1>3, <2>2, <2>3 DEF TypeOK, States, Procs, SetInstallerResult, locks, local, env
<1>4. ASSUME NEW p \in 1..MaxProcs, Exit(p) PROVE TypeOK'
  <2>1. PICK code \in Codes :
          procs' = [procs EXCEPT ![p] = IF @.by = NoOne THEN NoProc
                                        ELSE [@ EXCEPT !.st = "exited", !.exit = code]]
    BY <1>4 DEF Exit
  <2>2. procs' \in [1..MaxProcs -> Procs]
    <3>1. NoProc \in Procs /\ [procs[p] EXCEPT !.st = "exited", !.exit = code] \in Procs
      BY Constants DEF Procs
    <3>2. procs' = [procs EXCEPT ![p] = procs'[p]] /\ procs'[p] \in Procs
      BY <2>1, <3>1
    <3> QED
      BY <3>2
  <2> QED
    BY <1>4, <2>2 DEF TypeOK, Procs, Exit, registry, local, env
<1>5. ASSUME NEW a \in Apps, Uninstall(a) PROVE TypeOK'
  BY <1>5, InstallAssumption, SMTT(30) DEF TypeOK, Uninstall, locks, local
<1>6. ASSUME NEW c \in Callers, PreUpdateCheck(c) PROVE TypeOK'
  BY <1>6 DEF TypeOK, PreUpdateCheck, registry, local
<1>7. ASSUME NEW c \in Callers, SynchronizeClientState(c) PROVE TypeOK'
  <2>1. PICK a \in Apps : cstate' \in {cstate, [cstate EXCEPT ![a].key = TRUE, ![a].pv = clients[a]]}
    BY <1>7 DEF SynchronizeClientState
  <2>2. clients[a] \in 0..MaxVersion
    BY DEF TypeOK
  <2>3. cstate \in [Apps -> States] /\ cstate[a] \in States
    BY DEF TypeOK, States
  <2>4. [cstate[a] EXCEPT !.key = TRUE, !.pv = clients[a]] \in States
    BY <2>2, <2>3 DEF States
  <2>5. CASE cstate' = cstate
    BY <1>7, <2>3, <2>5 DEF TypeOK, States, SynchronizeClientState, local
  <2>6. CASE cstate' = [cstate EXCEPT ![a] = [cstate[a] EXCEPT !.key = TRUE, !.pv = clients[a]]]
    <3>1. cstate' \in [Apps -> States]
      BY <2>3, <2>4, <2>6
    <3> QED
      BY <1>7, <3>1 DEF TypeOK, States, SynchronizeClientState, local
  <2>7. [cstate EXCEPT ![a].key = TRUE, ![a].pv = clients[a]]
          = [cstate EXCEPT ![a] = [cstate[a] EXCEPT !.key = TRUE, !.pv = clients[a]]]
    BY <2>3 DEF States
  <2> QED
    BY <2>1, <2>5, <2>6, <2>7
<1>8. CASE Reboot
  BY <1>8, Constants, SMTT(30) DEF TypeOK, Procs, Reboot, Pcs, registry
<1>9. CASE UNCHANGED vars
  BY <1>9 DEF TypeOK, vars, registry, locks, local, env
<1> QED
  BY <1>1, <1>2, <1>3, <1>4, <1>5, <1>6, <1>7, <1>8, <1>9

-----------------------------------------------------------------------------
(* Steps in the stable state *)

\* Only one worker is inside the lock, so a step of one leaves what is said of others.
LEMMA Solo ==
  ASSUME LockInv, NEW w \in Workers, NEW v \in Workers, pc[w] \in Locked, pc[v] \in Locked
  PROVE  v = w
BY DEF LockInv

\* Nobody waits for an installer unless the one with the lock does.
LEMMA NobodyWaits ==
  ASSUME IInv, \A v \in Workers : pc[v] \notin {"wait", "result"}
  PROVE  \A p \in 1..MaxProcs : procs[p].by = NoOne
BY DEF IInv, TypeOK, ProcInv, ProcOK

\* What the steps without installers share: w moves on with or into the lock,
\* and ClientState keys lose nothing unless w removes one.
LEMMA QuietStep ==
  ASSUME IInv, TypeOK', NEW w \in Workers,
         \A v \in Workers \ {w} :
           pc'[v] = pc[v] /\ job'[v] = job[v] /\ todo'[v] = todo[v] /\ pc[v] \notin Locked,
         pc[w] \notin {"wait", "result"}, pc'[w] \notin {"wait", "result"},
         UNCHANGED <<procs, overdue>>,
         pc'[w] \in Locked => stable' = w,
         pc'[w] # "idle" => job'[w].app \in Apps,
         pc'[w] \in {"read", "event", "remove"} => todo'[w] # {},
         pc'[w] \in {"clear", "start"} /\ ~job'[w].update =>
           cstate'[job'[w].app].key /\ cstate'[job'[w].app].pre,
         pc'[w] = "start" => cstate'[job'[w].app].result = NoResult,
         \A a \in todo'[w] : pc'[w] \in {"next", "read", "event", "remove"} /\ a \notin overdue =>
                               clients'[a] = 0
  PROVE  IInv'
<1>1. \A v \in Workers : pc[v] \notin {"wait", "result"} /\ pc'[v] \notin {"wait", "result"}
  BY DEF Locked
<1>2. \A p \in 1..MaxProcs : procs[p].by = NoOne
  BY <1>1, NobodyWaits
<1>3. LockInv'
  BY DEF IInv, LockInv
<1>4. JobInv'
  BY DEF IInv, JobInv
<1>5. ProcInv'
  BY <1>2 DEF IInv, ProcInv, ProcOK
<1>6. DataInv'
  BY <1>1 DEF IInv, DataInv, Locked
<1>7. ResultInv'
  BY <1>1 DEF IInv, ResultInv, ResultOfThisRun, Waiting, Locked
<1>8. TodoInv'
  BY SMTT(30) DEF IInv, TodoInv, Locked
<1> QED
  BY <1>3, <1>4, <1>5, <1>6, <1>7, <1>8 DEF IInv

\* AddUninstalledAppsPings keeps the invariant.
LEMMA ReportSteps ==
  ASSUME IInv, NEW w \in Workers,
         \/ AddUninstalledAppsPings(w) \/ CreateUninstalledApp(w)
         \/ ReadUninstalledAppPersistentData(w) \/ AddPingEvent(w) \/ ForgetUninstalledApp(w)
         \/ EndUninstalledAppsPings(w)
  PROVE  IInv'
<1>1. TypeOK'
  BY ReportType DEF IInv
<1>2. /\ pc[w] \in {"uninstalled", "next", "read", "event", "remove"}
      /\ pc'[w] \in {"next", "read", "event", "remove", "install"}
      /\ \A v \in Workers \ {w} : pc'[v] = pc[v] /\ todo'[v] = todo[v]
  BY DEF IInv, TypeOK, AddUninstalledAppsPings, CreateUninstalledApp, AddPingEvent,
         ReadUninstalledAppPersistentData, ForgetUninstalledApp, EndUninstalledAppsPings, Goto, local
<1>3. UNCHANGED <<clients, job, procs, overdue>>
  BY DEF AddUninstalledAppsPings, CreateUninstalledApp, AddPingEvent,
         ReadUninstalledAppPersistentData, ForgetUninstalledApp, EndUninstalledAppsPings,
         registry, local, env
<1>4. \A v \in Workers \ {w} : pc[v] \notin Locked
  <2>1. CASE AddUninstalledAppsPings(w)
    BY <2>1, InstallAssumption DEF IInv, LockInv, AddUninstalledAppsPings
  <2>2. CASE ~AddUninstalledAppsPings(w)
    <3>1. pc[w] \in Locked
      BY <2>2 DEF CreateUninstalledApp, ReadUninstalledAppPersistentData, AddPingEvent,
                  ForgetUninstalledApp, EndUninstalledAppsPings, Goto, Locked
    <3> QED
      BY <3>1, Solo DEF IInv
  <2> QED
    BY <2>1, <2>2
<1>5. pc'[w] \in Locked => stable' = w
  BY SMTT(30) DEF IInv, TypeOK, LockInv, Locked, AddUninstalledAppsPings, CreateUninstalledApp, AddPingEvent,
         ReadUninstalledAppPersistentData, ForgetUninstalledApp, EndUninstalledAppsPings, Goto,
         locks
<1>6. pc'[w] \in {"read", "event", "remove"} => todo'[w] # {}
  BY DEF IInv, TypeOK, JobInv, AddUninstalledAppsPings, CreateUninstalledApp, AddPingEvent,
         ReadUninstalledAppPersistentData, ForgetUninstalledApp, EndUninstalledAppsPings, Goto,
         local
<1>7. ASSUME NEW a \in todo'[w], pc'[w] \in {"next", "read", "event", "remove"}, a \notin overdue
      PROVE  clients'[a] = 0
  <2>1. CASE AddUninstalledAppsPings(w)
    BY <1>3, <1>7, <2>1
    DEF IInv, TypeOK, AddUninstalledAppsPings, GetUninstalledApps, IsAppUninstalled,
        IsAppRegistered
  <2>2. CASE ~AddUninstalledAppsPings(w)
    <3>1. todo'[w] \subseteq todo[w] /\ pc[w] \in {"next", "read", "event", "remove"}
      BY <2>2, SMTT(30) DEF IInv, TypeOK, CreateUninstalledApp, ReadUninstalledAppPersistentData,
             AddPingEvent, ForgetUninstalledApp, EndUninstalledAppsPings, Goto, local
    <3> QED
      BY <1>3, <1>7, <3>1 DEF IInv, TodoInv
  <2> QED
    BY <2>1, <2>2
<1>8. job'[w].app \in Apps
  BY <1>2, <1>3 DEF IInv, JobInv
<1> QED
  BY <1>1, <1>2, <1>3, <1>4, <1>5, <1>6, <1>7, <1>8, QuietStep

\* So does the begin of an install.
LEMMA BeginStep == ASSUME IInv, NEW w \in Workers, BeginJob(w) PROVE IInv'
<1>1. TypeOK'
  BY ReportType DEF IInv
<1>2. /\ pc[w] = "idle" /\ pc'[w] = "uninstalled" /\ job'[w].app \in Apps
      /\ \A v \in Workers \ {w} : pc'[v] = pc[v] /\ job'[v] = job[v]
  BY Constants DEF IInv, TypeOK, BeginJob, Goto
<1>3. UNCHANGED <<clients, cstate, stable, todo, procs, overdue>>
  BY DEF BeginJob, registry, locks
<1>4. \A p \in 1..MaxProcs : procs[p].by # w
  BY <1>2, InstallAssumption DEF IInv, ProcInv, ProcOK
<1>5. LockInv' /\ JobInv' /\ DataInv' /\ TodoInv'
  BY <1>2, <1>3 DEF IInv, LockInv, JobInv, DataInv, TodoInv, Locked
<1>6. ProcInv'
  BY <1>2, <1>3, <1>4 DEF IInv, TypeOK, ProcInv, ProcOK
<1>7. ResultInv'
  BY <1>2, <1>3 DEF IInv, ResultInv, ResultOfThisRun, Waiting
<1> QED
  BY <1>1, <1>5, <1>6, <1>7 DEF IInv

\* So do the steps up to the start of the installer.
LEMMA PrepareSteps ==
  ASSUME IInv, NEW w \in Workers,
         TakeStableStateLock(w) \/ TakeModelLock(w) \/ Prepare(w) \/ Clear(w)
  PROVE  IInv'
<1>1. TypeOK'
  BY InstallType DEF IInv
<1>2. UNCHANGED <<clients, todo, procs, overdue>>
  BY DEF TakeStableStateLock, TakeModelLock, Prepare, Clear, registry, local, env
<1>3. /\ pc[w] \in {"install", "prepare", "pre", "clear"}
      /\ pc'[w] \in {"prepare", "pre", "clear", "start", "idle"}
      /\ \A v \in Workers \ {w} : pc'[v] = pc[v] /\ job'[v] = job[v]
      /\ pc'[w] # "idle" => job' = job
  BY DEF IInv, TypeOK, TakeStableStateLock, TakeModelLock, Prepare, Clear, Goto, local
<1>4. job[w].app \in Apps
  BY <1>3 DEF IInv, JobInv
<1>5. \A v \in Workers \ {w} : pc[v] \notin Locked
  <2>1. CASE pc[w] = "install"
    BY <2>1, InstallAssumption
    DEF IInv, LockInv, TakeStableStateLock, TakeModelLock, Prepare, Clear, Goto
  <2>2. CASE pc[w] # "install"
    BY <1>3, <2>2, Solo DEF IInv, Locked
  <2> QED
    BY <2>1, <2>2
<1>6. pc'[w] \in Locked => stable' = w
  <2>1. CASE Prepare(w)
    <3>1. pc' = [pc EXCEPT ![w] = "idle"] \/ (pc[w] = "pre" /\ stable' = stable)
      BY <2>1 DEF Prepare, Goto
    <3> QED
      BY <3>1 DEF IInv, TypeOK, LockInv, Locked
  <2>2. CASE ~Prepare(w)
    BY <2>2, SMTT(30) DEF IInv, LockInv, Locked, TakeStableStateLock, TakeModelLock, Clear, Goto, locks
  <2> QED
    BY <2>1, <2>2
<1>7. ASSUME pc'[w] \in {"clear", "start"}, ~job'[w].update
      PROVE  cstate'[job'[w].app].key /\ cstate'[job'[w].app].pre
  <2>1. CASE Prepare(w)
    <3>1. cstate' = [cstate EXCEPT ![job[w].app].key = TRUE, ![job[w].app].pre = TRUE] /\ job' = job
      <4>1. pc' # [pc EXCEPT ![w] = "idle"]
        BY <1>7 DEF IInv, TypeOK
      <4>2. job' = job /\ ~job[w].update
        BY <1>3, <1>7
      <4> QED
        BY <2>1, <4>1, <4>2 DEF Prepare, WritePreInstallData, Goto
    <3>2. cstate[job[w].app] \in States /\ cstate \in [Apps -> States]
      BY <1>4 DEF IInv, TypeOK, States
    <3> QED
      BY <1>4, <3>1, <3>2 DEF States
  <2>2. CASE Clear(w)
    <3>1. /\ cstate' = [cstate EXCEPT ![job[w].app].result = NoResult] /\ job' = job
          /\ pc[w] = "clear"
      BY <1>3, <1>7, <2>2 DEF Clear, ClearInstallerResultApiValues, Goto
    <3>2. cstate[job[w].app].key /\ cstate[job[w].app].pre
      BY <1>7, <3>1 DEF IInv, DataInv
    <3>3. /\ cstate'[job[w].app].key = cstate[job[w].app].key
          /\ cstate'[job[w].app].pre = cstate[job[w].app].pre
      BY <1>4, <3>1 DEF IInv, TypeOK
    <3> QED
      BY <3>1, <3>2, <3>3
  <2>3. CASE TakeStableStateLock(w) \/ TakeModelLock(w)
    BY <1>7, <2>3 DEF IInv, TypeOK, TakeStableStateLock, TakeModelLock, Goto
  <2> QED
    BY <2>1, <2>2, <2>3
<1>8. pc'[w] = "start" => cstate'[job'[w].app].result = NoResult
  <2> SUFFICES ASSUME pc'[w] = "start" PROVE cstate'[job'[w].app].result = NoResult
    OBVIOUS
  <2>1. Clear(w)
    BY DEF IInv, TypeOK, TakeStableStateLock, TakeModelLock, Prepare, Goto
  <2>2. cstate' = [cstate EXCEPT ![job[w].app].result = NoResult] /\ job' = job
    BY <2>1 DEF Clear, ClearInstallerResultApiValues
  <2> QED
    BY <1>4, <2>2 DEF IInv, TypeOK
<1> QED
  BY <1>1, <1>2, <1>3, <1>4, <1>5, <1>6, <1>7, <1>8, QuietStep

\* So do the steps after its result is known.
LEMMA FinishSteps ==
  ASSUME IInv, NEW w \in Workers, RetakeModelLock(w) \/ Check(w) \/ Finish(w)
  PROVE  IInv'
<1>1. TypeOK'
  BY InstallType DEF IInv
<1>2. UNCHANGED <<clients, todo, procs, overdue>>
  BY DEF RetakeModelLock, Check, Finish, registry, local, env
<1>3. /\ pc[w] \in {"locked", "report", "finish"} /\ pc'[w] \in {"report", "finish", "idle"}
      /\ \A v \in Workers \ {w} : pc'[v] = pc[v]
  BY DEF IInv, TypeOK, RetakeModelLock, Check, Finish, Goto
<1>4. \A v \in Workers \ {w} : job'[v] = job[v]
  BY DEF IInv, TypeOK, RetakeModelLock, Check, Finish, local
<1>5. job[w].app \in Apps
  BY <1>3 DEF IInv, JobInv
<1>6. pc'[w] # "idle" => job'[w].app \in Apps
  <2>1. CASE Finish(w)
    BY <2>1 DEF IInv, TypeOK, Finish, Goto
  <2>2. CASE RetakeModelLock(w)
    BY <1>5, <2>2 DEF RetakeModelLock, local
  <2>3. CASE Check(w)
    <3>1. job' = job \/ \E v \in {job[w].next, clients[job[w].app]} : job' = [job EXCEPT ![w].next = v]
      BY <2>3 DEF Check
    <3>2. job'[w].app = job[w].app
      BY <3>1, SMTT(30) DEF IInv, TypeOK, JobRecords
    <3> QED
      BY <1>5, <3>2
  <2> QED
    BY <2>1, <2>2, <2>3
<1>7. \A v \in Workers \ {w} : pc[v] \notin Locked
  BY <1>3, Solo DEF IInv, Locked
<1>8. pc'[w] \in Locked => stable' = w
  BY <1>3, SMTT(30) DEF IInv, TypeOK, LockInv, Locked, RetakeModelLock, Check, Finish, Goto, locks
<1> QED
  BY <1>1, <1>2, <1>3, <1>4, <1>6, <1>7, <1>8, QuietStep

-----------------------------------------------------------------------------
(* Steps with an installer *)

\* So does the start of the installer process.
LEMMA StartStep == ASSUME IInv, NEW w \in Workers, Start(w) PROVE IInv'
<1>1. TypeOK'
  BY InstallType DEF IInv
<1>2. /\ pc[w] = "start" /\ pc'[w] \in {"wait", "locked"}
      /\ \A v \in Workers \ {w} : pc'[v] = pc[v] /\ pc[v] \notin Locked
  <2>1. pc[w] = "start" /\ pc' \in {[pc EXCEPT ![w] = "wait"], [pc EXCEPT ![w] = "locked"]}
    BY DEF Start, Goto
  <2> QED
    BY <2>1, Solo DEF IInv, TypeOK, Locked
<1>3. UNCHANGED <<clients, cstate, stable, job, todo, overdue>>
  BY DEF Start, registry, locks, local, env
<1>4. stable = w /\ job[w].app \in Apps
  BY <1>2 DEF IInv, LockInv, JobInv, Locked
<1>5. CASE pc'[w] = "locked"
  <2>1. procs' = procs
    BY <1>5 DEF Start, Goto, IInv, TypeOK
  <2> QED
    BY <1>1, <1>2, <1>3, <1>4, <1>5, <2>1, QuietStep
<1>6. CASE pc'[w] = "wait"
  <2>1. PICK p \in 1..MaxProcs :
          procs' = [procs EXCEPT ![p].st = "running", ![p].by = w, ![p].job = job[w]]
    BY <1>6 DEF Start, Goto, IInv, TypeOK
  <2>2. \A q \in 1..MaxProcs : procs[q].by = NoOne
    BY <1>2, NobodyWaits DEF Locked
  <2>3. procs \in [1..MaxProcs -> Procs] /\ procs[p] \in Procs
    BY DEF IInv, TypeOK, Procs
  <2>4. \A q \in (1..MaxProcs) \ {p} : procs'[q] = procs[q]
    BY <2>1, <2>3
  <2>5. procs'[p].st = "running" /\ procs'[p].by = w /\ procs'[p].job = job[w]
    BY <2>1, <2>3 DEF Procs
  <2>6. w # NoOne
    BY InstallAssumption
  <2>7. ProcInv'
    <3>1. ProcOK(p)'
      BY <1>3, <1>4, <1>6, <2>2, <2>4, <2>5, <2>6 DEF ProcOK
    <3>2. ASSUME NEW q \in (1..MaxProcs) \ {p} PROVE ProcOK(q)'
      <4>1. ProcOK(q) /\ procs'[q] = procs[q] /\ procs'[q].by = NoOne
        BY <2>2, <2>4 DEF IInv, ProcInv
      <4> QED
        BY <1>3, <4>1 DEF ProcOK
    <3> QED
      BY <3>1, <3>2 DEF ProcInv
  <2>8. LockInv' /\ JobInv' /\ DataInv' /\ TodoInv'
    BY <1>2, <1>3, <1>4, <1>6 DEF IInv, LockInv, JobInv, DataInv, TodoInv, Locked
  <2>9. ResultInv'
    BY <1>2, <1>3, <1>6 DEF IInv, ResultInv, ResultOfThisRun, Waiting, Locked
  <2> QED
    BY <1>1, <2>7, <2>8, <2>9 DEF IInv
<1> QED
  BY <1>2, <1>5, <1>6

\* So does the wait for it, whether it ends or times out.
LEMMA WaitStep == ASSUME IInv, NEW w \in Workers, Wait(w) PROVE IInv'
<1>1. TypeOK'
  BY InstallType DEF IInv
<1>2. pc[w] = "wait" /\ pc'[w] = "result" /\ \A v \in Workers \ {w} : pc'[v] = pc[v]
  BY DEF IInv, TypeOK, Wait, Goto
<1>3. UNCHANGED <<clients, cstate, stable, job, todo, procs>> /\ overdue \subseteq overdue'
  BY DEF Wait, registry, locks
<1>4. PICK p \in 1..MaxProcs :
        /\ procs[p].by = w
        /\ procs[p].st = "exited" \/ job[w].app \in overdue'
  BY DEF Wait, Waiting
<1>5. procs[p].job = job[w] /\ \A q \in 1..MaxProcs : procs[q].by = w => q = p
  BY <1>4, InstallAssumption DEF IInv, ProcInv, ProcOK
<1>6. LockInv' /\ JobInv' /\ DataInv' /\ TodoInv'
  BY <1>2, <1>3 DEF IInv, LockInv, JobInv, DataInv, TodoInv, Locked
<1>7. ProcInv'
  <2> SUFFICES ASSUME NEW q \in 1..MaxProcs
               PROVE  /\ procs[q].st = "free" => procs[q].by = NoOne
                      /\ procs[q].st # "free" => procs[q].job.app \in Apps
                      /\ procs[q].by # NoOne =>
                           /\ pc'[procs[q].by] \in {"wait", "result"}
                           /\ procs[q].job = job[procs[q].by]
                           /\ \A r \in 1..MaxProcs : procs[r].by = procs[q].by => r = q
                      /\ procs[q].st = "running" /\ (procs[q].by = NoOne \/ pc'[procs[q].by] = "result")
                           => procs[q].job.app \in overdue'
    BY <1>3 DEF ProcInv, ProcOK
  <2>1. procs[q].by \in Workers \cup {NoOne}
    BY DEF IInv, TypeOK
  <2>2. CASE procs[q].by = w
    BY <1>2, <1>4, <1>5, <2>2 DEF IInv, ProcInv, ProcOK
  <2>3. CASE procs[q].by # w
    BY <1>2, <1>3, <2>1, <2>3 DEF IInv, ProcInv, ProcOK
  <2> QED
    BY <2>2, <2>3
<1>8. ResultInv'
  BY <1>2, <1>3 DEF IInv, ResultInv, ResultOfThisRun, Waiting
<1> QED
  BY <1>1, <1>6, <1>7, <1>8 DEF IInv

\* So does reading the result.
LEMMA GetInstallerResultStep ==
  ASSUME IInv, NEW w \in Workers, GetInstallerResult(w) PROVE IInv'
<1>1. TypeOK'
  BY InstallType DEF IInv
<1>2. /\ pc[w] = "result" /\ pc'[w] \in {"clear", "locked"}
      /\ \A v \in Workers \ {w} : pc'[v] = pc[v] /\ pc[v] \notin Locked
  <2>1. pc[w] = "result" /\ pc' \in {[pc EXCEPT ![w] = "clear"], [pc EXCEPT ![w] = "locked"]}
    BY DEF GetInstallerResult, Goto
  <2> QED
    BY <2>1, Solo DEF IInv, TypeOK, Locked
<1>3. UNCHANGED <<clients, stable, job, todo, overdue>>
  BY DEF GetInstallerResult, locks, env
<1>4. stable = w /\ job[w].app \in Apps
  BY <1>2 DEF IInv, LockInv, JobInv, Locked
<1>5. cstate' = [cstate EXCEPT ![job[w].app].result = NoResult]
  BY DEF GetInstallerResult, ClearInstallerResultApiValues
<1>6. cstate'[job[w].app].key = cstate[job[w].app].key /\ cstate'[job[w].app].pre = cstate[job[w].app].pre
  BY <1>4, <1>5 DEF IInv, TypeOK
<1>7. PICK p \in 1..MaxProcs :
        /\ procs[p].by = w
        /\ procs' = [procs EXCEPT ![p] = IF @.st = "exited" THEN NoProc ELSE [@ EXCEPT !.by = NoOne]]
  BY DEF GetInstallerResult, Waiting
<1>8. procs[p].st \in {"exited", "running"} /\ procs[p].job = job[w]
      /\ \A q \in 1..MaxProcs : procs[q].by = w => q = p
  BY <1>7, InstallAssumption DEF IInv, TypeOK, ProcInv, ProcOK
<1>9. procs[p].st = "running" => job[w].app \in overdue
  BY <1>2, <1>7, <1>8 DEF IInv, ProcInv, ProcOK
<1>10. \A q \in (1..MaxProcs) \ {p} : procs'[q] = procs[q] /\ procs[q].by = NoOne
  <2>1. \A q \in (1..MaxProcs) \ {p} : procs'[q] = procs[q]
    BY <1>7 DEF IInv, TypeOK
  <2>2. ASSUME NEW q \in (1..MaxProcs) \ {p}, procs[q].by # NoOne PROVE FALSE
    <3>1. procs[q].by \in Workers /\ pc[procs[q].by] \in Locked
      BY <2>2 DEF IInv, TypeOK, ProcInv, ProcOK, Locked
    <3>2. procs[q].by = w
      BY <1>2, <3>1
    <3> QED
      BY <1>8, <3>2
  <2> QED
    BY <2>1, <2>2
<1>11. \/ procs'[p] = NoProc
       \/ procs'[p].st = "running" /\ procs'[p].by = NoOne /\ procs'[p].job.app \in overdue
  <2>1. procs \in [1..MaxProcs -> Procs] /\ procs[p] \in Procs
    BY DEF IInv, TypeOK, Procs
  <2> QED
    BY <1>7, <1>8, <1>9, <2>1 DEF Procs
<1>12. ProcInv'
  <2>1. ProcOK(p)'
    <3>1. overdue \subseteq Apps
      BY DEF IInv, TypeOK
    <3> QED
      BY <1>3, <1>11, <3>1, FreeProc DEF ProcOK
  <2>2. ASSUME NEW q \in (1..MaxProcs) \ {p} PROVE ProcOK(q)'
    <3>1. ProcOK(q) /\ procs'[q] = procs[q] /\ procs'[q].by = NoOne
      BY <1>10 DEF IInv, ProcInv
    <3> QED
      BY <1>3, <3>1 DEF ProcOK
  <2> QED
    BY <2>1, <2>2 DEF ProcInv
<1>13. LockInv' /\ JobInv' /\ TodoInv'
  BY <1>2, <1>3, <1>4 DEF IInv, LockInv, JobInv, TodoInv, Locked
<1>14. DataInv'
  BY <1>2, <1>3, <1>6 DEF IInv, DataInv, Locked
<1>15. ResultInv'
  BY <1>2, <1>3 DEF ResultInv, ResultOfThisRun, Waiting, Locked
<1> QED
  BY <1>1, <1>12, <1>13, <1>14, <1>15 DEF IInv

\* An installer that runs for its worker keeps every other worker out.
LEMMA RunsAlone ==
  ASSUME IInv, NEW p \in 1..MaxProcs, procs[p].st = "running", procs[p].job.app \notin overdue
  PROVE  /\ procs[p].by \in Workers /\ pc[procs[p].by] = "wait" /\ procs[p].job = job[procs[p].by]
         /\ \A v \in Workers : pc[v] \in Locked => v = procs[p].by
<1>1. procs[p].by \in Workers
  BY DEF IInv, TypeOK, ProcInv, ProcOK
<1>2. pc[procs[p].by] = "wait" /\ procs[p].job = job[procs[p].by]
  BY <1>1, InstallAssumption DEF IInv, ProcInv, ProcOK
<1> QED
  BY <1>1, <1>2, Solo DEF IInv, Locked

\* So does the installer when it registers its version.
LEMMA RegisterStep == ASSUME IInv, NEW p \in 1..MaxProcs, Register(p) PROVE IInv'
<1>1. TypeOK'
  BY OtherType DEF IInv
<1>2. /\ UNCHANGED <<cstate, stable, pc, job, todo, procs, overdue>>
      /\ procs[p].st = "running"
      /\ clients' = [clients EXCEPT ![procs[p].job.app] = procs[p].job.next]
  BY DEF Register, locks, local, env
<1>3. LockInv' /\ JobInv' /\ ProcInv' /\ DataInv' /\ ResultInv'
  BY <1>2 DEF IInv, LockInv, JobInv, ProcInv, ProcOK, DataInv, ResultInv, ResultOfThisRun, Waiting
<1>4. TodoInv'
  <2> SUFFICES ASSUME NEW v \in Workers, NEW a \in todo[v],
                      pc[v] \in {"next", "read", "event", "remove"}, a \notin overdue
               PROVE  clients'[a] = 0
    BY <1>2 DEF TodoInv
  <2>1. a # procs[p].job.app
    BY <1>2, RunsAlone DEF Locked
  <2> QED
    BY <1>2, <2>1 DEF IInv, TypeOK, TodoInv
<1> QED
  BY <1>1, <1>3, <1>4 DEF IInv

\* So does the installer when it writes its result.
LEMMA SetInstallerResultStep ==
  ASSUME IInv, NEW p \in 1..MaxProcs, SetInstallerResult(p) PROVE IInv'
<1> DEFINE a == procs[p].job.app
<1>1. TypeOK'
  BY OtherType DEF IInv
<1>2. UNCHANGED <<clients, stable, pc, job, todo, overdue>> /\ procs[p].st = "running"
  BY DEF SetInstallerResult, locks, local, env
<1>3. a \in Apps
  BY <1>2 DEF IInv, ProcInv, ProcOK
<1>4. PICK r \in Infos : cstate' = [cstate EXCEPT ![a].key = TRUE, ![a].result = r]
  BY Constants DEF SetInstallerResult
<1>5. /\ \A b \in Apps \ {a} : cstate'[b] = cstate[b]
      /\ cstate'[a].key /\ cstate'[a].pre = cstate[a].pre
  <2>1. cstate \in [Apps -> States] /\ cstate[a] \in States
    BY <1>3 DEF IInv, TypeOK, States
  <2> HIDE DEF a
  <2> QED
    BY <1>3, <1>4, <2>1 DEF States
<1>6. /\ \A q \in 1..MaxProcs : /\ procs'[q].st = procs[q].st /\ procs'[q].by = procs[q].by
                                /\ procs'[q].job = procs[q].job
                                /\ procs[q].wrote => procs'[q].wrote
      /\ procs'[p].wrote
  <2>1. procs' = [procs EXCEPT ![p].wrote = TRUE] /\ procs \in [1..MaxProcs -> Procs]
    BY DEF SetInstallerResult, IInv, TypeOK, Procs
  <2> QED
    BY <2>1 DEF Procs
<1>7. LockInv' /\ JobInv' /\ TodoInv'
  BY <1>2 DEF IInv, LockInv, JobInv, TodoInv
<1>8. ProcInv'
  BY <1>2, <1>6, SMTT(30) DEF IInv, ProcInv, ProcOK
<1>9. DataInv'
  <2> HIDE DEF a
  <2>1. \A v \in Workers : pc[v] # "idle" => job[v].app \in Apps
    BY DEF IInv, JobInv
  <2> QED
    BY <1>2, <1>5, <2>1 DEF IInv, DataInv
<1>10. ResultInv'
  <2>1. ASSUME NEW v \in Workers, pc[v] = "start", job[v].app \notin overdue
        PROVE  cstate'[job[v].app].result = NoResult
    <3>1. job[v].app # a
      BY <1>2, <2>1, RunsAlone DEF Locked
    <3>2. job[v].app \in Apps
      BY <2>1 DEF IInv, JobInv
    <3> QED
      BY <1>5, <2>1, <3>1, <3>2 DEF IInv, ResultInv
  <2>2. ASSUME NEW v \in Workers, NEW q \in 1..MaxProcs, Waiting(v, q), job[v].app \notin overdue,
               cstate'[job[v].app].result # NoResult
        PROVE  procs'[q].wrote
    <3>1. job[v].app \in Apps
      BY <2>2 DEF IInv, JobInv, Waiting
    <3>2. CASE job[v].app = a
      <4>1. procs[p].by = v
        BY <1>2, <2>2, <3>2, RunsAlone DEF Waiting, Locked
      <4>2. q = p
        BY <2>2, <4>1, InstallAssumption DEF IInv, ProcInv, ProcOK, Waiting
      <4> QED
        BY <1>6, <4>2
    <3>3. CASE job[v].app # a
      BY <1>5, <1>6, <2>2, <3>1, <3>3 DEF IInv, ResultInv, ResultOfThisRun
    <3> QED
      BY <3>2, <3>3
  <2> QED
    BY <1>2, <1>6, <2>1, <2>2 DEF ResultInv, ResultOfThisRun, Waiting
<1> QED
  BY <1>1, <1>7, <1>8, <1>9, <1>10 DEF IInv

\* So does the end of the installer.
LEMMA ExitStep == ASSUME IInv, NEW p \in 1..MaxProcs, Exit(p) PROVE IInv'
<1>1. TypeOK'
  BY OtherType DEF IInv
<1>2. UNCHANGED <<clients, cstate, stable, pc, job, todo, overdue>> /\ procs[p].st = "running"
  BY DEF Exit, registry, local, env
<1>3. PICK code \in Codes :
        procs' = [procs EXCEPT ![p] = IF @.by = NoOne THEN NoProc
                                      ELSE [@ EXCEPT !.st = "exited", !.exit = code]]
  BY DEF Exit
<1>4. procs \in [1..MaxProcs -> Procs] /\ procs[p] \in Procs
  BY DEF IInv, TypeOK, Procs
<1>5. /\ \A q \in (1..MaxProcs) \ {p} : procs'[q] = procs[q]
      /\ \/ procs[p].by = NoOne /\ procs'[p] = NoProc
         \/ /\ procs'[p].st = "exited" /\ procs'[p].by = procs[p].by
            /\ procs'[p].job = procs[p].job /\ procs'[p].wrote = procs[p].wrote
  BY <1>3, <1>4 DEF Procs
<1>6. LockInv' /\ JobInv' /\ DataInv' /\ TodoInv'
  BY <1>2 DEF IInv, LockInv, JobInv, DataInv, TodoInv
<1>7. \A q \in 1..MaxProcs : procs'[q].by = procs[q].by
  BY <1>5, Constants
<1>8. ProcInv'
  <2>1. ASSUME NEW q \in 1..MaxProcs PROVE ProcOK(q)'
    <3>1. ProcOK(q)
      BY DEF IInv, ProcInv
    <3>2. CASE procs'[q] = NoProc
      BY <3>2, FreeProc DEF ProcOK
    <3>3. CASE procs'[q] = procs[q]
      BY <1>2, <1>7, <3>1, <3>3 DEF ProcOK
    <3>4. CASE q = p /\ procs'[p].st = "exited" /\ procs'[p].job = procs[p].job
      BY <1>2, <1>7, <3>1, <3>4 DEF ProcOK
    <3> QED
      BY <1>5, <3>2, <3>3, <3>4
  <2> QED
    BY <2>1 DEF ProcInv
<1>9. ResultInv'
  <2>1. ASSUME NEW v \in Workers, NEW q \in 1..MaxProcs, procs'[q].by = v
        PROVE  procs'[q].wrote = procs[q].wrote
    <3>1. v # NoOne
      BY InstallAssumption
    <3> QED
      BY <1>5, <1>7, <2>1, <3>1, FreeProc
  <2> QED
    BY <1>2, <1>7, <2>1 DEF IInv, ResultInv, ResultOfThisRun, Waiting
<1> QED
  BY <1>1, <1>6, <1>8, <1>9 DEF IInv

-----------------------------------------------------------------------------
(* Steps of other parties *)

\* So do an installer that takes the lock, uninstalls and the client thread.
LEMMA OtherSteps ==
  ASSUME IInv,
         \/ \E p \in 1..MaxProcs : InstallerLocks(p)
         \/ \E a \in Apps : Uninstall(a)
         \/ \E c \in Callers : PreUpdateCheck(c) \/ SynchronizeClientState(c)
         \/ UNCHANGED vars
  PROVE  IInv'
<1>1. TypeOK'
  BY OtherType DEF IInv
<1>2. UNCHANGED <<stable, pc, job, todo, procs, overdue>>
  BY DEF InstallerLocks, Uninstall, PreUpdateCheck, SynchronizeClientState, vars, locks, local, env
<1>3. \A a \in Apps : clients'[a] = clients[a] \/ clients'[a] = 0
  BY DEF InstallerLocks, Uninstall, PreUpdateCheck, SynchronizeClientState, vars, registry, IInv, TypeOK
<1>4. \A a \in Apps : /\ cstate[a].key => cstate'[a].key
                      /\ cstate'[a].pre = cstate[a].pre
                      /\ cstate'[a].result = cstate[a].result
  <2>1. \/ cstate' = cstate
        \/ \E a \in Apps : cstate' = [cstate EXCEPT ![a].key = TRUE, ![a].pv = clients[a]]
    BY DEF InstallerLocks, Uninstall, PreUpdateCheck, SynchronizeClientState, vars, registry
  <2>2. cstate \in [Apps -> States]
    BY DEF IInv, TypeOK, States
  <2>3. ASSUME NEW a \in Apps, cstate' = [cstate EXCEPT ![a].key = TRUE, ![a].pv = clients[a]],
               NEW b \in Apps
        PROVE  /\ cstate[b].key => cstate'[b].key
               /\ cstate'[b].pre = cstate[b].pre /\ cstate'[b].result = cstate[b].result
    BY <2>2, <2>3 DEF States
  <2> QED
    BY <2>1, <2>3
<1>5. LockInv' /\ JobInv' /\ ProcInv'
  BY <1>2 DEF IInv, LockInv, JobInv, ProcInv, ProcOK
<1>6. DataInv' /\ ResultInv'
  <2>1. \A w \in Workers : pc[w] # "idle" => job[w].app \in Apps
    BY DEF IInv, JobInv
  <2> QED
    BY <1>2, <1>4, <2>1 DEF IInv, DataInv, ResultInv, ResultOfThisRun, Waiting
<1>7. TodoInv'
  <2>1. \A w \in Workers : todo[w] \subseteq Apps
    BY DEF IInv, TypeOK
  <2> QED
    BY <1>2, <1>3, <2>1 DEF IInv, TodoInv
<1> QED
  BY <1>1, <1>5, <1>6, <1>7 DEF IInv

\* So does a restart of the machine.
LEMMA RebootStep == ASSUME IInv, Reboot PROVE IInv'
<1>1. TypeOK'
  BY OtherType DEF IInv
<1>2. /\ \A w \in Workers : pc'[w] = "idle" /\ todo'[w] = {}
      /\ \A p \in 1..MaxProcs : procs'[p].st = "free" /\ procs'[p].by = NoOne
  BY Constants DEF Reboot
<1> QED
  BY <1>1, <1>2, InstallAssumption
  DEF IInv, LockInv, JobInv, ProcInv, ProcOK, DataInv, ResultInv, ResultOfThisRun, Waiting, TodoInv, Locked

\* The invariant holds at first.
LEMMA InitIInv == Init => IInv
<1> SUFFICES ASSUME Init PROVE IInv
  OBVIOUS
<1>1. /\ \A w \in Workers : pc[w] = "idle" /\ todo[w] = {}
      /\ \A p \in 1..MaxProcs : procs[p].st = "free" /\ procs[p].by = NoOne
  BY Constants DEF Init
<1> QED
  BY <1>1, InitType, InstallAssumption
  DEF IInv, LockInv, JobInv, ProcInv, ProcOK, DataInv, ResultInv, ResultOfThisRun, Waiting, TodoInv, Locked

\* Every step keeps the invariant.
LEMMA NextIInv == IInv /\ [Next]_vars => IInv'
<1> SUFFICES ASSUME IInv, [Next]_vars PROVE IInv'
  OBVIOUS
<1>1. ASSUME NEW w \in Workers, BeginJob(w) \/ WorkerStep(w) PROVE IInv'
  BY <1>1, BeginStep, ReportSteps, PrepareSteps, StartStep, WaitStep, GetInstallerResultStep,
     FinishSteps
  DEF WorkerStep
<1> QED
  BY <1>1, RegisterStep, SetInstallerResultStep, ExitStep, OtherSteps, RebootStep DEF Next

\* The type invariant, who holds the lock, whom each installer belongs to and what
\* its ClientState holds are invariant, in any history of installs, uninstalls and
\* restarts (install_manager.cc, InstallApp; installer_wrapper.cc; worker.cc,
\* AddUninstalledAppsPings).
THEOREM Inductive == Spec => []IInv
<1>1. Init => IInv
  BY InitIInv
<1>2. IInv /\ [Next]_vars => IInv'
  BY NextIInv
<1> QED
  BY <1>1, <1>2, PTL DEF Spec

\* The pre-install data of a running installer are there while its worker waits
\* (install_manager.cc, InstallApp; app_manager.cc, WritePreInstallData and
\* RemoveClientState).
THEOREM DataTheorem == Spec => []PreInstallDataKept
<1>1. IInv => PreInstallDataKept
  <2> SUFFICES ASSUME IInv, NEW p \in 1..MaxProcs, procs[p].st = "running", procs[p].by # NoOne,
                      ~procs[p].job.update
               PROVE  cstate[procs[p].job.app].key /\ cstate[procs[p].job.app].pre
    BY DEF PreInstallDataKept
  <2>1. /\ procs[p].by \in Workers /\ pc[procs[p].by] \in {"wait", "result"}
        /\ procs[p].job = job[procs[p].by]
    BY DEF IInv, TypeOK, ProcInv, ProcOK
  <2> QED
    BY <2>1 DEF IInv, DataInv
<1> QED
  BY <1>1, Inductive, PTL

\* Unless an installer of the application was given up, the result read from its
\* ClientState key is the one its installer wrote (installer_wrapper.cc,
\* DoExecuteAndWaitForInstaller and GetInstallerResult).
THEOREM ResultTheorem == Spec => []ResultOfThisRun
<1>1. IInv => ResultOfThisRun
  BY DEF IInv, ResultInv
<1> QED
  BY <1>1, Inductive, PTL

\* Only two steps delete a ClientState key.
LEMMA WhoDeletes ==
  ASSUME IInv, Next, NEW a \in Apps, Deleted(a)
  PROVE  \E w \in Workers : \/ ForgetUninstalledApp(w) /\ a = Current(w)
                            \/ Finish(w) /\ a = job[w].app /\ ~IsAppRegistered(a)
<1> cstate \in [Apps -> States]
  BY DEF IInv, TypeOK, States
<1>1. cstate' # cstate
  BY DEF Deleted
<1>2. \A b : cstate' # [cstate EXCEPT ![b].key = TRUE]
  BY DEF Deleted, States
<1>3. \A b : cstate' # [cstate EXCEPT ![b].result = NoResult]
  BY DEF Deleted, States
<1>4. \A b, r : cstate' # [cstate EXCEPT ![b].key = TRUE, ![b].result = r]
  BY DEF Deleted, States
<1>5. \A b, v : cstate' # [cstate EXCEPT ![b].key = TRUE, ![b].pv = v]
  BY DEF Deleted, States
<1>6. \A b : cstate' # [cstate EXCEPT ![b].key = TRUE, ![b].pre = TRUE]
  BY DEF Deleted, States
<1>7. \A b : cstate' = [cstate EXCEPT ![b] = NoState] => a = b
  BY DEF Deleted
<1>8. ASSUME NEW w \in Workers, BeginJob(w) \/ WorkerStep(w)
      PROVE  ForgetUninstalledApp(w) \/ Finish(w)
  <2>1. ~BeginJob(w) /\ ~AddUninstalledAppsPings(w) /\ ~CreateUninstalledApp(w)
        /\ ~ReadUninstalledAppPersistentData(w) /\ ~AddPingEvent(w) /\ ~EndUninstalledAppsPings(w)
    BY <1>1 DEF BeginJob, AddUninstalledAppsPings, CreateUninstalledApp,
                ReadUninstalledAppPersistentData, AddPingEvent, EndUninstalledAppsPings, registry
  <2>2. ~TakeStableStateLock(w) /\ ~TakeModelLock(w) /\ ~Start(w) /\ ~Wait(w)
        /\ ~RetakeModelLock(w) /\ ~Check(w)
    BY <1>1 DEF TakeStableStateLock, TakeModelLock, Start, Wait, RetakeModelLock, Check, registry
  <2>3. ~Prepare(w)
    BY <1>1, <1>2, <1>6 DEF Prepare, WritePreInstallData
  <2>4. ~Clear(w) /\ ~GetInstallerResult(w)
    BY <1>3 DEF Clear, GetInstallerResult, ClearInstallerResultApiValues
  <2> QED
    BY <1>8, <2>1, <2>2, <2>3, <2>4 DEF WorkerStep
<1>9. ASSUME NEW w \in Workers, ForgetUninstalledApp(w) PROVE a = Current(w)
  BY <1>7, <1>9 DEF ForgetUninstalledApp, RemoveClientState
<1>10. ASSUME NEW w \in Workers, Finish(w) PROVE a = job[w].app /\ ~IsAppRegistered(a)
  BY <1>1, <1>5, <1>7, <1>10
  DEF Finish, PersistSuccessfulInstall, RemoveClientState, RemovesClientState
<1>11. ASSUME NEW p \in 1..MaxProcs,
              InstallerLocks(p) \/ Register(p) \/ SetInstallerResult(p) \/ Exit(p)
       PROVE  FALSE
  BY <1>1, <1>4, <1>11 DEF InstallerLocks, Register, SetInstallerResult, Exit, registry
<1>12. ASSUME NEW c \in Callers, PreUpdateCheck(c) \/ SynchronizeClientState(c) PROVE FALSE
  BY <1>1, <1>5, <1>12 DEF PreUpdateCheck, SynchronizeClientState, registry
<1>13. ~Reboot /\ \A b \in Apps : ~Uninstall(b)
  BY <1>1 DEF Reboot, Uninstall, registry
<1> QED
  BY <1>8, <1>9, <1>10, <1>11, <1>12, <1>13 DEF Next

\* Unless an installer of the application was given up, its ClientState key is
\* deleted only while the application is unregistered and none of its installers
\* runs (install_manager.cc, InstallApp; worker.cc, AddUninstalledAppsPings).
THEOREM StateTheorem == Spec => StateKeptForInstaller
<1>1. IInv /\ [Next]_vars =>
        [\A a \in Apps : Deleted(a) /\ a \notin overdue => SafeToDelete(a)]_vars
  <2> SUFFICES ASSUME IInv, Next, NEW a \in Apps, Deleted(a), a \notin overdue
               PROVE  SafeToDelete(a)
    OBVIOUS
  <2>1. PICK w \in Workers : \/ ForgetUninstalledApp(w) /\ a = Current(w)
                             \/ Finish(w) /\ a = job[w].app /\ ~IsAppRegistered(a)
    BY WhoDeletes
  <2>2. pc[w] \in {"remove", "finish"}
    BY <2>1 DEF ForgetUninstalledApp, Finish, Goto
  <2>3. ~IsAppRegistered(a)
    <3>1. CASE ForgetUninstalledApp(w) /\ a = Current(w)
      <4>1. pc[w] = "remove"
        BY <3>1 DEF ForgetUninstalledApp, Goto
      <4>2. a \in todo[w]
        BY <3>1, <4>1, CurrentInTodo DEF IInv
      <4> QED
        BY <4>1, <4>2 DEF IInv, TodoInv, IsAppRegistered
    <3> QED
      BY <2>1, <3>1
  <2>4. ASSUME NEW p \in 1..MaxProcs, procs[p].st = "running", procs[p].job.app = a PROVE FALSE
    <3>1. pc[procs[p].by] = "wait" /\ procs[p].by = w
      BY <2>2, <2>4, RunsAlone DEF Locked
    <3> QED
      BY <2>2, <3>1
  <2> QED
    BY <2>3, <2>4 DEF SafeToDelete
<1> QED
  BY <1>1, Inductive, PTL DEF Spec, StateKeptForInstaller

-----------------------------------------------------------------------------
(* Uninstall events *)

\* A step that reports and uninstalls nothing and adds nothing owed keeps CountInv.
LEMMA CountKept ==
  ASSUME CountInv, UNCHANGED <<reported, uninstalls, reboots>>, \A a \in Apps : Owed(a)' => Owed(a)
  PROVE  CountInv'
BY DEF CountInv

\* Nobody begins or ends to report or to finish, and nothing is unregistered.
LEMMA OwedKept ==
  ASSUME NEW a \in Apps,
         \A v \in Workers :
           pc[v] \in {"next", "read", "event", "remove", "finish"}
           \/ pc'[v] \in {"next", "read", "event", "remove", "finish"} =>
             pc'[v] = pc[v] /\ todo'[v] = todo[v] /\ job'[v] = job[v] /\ hr'[v] = hr[v],
         clients'[a] = 0 => clients[a] = 0 /\ cstate'[a].pv = cstate[a].pv,
         Owed(a)'
  PROVE  Owed(a)
<1>1. \A v \in Workers : todo'[v] = todo[v] => Current(v)' = Current(v)
  BY DEF Current
<1>2. Finishing(a)' <=> Finishing(a)
  BY DEF Finishing
<1>3. Removing(a)' <=> Removing(a)
  BY <1>1 DEF Removing
<1>4. Reporting(a)' <=> Reporting(a)
  BY <1>1 DEF Reporting
<1> QED
  BY <1>2, <1>3, <1>4 DEF Owed

\* The updates of ClientState that leave pv alone.
LEMMA PvKept ==
  ASSUME TypeOK, NEW a \in Apps,
         \/ cstate' = cstate
         \/ \E b : cstate' = [cstate EXCEPT ![b].key = TRUE]
         \/ \E b : cstate' = [cstate EXCEPT ![b].result = NoResult]
         \/ \E b : cstate' = [cstate EXCEPT ![b].key = TRUE, ![b].pre = TRUE]
         \/ \E b, r : cstate' = [cstate EXCEPT ![b].key = TRUE, ![b].result = r]
  PROVE  cstate'[a].pv = cstate[a].pv
<1> cstate \in [Apps -> States]
  BY DEF TypeOK, States
<1>1. ASSUME NEW b, cstate' = [cstate EXCEPT ![b].key = TRUE] PROVE cstate'[a].pv = cstate[a].pv
  BY <1>1, SMTT(30) DEF States
<1>2. ASSUME NEW b, cstate' = [cstate EXCEPT ![b].result = NoResult]
      PROVE  cstate'[a].pv = cstate[a].pv
  BY <1>2, SMTT(30) DEF States
<1>3. ASSUME NEW b, cstate' = [cstate EXCEPT ![b].key = TRUE, ![b].pre = TRUE]
      PROVE  cstate'[a].pv = cstate[a].pv
  BY <1>3, SMTT(30) DEF States
<1>4. ASSUME NEW b, NEW r, cstate' = [cstate EXCEPT ![b].key = TRUE, ![b].result = r]
      PROVE  cstate'[a].pv = cstate[a].pv
  BY <1>4, SMTT(30) DEF States
<1> QED
  BY <1>1, <1>2, <1>3, <1>4

\* The steps of an install keep CountInv.
LEMMA WorkCount ==
  ASSUME IInv, CountInv, NEW w \in Workers,
         \/ BeginJob(w) \/ TakeStableStateLock(w) \/ TakeModelLock(w) \/ Prepare(w) \/ Clear(w)
         \/ Start(w) \/ Wait(w) \/ GetInstallerResult(w) \/ RetakeModelLock(w)
  PROVE  CountInv'
<1>1. UNCHANGED <<clients, todo, reported, uninstalls, reboots>>
  BY DEF BeginJob, TakeStableStateLock, TakeModelLock, Prepare, Clear, Start, Wait,
         GetInstallerResult, RetakeModelLock, registry, local, env
<1>2. /\ pc[w] \in {"idle", "install", "prepare", "pre", "clear", "start", "wait", "result", "locked"}
      /\ \E x \in {"uninstalled", "prepare", "pre", "clear", "idle", "start", "wait", "locked",
                   "result", "report"} : pc' = [pc EXCEPT ![w] = x]
  BY DEF BeginJob, TakeStableStateLock, TakeModelLock, Prepare, Clear, Start, Wait,
         GetInstallerResult, RetakeModelLock, Goto
<1>3. /\ pc'[w] \in {"uninstalled", "prepare", "pre", "clear", "idle", "start", "wait", "locked",
                     "result", "report"}
      /\ \A v \in Workers \ {w} : pc'[v] = pc[v]
  BY <1>2 DEF IInv, TypeOK
<1>4. job' = job \/ \E j : job' = [job EXCEPT ![w] = j]
  BY DEF BeginJob, TakeStableStateLock, TakeModelLock, Prepare, Clear, Start, Wait,
         GetInstallerResult, RetakeModelLock, local
<1>5. hr' = hr \/ \E x : hr' = [hr EXCEPT ![w] = x]
  BY DEF BeginJob, TakeStableStateLock, TakeModelLock, Prepare, Clear, Start, Wait,
         GetInstallerResult, RetakeModelLock, local
<1>6. \A v \in Workers \ {w} : job'[v] = job[v] /\ hr'[v] = hr[v]
  BY <1>4, <1>5 DEF IInv, TypeOK
<1>7. \/ cstate' = cstate
      \/ \E b : cstate' = [cstate EXCEPT ![b].key = TRUE]
      \/ \E b : cstate' = [cstate EXCEPT ![b].result = NoResult]
      \/ \E b : cstate' = [cstate EXCEPT ![b].key = TRUE, ![b].pre = TRUE]
  BY DEF BeginJob, TakeStableStateLock, TakeModelLock, Prepare, Clear, Start, Wait,
         GetInstallerResult, RetakeModelLock, registry, WritePreInstallData,
         ClearInstallerResultApiValues
<1>8. \A a \in Apps : cstate'[a].pv = cstate[a].pv
  BY <1>7, PvKept DEF IInv
<1>9. \A a \in Apps : Owed(a)' => Owed(a)
  BY <1>1, <1>2, <1>3, <1>6, <1>8, OwedKept
<1> QED
  BY <1>1, <1>9, CountKept

\* The steps of installers and of the client thread keep CountInv.
LEMMA OtherCount ==
  ASSUME IInv, VersionInv, CountInv,
         \/ \E p \in 1..MaxProcs : InstallerLocks(p) \/ Register(p) \/ SetInstallerResult(p) \/ Exit(p)
         \/ \E c \in Callers : PreUpdateCheck(c) \/ SynchronizeClientState(c)
         \/ UNCHANGED vars
  PROVE  CountInv'
<1>1. UNCHANGED <<pc, job, todo, hr, reported, uninstalls, reboots>>
  BY DEF InstallerLocks, Register, SetInstallerResult, Exit, PreUpdateCheck,
         SynchronizeClientState, vars, local, env
<1>2. ASSUME NEW a \in Apps, clients'[a] = 0 PROVE clients[a] = 0 /\ cstate'[a].pv = cstate[a].pv
  <2>1. CASE \E p \in 1..MaxProcs : Register(p)
    BY <1>2, <2>1 DEF IInv, TypeOK, VersionInv, Register
  <2>2. CASE \E p \in 1..MaxProcs : SetInstallerResult(p)
    <3>1. clients' = clients /\ \E b, r : cstate' = [cstate EXCEPT ![b].key = TRUE, ![b].result = r]
      BY <2>2 DEF SetInstallerResult
    <3> QED
      BY <1>2, <3>1, PvKept DEF IInv
  <2>3. CASE \E c \in Callers : SynchronizeClientState(c)
    <3>1. PICK b \in Apps :
            cstate' = IF clients[b] # 0
                      THEN [cstate EXCEPT ![b].key = TRUE, ![b].pv = clients[b]] ELSE cstate
      BY <2>3 DEF SynchronizeClientState, IsAppRegistered
    <3>2. clients' = clients
      BY <2>3 DEF SynchronizeClientState
    <3> QED
      BY <1>2, <3>1, <3>2 DEF IInv, TypeOK
  <2>4. CASE UNCHANGED registry
    BY <1>2, <2>4 DEF registry
  <2> QED
    BY <2>1, <2>2, <2>3, <2>4 DEF InstallerLocks, Exit, PreUpdateCheck, vars
<1>3. \A a \in Apps : Owed(a)' => Owed(a)
  BY <1>1, <1>2, OwedKept
<1> QED
  BY <1>1, <1>3, CountKept

\* A worker that looks for uninstalled applications is alone.
LEMMA ReportCount ==
  ASSUME IInv, CountInv, NEW w \in Workers,
         \/ AddUninstalledAppsPings(w) \/ CreateUninstalledApp(w)
         \/ ReadUninstalledAppPersistentData(w) \/ EndUninstalledAppsPings(w)
  PROVE  CountInv'
<1>1. UNCHANGED <<clients, cstate, job, hr, reported, uninstalls, reboots>>
  BY DEF AddUninstalledAppsPings, CreateUninstalledApp, ReadUninstalledAppPersistentData,
         EndUninstalledAppsPings, registry, local, env
<1>2. /\ pc[w] \in {"uninstalled", "next", "read"} /\ pc'[w] \in {"next", "read", "event", "install"}
      /\ \A v \in Workers \ {w} : pc'[v] = pc[v] /\ todo'[v] = todo[v]
  BY DEF IInv, TypeOK, AddUninstalledAppsPings, CreateUninstalledApp,
         ReadUninstalledAppPersistentData, EndUninstalledAppsPings, Goto, local
<1>3. \A v \in Workers \ {w} : pc[v] \notin Locked
  <2>1. CASE AddUninstalledAppsPings(w)
    BY <2>1, InstallAssumption DEF IInv, LockInv, AddUninstalledAppsPings
  <2>2. CASE ~AddUninstalledAppsPings(w)
    <3>1. pc[w] \in Locked
      BY <2>2 DEF CreateUninstalledApp, ReadUninstalledAppPersistentData,
                  EndUninstalledAppsPings, Goto, Locked
    <3> QED
      BY <3>1, Solo DEF IInv
  <2> QED
    BY <2>1, <2>2
<1>4. ASSUME NEW a \in Apps, Owed(a)' PROVE Owed(a)
  <2>1. ~Removing(a) /\ ~Finishing(a)'
    BY <1>2, <1>3 DEF Removing, Finishing, Locked
  <2>2. CASE Reporting(a)'
    <3>1. a \in todo'[w]
      BY <1>2, <1>3, <2>2 DEF Reporting, Locked
    <3>2. CASE AddUninstalledAppsPings(w)
      <4>1. IsAppUninstalled(a)
        BY <3>1, <3>2 DEF IInv, TypeOK, AddUninstalledAppsPings, GetUninstalledApps
      <4> QED
        BY <2>1, <4>1 DEF Owed, IsAppUninstalled, IsAppRegistered
    <3>3. CASE ~AddUninstalledAppsPings(w)
      <4>1. a \in todo[w] /\ pc[w] \in {"next", "read"}
        BY <3>1, <3>3 DEF IInv, TypeOK, CreateUninstalledApp, ReadUninstalledAppPersistentData,
                          EndUninstalledAppsPings, Goto, local
      <4> QED
        BY <4>1 DEF Owed, Reporting
    <3> QED
      BY <3>2, <3>3
  <2> QED
    BY <1>1, <1>4, <2>1, <2>2 DEF Owed
<1> QED
  BY <1>1, <1>4, CountKept

\* The event is the one that is owed, and none is owed until the key is gone.
LEMMA EventCount == ASSUME IInv, CountInv, NEW w \in Workers, AddPingEvent(w) PROVE CountInv'
<1>1. UNCHANGED <<clients, cstate, job, todo, hr, uninstalls, reboots>>
  BY DEF AddPingEvent, registry, local
<1>2. /\ pc[w] = "event" /\ pc'[w] = "remove"
      /\ \A v \in Workers \ {w} : pc'[v] = pc[v] /\ pc[v] \notin Locked
  <2>1. pc[w] = "event" /\ pc' = [pc EXCEPT ![w] = "remove"]
    BY DEF AddPingEvent, Goto
  <2> QED
    BY <2>1, Solo DEF IInv, TypeOK, Locked
<1>3. PICK a \in Apps : a = Current(w) /\ a \in todo[w]
  BY <1>2, CurrentInTodo DEF IInv
<1>4. Current(w)' = a
  BY <1>1, <1>3 DEF Current
<1>5. /\ reported[a] < uninstalls[a] + reboots
      /\ reported'[a] = reported[a] + 1 /\ \A b \in Apps \ {a} : reported'[b] = reported[b]
  <2>1. Owed(a)
    BY <1>2, <1>3 DEF Owed, Reporting
  <2> QED
    BY <1>3, <2>1 DEF CountInv, AddPingEvent, IInv, TypeOK
<1>6. ~Owed(a)'
  <2>1. Removing(a)'
    BY <1>2, <1>4 DEF Removing
  <2>2. ~Reporting(a)'
    BY <1>2, <1>4 DEF Reporting, Locked
  <2> QED
    BY <2>1, <2>2 DEF Owed
<1>7. ASSUME NEW b \in Apps \ {a}, Owed(b)' PROVE Owed(b)
  <2>1. ~Removing(b) /\ ~Finishing(b)'
    BY <1>2 DEF Removing, Finishing, Locked
  <2>2. Reporting(b)' => Reporting(b)
    BY <1>1, <1>2 DEF Reporting, Locked
  <2> QED
    BY <1>1, <1>7, <2>1, <2>2 DEF Owed
<1>8. \A b \in Apps : reported[b] \in Nat /\ uninstalls[b] \in Nat /\ reboots \in Nat
  BY DEF IInv, TypeOK
<1> QED
  BY <1>1, <1>5, <1>6, <1>7, <1>8, SMTT(30) DEF CountInv

\* The last step of a report pays what is owed.
LEMMA ForgetCount == ASSUME IInv, CountInv, NEW w \in Workers, ForgetUninstalledApp(w) PROVE CountInv'
<1> DEFINE a == Current(w)
<1>1. UNCHANGED <<clients, job, hr, reported, uninstalls, reboots>>
  BY DEF ForgetUninstalledApp, env
<1>2. /\ pc[w] = "remove" /\ pc'[w] = "next" /\ todo'[w] = todo[w] \ {a}
      /\ \A v \in Workers \ {w} : pc'[v] = pc[v] /\ pc[v] \notin Locked
  <2>1. pc[w] = "remove" /\ pc' = [pc EXCEPT ![w] = "next"]
    BY DEF ForgetUninstalledApp, Goto
  <2> QED
    BY <2>1, Solo DEF IInv, TypeOK, Locked, ForgetUninstalledApp
<1>3. a \in Apps
  BY <1>2, CurrentInTodo DEF IInv
<1>4. cstate'[a].pv = 0 /\ \A b \in Apps \ {a} : cstate'[b] = cstate[b]
  BY <1>3, Constants DEF IInv, TypeOK, ForgetUninstalledApp, RemoveClientState
<1> a = Current(w)
  OBVIOUS
<1> HIDE DEF a
<1>5. ASSUME NEW b \in Apps, Owed(b)' PROVE Owed(b)
  <2>1. ~Finishing(b)'
    BY <1>2 DEF Finishing, Locked
  <2>2. CASE Reporting(b)'
    <3>1. b \in todo[w] /\ b # a
      BY <1>2, <2>2 DEF Reporting, Locked
    <3> QED
      BY <1>2, <3>1 DEF Owed, Reporting
  <2>3. CASE ~Reporting(b)'
    <3>1. clients[b] = 0 /\ cstate[b].pv # 0 /\ b # a
      BY <1>1, <1>4, <1>5, <2>1, <2>3 DEF Owed
    <3>2. ~Removing(b)
      BY <1>2, <3>1 DEF Removing, Locked
    <3> QED
      BY <3>1, <3>2 DEF Owed
  <2> QED
    BY <2>2, <2>3
<1> QED
  BY <1>1, <1>5, CountKept

\* An install that is recorded found its application registered.
LEMMA FinishCount ==
  ASSUME IInv, CountInv, NEW w \in Workers, Check(w) \/ Finish(w) PROVE CountInv'
<1>1. UNCHANGED <<clients, todo, reported, uninstalls, reboots>>
  BY DEF Check, Finish, registry, env
<1>2. /\ \/ Check(w) /\ pc[w] = "report" /\ pc'[w] = "finish"
         \/ Finish(w) /\ pc[w] = "finish" /\ pc'[w] = "idle"
      /\ \A v \in Workers \ {w} : pc'[v] = pc[v]
  BY DEF IInv, TypeOK, Check, Finish, Goto
<1>3. \A v \in Workers \ {w} : pc[v] \notin Locked
  BY <1>2, Solo DEF IInv, Locked
<1>4. job[w].app \in Apps
  BY <1>2 DEF IInv, JobInv
<1>5. ASSUME NEW a \in Apps, Owed(a)' PROVE Owed(a)
  <2>1. ~Reporting(a)' /\ ~Removing(a)
    BY <1>2, <1>3 DEF Reporting, Removing, Locked
  <2>2. clients[a] = 0 /\ (cstate'[a].pv # 0 \/ Finishing(a)')
    BY <1>1, <1>5, <2>1 DEF Owed
  <2>3. CASE Check(w)
    <3>1. cstate' = cstate
      BY <2>3 DEF Check, registry
    <3>2. ~Finishing(a)'
      <4> SUFFICES ASSUME Finishing(a)' PROVE FALSE
        OBVIOUS
      <4>1. hr'[w] = "S_OK" /\ job'[w].app = a
        BY <1>2, <1>3 DEF Finishing, Locked
      <4>2. hr[w] = "S_OK"
        BY <2>3, <4>1 DEF IInv, TypeOK, Check
      <4>3. hr' = [hr EXCEPT ![w] = IF CheckApplicationRegistration(job[w], clients[job[w].app])
                                    THEN @ ELSE "NOT_REGISTERED"]
        BY <2>3, <4>2 DEF Check
      <4>4. clients[job[w].app] # 0
        BY <4>1, <4>3 DEF IInv, TypeOK, CheckApplicationRegistration
      <4>5. \E v : job' = [job EXCEPT ![w].next = v]
        BY <2>3, <4>2 DEF Check
      <4>6. job'[w].app = job[w].app
        BY <4>5 DEF IInv, TypeOK, JobRecords
      <4> QED
        BY <2>2, <4>1, <4>4, <4>6
    <3> QED
      BY <2>1, <2>2, <3>1, <3>2 DEF Owed
  <2>4. CASE Finish(w)
    <3>1. ~Finishing(a)' /\ pc[w] = "finish"
      BY <1>2, <1>3, <2>4, SMTT(30) DEF Finishing, Locked, Finish, Goto
    <3>2. \/ cstate' = cstate \/ cstate' = [cstate EXCEPT ![job[w].app] = NoState]
          \/ hr[w] = "S_OK"
             /\ cstate' = [cstate EXCEPT ![job[w].app].key = TRUE, ![job[w].app].pv = job[w].next]
      BY <2>4 DEF Finish, PersistSuccessfulInstall, RemoveClientState
    <3>3. cstate[a].pv # 0 \/ (hr[w] = "S_OK" /\ job[w].app = a)
      <4>1. cstate'[a].pv # 0
        BY <2>2, <3>1
      <4> QED
        BY <1>4, <3>2, <4>1, Constants DEF IInv, TypeOK
    <3> QED
      BY <2>1, <2>2, <3>1, <3>3 DEF Owed, Finishing
  <2> QED
    BY <2>3, <2>4
<1> QED
  BY <1>1, <1>5, CountKept

\* An uninstall or a restart allows one more report.
LEMMA RaiseCount == ASSUME IInv, CountInv, Reboot \/ \E a \in Apps : Uninstall(a) PROVE CountInv'
<1>1. \A b \in Apps : reported[b] \in Nat /\ uninstalls[b] \in Nat /\ reboots \in Nat
  BY DEF IInv, TypeOK
<1>2. CASE Reboot
  <2>1. reboots' = reboots + 1 /\ uninstalls' = uninstalls /\ reported' = reported
    BY <1>2 DEF Reboot
  <2>2. ASSUME NEW b \in Apps PROVE reported'[b] < uninstalls'[b] + reboots'
    <3>1. reported[b] <= uninstalls[b] + reboots
      BY DEF CountInv
    <3> QED
      BY <1>1, <2>1, <3>1, SMTT(30)
  <2>3. \A b \in Apps : reported'[b] \in Nat /\ uninstalls'[b] \in Nat /\ reboots' \in Nat
    BY <1>1, <2>1, SMTT(30)
  <2> QED
    BY <2>2, <2>3, SMTT(30) DEF CountInv
<1>3. ASSUME NEW a \in Apps, Uninstall(a) PROVE CountInv'
  <2>1. UNCHANGED <<cstate, pc, job, todo, hr, reported, reboots>>
    BY <1>3 DEF Uninstall, local
  <2>2. /\ uninstalls'[a] = uninstalls[a] + 1
        /\ \A b \in Apps \ {a} : uninstalls'[b] = uninstalls[b] /\ clients'[b] = clients[b]
    BY <1>3 DEF IInv, TypeOK, Uninstall
  <2>3. \A b \in Apps \ {a} : Owed(b)' => Owed(b)
    BY <2>1, <2>2, OwedKept
  <2>4. ASSUME NEW b \in Apps
        PROVE  /\ reported'[b] <= uninstalls'[b] + reboots'
               /\ Owed(b)' => reported'[b] < uninstalls'[b] + reboots'
    <3>1. /\ reported[b] <= uninstalls[b] + reboots
          /\ Owed(b) => reported[b] < uninstalls[b] + reboots
      BY DEF CountInv
    <3>2. reported'[b] = reported[b] /\ reboots' = reboots
      BY <2>1
    <3>3. CASE b = a
      BY <1>1, <2>2, <3>1, <3>2, <3>3, SMTT(30)
    <3>4. CASE b # a
      BY <2>2, <2>3, <3>1, <3>2, <3>4
    <3> QED
      BY <3>3, <3>4
  <2> QED
    BY <2>4 DEF CountInv
<1> QED
  BY <1>2, <1>3

\* VersionInv is kept.
LEMMA VersionStep == ASSUME IInv, VersionInv, [Next]_vars PROVE VersionInv'
<1>1. ASSUME NEW w \in Workers, BeginJob(w) \/ WorkerStep(w) PROVE VersionInv'
  <2>1. \/ pc[w] = "idle" /\ \E j \in Jobs : job' = [job EXCEPT ![w] = j]
        \/ pc[w] # "idle" /\ job' = job
        \/ pc[w] # "idle" /\ \E v \in {job[w].next, clients[job[w].app]} :
             (v = job[w].next \/ v # 0) /\ job' = [job EXCEPT ![w].next = v]
        \/ pc' = [pc EXCEPT ![w] = "idle"] /\ job' = [job EXCEPT ![w] = NoJob]
    <3>1. CASE Check(w)
      <4>1. pc[w] # "idle"
        BY <3>1 DEF Check, Goto
      <4>2. \/ job' = job
            \/ job' = [job EXCEPT ![w].next = job[w].next]
            \/ clients[job[w].app] # 0 /\ job' = [job EXCEPT ![w].next = clients[job[w].app]]
        BY <3>1 DEF Check
      <4> QED
        BY <4>1, <4>2
    <3>2. CASE BeginJob(w) \/ Finish(w) \/ Prepare(w)
      BY <3>2 DEF BeginJob, Finish, Prepare, Goto
    <3> QED
      BY <1>1, <3>1, <3>2
      DEF WorkerStep, AddUninstalledAppsPings, CreateUninstalledApp,
          ReadUninstalledAppPersistentData, AddPingEvent, ForgetUninstalledApp,
          EndUninstalledAppsPings, TakeStableStateLock, TakeModelLock, Clear, Start, Wait,
          GetInstallerResult, RetakeModelLock, Goto, local
  <2>2. \A v \in Workers \ {w} : pc'[v] = pc[v]
    BY <1>1 DEF IInv, TypeOK, BeginJob, WorkerStep, AddUninstalledAppsPings, CreateUninstalledApp,
          ReadUninstalledAppPersistentData, AddPingEvent, ForgetUninstalledApp,
          EndUninstalledAppsPings, TakeStableStateLock, TakeModelLock, Prepare, Clear, Start, Wait,
          GetInstallerResult, RetakeModelLock, Check, Finish, Goto
  <2>3. \A j \in Jobs : j.next # 0
    BY InstallAssumption, SMTT(30) DEF Jobs, Versions
  <2>4. \A v \in Workers : pc'[v] # "idle" => job'[v].next # 0
    BY <2>1, <2>2, <2>3, SMTT(30) DEF IInv, TypeOK, JobRecords, VersionInv
  <2>5. \/ procs' = procs
        \/ /\ pc[w] = "start"
           /\ \E p \in 1..MaxProcs :
                procs' = [procs EXCEPT ![p].st = "running", ![p].by = w, ![p].job = job[w]]
        \/ \E p \in 1..MaxProcs :
             procs' = [procs EXCEPT ![p] = IF @.st = "exited" THEN NoProc ELSE [@ EXCEPT !.by = NoOne]]
    <3>1. CASE Start(w)
      BY <3>1 DEF Start, Goto
    <3>2. CASE GetInstallerResult(w)
      BY <3>2 DEF GetInstallerResult
    <3> QED
      BY <1>1, <3>1, <3>2
      DEF BeginJob, WorkerStep, AddUninstalledAppsPings, CreateUninstalledApp,
          ReadUninstalledAppPersistentData, AddPingEvent, ForgetUninstalledApp,
          EndUninstalledAppsPings, TakeStableStateLock, TakeModelLock, Prepare, Clear, Wait,
          RetakeModelLock, Check, Finish
  <2>6. \A p \in 1..MaxProcs : procs'[p].st = "running" => procs'[p].job.next # 0
    <3>1. procs \in [1..MaxProcs -> Procs] /\ NoProc.st # "running"
      BY Constants DEF IInv, TypeOK, Procs
    <3>2. CASE procs' = procs
      BY <3>2 DEF VersionInv
    <3>3. ASSUME NEW p \in 1..MaxProcs, pc[w] = "start",
                 procs' = [procs EXCEPT ![p].st = "running", ![p].by = w, ![p].job = job[w]],
                 NEW q \in 1..MaxProcs, procs'[q].st = "running"
          PROVE  procs'[q].job.next # 0
      <4>1. procs[p] \in Procs /\ job[w].next # 0
        BY <3>1, <3>3 DEF VersionInv
      <4>2. procs'[p].job = job[w]
        BY <3>1, <3>3, <4>1 DEF Procs
      <4>3. q # p => procs'[q] = procs[q]
        BY <3>1, <3>3
      <4> QED
        BY <3>3, <4>1, <4>2, <4>3 DEF VersionInv
    <3>4. ASSUME NEW p \in 1..MaxProcs,
                 procs' = [procs EXCEPT ![p] = IF @.st = "exited" THEN NoProc
                                               ELSE [@ EXCEPT !.by = NoOne]],
                 NEW q \in 1..MaxProcs, procs'[q].st = "running"
          PROVE  procs'[q].job.next # 0
      BY <3>1, <3>4 DEF Procs, VersionInv
    <3> QED
      BY <2>5, <3>2, <3>3, <3>4
  <2> QED
    BY <2>4, <2>6 DEF VersionInv
<1>2. ASSUME NEW p \in 1..MaxProcs, InstallerLocks(p) \/ Register(p) \/ SetInstallerResult(p) \/ Exit(p)
      PROVE  VersionInv'
  <2>1. UNCHANGED <<pc, job>>
    BY <1>2 DEF InstallerLocks, Register, SetInstallerResult, Exit, local
  <2>2. \/ procs' = procs \/ procs' = [procs EXCEPT ![p].wrote = TRUE]
        \/ procs' = [procs EXCEPT ![p] = NoProc]
        \/ \E code \in Codes : procs' = [procs EXCEPT ![p] = [@ EXCEPT !.st = "exited", !.exit = code]]
    BY <1>2 DEF InstallerLocks, Register, SetInstallerResult, Exit
  <2>3. procs \in [1..MaxProcs -> Procs] /\ NoProc.st # "running"
    BY Constants DEF IInv, TypeOK, Procs
  <2> QED
    BY <2>1, <2>2, <2>3 DEF VersionInv, Procs
<1>3. CASE \/ \E a \in Apps : Uninstall(a)
           \/ \E c \in Callers : PreUpdateCheck(c) \/ SynchronizeClientState(c)
           \/ UNCHANGED vars
  BY <1>3 DEF VersionInv, Uninstall, PreUpdateCheck, SynchronizeClientState, vars, local
<1>4. CASE Reboot
  BY <1>4, Constants DEF VersionInv, Reboot
<1> QED
  BY <1>1, <1>2, <1>3, <1>4 DEF Next

\* The counts agree at first.
LEMMA InitCount == Init => VersionInv /\ CountInv
<1> SUFFICES ASSUME Init PROVE VersionInv /\ CountInv
  OBVIOUS
<1>1. VersionInv
  BY Constants DEF Init, VersionInv
<1>2. \A a \in Apps : cstate[a].pv # 0 => cstate[a].key
  <2> DEFINE Old == [NoState EXCEPT !.key = TRUE, !.pv = 1]
  <2>1. Old.key /\ NoState.pv = 0
    BY DEF NoState
  <2>2. \A a \in Apps : cstate[a] \in {NoState, Old}
    <3> HIDE DEF Old
    <3>1. PICK s \in [Apps -> {NoState, Old}] :
            cstate = [a \in Apps |-> IF clients[a] = 0 THEN s[a] ELSE Old]
      BY DEF Init, Old
    <3> QED
      BY <3>1
  <2> QED
    BY <2>1, <2>2
<1>3. \A a \in Apps : ~Reporting(a) /\ ~Finishing(a)
  BY DEF Init, Reporting, Finishing
<1> QED
  BY <1>1, <1>2, <1>3, SMTT(30) DEF Init, CountInv, Owed

\* An application's uninstalls are reported once each, whichever bundles report
\* them, and at most once more for every restart (worker.cc,
\* AddUninstalledAppsPings; install_manager.cc, InstallApp).
THEOREM ReportTheorem == Spec => []UninstallReportedOnce
<1>1. Init => VersionInv /\ CountInv
  BY InitCount
<1>2. IInv /\ VersionInv /\ CountInv /\ [Next]_vars => VersionInv' /\ CountInv'
  <2> SUFFICES ASSUME IInv, VersionInv, CountInv, [Next]_vars PROVE VersionInv' /\ CountInv'
    OBVIOUS
  <2>1. ASSUME NEW w \in Workers, BeginJob(w) \/ WorkerStep(w) PROVE CountInv'
    BY <2>1, WorkCount, ReportCount, EventCount, ForgetCount, FinishCount DEF WorkerStep
  <2> QED
    BY <2>1, VersionStep, OtherCount, RaiseCount DEF Next
<1>3. CountInv => UninstallReportedOnce
  BY DEF CountInv, UninstallReportedOnce
<1> QED
  BY <1>1, <1>2, <1>3, Inductive, PTL DEF Spec

-----------------------------------------------------------------------------
(* Waiting for locks *)

\* The places between taking and leaving the model lock.
InModel == {"read", "pre", "report", "finish"}

\* registry_stable_state_lock_ has an owner only while a worker is inside it.
StableOwner == stable # NoOne => stable \in Workers /\ pc[stable] \in Locked

\* Who is inside the model lock owns it, and who owns it is inside.
ModelOwner ==
  /\ \A w \in Workers : pc[w] \in InModel => model = w
  /\ \A c \in Callers : calling[c] = "sync" => model = c
  /\ model # NoOne => \/ model \in Workers /\ pc[model] \in InModel
                      \/ model \in Callers /\ calling[model] = "sync"

\* registry_access_lock_ is kept between steps by a running installer only.
AccessOwner == access # NoOne => access \in 1..MaxProcs /\ procs[access].st = "running"

\* A process that has ended keeps its place for its worker, and a worker that
\* waits has a process.
ProcOwner ==
  /\ \A p \in 1..MaxProcs : procs[p].st = "exited" => procs[p].by # NoOne
  /\ \A w \in Workers : pc[w] \in {"wait", "result"} => \E p \in 1..MaxProcs : procs[p].by = w

\* Nobody keeps a lock or a process that it does not need.
OwnerInv == calling \in [Callers -> {"idle", "sync"}] /\ StableOwner /\ ModelOwner /\ AccessOwner /\ ProcOwner

\* The threads of clients.
LEMMA CallingStep ==
  ASSUME calling \in [Callers -> {"idle", "sync"}], [Next]_vars
  PROVE  calling' \in [Callers -> {"idle", "sync"}]
<1>1. ASSUME NEW c \in Callers, PreUpdateCheck(c) \/ SynchronizeClientState(c)
      PROVE  calling' \in [Callers -> {"idle", "sync"}]
  BY <1>1 DEF PreUpdateCheck, SynchronizeClientState
<1>2. CASE Reboot
  BY <1>2 DEF Reboot
<1>3. ASSUME NEW w \in Workers, BeginJob(w) \/ WorkerStep(w) PROVE UNCHANGED calling
  BY <1>3 DEF BeginJob, WorkerStep, AddUninstalledAppsPings, CreateUninstalledApp,
     ReadUninstalledAppPersistentData, AddPingEvent, ForgetUninstalledApp, EndUninstalledAppsPings,
     TakeStableStateLock, TakeModelLock, Prepare, Clear, Start, Wait, GetInstallerResult,
     RetakeModelLock, Check, Finish, env
<1>4. ASSUME NEW p \in 1..MaxProcs,
             InstallerLocks(p) \/ Register(p) \/ SetInstallerResult(p) \/ Exit(p)
      PROVE  UNCHANGED calling
  BY <1>4 DEF InstallerLocks, Register, SetInstallerResult, Exit, env
<1>5. ASSUME NEW a \in Apps, Uninstall(a) PROVE UNCHANGED calling
  BY <1>5 DEF Uninstall
<1>6. CASE UNCHANGED vars
  BY <1>6 DEF vars, env
<1> QED
  BY <1>1, <1>2, <1>3, <1>4, <1>5, <1>6 DEF Next

\* A worker that moves inside the stable state still owns it, and one that
\* leaves it gives it back.
LEMMA StableStep ==
  ASSUME IInv, StableOwner, [Next]_vars
  PROVE  StableOwner'
<1> pc \in [Workers -> Pcs] /\ NoOne \notin Workers
  BY InstallAssumption DEF IInv, TypeOK
<1>1. ASSUME NEW w \in Workers, BeginJob(w) PROVE StableOwner'
  BY <1>1 DEF StableOwner, BeginJob, Goto, locks, Locked
<1>2. ASSUME NEW w \in Workers,
             \/ AddUninstalledAppsPings(w) \/ CreateUninstalledApp(w)
             \/ ReadUninstalledAppPersistentData(w) \/ AddPingEvent(w) \/ ForgetUninstalledApp(w)
      PROVE  StableOwner'
  BY <1>2 DEF StableOwner, AddUninstalledAppsPings, CreateUninstalledApp, AddPingEvent,
     ReadUninstalledAppPersistentData, ForgetUninstalledApp, Goto, locks, Locked
<1>3. ASSUME NEW w \in Workers, EndUninstalledAppsPings(w) PROVE StableOwner'
  BY <1>3 DEF StableOwner, EndUninstalledAppsPings, Goto, Locked
<1>4. ASSUME NEW w \in Workers, TakeStableStateLock(w) \/ TakeModelLock(w) \/ Prepare(w)
      PROVE  StableOwner'
  BY <1>4 DEF StableOwner, TakeStableStateLock, TakeModelLock, Prepare, Goto, Locked
<1>5. ASSUME NEW w \in Workers, Clear(w) \/ Start(w) \/ Wait(w) \/ GetInstallerResult(w)
      PROVE  StableOwner'
  <2>1. stable' = stable /\ \E to \in Locked : pc' = [pc EXCEPT ![w] = to]
    BY <1>5 DEF Clear, Start, Wait, GetInstallerResult, Goto, locks, Locked
  <2> QED
    BY <2>1 DEF StableOwner
<1>6. ASSUME NEW w \in Workers, RetakeModelLock(w) \/ Check(w) \/ Finish(w) PROVE StableOwner'
  BY <1>6 DEF StableOwner, RetakeModelLock, Check, Finish, Goto, locks, Locked
<1>7. ASSUME NEW p \in 1..MaxProcs,
             InstallerLocks(p) \/ Register(p) \/ SetInstallerResult(p) \/ Exit(p)
      PROVE  StableOwner'
  BY <1>7 DEF StableOwner, InstallerLocks, Register, SetInstallerResult, Exit, locks
<1>8. ASSUME NEW a \in Apps, Uninstall(a) PROVE StableOwner'
  BY <1>8 DEF StableOwner, Uninstall, locks
<1>9. ASSUME NEW c \in Callers, PreUpdateCheck(c) \/ SynchronizeClientState(c) PROVE StableOwner'
  BY <1>9 DEF StableOwner, PreUpdateCheck, SynchronizeClientState
<1>10. CASE Reboot
  BY <1>10 DEF StableOwner, Reboot
<1>11. CASE UNCHANGED vars
  BY <1>11 DEF StableOwner, vars, locks
<1> QED
  BY <1>1, <1>2, <1>3, <1>4, <1>5, <1>6, <1>7, <1>8, <1>9, <1>10, <1>11 DEF Next, WorkerStep

\* Steps that neither take nor leave the model lock.
LEMMA ModelKept ==
  ASSUME IInv, ModelOwner, UNCHANGED <<model, calling>>,
         \A w \in Workers : pc'[w] \in InModel <=> pc[w] \in InModel
  PROVE  ModelOwner'
BY DEF ModelOwner

\* Who takes the model lock finds it free, and who leaves it owned it.
LEMMA ModelStep ==
  ASSUME IInv, calling \in [Callers -> {"idle", "sync"}], ModelOwner, [Next]_vars
  PROVE  ModelOwner'
<1> pc \in [Workers -> Pcs] /\ NoOne \notin Workers /\ NoOne \notin Callers
  BY InstallAssumption DEF IInv, TypeOK
<1>1. ASSUME NEW w \in Workers,
             \/ BeginJob(w) \/ AddUninstalledAppsPings(w) \/ AddPingEvent(w)
             \/ ForgetUninstalledApp(w) \/ EndUninstalledAppsPings(w) \/ TakeStableStateLock(w)
             \/ Clear(w) \/ Start(w) \/ Wait(w) \/ GetInstallerResult(w) \/ Check(w)
      PROVE  ModelOwner'
  <2>1. UNCHANGED <<model, calling>>
    BY <1>1 DEF BeginJob, AddUninstalledAppsPings, AddPingEvent, ForgetUninstalledApp,
       EndUninstalledAppsPings, TakeStableStateLock, Clear, Start, Wait, GetInstallerResult, Check,
       locks, env
  <2>2. \/ pc[w] = "report" /\ pc' = [pc EXCEPT ![w] = "finish"]
        \/ /\ pc[w] \notin InModel
           /\ \E to \in Pcs \ InModel : pc' = [pc EXCEPT ![w] = to]
    BY <1>1 DEF BeginJob, AddUninstalledAppsPings, AddPingEvent, ForgetUninstalledApp,
       EndUninstalledAppsPings, TakeStableStateLock, Clear, Start, Wait, GetInstallerResult, Check,
       Goto, InModel, Pcs
  <2>3. \A v \in Workers : pc'[v] \in InModel <=> pc[v] \in InModel
    BY <2>2 DEF InModel
  <2> QED
    BY <2>1, <2>3, ModelKept
<1>2. ASSUME NEW w \in Workers, CreateUninstalledApp(w) \/ TakeModelLock(w) \/ RetakeModelLock(w)
      PROVE  ModelOwner'
  <2>1. model = NoOne /\ model' = w /\ calling' = calling
        /\ \E to \in InModel : pc' = [pc EXCEPT ![w] = to]
    BY <1>2 DEF CreateUninstalledApp, TakeModelLock, RetakeModelLock, Goto, InModel, env
  <2> QED
    BY <2>1 DEF ModelOwner
<1>3. ASSUME NEW w \in Workers, ReadUninstalledAppPersistentData(w) \/ Prepare(w) \/ Finish(w)
      PROVE  ModelOwner'
  <2>1. model' = NoOne /\ calling' = calling
    BY <1>3 DEF ReadUninstalledAppPersistentData, Prepare, Finish, env
  <2>2. pc[w] \in InModel /\ \E to \in Pcs \ InModel : pc' = [pc EXCEPT ![w] = to]
    BY <1>3 DEF ReadUninstalledAppPersistentData, Prepare, Finish, Goto, InModel, Pcs
  <2>3. model = w
    BY <2>2 DEF ModelOwner
  <2>4. \A v \in Workers : pc'[v] \notin InModel
    BY <2>2, <2>3 DEF ModelOwner
  <2>5. w \notin Callers
    BY InstallAssumption
  <2> QED
    BY <2>1, <2>3, <2>4, <2>5 DEF ModelOwner
<1>4. ASSUME NEW p \in 1..MaxProcs,
             InstallerLocks(p) \/ Register(p) \/ SetInstallerResult(p) \/ Exit(p)
      PROVE  ModelOwner'
  BY <1>4, ModelKept DEF InstallerLocks, Register, SetInstallerResult, Exit, locks, env
<1>5. ASSUME NEW a \in Apps, Uninstall(a) PROVE ModelOwner'
  BY <1>5, ModelKept DEF Uninstall, locks
<1>6. ASSUME NEW c \in Callers, PreUpdateCheck(c) PROVE ModelOwner'
  BY <1>6 DEF ModelOwner, PreUpdateCheck
<1>7. ASSUME NEW c \in Callers, SynchronizeClientState(c) PROVE ModelOwner'
  BY <1>7, InstallAssumption DEF ModelOwner, SynchronizeClientState
<1>8. CASE Reboot
  BY <1>8 DEF ModelOwner, Reboot, InModel
<1>9. CASE UNCHANGED vars
  BY <1>9, ModelKept DEF vars, locks, env
<1> QED
  BY <1>1, <1>2, <1>3, <1>4, <1>5, <1>6, <1>7, <1>8, <1>9 DEF Next, WorkerStep

\* An installer that takes registry_access_lock_ runs, and its end frees the lock.
LEMMA AccessStep ==
  ASSUME IInv, AccessOwner, [Next]_vars
  PROVE  AccessOwner'
<1>1. ASSUME NEW w \in Workers, BeginJob(w) \/ WorkerStep(w) PROVE AccessOwner'
  <2>1. access' = access
    BY <1>1 DEF BeginJob, WorkerStep, AddUninstalledAppsPings, CreateUninstalledApp,
       ReadUninstalledAppPersistentData, AddPingEvent, ForgetUninstalledApp,
       EndUninstalledAppsPings, TakeStableStateLock, TakeModelLock, Prepare, Clear, Start, Wait,
       GetInstallerResult, RetakeModelLock, Check, Finish, locks
  <2>2. CASE GetInstallerResult(w)
    BY <2>1, <2>2 DEF AccessOwner, GetInstallerResult
  <2>3. CASE Start(w)
    <3>1. procs' = procs \/ \E p \in 1..MaxProcs :
             procs[p].st = "free" /\ procs' = [procs EXCEPT ![p].st = "running", ![p].by = w,
                                                            ![p].job = job[w]]
      BY <2>3 DEF Start
    <3> QED
      BY <2>1, <3>1 DEF AccessOwner, IInv, TypeOK
  <2>4. CASE ~GetInstallerResult(w) /\ ~Start(w)
    <3>1. procs' = procs
      BY <1>1, <2>4 DEF BeginJob, WorkerStep, AddUninstalledAppsPings, CreateUninstalledApp,
         ReadUninstalledAppPersistentData, AddPingEvent, ForgetUninstalledApp,
         EndUninstalledAppsPings, TakeStableStateLock, TakeModelLock, Prepare, Clear, Wait,
         RetakeModelLock, Check, Finish
    <3> QED
      BY <2>1, <3>1 DEF AccessOwner
  <2> QED
    BY <2>2, <2>3, <2>4
<1>2. ASSUME NEW p \in 1..MaxProcs, InstallerLocks(p) PROVE AccessOwner'
  BY <1>2 DEF AccessOwner, InstallerLocks
<1>3. ASSUME NEW p \in 1..MaxProcs, Register(p) PROVE AccessOwner'
  BY <1>3 DEF AccessOwner, Register, locks
<1>4. ASSUME NEW p \in 1..MaxProcs, SetInstallerResult(p) PROVE AccessOwner'
  <2>1. access' = access /\ procs' = [procs EXCEPT ![p].wrote = TRUE]
    BY <1>4 DEF SetInstallerResult, locks
  <2>2. \A q \in 1..MaxProcs : procs'[q].st = procs[q].st
    BY <2>1 DEF IInv, TypeOK
  <2> QED
    BY <2>1, <2>2 DEF AccessOwner
<1>5. ASSUME NEW p \in 1..MaxProcs, Exit(p) PROVE AccessOwner'
  <2>1. access' = (IF access = p THEN NoOne ELSE access)
        /\ \A q \in 1..MaxProcs : q # p => procs'[q] = procs[q]
    BY <1>5 DEF Exit, IInv, TypeOK
  <2> QED
    BY <2>1 DEF AccessOwner
<1>6. ASSUME NEW a \in Apps, Uninstall(a) PROVE AccessOwner'
  BY <1>6 DEF AccessOwner, Uninstall, locks
<1>7. ASSUME NEW c \in Callers, PreUpdateCheck(c) \/ SynchronizeClientState(c) PROVE AccessOwner'
  BY <1>7 DEF AccessOwner, PreUpdateCheck, SynchronizeClientState
<1>8. CASE Reboot
  BY <1>8 DEF AccessOwner, Reboot
<1>9. CASE UNCHANGED vars
  BY <1>9 DEF AccessOwner, vars, locks
<1> QED
  BY <1>1, <1>2, <1>3, <1>4, <1>5, <1>6, <1>7, <1>8, <1>9 DEF Next

\* Steps that start, end and give up no process and let nobody wait.
LEMMA ProcKept ==
  ASSUME ProcOwner, \A p \in 1..MaxProcs : procs'[p].st = procs[p].st /\ procs'[p].by = procs[p].by,
         \A w \in Workers : pc'[w] \in {"wait", "result"} => pc[w] \in {"wait", "result"}
  PROVE  ProcOwner'
BY DEF ProcOwner

\* A worker that starts a process has it until it has read its result.
LEMMA ProcStep ==
  ASSUME IInv, ProcOwner, [Next]_vars
  PROVE  ProcOwner'
<1> pc \in [Workers -> Pcs] /\ NoOne \notin Workers
  BY InstallAssumption DEF IInv, TypeOK
<1> procs \in [1..MaxProcs -> Procs]
  BY DEF IInv, TypeOK, Procs
<1>1. ASSUME NEW w \in Workers, Start(w) PROVE ProcOwner'
  <2>1. CASE procs' = procs /\ pc' = [pc EXCEPT ![w] = "locked"]
    BY <2>1, ProcKept
  <2>2. ASSUME NEW p \in 1..MaxProcs, pc[w] = "start", procs[p].st = "free",
               pc' = [pc EXCEPT ![w] = "wait"],
               procs' = [procs EXCEPT ![p].st = "running", ![p].by = w, ![p].job = job[w]]
        PROVE  ProcOwner'
    <3>1. procs'[p].st = "running" /\ procs'[p].by = w
          /\ \A q \in 1..MaxProcs : q # p => procs'[q] = procs[q]
      BY <2>2 DEF Procs
    <3>2. procs[p].by = NoOne
      BY <2>2 DEF IInv, ProcInv, ProcOK
    <3>3. \A v \in Workers : v # w /\ pc[v] \in {"wait", "result"} =>
            \E q \in 1..MaxProcs : procs'[q].by = v
      BY <3>1, <3>2 DEF ProcOwner
    <3>4. \A q \in 1..MaxProcs : procs'[q].st = "exited" => procs'[q].by # NoOne
      BY <3>1 DEF ProcOwner
    <3>5. \A v \in Workers : v # w => pc'[v] = pc[v]
      BY <2>2
    <3>6. \A v \in Workers : pc'[v] \in {"wait", "result"} =>
            \E q \in 1..MaxProcs : procs'[q].by = v
      <4> TAKE v \in Workers
      <4>1. CASE v = w
        BY <3>1, <4>1
      <4>2. CASE v # w
        BY <3>3, <3>5, <4>2
      <4> QED
        BY <4>1, <4>2
    <3> QED
      BY <3>4, <3>6 DEF ProcOwner
  <2> QED
    BY <1>1, <2>1, <2>2 DEF Start, Goto
<1>2. ASSUME NEW w \in Workers, GetInstallerResult(w) PROVE ProcOwner'
  <2>1. PICK p \in 1..MaxProcs :
          /\ Waiting(w, p)
          /\ procs' = [procs EXCEPT ![p] = IF @.st = "exited" THEN NoProc ELSE [@ EXCEPT !.by = NoOne]]
    BY <1>2 DEF GetInstallerResult
  <2>2. pc[w] = "result" /\ pc'[w] \notin {"wait", "result"} /\ \A v \in Workers \ {w} : pc'[v] = pc[v]
    BY <1>2 DEF GetInstallerResult, Goto
  <2>3. procs[p].by = w /\ procs'[p].st # "exited"
        /\ \A q \in 1..MaxProcs : q # p => procs'[q] = procs[q]
    BY <2>1, Constants DEF Waiting, Procs
  <2>4. \A v \in Workers \ {w} : pc[v] \in {"wait", "result"} => \E q \in 1..MaxProcs : procs'[q].by = v
    BY <2>3 DEF ProcOwner
  <2> QED
    BY <2>2, <2>3, <2>4 DEF ProcOwner
<1>3. ASSUME NEW w \in Workers, BeginJob(w) \/ WorkerStep(w), ~Start(w), ~GetInstallerResult(w)
      PROVE  ProcOwner'
  <2>1. procs' = procs
    BY <1>3 DEF BeginJob, WorkerStep, AddUninstalledAppsPings, CreateUninstalledApp,
       ReadUninstalledAppPersistentData, AddPingEvent, ForgetUninstalledApp,
       EndUninstalledAppsPings, TakeStableStateLock, TakeModelLock, Prepare, Clear, Wait,
       RetakeModelLock, Check, Finish
  <2>2. \/ pc[w] = "wait" /\ pc' = [pc EXCEPT ![w] = "result"]
        \/ \E to \in Pcs \ {"wait", "result"} : pc' = [pc EXCEPT ![w] = to]
    BY <1>3 DEF BeginJob, WorkerStep, AddUninstalledAppsPings, CreateUninstalledApp,
       ReadUninstalledAppPersistentData, AddPingEvent, ForgetUninstalledApp,
       EndUninstalledAppsPings, TakeStableStateLock, TakeModelLock, Prepare, Clear, Wait,
       RetakeModelLock, Check, Finish, Goto, Pcs
  <2> QED
    BY <2>1, <2>2, ProcKept
<1>4. ASSUME NEW p \in 1..MaxProcs, InstallerLocks(p) \/ Register(p) \/ SetInstallerResult(p)
      PROVE  ProcOwner'
  <2>1. pc' = pc /\ (procs' = procs \/ procs' = [procs EXCEPT ![p].wrote = TRUE])
    BY <1>4 DEF InstallerLocks, Register, SetInstallerResult
  <2>2. CASE procs' = [procs EXCEPT ![p].wrote = TRUE]
    <3>1. \A q \in 1..MaxProcs : procs'[q].st = procs[q].st /\ procs'[q].by = procs[q].by
      BY <2>2 DEF Procs
    <3> QED
      BY <2>1, <3>1, ProcKept
  <2> QED
    BY <2>1, <2>2, ProcKept
<1>5. ASSUME NEW p \in 1..MaxProcs, Exit(p) PROVE ProcOwner'
  <2>1. PICK code \in Codes :
          procs' = [procs EXCEPT ![p] = IF @.by = NoOne THEN NoProc
                                        ELSE [@ EXCEPT !.st = "exited", !.exit = code]]
    BY <1>5 DEF Exit
  <2>2. \A q \in 1..MaxProcs : procs'[q].by = procs[q].by
    BY <2>1, Constants DEF Procs
  <2>3. procs'[p].st = "exited" => procs'[p].by # NoOne
    BY <2>1, Constants DEF Procs
  <2>4. pc' = pc /\ \A q \in 1..MaxProcs : q # p => procs'[q] = procs[q]
    BY <1>5, <2>1 DEF Exit
  <2> QED
    BY <2>2, <2>3, <2>4 DEF ProcOwner
<1>6. ASSUME NEW a \in Apps, Uninstall(a) PROVE ProcOwner'
  BY <1>6, ProcKept DEF Uninstall
<1>7. ASSUME NEW c \in Callers, PreUpdateCheck(c) \/ SynchronizeClientState(c) PROVE ProcOwner'
  BY <1>7, ProcKept DEF PreUpdateCheck, SynchronizeClientState
<1>8. CASE Reboot
  BY <1>8, Constants DEF ProcOwner, Reboot
<1>9. CASE UNCHANGED vars
  BY <1>9, ProcKept DEF vars
<1> QED
  BY <1>1, <1>2, <1>3, <1>4, <1>5, <1>6, <1>7, <1>8, <1>9 DEF Next

\* Whoever owns a lock is where it will give it back.
LEMMA Owners == Spec => []OwnerInv
<1>1. Init => OwnerInv
  <2> SUFFICES ASSUME Init PROVE OwnerInv
    OBVIOUS
  <2>1. /\ stable = NoOne /\ model = NoOne /\ access = NoOne
        /\ calling = [c \in Callers |-> "idle"] /\ pc = [w \in Workers |-> "idle"]
    BY DEF Init
  <2>2. \A p \in 1..MaxProcs : procs[p].st = "free"
    BY Constants DEF Init
  <2>3. calling \in [Callers -> {"idle", "sync"}] /\ StableOwner /\ AccessOwner
    BY <2>1 DEF StableOwner, AccessOwner
  <2>4. ModelOwner
    BY <2>1 DEF ModelOwner, InModel
  <2>5. ProcOwner
    BY <2>1, <2>2 DEF ProcOwner
  <2> QED
    BY <2>3, <2>4, <2>5 DEF OwnerInv
<1>2. IInv /\ OwnerInv /\ [Next]_vars => OwnerInv'
  BY CallingStep, StableStep, ModelStep, AccessStep, ProcStep DEF OwnerInv
<1> QED
  BY <1>1, <1>2, Inductive, PTL DEF Spec

\* The owner of the model lock needs nothing but registry_access_lock_.
LEMMA ModelOwnerReady ==
  ASSUME OwnerInv, model # NoOne, access = NoOne
  PROVE  \/ \E w \in Workers : Ready(w)
         \/ \E c \in Callers : calling[c] = "sync" /\ access = NoOne
BY DEF OwnerInv, ModelOwner, InModel, Ready

\* The owner of the stable state needs one of the other locks, a place for its
\* installer or the installer's end.
LEMMA StableOwnerReady ==
  ASSUME IInv, OwnerInv, stable # NoOne, model = NoOne, access = NoOne
  PROVE  \/ \E w \in Workers : Ready(w)
         \/ \E p \in 1..MaxProcs : Awaited(p)
<1> DEFINE w == stable
<1> w \in Workers /\ pc[w] \in Locked
  BY DEF OwnerInv, StableOwner
<1> HIDE DEF w
<1>1. CASE pc[w] \notin {"start", "wait", "result"}
  BY <1>1 DEF Ready, Locked
<1>2. CASE pc[w] \in {"wait", "result"}
  <2>1. PICK p \in 1..MaxProcs : procs[p].by = w
    BY <1>2 DEF OwnerInv, ProcOwner
  <2>2. Waiting(w, p) /\ procs[p].by # NoOne
    BY <1>2, <2>1, InstallAssumption DEF Waiting
  <2>3. procs[p].st \in {"running", "exited"}
    BY <2>2 DEF IInv, TypeOK, ProcInv, ProcOK
  <2> QED
    BY <1>2, <2>2, <2>3 DEF Ready, Awaited
<1>3. CASE pc[w] = "start"
  <2>1. \A v \in Workers : pc[v] \notin {"wait", "result"}
    BY <1>3, Solo DEF IInv, Locked
  <2>2. \A p \in 1..MaxProcs : procs[p].by = NoOne
    BY <2>1, NobodyWaits
  <2>3. \A p \in 1..MaxProcs : procs[p].st \in {"free", "running"}
    BY <2>2 DEF OwnerInv, ProcOwner, IInv, TypeOK
  <2>4. 1 \in 1..MaxProcs
    BY InstallAssumption, SMTT(30)
  <2>5. CASE \E p \in 1..MaxProcs : procs[p].st = "free"
    BY <1>3, <2>5 DEF Ready
  <2>6. CASE \A p \in 1..MaxProcs : procs[p].st # "free"
    BY <2>3, <2>4, <2>6 DEF Awaited
  <2> QED
    BY <2>5, <2>6
<1> QED
  BY <1>1, <1>2, <1>3

\* Any number of bundles, client threads and installers never wait for each other
\* in a circle: whoever is at work, a thread can go on, or an installer runs that
\* somebody waits for (install_manager.cc, InstallApp; worker.cc,
\* AddUninstalledAppsPings; app_manager.cc, SynchronizeClientState).
THEOREM LockTheorem == Spec => []NeverStuck
<1>1. IInv /\ OwnerInv => NeverStuck
  <2> SUFFICES ASSUME IInv, OwnerInv, NEW w \in Workers, pc[w] # "idle"
               PROVE  \/ \E v \in Workers : Ready(v)
                      \/ \E p \in 1..MaxProcs : Awaited(p)
                      \/ \E c \in Callers : calling[c] = "sync" /\ access = NoOne
    BY DEF NeverStuck
  <2>1. CASE access # NoOne
    BY <2>1 DEF OwnerInv, AccessOwner, Awaited
  <2>2. CASE access = NoOne /\ model # NoOne
    BY <2>2, ModelOwnerReady
  <2>3. CASE access = NoOne /\ model = NoOne /\ stable # NoOne
    BY <2>3, StableOwnerReady
  <2>4. CASE stable = NoOne
    <3>1. pc[w] \notin Locked
      BY <2>4, InstallAssumption DEF IInv, LockInv
    <3>2. pc[w] \in {"uninstalled", "install"}
      BY <3>1 DEF IInv, TypeOK, Pcs, Locked
    <3> QED
      BY <2>4, <3>2 DEF Ready
  <2> QED
    BY <2>1, <2>2, <2>3, <2>4
<1> QED
  BY <1>1, Inductive, Owners, PTL
=============================================================================
