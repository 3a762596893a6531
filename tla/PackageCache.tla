---------------------------- MODULE PackageCache ----------------------------
(* The package cache and the downloads of several bundles that share it.    *)
(* Every operation of the cache holds cache_lock_ from its start to its end *)
(* and is one action; what a download does between two of them is not       *)
(* protected.  A file is a sequence of blocks, because Put writes over what *)
(* is there block by block and may stop in between.                         *)
EXTENDS Naturals, FiniteSets, Sequences, Functions, FiniteSetsExt, SequencesExt

CONSTANTS Apps, Versions,  \* those that parse, from 1 on
          Contents,        \* packages, each named by its number of blocks
          Users,           \* bundles that download and install
          Urls,            \* download_base_urls of an application
          SizeLimit,       \* cache_size_limit_bytes_, in blocks
          TimeLimit,       \* cache_time_limit_days_, in ticks of the clock
          MaxClock,        \* bound on the clock
          Environments     \* sets of faults: "server", "copy", "crash", "delete"

ASSUME CacheAssumption ==
  /\ Versions \subseteq Nat \ {0} /\ Contents \subseteq Nat \ {0}
  /\ Urls \in Nat \ {0} /\ SizeLimit \in Nat

Keys == Apps \X Versions
AppOf(k) == k[1]
VersionOf(k) == k[2]
Blocks(c) == [n \in 1..c |-> c]

VARIABLES files,      \* the files of the cache that exist
          doomed,     \* files to be deleted at the next reboot
          clock,
          faults,     \* what may go wrong, chosen at the start
          running,    \* the server process lives
          installed,  \* the version of each application
          pc, want, url, got   \* per user: the download and its package

vars == <<files, doomed, clock, faults, running, installed, pc, want, url, got>>
userVars == <<pc, want, url, got>>

NoPackage == [key |-> <<>>, hash |-> 0]

Init ==
  /\ files = <<>> /\ doomed = {} /\ clock = 0 /\ running = TRUE
  /\ faults \in Environments
  /\ installed = [a \in Apps |-> 0]  \* not installed
  /\ pc = [u \in Users |-> "idle"]
  /\ want = [u \in Users |-> NoPackage]
  /\ url = [u \in Users |-> 0]
  /\ got = [u \in Users |-> <<>>]

-----------------------------------------------------------------------------
(* The file system *)

Exists(k) == k \in DOMAIN files
DataOf(k) == IF Exists(k) THEN files[k].data ELSE <<>>

\* FileCopy opens the destination without truncating it: n blocks written over
\* what was there, under the creation time the file had.
FileCopy(k, c, n) ==
  LET old == DataOf(k)
      data == [b \in 1..Max({n, Len(old)}) |-> IF b <= n THEN c ELSE old[b]]
      created == IF Exists(k) THEN files[k].created ELSE clock
  IN  [j \in DOMAIN files \cup {k} |->
         IF j = k THEN [data |-> data, created |-> created] ELSE files[j]]

Without(S) == Restrict(files, DOMAIN files \ S)

\* A file that cannot be deleted is deleted when the system starts again.
DeleteBeforeOrAfterReboot(S) ==
  \E now \in IF "delete" \in faults THEN SUBSET S ELSE {S} :
    /\ files' = Without(now)
    /\ doomed' = doomed \cup (S \ now)

VerifyHash(data, h) == data = Blocks(h)

-----------------------------------------------------------------------------
(* Operations of the cache *)

IsCached(k, h) == Exists(k) /\ VerifyHash(files[k].data, h)

\* Bug variant: a copy that does not verify is left behind.
PutKeepsBadCopy(k, c, h, ok) ==
  /\ files' = FileCopy(k, c, c)
  /\ ok = VerifyHash(files'[k].data, h)

\* Copies the source and verifies the copy; a bad copy is deleted.
Put(k, c, h, ok) ==
  LET copy == FileCopy(k, c, c)
  IN  \/ /\ VerifyHash(copy[k].data, h) /\ ok = TRUE
         /\ files' = copy
      \/ /\ ~VerifyHash(copy[k].data, h) /\ ok = FALSE
         /\ files' \in {Without({k})} \cup IF "delete" \in faults THEN {copy} ELSE {}

\* The copy stops after n blocks, and what was written stays.
PutStops(k, c) ==
  \E n \in 0..c : files' = FileCopy(k, c, n)

\* Bug variant: versions are compared the wrong way at the boundary.
LowerOrEqualVersions(a, v) ==
  {k \in DOMAIN files : AppOf(k) = a /\ VersionOf(k) <= v}

LowerVersions(a, v) ==
  {k \in DOMAIN files : AppOf(k) = a /\ VersionOf(k) < v}

PurgeAppLowerVersions(a, v) == DeleteBeforeOrAfterReboot(LowerVersions(a, v))

\* Newest first; files of the same age in any order.
SortPackageInfoByTime ==
  {s \in SetToSeqs(DOMAIN files) :
     \A m, n \in 1..Len(s) : m < n => files[s[m]].created >= files[s[n]].created}

SizeOf(S) == MapThenSumSet(LAMBDA k : Len(files[k].data), S)

IsExpired(k) == files[k].created + TimeLimit < clock

\* Bug variant: a file over the limit is skipped, and older ones are still kept.
PurgeSkipping ==
  \E s \in SortPackageInfoByTime :
    DeleteBeforeOrAfterReboot(
      {s[m] : m \in {n \in 1..Len(s) : \/ Len(files[s[n]].data) > SizeLimit
                                       \/ IsExpired(s[n])}})

\* From the first file that exceeds the limit or has expired, all are deleted.
PurgeOldPackagesIfNecessary ==
  \E s \in SortPackageInfoByTime :
    LET stop == {m \in 1..Len(s) : \/ SizeOf({s[n] : n \in 1..m}) > SizeLimit
                                   \/ IsExpired(s[m])}
    IN  DeleteBeforeOrAfterReboot(
          IF stop = {} THEN {} ELSE {s[n] : n \in Min(stop)..Len(s)})

-----------------------------------------------------------------------------
(* Downloads *)

Goto(u, place) == pc' = [pc EXCEPT ![u] = place]

\* A download that ends forgets its package.
End(u, place) == Goto(u, place) /\ want' = [want EXCEPT ![u] = NoPackage]

\* DoDownloadPackage is at its last assertion and needs no URL any more.
Cached(u) ==
  Goto(u, "assert") /\ url' = [url EXCEPT ![u] = 0] /\ UNCHANGED want

Active(u) == pc[u] \notin {"idle", "failed", "lost"}

\* The update check: packages below the installed version are purged, and the
\* answer names a newer one.  A version has one package at a time.
Check(u, k, h) ==
  /\ running /\ ~Active(u)
  /\ VersionOf(k) > installed[AppOf(k)]
  /\ \A w \in Users : Active(w) /\ want[w].key = k => want[w].hash = h
  /\ PurgeAppLowerVersions(AppOf(k), installed[AppOf(k)])
  /\ want' = [want EXCEPT ![u] = [key |-> k, hash |-> h]]
  /\ url' = [url EXCEPT ![u] = Urls]
  /\ Goto(u, "download")
  /\ UNCHANGED <<clock, faults, running, installed, got>>

Found(u) ==
  /\ running /\ pc[u] = "download" /\ url[u] = Urls
  /\ IsCached(want[u].key, want[u].hash)
  /\ Cached(u)
  /\ UNCHANGED <<files, doomed, clock, faults, running, installed, got>>

NextUrl(u) ==
  /\ url' = [url EXCEPT ![u] = @ - 1]
  /\ IF url[u] > 1 THEN Goto(u, "fetch") /\ UNCHANGED want ELSE End(u, "failed")

NotFound(u) ==
  /\ running /\ pc[u] = "download"
  /\ ~IsCached(want[u].key, want[u].hash)
  /\ Goto(u, "fetch")
  /\ UNCHANGED <<files, doomed, clock, faults, running, installed, want, url, got>>

\* The file of one URL arrives and is put into the cache, or does not arrive or
\* has a wrong signature.
Fetch(u, c) ==
  /\ running /\ pc[u] = "fetch"
  /\ c = want[u].hash \/ "server" \in faults
  /\ \/ Put(want[u].key, c, want[u].hash, TRUE) /\ Cached(u)
     \/ Put(want[u].key, c, want[u].hash, FALSE) /\ NextUrl(u)
     \/ "copy" \in faults /\ PutStops(want[u].key, c) /\ NextUrl(u)
     \/ "server" \in faults /\ NextUrl(u) /\ UNCHANGED files
  /\ UNCHANGED <<doomed, clock, faults, running, installed, got>>

\* DoDownloadPackage asserts that the package is cached and returns.
Downloaded(u) ==
  /\ running /\ pc[u] = "assert" /\ Goto(u, "cached")
  /\ UNCHANGED <<files, doomed, clock, faults, running, installed, want, url, got>>

\* Bug variant: the file is handed out as it is.
GetUnverified(u) ==
  /\ running /\ pc[u] = "cached" /\ Exists(want[u].key)
  /\ got' = [got EXCEPT ![u] = files[want[u].key].data]
  /\ Goto(u, "installing")
  /\ UNCHANGED <<files, doomed, clock, faults, running, installed, want, url>>

\* GetPackage: the installer gets a copy of a file that was verified again.
Get(u) ==
  /\ running /\ pc[u] = "cached"
  /\ \/ /\ IsCached(want[u].key, want[u].hash)
        /\ got' = [got EXCEPT ![u] = files[want[u].key].data]
        /\ Goto(u, "installing") /\ UNCHANGED want
     \/ /\ ~IsCached(want[u].key, want[u].hash) \/ "copy" \in faults
        /\ End(u, "lost") /\ UNCHANGED got
  /\ UNCHANGED <<files, doomed, clock, faults, running, installed, url>>

\* AppStateInstallComplete purges the versions below the new one.
InstallComplete(u) ==
  LET a == AppOf(want[u].key)
      v == VersionOf(want[u].key)
  IN  /\ running /\ pc[u] = "installing"
      /\ installed' = [installed EXCEPT ![a] = v]
      /\ PurgeAppLowerVersions(a, v)
      /\ End(u, "idle")
      /\ got' = [got EXCEPT ![u] = <<>>]
      /\ UNCHANGED <<clock, faults, running, url>>

-----------------------------------------------------------------------------
(* The process *)

\* The process dies, perhaps within Put, perhaps with the system.
Crash ==
  /\ running /\ "crash" \in faults
  /\ running' = FALSE
  /\ \/ UNCHANGED <<files, doomed>>
     \/ \E u \in Users : /\ pc[u] = "fetch"
                         /\ PutStops(want[u].key, want[u].hash)
                         /\ UNCHANGED doomed
     \/ files' = Without(doomed) /\ doomed' = {}
  /\ pc' = [u \in Users |-> "idle"]
  /\ want' = [u \in Users |-> NoPackage]
  /\ url' = [u \in Users |-> 0]
  /\ got' = [u \in Users |-> <<>>]
  /\ UNCHANGED <<clock, faults, installed>>

Initialize ==
  /\ ~running /\ running' = TRUE
  /\ PurgeOldPackagesIfNecessary
  /\ UNCHANGED <<clock, faults, installed, userVars>>

Tick ==
  /\ clock < MaxClock /\ clock' = clock + 1
  /\ UNCHANGED <<files, doomed, faults, running, installed, userVars>>

Download(u) == \/ Found(u) \/ NotFound(u) \/ \E c \in Contents : Fetch(u, c)
               \/ Downloaded(u) \/ Get(u) \/ InstallComplete(u)

Next == \/ \E u \in Users : \/ \E k \in Keys, h \in Contents : Check(u, k, h)
                            \/ Download(u)
        \/ Crash \/ Initialize \/ Tick

Spec == Init /\ [][Next]_vars

-----------------------------------------------------------------------------
(* Properties *)

\* Every variable keeps its type: files hold blocks of packages, are not from
\* the future, and a download does not run out of its list of URLs.
TypeOK ==
  /\ DOMAIN files \subseteq Keys
  /\ \A k \in DOMAIN files : /\ files[k].created \in 0..clock
                             /\ \A b \in DOMAIN files[k].data :
                                  files[k].data[b] \in Contents
  /\ doomed \subseteq Keys
  /\ pc \in [Users -> {"idle", "download", "fetch", "assert", "cached",
                       "installing", "failed", "lost"}]
  /\ url \in [Users -> 0..Urls]

\* An installer only ever gets exactly the package the update response named,
\* whatever the server sent, whatever an interrupted Put left behind, and
\* whatever other downloads do to the file between Put and Get.
GetAuthentic ==
  \A u \in Users : pc[u] = "installing" => got[u] = Blocks(want[u].hash)

Honest == faults \subseteq {"crash"}

\* What a download needs is lost before its installer gets it only to a newer
\* version of the application, if what the server sends is right and is copied
\* in full: neither the purge at an update check, nor that of an older version's
\* completion, nor another download of the same package takes it away.
LostOnlyToNewer ==
  [][\A u \in Users :
       /\ Honest /\ pc[u] = "cached" /\ pc'[u] = "cached"
       /\ IsCached(want[u].key, want[u].hash)
       /\ ~IsCached(want[u].key, want[u].hash)'
       => VersionOf(want[u].key) < installed'[AppOf(want[u].key)]]_vars

\* With two URLs a download from an honest server succeeds whatever is in the
\* cache: leftovers of an interrupted or of a longer Put spoil at most the
\* first one, because a copy that does not verify is deleted.
DownloadHeals == Honest => \A u \in Users : pc[u] # "failed"

\* What PurgeOldPackagesIfNecessary leaves when the server starts and every
\* file can be deleted: files within the limits, none older than one that is
\* gone, and none is gone that could have stayed.
PurgeKeepsNewest ==
  [][running' /\ ~running /\ Honest =>
       LET kept == DOMAIN files'
           gone == DOMAIN files \ DOMAIN files'
       IN  /\ SizeOf(kept) <= SizeLimit
           /\ \A k \in kept : ~IsExpired(k)
           /\ \A k \in kept, g \in gone : files[k].created >= files[g].created
           /\ gone # {} =>
                \E g \in gone : IsExpired(g) \/ SizeOf(kept \cup {g}) > SizeLimit]_vars

-----------------------------------------------------------------------------
(* What comments and assertions say and the code does not do *)

\* The assertion at the end of DoDownloadPackage.  Another bundle may have
\* purged the version since.
AssertCached ==
  \A u \in Users : pc[u] = "assert" => IsCached(want[u].key, want[u].hash)
=============================================================================
