------------------------ MODULE PackageCache_proofs ------------------------
(* What the downloads may rely on, for every number of applications,        *)
(* versions, packages, URLs and bundles that share the cache.               *)
EXTENDS PackageCache, TLAPS, FiniteSetTheorems, WellFoundedInduction

\* A leaf is given to Zenon, then to the SMT solver, unless it names one of them.
USE ZenonT(30), SMTT(30)

\* The places of a user of the cache.
Places == {"idle", "download", "fetch", "assert", "cached", "installing", "failed", "lost"}

\* Types, and which URLs are left where.
TypeInv ==
  /\ pc \in [Users -> Places]
  /\ want \in [Users -> [key : Keys \cup {<<>>}, hash : Nat]]
  /\ url \in [Users -> 0..Urls]
  /\ DOMAIN got = Users /\ got = [u \in Users |-> got[u]]
  /\ installed \in [Apps -> Nat]
  /\ \A u \in Users : Active(u) => want[u].key \in Keys /\ want[u].hash \in Contents
  /\ \A u \in Users : /\ pc[u] = "download" => url[u] = Urls
                      /\ pc[u] = "fetch" => url[u] >= 1

\* Downloads of one version want one package, and a process that has ended has
\* no downloads.
SharedInv ==
  /\ \A u, w \in Users : Active(u) /\ Active(w) /\ want[u].key = want[w].key
                            => want[u].hash = want[w].hash
  /\ ~running => \A u \in Users : pc[u] = "idle"

\* The inductive invariant of the users of the cache.
IInv == TypeInv /\ SharedInv /\ GetAuthentic

-----------------------------------------------------------------------------
(* Files *)

\* The larger of two numbers.
LEMMA MaxOfTwo ==
  ASSUME NEW m \in Nat, NEW n \in Nat
  PROVE  Max({m, n}) = IF m >= n THEN m ELSE n
BY SMTT(30) DEF Max

\* A package has as many blocks as its content says.
LEMMA LenBlocks == ASSUME NEW c \in Nat PROVE Len(Blocks(c)) = c
<1>1. Blocks(c) \in Seq(Nat)
  BY SMTT(30) DEF Blocks
<1> QED
  BY <1>1, SMTT(30) DEF Blocks

\* Writing a package over nothing, or over itself, gives the package.
LEMMA CopyWhole ==
  ASSUME NEW k, NEW c \in Nat, ~Exists(k) \/ files[k].data = Blocks(c)
  PROVE  FileCopy(k, c, c)[k].data = Blocks(c)
<1>1. Max({c, Len(DataOf(k))}) = c
  <2>1. Len(DataOf(k)) \in {0, c}
    BY LenBlocks DEF DataOf
  <2> QED
    BY <2>1, MaxOfTwo, SMTT(30)
<1>2. FileCopy(k, c, c)[k].data = [b \in 1..c |-> IF b <= c THEN c ELSE DataOf(k)[b]]
  BY <1>1 DEF FileCopy
<1> QED
  BY <1>2, SMTT(30) DEF Blocks

\* Writing one file leaves the others.
LEMMA CopyOther ==
  ASSUME NEW k, NEW c, NEW n, NEW x \in DOMAIN files, x # k
  PROVE  x \in DOMAIN FileCopy(k, c, n) /\ FileCopy(k, c, n)[x] = files[x]
BY DEF FileCopy

\* Deleting files leaves the others as they are.
LEMMA WithoutOther ==
  ASSUME NEW S, NEW x \in DOMAIN files, x \notin S
  PROVE  x \in DOMAIN Without(S) /\ Without(S)[x] = files[x]
BY DEF Without, Restrict

-----------------------------------------------------------------------------
(* The inductive invariant *)

\* A user who wants nothing.
LEMMA NoPackageType == NoPackage \in [key : Keys \cup {<<>>}, hash : Nat]
BY DEF NoPackage

\* The invariant holds at first.
LEMMA InitIInv == Init => IInv
<1> SUFFICES ASSUME Init PROVE IInv
  OBVIOUS
<1>1. \A u \in Users : pc[u] = "idle" /\ ~Active(u)
  BY DEF Init, Active
<1>2. TypeInv
  BY <1>1, NoPackageType, CacheAssumption, SMTT(30) DEF Init, TypeInv, Places
<1> QED
  BY <1>1, <1>2 DEF Init, IInv, SharedInv, GetAuthentic

\* The update check, which names the package, keeps the invariant.
LEMMA CheckStep ==
  ASSUME IInv, NEW u \in Users, NEW k \in Keys, NEW h \in Contents, Check(u, k, h)
  PROVE  IInv'
<1>1. h \in Nat
  BY CacheAssumption
<1>2. want'[u] = [key |-> k, hash |-> h] /\ pc'[u] = "download"
  BY DEF IInv, TypeInv, Check, Goto
<1>3. \A w \in Users \ {u} : want'[w] = want[w] /\ pc'[w] = pc[w] /\ got'[w] = got[w]
  BY DEF IInv, TypeInv, Check, Goto
<1>4. TypeInv'
  <2>1. /\ url' \in [Users -> 0..Urls] /\ url'[u] = Urls
        /\ \A w \in Users \ {u} : url'[w] = url[w]
    BY CacheAssumption, SMTT(30) DEF IInv, TypeInv, Check
  <2>2. \A w \in Users : Active(w)' => want'[w].key \in Keys /\ want'[w].hash \in Contents
    <3>1. \A w \in Users \ {u} : Active(w)' => Active(w)
      BY <1>3 DEF Active
    <3>2. \A w \in Users \ {u} : Active(w)' => want'[w].key \in Keys /\ want'[w].hash \in Contents
      BY <1>3, <3>1 DEF IInv, TypeInv
    <3>3. want'[u].key \in Keys /\ want'[u].hash \in Contents
      BY <1>2, SMTT(30)
    <3> QED
      BY <3>2, <3>3
  <2> QED
    BY <1>1, <1>2, <1>3, <2>1, <2>2, SMTT(30) DEF IInv, TypeInv, Check, Goto, Places
<1>5. SharedInv'
  BY <1>2, <1>3, SMTT(30) DEF IInv, SharedInv, Active, Check
<1>6. GetAuthentic'
  BY <1>2, <1>3 DEF IInv, GetAuthentic
<1> QED
  BY <1>4, <1>5, <1>6 DEF IInv

\* A step of a download that goes on, or ends, with the package it wants.
LEMMA DownloadStep == ASSUME IInv, NEW u \in Users, Download(u) PROVE IInv'
<1>1. /\ pc' = [pc EXCEPT ![u] = pc'[u]] /\ pc'[u] \in Places
      /\ want' = want \/ (want' = [want EXCEPT ![u] = NoPackage] /\ ~Active(u)')
  BY DEF IInv, TypeInv, Download, Found, NotFound, Fetch, Downloaded, Get, InstallComplete,
         Cached, NextUrl, End, Goto, Places, Active
<1>2. /\ url' \in [Users -> 0..Urls]
      /\ \A w \in Users : /\ pc'[w] = "download" => url'[w] = Urls
                          /\ pc'[w] = "fetch" => url'[w] >= 1
  <2>1. pc[u] \in {"download", "fetch"} => url[u] \in 1..Urls
    BY CacheAssumption, SMTT(30) DEF IInv, TypeInv
  <2>2. CASE Found(u) \/ Downloaded(u) \/ Get(u) \/ InstallComplete(u)
    <3>1. /\ url' = url \/ url' = [url EXCEPT ![u] = 0]
          /\ pc'[u] \notin {"download", "fetch"}
      BY <2>2 DEF IInv, TypeInv, Found, Downloaded, Get, InstallComplete, Cached, End, Goto
    <3>2. 0 \in 0..Urls
      BY CacheAssumption, SMTT(30)
    <3>3. url' \in [Users -> 0..Urls]
      BY <3>1, <3>2 DEF IInv, TypeInv
    <3>4. \A w \in Users \ {u} : pc'[w] = pc[w] /\ url'[w] = url[w]
      BY <1>1, <3>1 DEF IInv, TypeInv
    <3> QED
      BY <3>1, <3>3, <3>4 DEF IInv, TypeInv
  <2>3. CASE NotFound(u)
    BY <2>1, <2>3, SMTT(30) DEF IInv, TypeInv, NotFound, Goto
  <2>4. CASE \E c \in Contents : Fetch(u, c)
    <3>1. pc[u] = "fetch" /\ (Cached(u) \/ NextUrl(u))
      BY <2>4 DEF Fetch
    <3> QED
      <4>1. CASE Cached(u)
        BY <4>1, CacheAssumption, SMTT(30) DEF IInv, TypeInv, Cached, Goto
      <4>2. CASE NextUrl(u)
        <5>1. /\ url[u] - 1 \in 0..Urls /\ url' = [url EXCEPT ![u] = url[u] - 1]
              /\ pc'[u] = "fetch" => url[u] > 1
              /\ pc'[u] # "download"
          BY <2>1, <3>1, <4>2, CacheAssumption, SMTT(30) DEF IInv, TypeInv, NextUrl, End, Goto
        <5> QED
          BY <1>1, <2>1, <3>1, <5>1, CacheAssumption, SMTT(30) DEF IInv, TypeInv
      <4> QED
        BY <3>1, <4>1, <4>2
  <2> QED
    BY <2>2, <2>3, <2>4 DEF Download
<1>3. Active(u)' => Active(u)
  BY DEF IInv, TypeInv, Download, Found, NotFound, Fetch, Downloaded, Get, InstallComplete, Active
<1>4. \A w \in Users : Active(w)' => Active(w) /\ want'[w] = want[w]
  BY <1>1, <1>3 DEF IInv, TypeInv, Active
<1>5. DOMAIN got' = Users /\ got' = [w \in Users |-> got'[w]] /\ installed' \in [Apps -> Nat]
  <2>1. pc[u] = "installing" => AppOf(want[u].key) \in Apps /\ VersionOf(want[u].key) \in Nat
    BY CacheAssumption DEF IInv, TypeInv, Active, Keys, AppOf, VersionOf
  <2> QED
    BY <2>1 DEF IInv, TypeInv, Download, Found, NotFound, Fetch, Downloaded, Get, InstallComplete
<1>6. want' \in [Users -> [key : Keys \cup {<<>>}, hash : Nat]]
  BY <1>1, NoPackageType DEF IInv, TypeInv
<1>7. TypeInv'
  BY <1>1, <1>2, <1>4, <1>5, <1>6 DEF IInv, TypeInv
<1>8. SharedInv'
  <2>1. running' = running /\ running
    BY DEF Download, Found, NotFound, Fetch, Downloaded, Get, InstallComplete
  <2> QED
    BY <1>4, <2>1, SMTT(30) DEF IInv, SharedInv
<1>9. GetAuthentic'
  <2>1. \A w \in Users \ {u} : pc'[w] = pc[w] /\ got'[w] = got[w]
    BY <1>1 DEF IInv, TypeInv, Download, Found, NotFound, Fetch, Downloaded, Get, InstallComplete
  <2>2. pc'[u] = "installing" => got'[u] = Blocks(want[u].hash)
    BY DEF IInv, TypeInv, Download, Found, NotFound, Fetch, Downloaded, Get, InstallComplete,
           Cached, NextUrl, End, Goto, IsCached, VerifyHash
  <2> QED
    BY <1>4, <2>1, <2>2 DEF IInv, GetAuthentic, Active
<1> QED
  BY <1>7, <1>8, <1>9 DEF IInv

\* Every step keeps the invariant.
LEMMA NextIInv == IInv /\ [Next]_vars => IInv'
<1> SUFFICES ASSUME IInv, [Next]_vars PROVE IInv'
  OBVIOUS
<1>1. CASE \E u \in Users : Download(u) \/ \E k \in Keys, h \in Contents : Check(u, k, h)
  BY <1>1, CheckStep, DownloadStep
<1>2. CASE Crash
  <2>1. \A u \in Users : pc'[u] = "idle" /\ ~Active(u)'
    BY <1>2 DEF Crash, Active
  <2>2. TypeInv'
    BY <1>2, <2>1, CacheAssumption, SMTT(30) DEF IInv, TypeInv, Crash, Places, NoPackage
  <2> QED
    BY <2>1, <2>2 DEF IInv, SharedInv, GetAuthentic
<1>3. CASE Initialize \/ Tick \/ UNCHANGED vars
  <2>1. UNCHANGED <<pc, want, url, got, installed>> /\ (~running' => ~running)
    BY <1>3, SMTT(30) DEF Initialize, Tick, vars, userVars
  <2> QED
    BY <2>1, SMTT(30) DEF IInv, TypeInv, SharedInv, GetAuthentic, Active
<1> QED
  BY <1>1, <1>2, <1>3 DEF Next

\* The inductive invariant holds: downloads under one key want one hash, nobody
\* works in a process that has ended, and what an installer got is what was
\* wanted (package_cache.cc, Put and Get).
THEOREM Inductive == Spec => []IInv
BY InitIInv, NextIInv, PTL DEF Spec

\* The installer of a package gets exactly what the update response named, in
\* every environment (package_cache.cc, Put and Get; download_manager.cc).
THEOREM AuthenticTheorem == Spec => []GetAuthentic
BY Inductive, PTL DEF IInv

-----------------------------------------------------------------------------
(* What one download does to the file of another *)

\* A purge takes only versions below the one it is called with.
LEMMA PurgeTakesLower ==
  ASSUME NEW a, NEW v, NEW x \in DOMAIN files, PurgeAppLowerVersions(a, v)
  PROVE  \/ x \in DOMAIN files' /\ files'[x] = files[x]
         \/ AppOf(x) = a /\ VersionOf(x) < v
<1>1. PICK now \in SUBSET LowerVersions(a, v) : files' = Without(now)
  BY DEF PurgeAppLowerVersions, DeleteBeforeOrAfterReboot
<1>2. CASE x \in now
  BY <1>1, <1>2 DEF LowerVersions
<1>3. CASE x \notin now
  BY <1>1, <1>3, WithoutOther
<1> QED
  BY <1>2, <1>3

\* A download from an honest server leaves the package of another one, even if
\* it is the same file.
LEMMA FetchKeeps ==
  ASSUME IInv, Honest, NEW u \in Users, NEW w \in Users, NEW c \in Contents, Fetch(w, c),
         Active(u), IsCached(want[u].key, want[u].hash)
  PROVE  IsCached(want[u].key, want[u].hash)' \/ want'[u] # want[u]
<1> DEFINE k == want[w].key  h == want[w].hash
<1>1. c = h /\ "delete" \notin faults /\ "copy" \notin faults /\ "server" \notin faults /\ c \in Nat
  BY CacheAssumption DEF Honest, Fetch
<1>2. Put(k, h, h, TRUE) \/ Put(k, h, h, FALSE)
  BY <1>1 DEF Fetch
<1>3. CASE k # want[u].key
  <2>1. files' = FileCopy(k, h, h) \/ files' = Without({k})
    BY <1>1, <1>2 DEF Put
  <2>2. want[u].key \in DOMAIN files' /\ files'[want[u].key] = files[want[u].key]
    BY <1>3, <2>1, CopyOther, WithoutOther, SMTT(30) DEF IsCached, Exists
  <2> QED
    BY <2>2 DEF IsCached, Exists, VerifyHash
<1>4. CASE k = want[u].key
  <2>1. h = want[u].hash
    BY <1>4 DEF IInv, SharedInv, Active, Fetch
  <2>2. FileCopy(k, h, h)[k].data = Blocks(h)
    BY <1>1, <1>4, <2>1, CopyWhole DEF IsCached, VerifyHash
  <2>3. files' = FileCopy(k, h, h)
    BY <1>2, <2>2 DEF Put, VerifyHash
  <2>4. k \in DOMAIN FileCopy(k, h, h)
    BY DEF FileCopy
  <2> QED
    BY <1>4, <2>1, <2>2, <2>3, <2>4 DEF IsCached, Exists, VerifyHash
<1> QED
  BY <1>3, <1>4

\* A package that was downloaded from an honest server is lost, before its
\* installer gets it, only to a newer version of its application
\* (package_cache.cc, PurgeAppLowerVersions; app_state_install_complete.cc).
THEOREM LostTheorem == Spec => LostOnlyToNewer
<1>1. IInv /\ [Next]_vars =>
        [\A u \in Users :
           /\ Honest /\ pc[u] = "cached" /\ pc'[u] = "cached"
           /\ IsCached(want[u].key, want[u].hash)
           /\ ~IsCached(want[u].key, want[u].hash)'
           => VersionOf(want[u].key) < installed'[AppOf(want[u].key)]]_vars
  <2> SUFFICES ASSUME IInv, Next, NEW u \in Users, Honest, pc[u] = "cached", pc'[u] = "cached",
                      IsCached(want[u].key, want[u].hash),
                      ~IsCached(want[u].key, want[u].hash)'
               PROVE  VersionOf(want[u].key) < installed'[AppOf(want[u].key)]
    OBVIOUS
  <2> DEFINE k == want[u].key
  <2>1. /\ Active(u) /\ k \in Keys /\ k \in DOMAIN files /\ AppOf(k) \in Apps
        /\ VersionOf(k) \in Nat /\ running
    BY CacheAssumption
    DEF IInv, TypeInv, SharedInv, Active, IsCached, Exists, Keys, AppOf, VersionOf
  <2>2. want'[u] = want[u]
    BY <2>1 DEF IInv, TypeInv, Next, Download, Check, Found, NotFound, Fetch, Downloaded, Get,
           InstallComplete, Crash, Initialize, Tick, Cached, NextUrl, End, Goto, userVars, Active
  <2>3. ~(k \in DOMAIN files' /\ files'[k] = files[k])
    BY <2>1, <2>2 DEF IsCached, Exists, VerifyHash
  <2>4. CASE \E w \in Users, x \in Keys, h \in Contents : Check(w, x, h)
    <3>1. PICK w \in Users, x \in Keys, h \in Contents : Check(w, x, h)
      BY <2>4
    <3>2. AppOf(k) = AppOf(x) /\ VersionOf(k) < installed[AppOf(x)]
      BY <2>1, <2>3, <3>1, PurgeTakesLower DEF Check
    <3> QED
      BY <3>1, <3>2 DEF Check
  <2>5. CASE \E w \in Users, c \in Contents : Fetch(w, c)
    BY <2>1, <2>2, <2>5, FetchKeeps
  <2>6. CASE \E w \in Users : InstallComplete(w)
    <3>1. PICK w \in Users : InstallComplete(w)
      BY <2>6
    <3>2. AppOf(k) = AppOf(want[w].key) /\ VersionOf(k) < VersionOf(want[w].key)
      BY <2>1, <2>3, <3>1, PurgeTakesLower DEF InstallComplete
    <3> QED
      BY <2>1, <3>1, <3>2 DEF IInv, TypeInv, InstallComplete
  <2>7. CASE UNCHANGED files \/ Crash \/ Initialize
    BY <2>1, <2>3, <2>7 DEF Crash, Initialize
  <2> QED
    BY <2>4, <2>5, <2>6, <2>7 DEF Next, Download, Found, NotFound, Downloaded, Get, Tick
<1> QED
  BY <1>1, Inductive, PTL DEF Spec, LostOnlyToNewer

-----------------------------------------------------------------------------
(* Downloads heal the cache *)

\* There is nothing in the way of the package of a download.
Clean(u) == ~Exists(want[u].key) \/ IsCached(want[u].key, want[u].hash)

\* Nothing is in the way of a second attempt.
HealInv ==
  Honest => \A u \in Users : pc[u] # "failed" /\ (pc[u] = "fetch" /\ url[u] # Urls => Clean(u))

\* Whatever a purge does with a file, it does not write to it.
LEMMA PurgeCleans ==
  ASSUME NEW a, NEW v, PurgeAppLowerVersions(a, v), NEW u, want'[u] = want[u], Clean(u)
  PROVE  Clean(u)'
<1>1. PICK now \in SUBSET LowerVersions(a, v) : files' = Without(now)
  BY DEF PurgeAppLowerVersions, DeleteBeforeOrAfterReboot
<1>2. DOMAIN files' \subseteq DOMAIN files /\ \A x \in DOMAIN files' : files'[x] = files[x]
  BY <1>1 DEF Without, Restrict
<1> QED
  BY <1>2 DEF Clean, IsCached, Exists, VerifyHash

\* Another download leaves its whole package or nothing.
LEMMA FetchCleans ==
  ASSUME IInv, Honest, NEW u \in Users, NEW w \in Users, NEW c \in Contents, Fetch(w, c),
         Active(u), want'[u] = want[u], Clean(u)
  PROVE  Clean(u)'
<1> DEFINE k == want[w].key  h == want[w].hash
<1>1. c = h /\ "delete" \notin faults /\ "copy" \notin faults /\ "server" \notin faults
  BY DEF Honest, Fetch
<1>2. \/ files' = FileCopy(k, h, h) /\ FileCopy(k, h, h)[k].data = Blocks(h)
      \/ files' = Without({k})
  BY <1>1 DEF Fetch, Put, VerifyHash
<1>3. DOMAIN FileCopy(k, h, h) = DOMAIN files \cup {k} /\ DOMAIN Without({k}) = DOMAIN files \ {k}
  BY DEF FileCopy, Without, Restrict
<1>4. CASE k # want[u].key
  <2>1. want[u].key \in DOMAIN files' <=> want[u].key \in DOMAIN files
    BY <1>2, <1>3, <1>4
  <2>2. want[u].key \in DOMAIN files => files'[want[u].key] = files[want[u].key]
    BY <1>2, <1>4, CopyOther, WithoutOther, SMTT(30)
  <2> QED
    BY <2>1, <2>2 DEF Clean, IsCached, Exists, VerifyHash
<1>5. CASE k = want[u].key
  <2>1. h = want[u].hash
    BY <1>5 DEF IInv, SharedInv, Active, Fetch
  <2> QED
    BY <1>2, <1>3, <1>5, <2>1 DEF Clean, IsCached, Exists, VerifyHash
<1> QED
  BY <1>4, <1>5

\* The download itself: a copy that does not verify is gone, and over nothing a
\* copy verifies.
LEMMA OwnFetch ==
  ASSUME IInv, HealInv, Honest, Urls > 1, NEW u \in Users, NEW c \in Contents, Fetch(u, c)
  PROVE  pc'[u] # "failed" /\ (pc'[u] = "fetch" => Clean(u)')
<1> DEFINE k == want[u].key  h == want[u].hash
<1>1. /\ c = h /\ "delete" \notin faults /\ "copy" \notin faults /\ "server" \notin faults
      /\ h \in Nat /\ pc[u] = "fetch"
  BY CacheAssumption DEF Honest, Fetch
<1>2. CASE Put(k, h, h, TRUE) /\ Cached(u)
  BY <1>2 DEF IInv, TypeInv, Cached, Goto
<1>3. CASE Put(k, h, h, FALSE) /\ NextUrl(u)
  <2>1. files' = Without({k}) /\ ~VerifyHash(FileCopy(k, h, h)[k].data, h)
    BY <1>1, <1>3 DEF Put
  <2>2. ~Clean(u)
    BY <1>1, <2>1, CopyWhole DEF Clean, IsCached, VerifyHash
  <2>3. url[u] = Urls
    BY <1>1, <2>2 DEF HealInv
  <2>4. pc'[u] = "fetch" /\ want' = want
    BY <1>3, <2>3 DEF IInv, TypeInv, NextUrl, Goto
  <2>5. k \notin DOMAIN files'
    BY <2>1 DEF Without, Restrict
  <2> QED
    BY <2>4, <2>5 DEF Clean, Exists
<1> QED
  BY <1>1, <1>2, <1>3 DEF Fetch

\* Every step keeps HealInv.
LEMMA NextHeal == ASSUME Urls > 1 PROVE IInv /\ HealInv /\ [Next]_vars => HealInv'
<1> SUFFICES ASSUME IInv, HealInv, [Next]_vars, Honest', NEW u \in Users
             PROVE  pc'[u] # "failed" /\ (pc'[u] = "fetch" /\ url'[u] # Urls => Clean(u)')
  BY DEF HealInv
<1>1. Honest
  BY DEF Honest, Next, Download, Check, Found, NotFound, Fetch, Downloaded, Get, InstallComplete,
         Crash, Initialize, Tick, vars
<1>2. CASE \E c \in Contents : Fetch(u, c)
  BY <1>1, <1>2, OwnFetch
<1>3. CASE Crash
  BY <1>3 DEF Crash
<1>4. CASE Initialize
  BY <1>4 DEF IInv, SharedInv, Initialize, userVars
<1>5. CASE NotFound(u)
  BY <1>5 DEF IInv, TypeInv, NotFound, Goto
<1>6. CASE \/ \E k \in Keys, h \in Contents : Check(u, k, h)
           \/ Found(u) \/ Downloaded(u) \/ Get(u) \/ InstallComplete(u)
  BY <1>6 DEF IInv, TypeInv, Check, Found, Downloaded, Get, InstallComplete, Cached, End, Goto
<1>7. CASE \E w \in Users \ {u} : Download(w) \/ \E k \in Keys, h \in Contents : Check(w, k, h)
  <2>1. PICK w \in Users \ {u} : Download(w) \/ \E k \in Keys, h \in Contents : Check(w, k, h)
    BY <1>7
  <2>2. want'[u] = want[u] /\ pc'[u] = pc[u] /\ url'[u] = url[u]
    BY <2>1 DEF IInv, TypeInv, Download, Check, Found, NotFound, Fetch, Downloaded, Get,
                InstallComplete, Cached, NextUrl, End, Goto
  <2> SUFFICES ASSUME pc[u] = "fetch", Clean(u) PROVE Clean(u)'
    BY <1>1, <2>2 DEF HealInv
  <2>3. CASE \E c \in Contents : Fetch(w, c)
    BY <1>1, <2>2, <2>3, FetchCleans DEF Active
  <2>4. CASE InstallComplete(w) \/ \E k \in Keys, h \in Contents : Check(w, k, h)
    BY <2>2, <2>4, PurgeCleans DEF InstallComplete, Check
  <2>5. CASE UNCHANGED files
    BY <2>2, <2>5 DEF Clean, IsCached, Exists, VerifyHash
  <2> QED
    BY <2>1, <2>3, <2>4, <2>5 DEF Download, Found, NotFound, Downloaded, Get
<1>8. CASE Tick \/ UNCHANGED vars
  BY <1>1, <1>8 DEF HealInv, Clean, IsCached, Exists, VerifyHash, Tick, vars, userVars
<1> QED
  BY <1>2, <1>3, <1>4, <1>5, <1>6, <1>7, <1>8 DEF Next, Download

\* With two URLs or more, a download from an honest server never fails, whatever
\* crashes have left in the cache (package_cache.cc, Put; download_manager.cc,
\* DoDownloadPackage).
THEOREM HealTheorem == ASSUME Urls > 1 PROVE Spec => []DownloadHeals
<1>1. Init => HealInv
  BY DEF Init, HealInv
<1>2. IInv /\ HealInv /\ [Next]_vars => HealInv'
  BY NextHeal
<1>3. HealInv => DownloadHeals
  BY DEF HealInv, DownloadHeals
<1> QED
  BY <1>1, <1>2, <1>3, InitIInv, NextIInv, PTL DEF Spec

-----------------------------------------------------------------------------
(* Sizes *)

\* A set of numbers that is not empty has a least one.
LEMMA Least ==
  ASSUME NEW T \in SUBSET Nat, T # {}
  PROVE  \E n \in T : \A m \in T : n <= m
<1>1. PICK n \in T : \A m \in T : <<m, n>> \notin OpToRel(<, Nat)
  BY NatLessThanWellFounded, WFMin, Zenon
<1>2. \A m \in T : ~(m < n)
  BY <1>1 DEF OpToRel
<1> QED
  BY <1>2, SMTT(30)

\* The fold behind SizeOf takes the keys in the order of CHOOSE.
Pick(s) == CHOOSE x \in s : TRUE

\* What the sum over a set makes of the sums over smaller ones.
SumStep(s, g) == IF s = {} THEN 0 ELSE Len(files[Pick(s)].data) + g[s \ {Pick(s)}]

\* The function the fold is the value of.
Sums(D, g) == g = [s \in D |-> SumStep(s, g)]

\* SizeOf is the value of that function.
LEMMA SizeDef == ASSUME NEW S PROVE SizeOf(S) = (CHOOSE g : Sums(SUBSET S, g))[S]
BY DEF SizeOf, MapThenSumSet, MapThenFoldSet, Sums, SumStep, Pick

\* The recursion takes an element away at each step.
LEMMA PickSmaller ==
  ASSUME NEW s, IsFiniteSet(s), s # {}
  PROVE  /\ Pick(s) \in s /\ IsFiniteSet(s \ {Pick(s)})
         /\ Cardinality(s \ {Pick(s)}) = Cardinality(s) - 1
<1>1. Pick(s) \in s
  BY DEF Pick
<1> QED
  BY <1>1, FS_RemoveElement

\* There is a function that sums up the subsets of a finite set: otherwise take
\* the least size at which there is none.
LEMMA SumsExist == ASSUME NEW S, IsFiniteSet(S) PROVE \E g : Sums(SUBSET S, g)
<1> DEFINE D(n) == {s \in SUBSET S : Cardinality(s) <= n}
           Bad == {n \in Nat : ~\E g : Sums(D(n), g)}
<1>1. \A s \in SUBSET S : IsFiniteSet(s) /\ Cardinality(s) \in Nat /\ Cardinality(s) <= Cardinality(S)
  BY FS_Subset, FS_CardinalityType
<1>2. Bad = {}
  <2> SUFFICES ASSUME Bad # {} PROVE FALSE
    OBVIOUS
  <2>1. PICK n \in Bad : \A m \in Bad : n <= m
    BY Least
  <2>2. n # 0
    <3> SUFFICES ASSUME n = 0 PROVE FALSE
      OBVIOUS
    <3>1. \A s \in D(0) : s = {}
      BY <1>1, FS_EmptySet, SMTT(30)
    <3>2. Sums(D(0), [s \in D(0) |-> 0])
      BY <3>1 DEF Sums, SumStep
    <3> QED
      BY <2>1, <3>2
  <2>3. n \in Nat /\ n - 1 \in Nat /\ ~(n <= n - 1)
    BY <2>2, SMTT(30)
  <2>4. PICK g : Sums(D(n - 1), g)
    BY <2>1, <2>3
  <2> DEFINE h == [s \in D(n) |-> SumStep(s, g)]
  <2>5. \A s \in D(n - 1) : h[s] = g[s]
    <3>1. D(n - 1) \subseteq D(n)
      BY <1>1, <2>3, SMTT(30)
    <3>2. \A s \in D(n - 1) : g[s] = SumStep(s, g)
      BY <2>4 DEF Sums
    <3> QED
      BY <3>1, <3>2
  <2>6. \A s \in D(n) : SumStep(s, h) = SumStep(s, g)
    <3> SUFFICES ASSUME NEW s \in D(n) PROVE SumStep(s, h) = SumStep(s, g)
      OBVIOUS
    <3> HIDE DEF h
    <3>0. CASE s = {}
      BY <3>0 DEF SumStep
    <3>1. CASE s # {}
      <4>1. s \ {Pick(s)} \in D(n - 1)
        <5>1. /\ s \ {Pick(s)} \in SUBSET S /\ Cardinality(s) <= n /\ Cardinality(s) \in Nat
              /\ Cardinality(s \ {Pick(s)}) = Cardinality(s) - 1
          BY <1>1, <3>1, PickSmaller
        <5> QED
          BY <2>3, <5>1, SMTT(30)
      <4> QED
        BY <2>5, <4>1 DEF SumStep
    <3> QED
      BY <3>0, <3>1
  <2>7. Sums(D(n), h)
    BY <2>6 DEF Sums
  <2> QED
    BY <2>1, <2>7
<1>3. Cardinality(S) \in Nat /\ D(Cardinality(S)) = SUBSET S
  BY <1>1
<1> QED
  BY <1>2, <1>3

\* The size of a set of files of the cache is a number, and that of none is 0.
LEMMA SizeType ==
  ASSUME NEW S, IsFiniteSet(S), \A k \in S : Len(files[k].data) \in Nat
  PROVE  SizeOf(S) \in Nat /\ (S = {} => SizeOf(S) = 0)
<1>1. PICK g : Sums(SUBSET S, g) /\ SizeOf(S) = g[S]
  BY SumsExist, SizeDef
<1>2. \A s \in SUBSET S : g[s] = SumStep(s, g)
  BY <1>1 DEF Sums
<1> DEFINE Bad == {n \in Nat : \E s \in SUBSET S : Cardinality(s) = n /\ g[s] \notin Nat}
<1>3. Bad = {}
  <2> SUFFICES ASSUME Bad # {} PROVE FALSE
    OBVIOUS
  <2>1. PICK n \in Bad : \A m \in Bad : n <= m
    BY Least
  <2>2. PICK s \in SUBSET S : Cardinality(s) = n /\ g[s] \notin Nat
    BY <2>1
  <2>3. s # {}
    <3>1. s = {} => g[s] = 0
      BY <1>2 DEF SumStep
    <3> QED
      BY <2>2, <3>1, SMTT(30)
  <2>4. /\ Pick(s) \in s /\ Cardinality(s \ {Pick(s)}) = n - 1
        /\ IsFiniteSet(s \ {Pick(s)}) /\ Cardinality(s \ {Pick(s)}) \in Nat
    BY <2>2, <2>3, PickSmaller, FS_Subset, FS_CardinalityType
  <2>5. n - 1 \notin Bad
    BY <2>1, <2>4, SMTT(30)
  <2>6. g[s \ {Pick(s)}] \in Nat
    BY <2>2, <2>4, <2>5
  <2>7. g[s] = Len(files[Pick(s)].data) + g[s \ {Pick(s)}]
    BY <1>2, <2>3 DEF SumStep
  <2>8. Len(files[Pick(s)].data) \in Nat
    BY <2>2, <2>4
  <2> QED
    BY <2>2, <2>6, <2>7, <2>8, SMTT(30)
<1>4. SizeOf(S) \in Nat
  BY <1>1, <1>3, FS_CardinalityType
<1> QED
  BY <1>1, <1>2, <1>4 DEF SumStep

-----------------------------------------------------------------------------
(* What is left when the server starts *)

\* The cache has finitely many files, and each is a sequence of blocks.
FileInv ==
  IsFiniteSet(DOMAIN files) /\ \A k \in DOMAIN files : files[k].data \in Seq(Nat)

\* A copy adds at most one file, and writes blocks.
LEMMA CopyFiles ==
  ASSUME FileInv, NEW k, NEW c \in Nat, NEW n \in Nat, files' = FileCopy(k, c, n)
  PROVE  FileInv'
<1>1. DOMAIN files' = DOMAIN files \cup {k} /\ \A x \in DOMAIN files \ {k} : files'[x] = files[x]
  BY DEF FileCopy
<1>2. IsFiniteSet(DOMAIN files')
  <2>1. IsFiniteSet(DOMAIN files \cup {k})
    BY FS_AddElement DEF FileInv
  <2> QED
    BY <1>1, <2>1
<1>3. DataOf(k) \in Seq(Nat) /\ Len(DataOf(k)) \in Nat
  BY SMTT(30) DEF FileInv, DataOf, Exists
<1> DEFINE m == Max({n, Len(DataOf(k))})
<1>4. m \in Nat /\ \A b \in 1..m : ~(b <= n) => b \in 1..Len(DataOf(k))
  BY <1>3, MaxOfTwo, SMTT(30)
<1>5. files'[k].data = [b \in 1..m |-> IF b <= n THEN c ELSE DataOf(k)[b]]
  BY DEF FileCopy
<1>6. files'[k].data \in Seq(Nat)
  <2> HIDE DEF m
  <2>1. \A b \in 1..m : (IF b <= n THEN c ELSE DataOf(k)[b]) \in Nat
    BY <1>3, <1>4, SMTT(30)
  <2>2. files'[k].data \in [1..m -> Nat]
    BY <1>5, <2>1
  <2> QED
    BY <1>4, <2>2, SMTT(30)
<1> QED
  BY <1>1, <1>2, <1>6 DEF FileInv

\* Deleting files keeps FileInv.
LEMMA WithoutFiles ==
  ASSUME FileInv, NEW S, files' = Without(S)
  PROVE  FileInv'
<1>1. DOMAIN files' = DOMAIN files \ S /\ \A x \in DOMAIN files' : files'[x] = files[x]
  BY DEF Without, Restrict
<1>2. IsFiniteSet(DOMAIN files')
  BY <1>1, FS_Subset DEF FileInv
<1> QED
  BY <1>1, <1>2 DEF FileInv

\* Every step keeps FileInv.
LEMMA NextFiles == IInv /\ FileInv /\ [Next]_vars => FileInv'
<1> SUFFICES ASSUME IInv, FileInv, [Next]_vars PROVE FileInv'
  OBVIOUS
<1>1. \A c \in Contents : c \in Nat /\ \A n \in 0..c : n \in Nat
  BY CacheAssumption, SMTT(30)
<1>2. ASSUME NEW S, DeleteBeforeOrAfterReboot(S) PROVE FileInv'
  BY <1>2, WithoutFiles DEF DeleteBeforeOrAfterReboot
<1>3. ASSUME NEW k, NEW c \in Contents, PutStops(k, c) PROVE FileInv'
  BY <1>1, <1>3, CopyFiles DEF PutStops
<1>4. ASSUME NEW k, NEW c \in Contents, NEW h, NEW ok, Put(k, c, h, ok) PROVE FileInv'
  BY <1>1, <1>4, CopyFiles, WithoutFiles DEF Put
<1>5. CASE UNCHANGED files
  BY <1>5 DEF FileInv
<1>6. CASE \E u \in Users, k \in Keys, h \in Contents : Check(u, k, h)
  BY <1>2, <1>6 DEF Check, PurgeAppLowerVersions
<1>7. CASE \E u \in Users, c \in Contents : Fetch(u, c)
  BY <1>3, <1>4, <1>5, <1>7 DEF Fetch
<1>8. CASE \E u \in Users : InstallComplete(u)
  BY <1>2, <1>8 DEF InstallComplete, PurgeAppLowerVersions
<1>9. CASE Crash
  <2>1. \A u \in Users : pc[u] = "fetch" => want[u].hash \in Contents
    BY DEF IInv, TypeInv, Active
  <2> QED
    BY <1>3, <1>5, <1>9, <2>1, WithoutFiles DEF Crash
<1>10. CASE Initialize
  BY <1>2, <1>10 DEF Initialize, PurgeOldPackagesIfNecessary
<1> QED
  BY <1>5, <1>6, <1>7, <1>8, <1>9, <1>10
  DEF Next, Download, Found, NotFound, Downloaded, Get, Tick, vars

\* The sorted list has every file of the cache.
LEMMA SortedFiles ==
  ASSUME FileInv, NEW s \in SortPackageInfoByTime
  PROVE  /\ Len(s) \in Nat
         /\ DOMAIN files = {s[n] : n \in 1..Len(s)}
         /\ \A m, n \in 1..Len(s) : m # n => s[m] # s[n]
<1> DEFINE N == Cardinality(DOMAIN files)
<1>1. N \in Nat
  BY FS_CardinalityType DEF FileInv
<1>2. s \in [1..N -> DOMAIN files] /\ \A m, n \in 1..N : m # n => s[m] # s[n]
  BY DEF SortPackageInfoByTime, SetToSeqs
<1> HIDE DEF N
<1>3. Len(s) = N
  BY <1>1, <1>2, SMTT(30)
<1>4. s \in Injection(1..N, DOMAIN files)
  BY <1>2 DEF Injection, IsInjective
<1>5. IsFiniteSet(1..N) /\ Cardinality(1..N) = N
  BY <1>1, FS_Interval, SMTT(30)
<1>6. s \in Surjection(1..N, DOMAIN files)
  BY <1>4, <1>5, FS_Injection DEF FileInv, N
<1>7. \A k \in DOMAIN files : \E n \in 1..N : s[n] = k
  BY <1>6 DEF Surjection
<1>8. DOMAIN files = {s[n] : n \in 1..N}
  BY <1>2, <1>7
<1> QED
  BY <1>1, <1>2, <1>3, <1>8

\* PurgeOldPackagesIfNecessary deletes the tail of the list, from the first file
\* that exceeds the limit or has expired.
LEMMA PurgeCuts ==
  ASSUME FileInv, "delete" \notin faults, PurgeOldPackagesIfNecessary
  PROVE  \E s \in SortPackageInfoByTime, m \in Nat :
           /\ m \in 1..(Len(s) + 1)
           /\ DOMAIN files' = {s[n] : n \in 1..(m - 1)}
           /\ \A n \in 1..(m - 1) : /\ ~(SizeOf({s[x] : x \in 1..n}) > SizeLimit)
                                    /\ ~IsExpired(s[n])
           /\ m <= Len(s) => \/ SizeOf({s[x] : x \in 1..m}) > SizeLimit
                             \/ IsExpired(s[m])
<1> DEFINE Stop(s) == {m \in 1..Len(s) : \/ SizeOf({s[n] : n \in 1..m}) > SizeLimit
                                         \/ IsExpired(s[m])}
           Gone(s) == IF Stop(s) = {} THEN {} ELSE {s[n] : n \in Min(Stop(s))..Len(s)}
<1>1. PICK s \in SortPackageInfoByTime : files' = Without(Gone(s))
  BY DEF PurgeOldPackagesIfNecessary, DeleteBeforeOrAfterReboot
<1>2. /\ Len(s) \in Nat /\ DOMAIN files = {s[n] : n \in 1..Len(s)}
      /\ \A m, n \in 1..Len(s) : m # n => s[m] # s[n]
  BY SortedFiles
<1>3. DOMAIN files' = DOMAIN files \ Gone(s)
  BY <1>1 DEF Without, Restrict
<1> DEFINE m == IF Stop(s) = {} THEN Len(s) + 1 ELSE Min(Stop(s))
<1>4. /\ m \in 1..(Len(s) + 1) /\ Gone(s) = {s[n] : n \in m..Len(s)}
      /\ \A n \in 1..(m - 1) : n \in 1..Len(s) /\ n \notin Stop(s)
      /\ m <= Len(s) => m \in Stop(s)
  <2>1. CASE Stop(s) = {}
    <3>1. m = Len(s) + 1 /\ Gone(s) = {}
      BY <2>1
    <3> HIDE DEF m, Gone, Stop
    <3>2. m..Len(s) = {} /\ m \in 1..(Len(s) + 1) /\ 1..(m - 1) = 1..Len(s) /\ ~(m <= Len(s))
      BY <1>2, <3>1, SMTT(30)
    <3> QED
      BY <2>1, <3>1, <3>2
  <2>2. CASE Stop(s) # {}
    <3>1. Stop(s) \in SUBSET Nat /\ Stop(s) \subseteq 1..Len(s)
      BY <1>2, SMTT(30)
    <3>2. Min(Stop(s)) \in Stop(s) /\ \A n \in Stop(s) : Min(Stop(s)) <= n
      <4> HIDE DEF Stop
      <4> QED
        BY <2>2, <3>1, Least DEF Min
    <3> HIDE DEF Stop
    <3> QED
      BY <1>2, <2>2, <3>1, <3>2, SMTT(30)
  <2> QED
    BY <2>1, <2>2
<1>5. DOMAIN files' = {s[n] : n \in 1..(m - 1)}
  <2> HIDE DEF m, Gone, Stop
  <2>1. \A n \in 1..Len(s) : n \in 1..(m - 1) <=> n \notin m..Len(s)
    BY <1>2, <1>4, SMTT(30)
  <2>2. \A n \in m..Len(s) : n \in 1..Len(s)
    BY <1>2, <1>4, SMTT(30)
  <2>3. \A n \in 1..Len(s) : s[n] \in Gone(s) <=> n \in m..Len(s)
    BY <1>2, <1>4, <2>2
  <2> QED
    BY <1>2, <1>3, <1>4, <2>1, <2>3
<1>6. /\ \A n \in 1..(m - 1) : /\ ~(SizeOf({s[x] : x \in 1..n}) > SizeLimit)
                               /\ ~IsExpired(s[n])
      /\ m <= Len(s) => \/ SizeOf({s[x] : x \in 1..m}) > SizeLimit
                        \/ IsExpired(s[m])
  <2> HIDE DEF m
  <2> QED
    BY <1>4
<1> HIDE DEF m
<1>7. m \in Nat
  BY <1>2, <1>4, SMTT(30)
<1> QED
  BY <1>4, <1>5, <1>6, <1>7

\* When the server starts and every file can be deleted, the newest files are
\* left, within the limits of size and age, and as many of them as the limits
\* allow, however many there were (package_cache.cc, Initialize and
\* PurgeOldPackagesIfNecessary).
THEOREM PurgeTheorem == Spec => PurgeKeepsNewest
<1> DEFINE kept == DOMAIN files'
           gone == DOMAIN files \ DOMAIN files'
           Goal == /\ SizeOf(kept) <= SizeLimit
                   /\ \A k \in kept : ~IsExpired(k)
                   /\ \A k \in kept, g \in gone : files[k].created >= files[g].created
                   /\ gone # {} =>
                        \E g \in gone : IsExpired(g) \/ SizeOf(kept \cup {g}) > SizeLimit
<1>1. Init => FileInv
  <2>1. DOMAIN <<>> = {}
    BY SMTT(30)
  <2> QED
    BY <2>1, FS_EmptySet DEF Init, FileInv
<1>2. FileInv /\ [Next]_vars => [running' /\ ~running /\ Honest => Goal]_vars
  <2> SUFFICES ASSUME FileInv, Next, running', ~running, Honest PROVE Goal
    OBVIOUS
  <2>1. PurgeOldPackagesIfNecessary /\ "delete" \notin faults
    BY DEF Next, Check, Download, Found, NotFound, Fetch, Downloaded, Get, InstallComplete, Crash,
           Initialize, Tick, Honest
  <2>2. PICK s \in SortPackageInfoByTime, m \in Nat :
          /\ m \in 1..(Len(s) + 1)
          /\ kept = {s[n] : n \in 1..(m - 1)}
          /\ \A n \in 1..(m - 1) : /\ ~(SizeOf({s[x] : x \in 1..n}) > SizeLimit)
                                   /\ ~IsExpired(s[n])
          /\ m <= Len(s) => \/ SizeOf({s[x] : x \in 1..m}) > SizeLimit
                            \/ IsExpired(s[m])
    BY <2>1, PurgeCuts
  <2>3. /\ Len(s) \in Nat /\ DOMAIN files = {s[n] : n \in 1..Len(s)}
        /\ \A x, y \in 1..Len(s) : x # y => s[x] # s[y]
    BY SortedFiles
  <2>4. gone = {s[n] : n \in m..Len(s)}
    BY <2>2, <2>3, SMTT(30)
  <2>5. SizeOf(kept) <= SizeLimit
    <3>1. kept \subseteq DOMAIN files
      BY <2>2, <2>3, SMTT(30)
    <3>2. SizeOf(kept) \in Nat /\ (kept = {} => SizeOf(kept) = 0)
      <4>1. IsFiniteSet(kept)
        BY <3>1, FS_Subset DEF FileInv
      <4>2. \A k \in kept : Len(files[k].data) \in Nat
        BY <3>1, SMTT(30) DEF FileInv
      <4> QED
        BY <4>1, <4>2, SizeType
    <3>3. CASE m = 1
      BY <2>2, <3>2, <3>3, CacheAssumption, SMTT(30)
    <3>4. CASE m # 1
      <4>1. m - 1 \in 1..(m - 1)
        BY <2>2, <3>4, SMTT(30)
      <4>2. ~(SizeOf(kept) > SizeLimit)
        BY <2>2, <4>1
      <4> QED
        BY <3>2, <4>2, CacheAssumption, SMTT(30)
    <3> QED
      BY <3>3, <3>4
  <2>6. \A k \in kept : ~IsExpired(k)
    BY <2>2
  <2>7. \A k \in kept, g \in gone : files[k].created >= files[g].created
    <3> SUFFICES ASSUME NEW x \in 1..(m - 1), NEW y \in m..Len(s)
                 PROVE  files[s[x]].created >= files[s[y]].created
      BY <2>2, <2>4
    <3>1. x \in 1..Len(s) /\ y \in 1..Len(s) /\ x < y
      BY <2>2, <2>3, SMTT(30)
    <3> QED
      BY <3>1 DEF SortPackageInfoByTime
  <2>8. gone # {} => \E g \in gone : IsExpired(g) \/ SizeOf(kept \cup {g}) > SizeLimit
    <3> SUFFICES ASSUME gone # {}
                 PROVE  \E g \in gone : IsExpired(g) \/ SizeOf(kept \cup {g}) > SizeLimit
      OBVIOUS
    <3>1. m <= Len(s) /\ m \in m..Len(s)
      BY <2>2, <2>3, <2>4, SMTT(30)
    <3>2. kept \cup {s[m]} = {s[x] : x \in 1..m}
      BY <2>2, <2>3, SMTT(30)
    <3>3. s[m] \in gone
      BY <2>4, <3>1
    <3> QED
      BY <2>2, <3>1, <3>2, <3>3
  <2> QED
    BY <2>5, <2>6, <2>7, <2>8
<1> QED
  BY <1>1, <1>2, InitIInv, NextIInv, NextFiles, PTL DEF Spec, PurgeKeepsNewest
=============================================================================
