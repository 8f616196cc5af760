--------------------------- MODULE JobCacheProofs ---------------------------
(***************************************************************************)
(* Proofs about JobCache, for any sets of processes and jobs: a job is     *)
(* used by one process, the collector touches no job in use, and a         *)
(* collection leaves the cache within its limit.  The last needs facts     *)
(* about the sum of sizes that the model takes from MapThenSumSet: they    *)
(* are proved here by induction over the number of jobs (NatOrder).        *)
(***************************************************************************)
EXTENDS JobCache, NatOrder, FiniteSetTheorems

-----------------------------------------------------------------------------
(* The inductive invariant *)

(* The types that the argument needs.                                      *)
Types ==
    /\ now \in 0..MaxTime
    /\ cache \in [Jobs -> Directories]
    /\ owner \in [Jobs -> Procs \cup {NoProc}]
    /\ pc \in [Procs -> Places]
    /\ job \in [Procs -> Jobs \cup {NoJob}]
    /\ todo \in [Procs -> SUBSET Jobs]
    /\ cur \in [Procs -> Jobs \cup {NoJob}]
    /\ kept \in [Procs -> SUBSET Jobs]

(* p has its own job's lock at this place.                                 *)
Inside(place) == place \notin {"idle", "acquire", "rmdir"}

(* Whoever uses a job owns its lock, from acquire to the return of build.  *)
UsersOwn(p) ==
    /\ pc[p] # "idle" => job[p] \in Jobs
    /\ Inside(pc[p]) => owner[job[p]] = p

(* The collector owns what it inspects or keeps; its own job is neither    *)
(* listed, nor inspected, nor kept (gc_cache skips `current`).             *)
CollectorOwns(p) ==
    /\ pc[p] = "decide" <=> cur[p] # NoJob
    /\ cur[p] # NoJob => owner[cur[p]] = p /\ cur[p] \notin kept[p] \cup {job[p]}
    /\ \A j \in kept[p] : owner[j] = p
    /\ job[p] \notin kept[p] \cup todo[p]

(* A process that has ended has left nothing of a collection.              *)
NothingLeft(p) ==
    pc[p] = "idle" => todo[p] = {} /\ kept[p] = {}

Good(p) == UsersOwn(p) /\ CollectorOwns(p) /\ NothingLeft(p)

CInv ==
    /\ Types
    /\ \A p \in Procs : Good(p)

-----------------------------------------------------------------------------
(* What a step of one process does to the others *)

(* The step changes no lock that another process owns.                     *)
Polite(p) ==
    \A j \in Jobs : owner[j] \notin {p, NoProc} => owner'[j] = owner[j]

(* The step changes no other process's local state.                        *)
Local(p) ==
    \A q \in Procs \ {p} :
        /\ pc'[q] = pc[q] /\ job'[q] = job[q] /\ todo'[q] = todo[q]
        /\ cur'[q] = cur[q] /\ kept'[q] = kept[q]

(* A polite step keeps CInv if it keeps the types and the process's own    *)
(* part: nobody's locks or local state depend on another process.          *)
LEMMA PoliteStep ==
    ASSUME CInv, NEW p \in Procs, Types', Polite(p), Local(p), Good(p)'
    PROVE  CInv'
<1>1. ASSUME NEW q \in Procs, q # p PROVE Good(q)'
  <2>1. UNCHANGED <<pc[q], job[q], todo[q], cur[q], kept[q]>>
    BY <1>1 DEF Local
  <2>2. \A j \in Jobs : owner[j] = q => owner'[j] = q
    BY <1>1, CacheAssumption DEF Polite
  <2>3. /\ job[q] \in Jobs \cup {NoJob} /\ cur[q] \in Jobs \cup {NoJob}
        /\ kept[q] \subseteq Jobs
    BY <1>1 DEF CInv, Types
  <2>4. UsersOwn(q)'
    BY <1>1, <2>1, <2>2, <2>3 DEF CInv, Good, UsersOwn, Inside
  <2>5. CollectorOwns(q)'
    BY <1>1, <2>1, <2>2, <2>3 DEF CInv, Good, CollectorOwns
  <2>6. NothingLeft(q)'
    BY <1>1, <2>1 DEF CInv, Good, NothingLeft
  <2> QED BY <2>4, <2>5, <2>6 DEF Good
<1> QED BY <1>1 DEF CInv

(* Dropping locks (drop of CacheLock) disturbs no other owner, and leaves  *)
(* the locks outside the set alone.                                        *)
LEMMA DropIsPolite ==
    ASSUME Types, NEW p \in Procs, NEW js, owner' = Unlocked(p, js)
    PROVE  /\ owner' \in [Jobs -> Procs \cup {NoProc}]
           /\ Polite(p)
           /\ \A j \in Jobs \ js : owner'[j] = owner[j]
  BY DEF Types, Unlocked, Polite

(* Nor does taking a lock that nobody has.                                 *)
LEMMA TakeIsPolite ==
    ASSUME Types, NEW p \in Procs, NEW j \in Jobs, owner[j] = NoProc,
           owner' = [owner EXCEPT ![j] = p]
    PROVE  /\ owner' \in [Jobs -> Procs \cup {NoProc}]
           /\ Polite(p)
           /\ owner'[j] = p
           /\ \A k \in Jobs : k # j => owner'[k] = owner[k]
  BY DEF Types, Polite

(* remove_dir_all, failed or not, touches one directory.                   *)
LEMMA RemovalIsLocal ==
    ASSUME Types, NEW j \in Jobs, NEW ok \in BOOLEAN, RemoveDirAll(j, ok)
    PROVE  /\ cache' \in [Jobs -> Directories]
           /\ \A k \in Jobs : k # j => cache'[k] = cache[k]
<1>1. Absent \in Directories
  BY CacheAssumption DEF Absent, Directories
<1>2. CASE ok
  BY <1>1, <1>2 DEF RemoveDirAll, Types
<1>3. CASE ~ok
  <2>1. PICK m \in {cache[j].manifest, "none"} : cache' = [cache EXCEPT ![j].manifest = m]
    BY <1>3 DEF RemoveDirAll
  <2>2. cache[j] \in Directories
    BY DEF Types
  <2>3. [cache[j] EXCEPT !.manifest = m] \in Directories
    BY <2>1, <2>2 DEF Directories
  <2>4. cache' = [cache EXCEPT ![j] = [cache[j] EXCEPT !.manifest = m]]
    BY <2>1
  <2> QED BY <2>3, <2>4 DEF Types
<1> QED BY <1>2, <1>3

(* create_dir_all keeps the type.                                          *)
LEMMA CreatedType ==
    ASSUME Types, NEW j \in Jobs
    PROVE  Created(j) \in [Jobs -> Directories]
<1>1. cache[j] \in Directories
  BY DEF Types
<1>2. [cache[j] EXCEPT !.manifest = "none"] \in Directories
  BY <1>1 DEF Directories
<1>3. [cache EXCEPT ![j].manifest = "none"] = [cache EXCEPT ![j] = [cache[j] EXCEPT !.manifest = "none"]]
  OBVIOUS
<1> QED BY <1>2, <1>3 DEF Created, Types

-----------------------------------------------------------------------------
(* The ways in which a step can go on *)

(* The process ends and forgets everything (return of build, exit).        *)
LEMMA ProcessEnds ==
    ASSUME CInv, NEW p \in Procs, Goto(p, "idle"), Forget(p), Polite(p),
           owner' \in [Jobs -> Procs \cup {NoProc}],
           cache' \in [Jobs -> Directories], now' = now
    PROVE  CInv'
<1>1. Types'
  BY DEF CInv, Types, Goto, Forget, Places
<1>2. Local(p)
  BY DEF CInv, Types, Goto, Forget, Local
<1>3. pc'[p] = "idle" /\ job'[p] = NoJob /\ todo'[p] = {} /\ cur'[p] = NoJob /\ kept'[p] = {}
  BY DEF CInv, Types, Goto, Forget
<1>4. Good(p)'
  BY <1>3 DEF Good, UsersOwn, Inside, CollectorOwns, NothingLeft
<1> QED BY <1>1, <1>2, <1>4, PoliteStep

(* The process moves on under the locks that it has.                       *)
LEMMA ProcessGoesOn ==
    ASSUME CInv, NEW p \in Procs, NEW place \in Places \ {"idle", "decide"},
           pc[p] \notin {"idle", "decide"}, Inside(place) => Inside(pc[p]),
           Goto(p, place), UNCHANGED <<now, owner, job, todo, cur, kept>>,
           cache' \in [Jobs -> Directories]
    PROVE  CInv'
<1>1. Types'
  BY DEF CInv, Types, Goto
<1>2. Local(p) /\ pc'[p] = place
  BY DEF CInv, Types, Goto, Local
<1>3. Polite(p)
  BY DEF Polite
<1>4. Good(p)'
  BY <1>2 DEF CInv, Good, UsersOwn, Inside, CollectorOwns, NothingLeft
<1> QED BY <1>1, <1>2, <1>3, <1>4, PoliteStep

-----------------------------------------------------------------------------
(* The initial states *)

(* CInv holds when no process runs, whatever earlier builds have left.     *)
THEOREM InitCInv == Init => CInv
<1> SUFFICES ASSUME Init PROVE CInv
  OBVIOUS
<1>1. Absent \in Directories /\ MaxAge + 1 \in 0..MaxTime
  BY CacheAssumption DEF Absent, Directories
<1>2. Types
  BY <1>1, CacheAssumption DEF Init, Types, Places
<1>3. ASSUME NEW p \in Procs PROVE Good(p)
  BY <1>3 DEF Init, Good, UsersOwn, Inside, CollectorOwns, NothingLeft
<1> QED BY <1>2, <1>3 DEF CInv

-----------------------------------------------------------------------------
(* The steps of a build *)

(* A process is started for some job.                                      *)
LEMMA RequestStep == ASSUME CInv, NEW p \in Procs, Request(p) PROVE CInv'
<1>1. PICK j \in Jobs : job' = [job EXCEPT ![p] = j]
  BY DEF Request
<1>2. pc[p] = "idle" /\ Goto(p, "acquire") /\ UNCHANGED <<now, cache, owner, todo, cur, kept>>
  BY DEF Request
<1>3. Types'
  BY <1>1, <1>2 DEF CInv, Types, Goto, Places
<1>4. Local(p) /\ Polite(p) /\ pc'[p] = "acquire" /\ job'[p] = j
  BY <1>1, <1>2 DEF CInv, Types, Goto, Local, Polite
<1>5. Good(p)'
  BY <1>2, <1>4 DEF CInv, Good, UsersOwn, Inside, CollectorOwns, NothingLeft
<1> QED BY <1>3, <1>4, <1>5, PoliteStep

(* A build takes its job's lock when nobody has it.                        *)
LEMMA AcquireStep == ASSUME CInv, NEW p \in Procs, Acquire(p) PROVE CInv'
<1>1. /\ pc[p] = "acquire" /\ Goto(p, "create")
      /\ owner[job[p]] = NoProc /\ owner' = [owner EXCEPT ![job[p]] = p]
      /\ UNCHANGED <<now, cache, job, todo, cur, kept>>
  BY DEF Acquire
<1>2. job[p] \in Jobs /\ Types /\ kept[p] \subseteq Jobs
  BY <1>1 DEF CInv, Good, UsersOwn, Types
<1>3. /\ owner' \in [Jobs -> Procs \cup {NoProc}] /\ Polite(p) /\ owner'[job[p]] = p
      /\ \A k \in Jobs : k # job[p] => owner'[k] = owner[k]
  BY <1>1, <1>2, TakeIsPolite
<1>4. Types'
  BY <1>1, <1>3 DEF CInv, Types, Goto, Places
<1>5. Local(p) /\ pc'[p] = "create"
  BY <1>1 DEF CInv, Types, Goto, Local
<1>6. Good(p)'
  BY <1>1, <1>2, <1>3, <1>5 DEF CInv, Good, UsersOwn, Inside, CollectorOwns, NothingLeft
<1> QED BY <1>3, <1>4, <1>5, <1>6, PoliteStep

(* Creating the job's directory, under its lock.                           *)
LEMMA CreateDirStep == ASSUME CInv, NEW p \in Procs, CreateDir(p) PROVE CInv'
<1>1. job[p] \in Jobs /\ Types
  BY DEF CreateDir, CInv, Good, UsersOwn
<1> QED
  BY <1>1, CreatedType, ProcessGoesOn DEF CreateDir, Inside, Places

(* build returns and its lock goes out of scope.                           *)
LEMMA ReturnStep ==
    ASSUME CInv, NEW p \in Procs, Return(p), UNCHANGED <<now, cache>>
    PROVE  CInv'
<1>1. owner' \in [Jobs -> Procs \cup {NoProc}] /\ Polite(p)
  BY DropIsPolite DEF Return, CInv
<1> QED BY <1>1, ProcessEnds DEF Return, CInv, Types

(* The manifest is refused, or the build goes on in its directory.         *)
LEMMA ReadManifestStep == ASSUME CInv, NEW p \in Procs, ReadManifest(p) PROVE CInv'
<1>1. job[p] \in Jobs /\ Types /\ pc[p] = "manifest" /\ now' = now
  BY DEF ReadManifest, CInv, Good, UsersOwn
<1>2. CASE Return(p) /\ UNCHANGED cache
  BY <1>1, <1>2, ReturnStep
<1>3. CASE /\ cache' = Created(job[p]) /\ Goto(p, "work")
           /\ UNCHANGED <<owner, kind, job, gcNow, todo, cur, kept, total, history>>
  BY <1>1, <1>3, CreatedType, ProcessGoesOn DEF Inside, Places
<1> QED BY <1>2, <1>3 DEF ReadManifest

(* The build writes into its own directory.                                *)
LEMMA WriteStep == ASSUME CInv, NEW p \in Procs, Write(p) PROVE CInv'
<1>1. PICK s \in Sizes \ {0} :
         cache' = [cache EXCEPT ![job[p]] = [manifest |-> "valid", size |-> s, stamp |-> now]]
  BY DEF Write
<1>2. [manifest |-> "valid", size |-> s, stamp |-> now] \in Directories
  BY DEF CInv, Types, Directories
<1>3. cache' \in [Jobs -> Directories] /\ UNCHANGED <<now, owner, pc, job, todo, cur, kept>>
  BY <1>1, <1>2 DEF CInv, Types, Write, procVars
<1> QED
  BY <1>3 DEF CInv, Types, Good, UsersOwn, Inside, CollectorOwns, NothingLeft

(* The end of a build, and of an engine that has outlived its build.       *)
LEMMA FinishSteps ==
    ASSUME CInv, NEW p \in Procs, Finish(p) \/ OrphanExit(p)
    PROVE  CInv'
  BY ReturnStep DEF Finish, OrphanExit

(* A clean drops its lock, and then removes a directory that it no longer  *)
(* owns: it is no user of the job any more.                                *)
LEMMA CleanSteps ==
    ASSUME CInv, NEW p \in Procs, CleanDrop(p) \/ CleanRemove(p)
    PROVE  CInv'
<1>1. CASE CleanDrop(p)
  <2>1. /\ pc[p] = "manifest" /\ Goto(p, "rmdir") /\ owner' = Unlocked(p, {job[p]})
        /\ UNCHANGED <<now, cache, job, todo, cur, kept>>
    BY <1>1 DEF CleanDrop
  <2>2. /\ owner' \in [Jobs -> Procs \cup {NoProc}] /\ Polite(p)
        /\ \A j \in Jobs \ {job[p]} : owner'[j] = owner[j]
    BY <2>1, DropIsPolite DEF CInv
  <2>3. Types' /\ kept[p] \subseteq Jobs /\ Local(p) /\ pc'[p] = "rmdir"
    BY <2>1, <2>2 DEF CInv, Types, Goto, Places, Local
  <2>4. Good(p)'
    BY <2>1, <2>2, <2>3 DEF CInv, Good, UsersOwn, Inside, CollectorOwns, NothingLeft
  <2> QED BY <2>2, <2>3, <2>4, PoliteStep
<1>2. CASE CleanRemove(p)
  <2>1. job[p] \in Jobs /\ Types
    BY <1>2 DEF CleanRemove, CInv, Good, UsersOwn
  <2>2. cache' \in [Jobs -> Directories]
    BY <1>2, <2>1, RemovalIsLocal DEF CleanRemove
  <2>3. Polite(p) /\ owner' \in [Jobs -> Procs \cup {NoProc}]
    BY <1>2, <2>1 DEF CleanRemove, Polite, Types
  <2> QED BY <1>2, <2>2, <2>3, ProcessEnds DEF CleanRemove
<1> QED BY <1>1, <1>2

-----------------------------------------------------------------------------
(* The steps of the collector *)

(* The steps of maybe_gc_cache that touch no job's lock: the two looks at  *)
(* the stamp, the listing, the sum, the end of the eviction.               *)
LEMMA GcQuietSteps ==
    ASSUME CInv, NEW p \in Procs,
           GcSkip(p) \/ GcLock(p) \/ GcRecheck(p) \/ ScanEnd(p) \/ EvictEnd(p)
    PROVE  CInv'
<1> USE DEF Inside, Places
<1>0. cache \in [Jobs -> Directories]
  BY DEF CInv, Types
<1>1. CASE GcSkip(p)
  BY <1>0, <1>1, ProcessGoesOn DEF GcSkip
<1>2. CASE GcLock(p)
  BY <1>0, <1>2, ProcessGoesOn DEF GcLock
<1>3. CASE ScanEnd(p)
  BY <1>0, <1>3, ProcessGoesOn DEF ScanEnd
<1>4. CASE EvictEnd(p)
  BY <1>0, <1>4, ProcessGoesOn DEF EvictEnd
<1>5. CASE GcRecheck(p)
  <2>1. pc[p] = "gcRecheck" /\ UNCHANGED <<now, cache, owner, job, cur, kept>>
    BY <1>5 DEF GcRecheck
  <2>2. CASE Goto(p, "manifest") /\ UNCHANGED todo
    BY <1>0, <2>1, <2>2, ProcessGoesOn
  <2>3. CASE /\ todo' = [todo EXCEPT ![p] =
                           {j \in Jobs : cache[j].manifest # "absent"} \ {job[p]}]
             /\ Goto(p, "scan")
    <3>1. Types' /\ Local(p) /\ pc'[p] = "scan" /\ job[p] \notin todo'[p]
      BY <2>1, <2>3 DEF CInv, Types, Goto, Local
    <3>2. Polite(p)
      BY <2>1 DEF Polite
    <3>3. Good(p)'
      BY <2>1, <3>1 DEF CInv, Good, UsersOwn, CollectorOwns, NothingLeft
    <3> QED BY <3>1, <3>2, <3>3, PoliteStep
  <2> QED BY <1>5, <2>2, <2>3 DEF GcRecheck
<1> QED BY <1>1, <1>2, <1>3, <1>4, <1>5

(* try_acquire on an entry: passed over, or locked and inspected.          *)
LEMMA ScanEntryStep == ASSUME CInv, NEW p \in Procs, ScanEntry(p) PROVE CInv'
<1>1. PICK j \in todo[p] :
         /\ todo' = [todo EXCEPT ![p] = @ \ {j}]
         /\ \/ owner[j] # NoProc /\ UNCHANGED <<owner, cur, pc>>
            \/ /\ owner[j] = NoProc
               /\ owner' = [owner EXCEPT ![j] = p]
               /\ cur' = [cur EXCEPT ![p] = j]
               /\ Goto(p, "decide")
  BY DEF ScanEntry, TryEntry
<1>2. pc[p] = "scan" /\ UNCHANGED <<now, cache, job, kept>>
  BY DEF ScanEntry
<1>3. Types /\ j \in Jobs /\ kept[p] \subseteq Jobs /\ todo'[p] \subseteq todo[p]
  BY <1>1 DEF CInv, Types
<1>4. /\ job[p] \in Jobs /\ owner[job[p]] = p /\ job[p] \notin kept[p] \cup todo[p]
      /\ \A k \in kept[p] : owner[k] = p
      /\ cur[p] = NoJob
  BY <1>2 DEF CInv, Good, UsersOwn, Inside, CollectorOwns
<1>5. CASE owner[j] # NoProc /\ UNCHANGED <<owner, cur, pc>>
  <2>1. Types' /\ Local(p) /\ Polite(p)
    BY <1>1, <1>2, <1>5 DEF CInv, Types, Local, Polite
  <2>2. Good(p)'
    BY <1>2, <1>3, <1>4, <1>5 DEF Good, UsersOwn, CollectorOwns, NothingLeft
  <2> QED BY <2>1, <2>2, PoliteStep
<1>6. CASE /\ owner[j] = NoProc
           /\ owner' = [owner EXCEPT ![j] = p]
           /\ cur' = [cur EXCEPT ![p] = j]
           /\ Goto(p, "decide")
  <2>1. /\ owner' \in [Jobs -> Procs \cup {NoProc}] /\ Polite(p) /\ owner'[j] = p
        /\ \A k \in Jobs : k # j => owner'[k] = owner[k]
    BY <1>3, <1>6, TakeIsPolite
  <2>2. Types'
    BY <1>1, <1>2, <1>3, <1>6, <2>1 DEF Types, Goto, Places
  <2>3. Local(p) /\ pc'[p] = "decide" /\ cur'[p] = j
    BY <1>1, <1>2, <1>3, <1>6 DEF Types, Goto, Local
  <2>4. j \notin kept[p] \cup {job[p]} /\ j # NoJob
    BY <1>1, <1>3, <1>4, <1>6, CacheAssumption
  <2>5. Good(p)'
    BY <1>2, <1>3, <1>4, <2>1, <2>3, <2>4 DEF Good, UsersOwn, CollectorOwns, NothingLeft
  <2> QED BY <2>1, <2>2, <2>3, <2>5, PoliteStep
<1> QED BY <1>1, <1>5, <1>6

(* The entry is discarded and unlocked, or kept locked.                    *)
LEMMA ScanDecideStep == ASSUME CInv, NEW p \in Procs, ScanDecide(p) PROVE CInv'
<1>1. /\ pc[p] = "decide" /\ Goto(p, "scan") /\ cur' = [cur EXCEPT ![p] = NoJob]
      /\ UNCHANGED <<now, job, todo>>
  BY DEF ScanDecide
<1>2. /\ Types /\ cur[p] \in Jobs /\ kept[p] \subseteq Jobs
      /\ job[p] \in Jobs /\ owner[job[p]] = p /\ job[p] \notin kept[p] \cup todo[p]
      /\ cur[p] \notin kept[p] \cup {job[p]}
      /\ owner[cur[p]] = p /\ \A k \in kept[p] : owner[k] = p
  BY <1>1 DEF CInv, Types, Good, UsersOwn, Inside, CollectorOwns
<1>3. Local(p) <=> \A q \in Procs \ {p} : kept'[q] = kept[q]
  BY <1>1, <1>2 DEF Types, Goto, Local
<1>4. pc'[p] = "scan" /\ cur'[p] = NoJob
  BY <1>1, <1>2 DEF Types, Goto
<1>5. CASE /\ \E ok \in BOOLEAN : RemoveDirAll(cur[p], ok)
           /\ owner' = Unlocked(p, {cur[p]})
           /\ UNCHANGED kept
  <2>1. cache' \in [Jobs -> Directories]
    BY <1>2, <1>5, RemovalIsLocal
  <2>2. /\ owner' \in [Jobs -> Procs \cup {NoProc}] /\ Polite(p)
        /\ \A j \in Jobs \ {cur[p]} : owner'[j] = owner[j]
    BY <1>2, <1>5, DropIsPolite
  <2>3. Types'
    BY <1>1, <1>2, <1>5, <2>1, <2>2 DEF Types, Goto, Places
  <2>4. Good(p)'
    BY <1>1, <1>2, <1>4, <1>5, <2>2 DEF Good, UsersOwn, CollectorOwns, NothingLeft
  <2> QED BY <1>3, <1>5, <2>2, <2>3, <2>4, PoliteStep
<1>6. CASE kept' = [kept EXCEPT ![p] = @ \cup {cur[p]}] /\ UNCHANGED <<cache, owner>>
  <2>1. Types' /\ Polite(p)
    BY <1>1, <1>2, <1>6 DEF Types, Goto, Places, Polite
  <2>2. Local(p) /\ kept'[p] = kept[p] \cup {cur[p]}
    BY <1>2, <1>3, <1>6 DEF Types
  <2>3. Good(p)'
    BY <1>1, <1>2, <1>4, <1>6, <2>2 DEF Good, UsersOwn, CollectorOwns, NothingLeft
  <2> QED BY <2>1, <2>2, <2>3, PoliteStep
<1> QED BY <1>5, <1>6 DEF ScanDecide

(* Locks of kept entries are dropped, one by one (Evict) or all (GcEnd);   *)
(* the collector's own job is not among them.                              *)
LEMMA KeptDropped ==
    ASSUME CInv, NEW p \in Procs, NEW js \in SUBSET kept[p], pc[p] \in {"evict", "gcEnd"},
           NEW place \in {"evict", "manifest"}, Goto(p, place),
           owner' = Unlocked(p, js), kept' = [kept EXCEPT ![p] = @ \ js],
           cache' \in [Jobs -> Directories], UNCHANGED <<now, job, todo, cur>>
    PROVE  CInv'
<1>1. /\ Types /\ kept[p] \subseteq Jobs /\ cur[p] = NoJob
      /\ job[p] \in Jobs /\ owner[job[p]] = p /\ job[p] \notin kept[p] \cup todo[p]
      /\ \A k \in kept[p] : owner[k] = p
  BY DEF CInv, Types, Good, UsersOwn, Inside, CollectorOwns
<1>2. /\ owner' \in [Jobs -> Procs \cup {NoProc}] /\ Polite(p)
      /\ \A j \in Jobs \ js : owner'[j] = owner[j]
  BY <1>1, DropIsPolite
<1>3. Types'
  BY <1>1, <1>2 DEF Types, Goto, Places
<1>4. Local(p) /\ pc'[p] = place /\ kept'[p] = kept[p] \ js
  BY <1>1 DEF Types, Goto, Local
<1>5. Good(p)'
  BY <1>1, <1>2, <1>4 DEF Good, UsersOwn, CollectorOwns, NothingLeft
<1> QED BY <1>2, <1>3, <1>4, <1>5, PoliteStep

(* One eviction, and the end of a collection.                              *)
LEMMA EvictionSteps ==
    ASSUME CInv, NEW p \in Procs, Evict(p) \/ GcEnd(p)
    PROVE  CInv'
<1>1. CASE Evict(p)
  <2>1. PICK j \in Oldest(kept[p]) :
           /\ \E ok \in BOOLEAN : RemoveDirAll(j, ok)
           /\ kept' = [kept EXCEPT ![p] = @ \ {j}]
           /\ owner' = Unlocked(p, {j})
    BY <1>1 DEF Evict
  <2>2. j \in kept[p] /\ j \in Jobs /\ Types
    BY <2>1 DEF Oldest, CInv, Types
  <2>3. cache' \in [Jobs -> Directories]
    BY <2>1, <2>2, RemovalIsLocal
  <2>4. pc[p] = "evict" /\ Goto(p, "evict") /\ UNCHANGED <<now, job, todo, cur>>
    BY <1>1, <2>2 DEF Evict, Goto, Types
  <2> QED BY <2>1, <2>2, <2>3, <2>4, KeptDropped
<1>2. CASE GcEnd(p)
  <2>1. Types /\ [kept EXCEPT ![p] = {}] = [kept EXCEPT ![p] = @ \ kept[p]]
    BY DEF CInv
  <2>2. /\ pc[p] = "gcEnd" /\ Goto(p, "manifest") /\ owner' = Unlocked(p, kept[p])
        /\ kept' = [kept EXCEPT ![p] = @ \ kept[p]]
        /\ cache' \in [Jobs -> Directories] /\ UNCHANGED <<now, job, todo, cur>>
    BY <1>2, <2>1 DEF GcEnd, Types
  <2> QED BY <2>2, KeptDropped
<1> QED BY <1>1, <1>2

(* A killed process loses its locks, or leaves an engine with its job.     *)
LEMMA KillStep == ASSUME CInv, NEW p \in Procs, Kill(p) PROVE CInv'
<1>1. UNCHANGED <<now, cache>> /\ cache' \in [Jobs -> Directories]
  BY DEF Kill, CInv, Types
<1>2. CASE /\ pc[p] = "work" /\ Goto(p, "orphan")
           /\ UNCHANGED <<owner, kind, job, gcNow, todo, cur, kept, total, history>>
  BY <1>1, <1>2, ProcessGoesOn DEF Inside, Places
<1>3. CASE owner' = Unlocked(p, Jobs) /\ Goto(p, "idle") /\ Forget(p)
  <2>1. owner' \in [Jobs -> Procs \cup {NoProc}] /\ Polite(p)
    BY <1>3, DropIsPolite DEF CInv
  <2> QED BY <1>1, <1>3, <2>1, ProcessEnds
<1> QED BY <1>2, <1>3 DEF Kill, LocksOfDead

-----------------------------------------------------------------------------
(* One job, one process *)

(* Every step keeps CInv.                                                  *)
THEOREM NextCInv == CInv /\ [Next]_vars => CInv'
<1> SUFFICES ASSUME CInv, [Next]_vars PROVE CInv'
  OBVIOUS
<1>1. CASE Tick
  <2>1. now' \in 0..MaxTime /\ UNCHANGED <<cache, owner, pc, job, todo, cur, kept>>
    BY <1>1, CacheAssumption DEF CInv, Types, Tick, procVars
  <2> QED BY <2>1 DEF CInv, Types, Good, UsersOwn, Inside, CollectorOwns, NothingLeft
<1>2. CASE UNCHANGED vars
  BY <1>2 DEF vars, procVars, CInv, Types, Good, UsersOwn, Inside, CollectorOwns, NothingLeft
<1>3. ASSUME NEW p \in Procs, Request(p) \/ Write(p) \/ Kill(p) PROVE CInv'
  BY <1>3, RequestStep, WriteStep, KillStep
<1>4. ASSUME NEW p \in Procs, Step(p) PROVE CInv'
  BY <1>4, AcquireStep, CreateDirStep, GcQuietSteps, ScanEntryStep, ScanDecideStep,
     EvictionSteps, ReadManifestStep, FinishSteps, CleanSteps DEF Step
<1> QED BY <1>1, <1>2, <1>3, <1>4 DEF Next

(* CInv is an invariant of the cache.                                      *)
THEOREM CInvHolds == Spec => []CInv
  BY InitCInv, NextCInv, PTL DEF Spec

(* While a process is at work in a job's directory (a build, a collection  *)
(* for its own job, an engine that has outlived its build, a clean up to   *)
(* its drop of the lock), nobody else is, except a clean in its last step, *)
(* the removal without the lock (acquire in build, clean at its end).      *)
THEOREM ExclusiveUseHolds == Spec => []ExclusiveUse
<1>1. CInv => ExclusiveUse
  BY DEF CInv, Good, UsersOwn, Inside, ExclusiveUse, Using, Removing
<1> QED BY <1>1, CInvHolds, PTL

(* The collector changes no directory of a job in use under its lock:      *)
(* neither its own build's nor another's (gc_cache).                       *)
THEOREM CollectorSparesActiveJobsHolds == Spec => CollectorSparesActiveJobs
<1> DEFINE Spares == \A p \in Procs : ScanDecide(p) \/ Evict(p) =>
               \A q \in Procs, j \in Jobs :
                   Using(q, j) /\ ~Removing(q) => cache'[j] = cache[j]
<1>1. CInv /\ [Next]_vars => [Spares]_vars
  <2> SUFFICES ASSUME CInv, NEW p \in Procs, ScanDecide(p) \/ Evict(p),
                      NEW q \in Procs, NEW j \in Jobs, Using(q, j), ~Removing(q)
               PROVE  cache'[j] = cache[j]
    OBVIOUS
  <2>1. owner[j] = q /\ job[q] = j /\ Types
    BY DEF CInv, Good, UsersOwn, Inside, Using, Removing
  <2>2. CASE ScanDecide(p)
    <3>1. cur[p] \in Jobs /\ owner[cur[p]] = p /\ cur[p] # job[p]
      BY <2>2 DEF ScanDecide, CInv, Types, Good, CollectorOwns
    <3>2. cur[p] # j
      BY <2>1, <3>1
    <3> QED BY <2>1, <2>2, <3>1, <3>2, RemovalIsLocal DEF ScanDecide
  <2>3. CASE Evict(p)
    <3>1. PICK k \in kept[p] : \E ok \in BOOLEAN : RemoveDirAll(k, ok)
      BY <2>3 DEF Evict, Oldest
    <3>2. k \in Jobs /\ owner[k] = p /\ k # job[p]
      BY <3>1 DEF CInv, Types, Good, CollectorOwns
    <3>3. k # j
      BY <2>1, <3>2
    <3> QED BY <2>1, <3>1, <3>2, <3>3, RemovalIsLocal
  <2> QED BY <2>2, <2>3
<1>2. Spec => [][Spares]_vars
  BY <1>1, CInvHolds, PTL DEF Spec
<1> QED BY <1>2 DEF CollectorSparesActiveJobs

-----------------------------------------------------------------------------
(* Sums over finite sets *)

(* The element that MapThenSumSet adds next.                               *)
Pick(s) == CHOOSE x \in s : TRUE

(* h[s] is the sum of the sizes in c over s, for the subsets s of S.       *)
SumAt(h, c, s) ==
    IF s = {} THEN 0 ELSE c[Pick(s)].size + h[s \ {Pick(s)}]

IsSum(h, c, S) == h = [s \in SUBSET S |-> SumAt(h, c, s)]

(* What the directories js of the cache c add up to.                       *)
Measured(c, js) == MapThenSumSet(LAMBDA j : c[j].size, js)

(* The sizes in c are natural numbers.                                     *)
LEMMA SizesAreNat ==
    ASSUME NEW c \in [Jobs -> Directories], NEW j \in Jobs
    PROVE  c[j].size \in Nat
  BY CacheAssumption DEF Directories

(* The sets of jobs with at most n elements.                      *)
UpToSize(n) == {s \in SUBSET Jobs : Cardinality(s) <= n}

(* Without one of its elements, a set of n + 1 jobs has n.                 *)
LEMMA SmallerSet ==
    ASSUME NEW n \in Nat, NEW s \in UpToSize(n + 1), NEW x \in s
    PROVE  s \ {x} \in UpToSize(n)
<1>1. IsFiniteSet(s) /\ s \in SUBSET Jobs
  BY CacheAssumption, FS_Subset DEF UpToSize
<1>2. Cardinality(s \ {x}) = Cardinality(s) - 1 /\ Cardinality(s) \in Nat
  BY <1>1, FS_RemoveElement, FS_CardinalityType
<1> QED BY <1>1, <1>2 DEF UpToSize

(* Induction over sets of jobs: what holds of the sets of at most 0        *)
(* elements and is handed on to larger ones holds of all.                  *)
LEMMA SetInduction ==
    ASSUME NEW G, UpToSize(0) \subseteq G,
           \A n \in Nat : UpToSize(n) \subseteq G => UpToSize(n + 1) \subseteq G
    PROVE  SUBSET Jobs \subseteq G
<1> SUFFICES ASSUME NEW s \in SUBSET Jobs PROVE s \in G
  OBVIOUS
<1>1. Cardinality(s) \in Nat
  BY CacheAssumption, FS_Subset, FS_CardinalityType
<1> DEFINE N == {n \in Nat : UpToSize(n) \subseteq G}
           c == Cardinality(s)
<1>2. 0 \in N /\ \A k \in 0..(c - 1) : k \in N => k + 1 \in N
  OBVIOUS
<1>3. c \in Nat
  BY <1>1
<1>4. 0..c \subseteq N
  <2> HIDE DEF N, c
  <2> QED BY <1>2, <1>3, UpTo
<1>5. c \in N
  BY <1>3, <1>4
<1> QED BY <1>1, <1>5 DEF UpToSize

(* The empty set is the only set without elements.                         *)
LEMMA NoElements == UpToSize(0) = {{}}
<1>1. ASSUME NEW s \in UpToSize(0) PROVE s = {}
  BY CacheAssumption, FS_Subset, FS_EmptySet, FS_CardinalityType DEF UpToSize
<1>2. {} \in UpToSize(0)
  BY FS_EmptySet DEF UpToSize
<1> QED BY <1>1, <1>2

(* There is such a function: it is extended from sets to larger ones.      *)
LEMMA SumExists ==
    ASSUME NEW c \in [Jobs -> Directories], NEW S \in SUBSET Jobs
    PROVE  \E h : IsSum(h, c, S)
<1> DEFINE Layer(n) == UpToSize(n) \cap SUBSET S
           Upto(h, n) == h = [s \in Layer(n) |-> SumAt(h, c, s)]
           N == {n \in Nat : \E h : Upto(h, n)}
<1>1. 0 \in N
  <2>1. Layer(0) = {{}}
    BY NoElements
  <2>2. Upto([s \in Layer(0) |-> 0], 0)
    BY <2>1 DEF SumAt
  <2> QED BY <2>2
<1>2. ASSUME NEW n \in N PROVE n + 1 \in N
  <2>1. PICK h : Upto(h, n)
    OBVIOUS
  <2> DEFINE g == [s \in Layer(n + 1) |-> SumAt(h, c, s)]
  <2>2. ASSUME NEW s \in Layer(n + 1) PROVE SumAt(g, c, s) = SumAt(h, c, s)
    <3>1. CASE s = {}
      BY <3>1 DEF SumAt
    <3>2. CASE s # {}
      <4>1. Pick(s) \in s
        BY <3>2 DEF Pick
      <4>2. s \ {Pick(s)} \in Layer(n)
        BY <4>1, SmallerSet
      <4>3. Layer(n) \subseteq Layer(n + 1)
        BY CacheAssumption, FS_Subset, FS_CardinalityType DEF UpToSize
      <4>4. g[s \ {Pick(s)}] = h[s \ {Pick(s)}]
        <5> DEFINE r == s \ {Pick(s)}
        <5>1. r \in Layer(n) /\ r \in Layer(n + 1)
          BY <4>2, <4>3
        <5> HIDE DEF r, Layer
        <5>2. g[r] = SumAt(h, c, r)
          BY <5>1
        <5>3. h[r] = SumAt(h, c, r)
          BY <2>1, <5>1
        <5> QED BY <5>2, <5>3 DEF r
      <4> HIDE DEF g
      <4> QED BY <3>2, <4>4 DEF SumAt
    <3> QED BY <3>1, <3>2
  <2>3. Upto(g, n + 1)
    <3> HIDE DEF Layer
    <3>1. g = [s \in Layer(n + 1) |-> SumAt(h, c, s)]
      OBVIOUS
    <3> HIDE DEF g
    <3> QED BY <2>2, <3>1
  <2>4. n + 1 \in Nat /\ \E k : Upto(k, n + 1)
    <3>1. n + 1 \in Nat
      OBVIOUS
    <3> HIDE DEF g, Upto
    <3> QED BY <2>3, <3>1
  <2> HIDE DEF Upto
  <2> QED BY <2>4
<1>3. Cardinality(S) \in Nat /\ IsFiniteSet(S)
  BY CacheAssumption, FS_Subset, FS_CardinalityType
<1>4. Cardinality(S) \in N
  <2>1. \A k \in 0..(Cardinality(S) - 1) : k \in N => k + 1 \in N
    <3> HIDE DEF N
    <3> QED BY <1>2
  <2>2. 0..Cardinality(S) \subseteq N
    <3> HIDE DEF N
    <3> QED BY <1>1, <1>3, <2>1, UpTo
  <2>3. Cardinality(S) \in 0..Cardinality(S)
    BY <1>3
  <2> HIDE DEF N
  <2> QED BY <2>2, <2>3
<1>5. Layer(Cardinality(S)) = SUBSET S
  BY <1>3, FS_Subset DEF UpToSize
<1>6. PICK h : Upto(h, Cardinality(S))
  BY <1>4
<1> QED BY <1>5, <1>6 DEF IsSum

(* MapThenSumSet computes one.                                             *)
LEMMA MeasuredIsSum ==
    ASSUME NEW c \in [Jobs -> Directories], NEW js \in SUBSET Jobs
    PROVE  \E h : IsSum(h, c, js) /\ Measured(c, js) = h[js]
<1> DEFINE h == CHOOSE k : IsSum(k, c, js)
<1>1. IsSum(h, c, js)
  BY SumExists
<1>2. Measured(c, js) = h[js]
  BY DEF Measured, MapThenSumSet, MapThenFoldSet, IsSum, SumAt, Pick
<1> QED BY <1>1, <1>2

(* A sum is what one element adds, any element, and the rest.              *)
LEMMA SumRemove ==
    ASSUME NEW c \in [Jobs -> Directories], NEW S \in SUBSET Jobs, NEW h, IsSum(h, c, S)
    PROVE  \A T \in SUBSET S : /\ h[T] \in Nat
                               /\ \A x \in T : h[T] = c[x].size + h[T \ {x}]
<1> DEFINE Fine(T) == /\ h[T] \in Nat
                      /\ \A x \in T : h[T] = c[x].size + h[T \ {x}]
           G == {T \in SUBSET Jobs : T \in SUBSET S => Fine(T)}
<1>0. \A T \in SUBSET S : h[T] = SumAt(h, c, T)
  BY DEF IsSum
<1>1. UpToSize(0) \subseteq G
  <2>1. h[{}] = 0
    BY <1>0 DEF SumAt
  <2>2. {} \in G
    BY <2>1
  <2> QED BY <2>2, NoElements
<1>2. ASSUME NEW n \in Nat, UpToSize(n) \subseteq G, NEW T \in UpToSize(n + 1), T \in SUBSET S
      PROVE  Fine(T)
  <2>1. CASE T = {}
    BY <2>1, <1>0 DEF SumAt
  <2>2. CASE T # {}
    <3> DEFINE y == Pick(T)
    <3>1. y \in T /\ y \in Jobs
      BY <1>2, <2>2 DEF Pick, UpToSize
    <3>2. h[T] = c[y].size + h[T \ {y}]
      BY <1>0, <1>2, <2>2 DEF SumAt
    <3> HIDE DEF y
    <3>3. \A x \in T : Fine(T \ {x})
      BY <1>2, SmallerSet DEF UpToSize
    <3>4. h[T] \in Nat
      <4>1. c[y].size \in Nat /\ h[T \ {y}] \in Nat
        BY <3>1, <3>3, SizesAreNat
      <4> QED BY <3>2, <4>1
    <3>5. ASSUME NEW x \in T, x # y PROVE h[T] = c[x].size + h[T \ {x}]
      <4>1. h[T \ {y}] = c[x].size + h[(T \ {y}) \ {x}]
        BY <3>1, <3>3, <3>5
      <4>2. h[T \ {x}] = c[y].size + h[(T \ {x}) \ {y}]
        BY <3>1, <3>3, <3>5
      <4>3. (T \ {x}) \ {y} = (T \ {y}) \ {x} /\ x \in Jobs
        BY <1>2 DEF UpToSize
      <4>4. h[(T \ {x}) \ {y}] \in Nat
        <5>1. T \ {x} \in UpToSize(n) /\ T \ {x} \in SUBSET S /\ n \in Nat
          BY <1>2, SmallerSet
        <5>2. (T \ {x}) \ {y} \in UpToSize(n)
          BY <5>1, CacheAssumption, FS_Subset, FS_CardinalityType DEF UpToSize
        <5> QED BY <1>2, <5>1, <5>2
      <4>5. c[x].size \in Nat /\ c[y].size \in Nat
        BY <3>1, <4>3, SizesAreNat
      <4>6. h[T \ {y}] = c[x].size + h[(T \ {x}) \ {y}]
        BY <4>1, <4>3
      <4> QED BY ONLY <3>2, <4>2, <4>4, <4>5, <4>6
    <3> QED BY <3>2, <3>4, <3>5
  <2> QED BY <2>1, <2>2
<1>3. ASSUME NEW n \in Nat, UpToSize(n) \subseteq G PROVE UpToSize(n + 1) \subseteq G
  BY <1>2, <1>3 DEF UpToSize
<1>4. SUBSET Jobs \subseteq G
  <2> HIDE DEF G
  <2> QED BY <1>1, <1>3, SetInduction
<1> QED BY <1>4

(* A sum of sizes none of which is larger is not larger.                   *)
LEMMA SumMonotone ==
    ASSUME NEW c \in [Jobs -> Directories], NEW d \in [Jobs -> Directories],
           NEW S \in SUBSET Jobs, NEW R \in SUBSET Jobs,
           NEW h, IsSum(h, c, S), NEW k, IsSum(k, d, R)
    PROVE  \A T \in SUBSET (S \cap R) :
               (\A x \in T : d[x].size <= c[x].size) => k[T] <= h[T]
<1> DEFINE Fine(T) == (\A x \in T : d[x].size <= c[x].size) => k[T] <= h[T]
           G == {T \in SUBSET Jobs : T \in SUBSET (S \cap R) => Fine(T)}
<1>0. \A T \in SUBSET (S \cap R) : h[T] = SumAt(h, c, T) /\ k[T] = SumAt(k, d, T)
  BY DEF IsSum
<1>1. UpToSize(0) \subseteq G
  <2>1. {} \in SUBSET Jobs /\ {} \in SUBSET (S \cap R)
    OBVIOUS
  <2>2. h[{}] = 0 /\ k[{}] = 0
    <3>1. h[{}] = SumAt(h, c, {}) /\ k[{}] = SumAt(k, d, {})
      BY <1>0, <2>1
    <3> QED BY <3>1 DEF SumAt
  <2>3. Fine({})
    BY <2>2
  <2>4. {} \in G
    <3> HIDE DEF Fine
    <3> QED BY <2>1, <2>3
  <2> QED BY <2>4, NoElements
<1>2. ASSUME NEW n \in Nat, UpToSize(n) \subseteq G, NEW T \in UpToSize(n + 1),
             T \in SUBSET (S \cap R), \A x \in T : d[x].size <= c[x].size
      PROVE  k[T] <= h[T]
  <2>1. CASE T = {}
    BY <2>1, <1>0 DEF SumAt
  <2>2. CASE T # {}
    <3> DEFINE y == Pick(T)
    <3>1. y \in T /\ y \in Jobs
      BY <1>2, <2>2 DEF Pick, UpToSize
    <3>2. h[T] = c[y].size + h[T \ {y}] /\ k[T] = d[y].size + k[T \ {y}]
      BY <1>0, <1>2, <2>2 DEF SumAt
    <3> HIDE DEF y
    <3>3. k[T \ {y}] <= h[T \ {y}]
      BY <1>2, <3>1, SmallerSet DEF UpToSize
    <3>4. h[T \ {y}] \in Nat /\ k[T \ {y}] \in Nat
      BY <1>2, SumRemove
    <3> QED BY <1>2, <3>1, <3>2, <3>3, <3>4, SizesAreNat
  <2> QED BY <2>1, <2>2
<1>3. ASSUME NEW n \in Nat, UpToSize(n) \subseteq G PROVE UpToSize(n + 1) \subseteq G
  BY <1>2, <1>3 DEF UpToSize
<1>4. SUBSET Jobs \subseteq G
  <2> HIDE DEF G
  <2> QED BY <1>1, <1>3, SetInduction
<1> QED BY <1>4

(* What is measured, is a natural number.                                  *)
LEMMA MeasuredNat ==
    ASSUME NEW c \in [Jobs -> Directories], NEW js \in SUBSET Jobs
    PROVE  Measured(c, js) \in Nat
<1>1. PICK h : IsSum(h, c, js) /\ Measured(c, js) = h[js]
  BY MeasuredIsSum
<1>2. \A T \in SUBSET js : h[T] \in Nat
  BY <1>1, SumRemove
<1>3. js \in SUBSET js
  OBVIOUS
<1> QED BY <1>1, <1>2, <1>3

(* It grows neither with directories that shrink...                        *)
LEMMA MeasuredMonotone ==
    ASSUME NEW c \in [Jobs -> Directories], NEW d \in [Jobs -> Directories],
           NEW js \in SUBSET Jobs, \A j \in js : d[j].size <= c[j].size
    PROVE  Measured(d, js) <= Measured(c, js)
<1>1. PICK h : IsSum(h, c, js) /\ Measured(c, js) = h[js]
  BY MeasuredIsSum
<1>2. PICK k : IsSum(k, d, js) /\ Measured(d, js) = k[js]
  BY MeasuredIsSum
<1>3. \A T \in SUBSET (js \cap js) :
         (\A x \in T : d[x].size <= c[x].size) => k[T] <= h[T]
  BY <1>1, <1>2, SumMonotone
<1>4. js \in SUBSET (js \cap js)
  OBVIOUS
<1> QED BY <1>1, <1>2, <1>3, <1>4

(* ... and without a directory it is less by that directory's size.        *)
LEMMA MeasuredRemove ==
    ASSUME NEW c \in [Jobs -> Directories], NEW js \in SUBSET Jobs, NEW j \in js
    PROVE  Measured(c, js) = c[j].size + Measured(c, js \ {j})
<1>1. PICK h : IsSum(h, c, js) /\ Measured(c, js) = h[js]
  BY MeasuredIsSum
<1>2. PICK k : IsSum(k, c, js \ {j}) /\ Measured(c, js \ {j}) = k[js \ {j}]
  <2>1. js \ {j} \in SUBSET Jobs
    OBVIOUS
  <2> QED BY <2>1, MeasuredIsSum
<1>3. h[js] = c[j].size + h[js \ {j}]
  BY <1>1, SumRemove
<1>4. h[js \ {j}] \in Nat /\ k[js \ {j}] \in Nat
  <2>1. js \ {j} \in SUBSET js /\ js \ {j} \in SUBSET (js \ {j}) /\ js \ {j} \in SUBSET Jobs
    OBVIOUS
  <2> QED BY <1>1, <1>2, <2>1, SumRemove
<1>5. k[js \ {j}] <= h[js \ {j}] /\ h[js \ {j}] <= k[js \ {j}]
  <2>1. /\ js \ {j} \in SUBSET Jobs
        /\ js \ {j} \in SUBSET (js \cap (js \ {j}))
        /\ js \ {j} \in SUBSET ((js \ {j}) \cap js)
    OBVIOUS
  <2>2. \A x \in js \ {j} : c[x].size <= c[x].size
    BY SizesAreNat
  <2>3. k[js \ {j}] <= h[js \ {j}]
    BY <1>1, <1>2, <2>1, <2>2, SumMonotone
  <2>4. h[js \ {j}] <= k[js \ {j}]
    BY <1>1, <1>2, <2>1, <2>2, SumMonotone
  <2> QED BY <2>3, <2>4
<1> QED BY <1>1, <1>2, <1>3, <1>4, <1>5

(* SizeOf measures the cache as it is, and as it will be.                  *)
LEMMA SizeOfMeasures ==
    \A js : /\ SizeOf(js) = Measured(cache, js)
            /\ SizeOf(js)' = Measured(cache', js)
  BY DEF SizeOf, Measured, MapThenSumSet, MapThenFoldSet

-----------------------------------------------------------------------------
(* What the collector counts *)

(* The jobs whose bytes p has counted and that are still there.            *)
Counts(p) == kept[p] \cup {job[p]}

(* From the sum to the end of the collection, what p counts is at least    *)
(* what is on disk and what it could not remove.  It may be more: a clean  *)
(* may have removed a directory after it dropped the lock.  Nobody lets    *)
(* the jobs that p locks grow.                                             *)
Counted(p) ==
    pc[p] \in {"evict", "gcEnd"} => SizeOf(Counts(p)) + stuck[p] <= total[p]

(* The eviction went on until the count was within the limit.              *)
EndedInBounds(p) ==
    pc[p] = "gcEnd" => untried[p] = {} \/ total[p] <= MaxBytes

(* What p has not tried is still before it, and it has failed to evict     *)
(* nothing before it evicts.                                               *)
Tried(p) ==
    /\ untried[p] \subseteq todo[p] \cup kept[p] \cup {cur[p]}
    /\ IF pc[p] \in {"evict", "gcEnd"} THEN todo[p] = {} ELSE stuck[p] = 0

(* The types that CInv does not need.                                      *)
OtherTypes ==
    /\ gcOwner \in Procs \cup {NoProc}
    /\ gcStamp \in {Never} \cup 0..MaxTime
    /\ kind \in [Procs -> Kinds \cup {"none"}]
    /\ gcNow \in [Procs -> 0..MaxTime]
    /\ total \in [Procs -> Nat]
    /\ untried \in [Procs -> SUBSET Jobs]
    /\ stuck \in [Procs -> Nat]
    /\ \A p \in Procs : pc[p] = "idle" => job[p] = NoJob

CountInv ==
    /\ CInv
    /\ OtherTypes
    /\ \A p \in Procs : Counted(p) /\ EndedInBounds(p) /\ Tried(p)

(* The step lets no directory grow but those that p has locked, and leaves *)
(* the others' counts alone.                                               *)
Gentle(p) ==
    /\ \A j \in Jobs : owner[j] # p => cache'[j].size <= cache[j].size
    /\ \A q \in Procs \ {p} :
          total'[q] = total[q] /\ untried'[q] = untried[q] /\ stuck'[q] = stuck[q]

(* remove_dir_all lets no directory grow.                                  *)
LEMMA RemovalShrinks ==
    ASSUME Types, NEW j \in Jobs, NEW ok \in BOOLEAN, RemoveDirAll(j, ok)
    PROVE  \A k \in Jobs : cache'[k].size <= cache[k].size
<1>1. \A k \in Jobs : cache[k].size \in Nat
  BY SizesAreNat DEF Types
<1>2. CASE ok
  <2>1. \A k \in Jobs : cache'[k] = IF k = j THEN Absent ELSE cache[k]
    BY <1>2 DEF RemoveDirAll, Types
  <2>2. Absent.size = 0
    BY DEF Absent
  <2> QED BY <1>1, <2>1, <2>2
<1>3. CASE ~ok
  <2>1. PICK m : cache' = [cache EXCEPT ![j].manifest = m]
    BY <1>3 DEF RemoveDirAll
  <2>2. \A k \in Jobs : cache'[k].size = cache[k].size
    <3>1. cache[j] \in Directories
      BY DEF Types
    <3>2. [cache[j] EXCEPT !.manifest = m].size = cache[j].size
      BY <3>1 DEF Directories
    <3>3. cache' = [cache EXCEPT ![j] = [cache[j] EXCEPT !.manifest = m]]
      BY <2>1
    <3> QED BY <3>2, <3>3 DEF Types
  <2> QED BY <1>1, <2>2
<1> QED BY <1>2, <1>3

(* create_dir_all changes no size.                                         *)
LEMMA CreatedSize ==
    ASSUME Types, NEW j \in Jobs, cache' = Created(j)
    PROVE  \A k \in Jobs : cache'[k].size <= cache[k].size
<1>1. \A k \in Jobs : cache[k].size \in Nat
  BY SizesAreNat DEF Types
<1>2. cache[j] \in Directories
  BY DEF Types
<1>3. [cache[j] EXCEPT !.manifest = "none"].size = cache[j].size
  BY <1>2 DEF Directories
<1>4. [cache EXCEPT ![j].manifest = "none"] = [cache EXCEPT ![j] = [cache[j] EXCEPT !.manifest = "none"]]
  OBVIOUS
<1>5. \A k \in Jobs : cache'[k].size = cache[k].size
  BY <1>3, <1>4 DEF Created, Types
<1> QED BY <1>1, <1>5

(* Every step of a process is local and gentle.                            *)
LEMMA StepsAreGentle ==
    ASSUME CountInv, NEW p \in Procs, Request(p) \/ Write(p) \/ Kill(p) \/ Step(p)
    PROVE  Local(p) /\ Gentle(p)
<1>1. /\ Types /\ total \in [Procs -> Nat]
      /\ untried \in [Procs -> SUBSET Jobs] /\ stuck \in [Procs -> Nat]
  BY DEF CountInv, CInv, OtherTypes
<1>2. \A k \in Jobs : cache[k].size \in Nat
  BY <1>1, SizesAreNat DEF Types
<1>3. cache' = cache => \A k \in Jobs : cache'[k].size <= cache[k].size
  BY <1>2
<1>4. ASSUME Forget(p) PROVE \A q \in Procs \ {p} : /\ job'[q] = job[q] /\ todo'[q] = todo[q]
                             /\ cur'[q] = cur[q] /\ kept'[q] = kept[q] /\ total'[q] = total[q]
                             /\ untried'[q] = untried[q] /\ stuck'[q] = stuck[q]
  BY <1>1, <1>4 DEF Forget, Types
<1>5. ASSUME NEW place, Goto(p, place) PROVE \A q \in Procs \ {p} : pc'[q] = pc[q]
  BY <1>1, <1>5 DEF Goto, Types
<1>6. pc[p] # "idle" => job[p] \in Jobs
  BY DEF CountInv, CInv, Good, UsersOwn
<1> USE DEF Local, Gentle, history
<1>7. CASE Request(p)
  BY <1>1, <1>3, <1>5, <1>7 DEF Request, Types
<1>8. CASE Write(p)
  <2>1. PICK s \in Sizes \ {0} : cache' = [cache EXCEPT ![job[p]] =
                      [manifest |-> "valid", size |-> s, stamp |-> now]]
    BY <1>8 DEF Write
  <2>2. owner[job[p]] = p /\ job[p] \in Jobs
    BY <1>8 DEF Write, CountInv, CInv, Good, UsersOwn, Inside
  <2>3. \A j \in Jobs : owner[j] # p => cache'[j] = cache[j]
    BY <1>1, <2>1, <2>2 DEF Types
  <2> QED BY <1>2, <1>8, <2>3 DEF Write, procVars
<1>9. CASE Kill(p)
  BY <1>1, <1>3, <1>4, <1>5, <1>9 DEF Kill
<1>10. CASE Acquire(p) \/ GcSkip(p) \/ GcLock(p) \/ EvictEnd(p) \/ CleanDrop(p)
  BY <1>1, <1>3, <1>5, <1>10 DEF Acquire, GcSkip, GcLock, EvictEnd, CleanDrop
<1>11. CASE CreateDir(p)
  <2>1. \A k \in Jobs : cache'[k].size <= cache[k].size
    BY <1>1, <1>6, <1>11, CreatedSize DEF CreateDir
  <2> QED BY <1>1, <2>1, <1>5, <1>11 DEF CreateDir
<1>12. CASE GcRecheck(p)
  BY <1>1, <1>3, <1>5, <1>12 DEF GcRecheck, Types
<1>13. CASE ScanEntry(p)
  BY <1>1, <1>3, <1>5, <1>13 DEF ScanEntry, TryEntry, Types
<1>14. CASE ScanDecide(p)
  <2>1. cur[p] \in Jobs
    BY <1>14 DEF ScanDecide, CountInv, CInv, Types, Good, CollectorOwns
  <2>2. \A k \in Jobs : cache'[k].size <= cache[k].size
    BY <1>1, <1>3, <1>14, <2>1, RemovalShrinks DEF ScanDecide
  <2>3. \A q \in Procs \ {p} :
           kept'[q] = kept[q] /\ cur'[q] = cur[q] /\ untried'[q] = untried[q]
    BY <1>1, <1>14 DEF ScanDecide, Types
  <2> QED BY <1>5, <1>14, <2>2, <2>3 DEF ScanDecide
<1>15. CASE ScanEnd(p)
  BY <1>1, <1>3, <1>5, <1>15 DEF ScanEnd
<1>16. CASE Evict(p)
  <2>1. PICK j \in kept[p], ok \in BOOLEAN :
           /\ RemoveDirAll(j, ok)
           /\ total' = [total EXCEPT ![p] = IF ok THEN @ - cache[j].size ELSE @]
           /\ stuck' = [stuck EXCEPT ![p] = IF ok THEN @ ELSE @ + cache[j].size]
           /\ kept' = [kept EXCEPT ![p] = @ \ {j}]
           /\ untried' = [untried EXCEPT ![p] = @ \ {j}]
    BY <1>16 DEF Evict, Oldest
  <2>2. j \in Jobs
    BY <1>1, <2>1 DEF Types
  <2>3. \A k \in Jobs : cache'[k].size <= cache[k].size
    BY <1>1, <2>1, <2>2, RemovalShrinks
  <2>4. \A q \in Procs \ {p} : /\ total'[q] = total[q] /\ kept'[q] = kept[q]
                               /\ untried'[q] = untried[q] /\ stuck'[q] = stuck[q]
    BY <1>1, <2>1 DEF Types
  <2> QED BY <1>16, <2>3, <2>4 DEF Evict
<1>17. CASE GcEnd(p)
  BY <1>1, <1>3, <1>5, <1>17 DEF GcEnd, Types
<1>18. CASE ReadManifest(p)
  <2>1. \A k \in Jobs : cache'[k].size <= cache[k].size
    BY <1>1, <1>3, <1>6, <1>18, CreatedSize DEF ReadManifest
  <2> QED BY <1>4, <1>5, <1>18, <2>1 DEF ReadManifest, Return
<1>19. CASE Finish(p) \/ OrphanExit(p)
  BY <1>3, <1>4, <1>5, <1>19 DEF Finish, OrphanExit, Return
<1>20. CASE CleanRemove(p)
  <2>1. \A k \in Jobs : cache'[k].size <= cache[k].size
    BY <1>1, <1>6, <1>20, RemovalShrinks DEF CleanRemove
  <2> QED BY <1>4, <1>5, <1>20, <2>1 DEF CleanRemove
<1> QED
  BY <1>7, <1>8, <1>9, <1>10, <1>11, <1>12, <1>13, <1>14, <1>15, <1>16, <1>17, <1>18,
     <1>19, <1>20 DEF Step

(* A gentle step leaves the other collections' counts valid: the jobs that *)
(* they count are locked by them.                                          *)
LEMMA OthersStayCounted ==
    ASSUME CountInv, CInv', NEW p \in Procs, Local(p), Gentle(p), NEW q \in Procs \ {p}
    PROVE  Counted(q)' /\ EndedInBounds(q)' /\ Tried(q)'
<1>1. UNCHANGED <<pc[q], job[q], todo[q], cur[q], kept[q], total[q], untried[q], stuck[q]>>
  BY DEF Local, Gentle
<1>2. EndedInBounds(q)' /\ Tried(q)'
  BY <1>1 DEF CountInv, EndedInBounds, Tried
<1>3. ASSUME pc[q] \in {"evict", "gcEnd"} PROVE SizeOf(Counts(q))' + stuck[q] <= total[q]
  <2>1. /\ Counts(q) \in SUBSET Jobs /\ Counts(q)' = Counts(q)
        /\ \A j \in Counts(q) : owner[j] = q
    BY <1>1, <1>3 DEF CountInv, CInv, Types, Good, UsersOwn, Inside, CollectorOwns, Counts
  <2>2. cache \in [Jobs -> Directories] /\ cache' \in [Jobs -> Directories]
    BY DEF CountInv, CInv, Types
  <2>3. \A j \in Counts(q) : cache'[j].size <= cache[j].size
    BY <2>1 DEF Gentle
  <2>4. Measured(cache', Counts(q)) <= Measured(cache, Counts(q))
    BY <2>1, <2>2, <2>3, MeasuredMonotone
  <2>5. Measured(cache', Counts(q)) \in Nat /\ Measured(cache, Counts(q)) \in Nat
    BY <2>1, <2>2, MeasuredNat
  <2>6. /\ Measured(cache, Counts(q)) + stuck[q] <= total[q]
        /\ total[q] \in Nat /\ stuck[q] \in Nat
    BY <1>3, SizeOfMeasures DEF CountInv, OtherTypes, Counted
  <2>7. SizeOf(Counts(q))' = Measured(cache', Counts(q))
    BY <2>1, SizeOfMeasures
  <2> QED BY <2>4, <2>5, <2>6, <2>7
<1> QED BY <1>1, <1>2, <1>3 DEF Counted

(* The sum is what is on disk.                                             *)
LEMMA ScanEndCounts ==
    ASSUME CountInv, NEW p \in Procs, ScanEnd(p)
    PROVE  total' \in [Procs -> Nat] /\ Counted(p)' /\ EndedInBounds(p)'
<1>1. /\ total' = [total EXCEPT ![p] = SizeOf(Counts(p))] /\ UNCHANGED <<cache, kept, job>>
      /\ pc[p] = "scan" /\ Goto(p, "evict") /\ stuck'[p] = 0
  BY DEF ScanEnd, Counts, history, CountInv, Tried
<1>2. /\ Counts(p) \in SUBSET Jobs /\ cache \in [Jobs -> Directories] /\ pc \in [Procs -> Places]
      /\ total \in [Procs -> Nat]
  BY <1>1 DEF CountInv, CInv, Types, OtherTypes, Good, UsersOwn, Counts
<1>3. SizeOf(Counts(p)) \in Nat
  BY <1>2, SizeOfMeasures, MeasuredNat
<1>4. total' \in [Procs -> Nat] /\ total'[p] = SizeOf(Counts(p)) /\ pc'[p] = "evict"
  BY <1>1, <1>2, <1>3 DEF Goto
<1>5. SizeOf(Counts(p))' = SizeOf(Counts(p))
  <2>1. Counts(p)' = Counts(p)
    BY <1>1 DEF Counts
  <2> QED BY <1>1, <2>1, SizeOfMeasures
<1>6. SizeOf(Counts(p))' + stuck'[p] <= total'[p]
  BY <1>1, <1>3, <1>4, <1>5
<1> QED BY <1>4, <1>6 DEF Counted, EndedInBounds

(* An eviction subtracts no more than it has removed.                      *)
LEMMA EvictCounts ==
    ASSUME CountInv, NEW p \in Procs, Evict(p)
    PROVE  total' \in [Procs -> Nat] /\ Counted(p)' /\ EndedInBounds(p)'
<1>1. PICK j \in kept[p], ok \in BOOLEAN :
         /\ RemoveDirAll(j, ok)
         /\ total' = [total EXCEPT ![p] = IF ok THEN @ - cache[j].size ELSE @]
         /\ stuck' = [stuck EXCEPT ![p] = IF ok THEN @ ELSE @ + cache[j].size]
         /\ kept' = [kept EXCEPT ![p] = @ \ {j}]
  BY DEF Evict, Oldest
<1>2. pc[p] = "evict" /\ UNCHANGED <<pc, job>>
  BY DEF Evict
<1>3. /\ Types /\ Counts(p) \in SUBSET Jobs /\ cache \in [Jobs -> Directories]
      /\ total \in [Procs -> Nat] /\ stuck \in [Procs -> Nat] /\ j \in Jobs /\ job[p] # j
  BY <1>1, <1>2 DEF CountInv, CInv, Types, OtherTypes, Good, UsersOwn, CollectorOwns, Counts
<1>4. Counts(p)' = Counts(p) \ {j} /\ j \in Counts(p)
  BY <1>1, <1>2, <1>3 DEF Counts, Types
<1>5. /\ Counts(p) \ {j} \in SUBSET Jobs /\ cache' \in [Jobs -> Directories]
      /\ \A k \in Counts(p) \ {j} : cache'[k].size <= cache[k].size
  BY <1>1, <1>3, RemovalIsLocal, RemovalShrinks
<1> DEFINE before == Measured(cache, Counts(p))
           rest == Measured(cache, Counts(p) \ {j})
           after == Measured(cache', Counts(p) \ {j})
<1>6. before = cache[j].size + rest
  BY <1>3, <1>4, MeasuredRemove
<1>7. after <= rest
  BY <1>3, <1>5, MeasuredMonotone
<1>8. before \in Nat /\ rest \in Nat /\ after \in Nat /\ cache[j].size \in Nat
  BY <1>3, <1>5, MeasuredNat, SizesAreNat
<1>9. before + stuck[p] <= total[p] /\ total[p] \in Nat /\ stuck[p] \in Nat
  BY <1>2, <1>3, SizeOfMeasures DEF CountInv, Counted
<1>10. SizeOf(Counts(p))' = after
  BY <1>4, SizeOfMeasures
<1>11. /\ total'[p] = IF ok THEN total[p] - cache[j].size ELSE total[p]
       /\ stuck'[p] = IF ok THEN stuck[p] ELSE stuck[p] + cache[j].size
  BY <1>1, <1>3
<1> HIDE DEF before, rest, after
<1>12. total'[p] \in Nat /\ after + stuck'[p] <= total'[p]
  BY <1>6, <1>7, <1>8, <1>9, <1>11
<1>13. total' \in [Procs -> Nat]
  BY <1>1, <1>3, <1>11, <1>12
<1> QED BY <1>2, <1>10, <1>12, <1>13 DEF Counted, EndedInBounds

(* The eviction ends when the count is within the limit, or nothing is     *)
(* left to evict.                                                          *)
LEMMA EvictEndCounts ==
    ASSUME CountInv, NEW p \in Procs, EvictEnd(p)
    PROVE  Counted(p)' /\ EndedInBounds(p)'
<1>1. /\ pc[p] = "evict" /\ Goto(p, "gcEnd")
      /\ UNCHANGED <<cache, kept, job, total, untried, stuck>>
      /\ total[p] <= MaxBytes \/ kept[p] = {}
  BY DEF EvictEnd, history
<1>2. Counts(p)' = Counts(p)
  BY <1>1 DEF Counts
<1>3. SizeOf(Counts(p))' = SizeOf(Counts(p))
  BY <1>1, <1>2, SizeOfMeasures
<1>4. SizeOf(Counts(p)) + stuck[p] <= total[p]
  BY <1>1 DEF CountInv, Counted
<1>5. kept[p] = {} => untried[p] = {}
  BY <1>1, CacheAssumption
     DEF CountInv, OtherTypes, CInv, Good, CollectorOwns, Tried
<1> QED BY <1>1, <1>3, <1>4, <1>5 DEF Counted, EndedInBounds

(* The other steps do not lead to the eviction.                            *)
LEMMA ElsewhereNothingIsCounted ==
    ASSUME CountInv, NEW p \in Procs, Request(p) \/ Write(p) \/ Kill(p) \/ Step(p),
           ~(ScanEnd(p) \/ Evict(p) \/ EvictEnd(p))
    PROVE  total' \in [Procs -> Nat] /\ Counted(p)' /\ EndedInBounds(p)'
<1>1. pc \in [Procs -> Places] /\ total \in [Procs -> Nat]
  BY DEF CountInv, CInv, Types, OtherTypes
<1>2. pc'[p] \notin {"evict", "gcEnd"}
  BY <1>1 DEF Request, Write, Kill, Step, Goto, Return, procVars, Acquire, CreateDir, GcSkip,
     GcLock, GcRecheck, ScanEntry, TryEntry, ScanDecide, GcEnd, ReadManifest, Finish, CleanDrop,
     CleanRemove, OrphanExit
<1>3. total' = total \/ total' = [total EXCEPT ![p] = 0]
  BY DEF Request, Write, Kill, Step, Return, Forget, procVars, Acquire, CreateDir, GcSkip,
     GcLock, GcRecheck, ScanEntry, TryEntry, ScanDecide, GcEnd, ReadManifest, Finish, CleanDrop,
     CleanRemove, OrphanExit
<1>4. total' \in [Procs -> Nat]
  BY <1>1, <1>3
<1> QED BY <1>2, <1>4 DEF Counted, EndedInBounds

(* What is not tried yet stays in what is listed, inspected or kept, and   *)
(* the history has its type.                                               *)
LEMMA StepsKeepHistory ==
    ASSUME CountInv, NEW p \in Procs, Request(p) \/ Write(p) \/ Kill(p) \/ Step(p)
    PROVE  /\ Tried(p)'
           /\ untried' \in [Procs -> SUBSET Jobs] /\ stuck' \in [Procs -> Nat]
<1>1. /\ Types /\ untried \in [Procs -> SUBSET Jobs] /\ stuck \in [Procs -> Nat]
      /\ Tried(p)
  BY DEF CountInv, CInv, OtherTypes
<1> USE DEF history, Tried
<1>2. ASSUME Forget(p), Goto(p, "idle")
      PROVE  /\ Tried(p)'
             /\ untried' \in [Procs -> SUBSET Jobs] /\ stuck' \in [Procs -> Nat]
  BY <1>1, <1>2 DEF Forget, Goto, Types
<1>3. ASSUME NEW place \in Places \ {"evict", "gcEnd"}, Goto(p, place),
             pc[p] \notin {"evict", "gcEnd"}, UNCHANGED <<todo, cur, kept, history>>
      PROVE  /\ Tried(p)'
             /\ untried' \in [Procs -> SUBSET Jobs] /\ stuck' \in [Procs -> Nat]
  BY <1>1, <1>3 DEF Goto, Types
<1>4. CASE Request(p) \/ Acquire(p) \/ CreateDir(p) \/ GcSkip(p) \/ GcLock(p) \/ CleanDrop(p)
  BY <1>3, <1>4 DEF Request, Acquire, CreateDir, GcSkip, GcLock, CleanDrop, Places
<1>5. CASE Finish(p) \/ OrphanExit(p) \/ CleanRemove(p)
  BY <1>2, <1>5 DEF Finish, OrphanExit, CleanRemove, Return
<1>6. CASE Write(p)
  BY <1>1, <1>6 DEF Write, procVars
<1>7. CASE Kill(p)
  BY <1>2, <1>3, <1>7 DEF Kill, Places
<1>8. CASE ReadManifest(p)
  BY <1>2, <1>3, <1>8 DEF ReadManifest, Return, Places
<1>9. CASE GcRecheck(p)
  BY <1>1, <1>9 DEF GcRecheck, Goto, Types
<1>10. CASE ScanEntry(p)
  <2>1. PICK j \in todo[p] :
           /\ todo' = [todo EXCEPT ![p] = @ \ {j}]
           /\ \/ untried' = [untried EXCEPT ![p] = @ \ {j}] /\ UNCHANGED <<cur, pc>>
              \/ /\ UNCHANGED untried /\ cur' = [cur EXCEPT ![p] = j]
                 /\ Goto(p, "decide")
    BY <1>10 DEF ScanEntry, TryEntry
  <2>2. pc[p] = "scan" /\ cur[p] = NoJob /\ UNCHANGED <<kept, stuck>>
    BY <1>10 DEF ScanEntry, CountInv, CInv, Good, CollectorOwns
  <2>3. NoJob \notin untried[p] /\ todo'[p] = todo[p] \ {j}
    BY <1>1, <2>1, CacheAssumption DEF Types
  <2>4. CASE untried' = [untried EXCEPT ![p] = @ \ {j}] /\ UNCHANGED <<cur, pc>>
    <3>1. untried'[p] = untried[p] \ {j}
      BY <1>1, <2>4
    <3> QED BY <1>1, <2>2, <2>3, <2>4, <3>1 DEF Types
  <2>5. CASE UNCHANGED untried /\ cur' = [cur EXCEPT ![p] = j] /\ Goto(p, "decide")
    <3>1. cur'[p] = j /\ pc'[p] = "decide"
      BY <1>1, <2>5 DEF Goto, Types
    <3> QED BY <1>1, <2>2, <2>3, <2>5, <3>1 DEF Types
  <2> QED BY <2>1, <2>4, <2>5
<1>11. CASE ScanDecide(p)
  BY <1>1, <1>11 DEF ScanDecide, Goto, Types
<1>12. CASE ScanEnd(p) \/ EvictEnd(p)
  BY <1>1, <1>12 DEF ScanEnd, EvictEnd, Goto, Types
<1>13. CASE Evict(p)
  <2>1. PICK j \in kept[p], ok \in BOOLEAN :
           /\ stuck' = [stuck EXCEPT ![p] = IF ok THEN @ ELSE @ + cache[j].size]
           /\ kept' = [kept EXCEPT ![p] = @ \ {j}]
           /\ untried' = [untried EXCEPT ![p] = @ \ {j}]
    BY <1>13 DEF Evict, Oldest
  <2>2. pc[p] = "evict" /\ UNCHANGED <<pc, todo, cur>>
    BY <1>13 DEF Evict
  <2>3. cache[j].size \in Nat
    BY <1>1, <2>1, SizesAreNat DEF Types
  <2>4. stuck' \in [Procs -> Nat]
    BY <1>1, <2>1, <2>3
  <2> QED BY <1>1, <2>1, <2>2, <2>4 DEF Types
<1>14. CASE GcEnd(p)
  BY <1>1, <1>14 DEF GcEnd, Goto, Types
<1> QED
  BY <1>4, <1>5, <1>6, <1>7, <1>8, <1>9, <1>10, <1>11, <1>12, <1>13, <1>14 DEF Step

(* The steps keep the other types.                                         *)
LEMMA StepsKeepTypes ==
    ASSUME CountInv, NEW p \in Procs, Request(p) \/ Write(p) \/ Kill(p) \/ Step(p),
           Local(p), total' \in [Procs -> Nat]
    PROVE  OtherTypes'
<1>1. OtherTypes /\ Types /\ now \in 0..MaxTime /\ p \in Procs \cup {NoProc}
  BY DEF CountInv, CInv, Types
<1>2. gcOwner' \in Procs \cup {NoProc}
  BY <1>1 DEF OtherTypes, Request, Write, Kill, Step, Acquire, CreateDir, GcSkip, GcLock,
     GcRecheck, ScanEntry, TryEntry, ScanDecide, ScanEnd, Evict, EvictEnd, GcEnd, ReadManifest, Finish,
     CleanDrop, CleanRemove, OrphanExit
<1>3. gcStamp' \in {Never} \cup 0..MaxTime
  BY <1>1 DEF OtherTypes, Request, Write, Kill, Step, Acquire, CreateDir, GcSkip, GcLock,
     GcRecheck, ScanEntry, TryEntry, ScanDecide, ScanEnd, Evict, EvictEnd, GcEnd, ReadManifest, Finish,
     CleanDrop, CleanRemove, OrphanExit
<1>4. kind' \in [Procs -> Kinds \cup {"none"}]
  <2>1. kind' = kind \/ \E k \in Kinds \cup {"none"} : kind' = [kind EXCEPT ![p] = k]
    BY DEF Request, Write, Kill, Step, Return, Forget, procVars, Acquire, CreateDir, GcSkip,
       GcLock, GcRecheck, ScanEntry, TryEntry, ScanDecide, ScanEnd, Evict, EvictEnd, GcEnd,
       ReadManifest, Finish, CleanDrop, CleanRemove, OrphanExit
  <2> QED BY <1>1, <2>1 DEF OtherTypes
<1>5. gcNow' \in [Procs -> 0..MaxTime]
  <2>1. gcNow' = gcNow \/ \E t \in {0, now} : gcNow' = [gcNow EXCEPT ![p] = t]
    BY DEF Request, Write, Kill, Step, Return, Forget, procVars, Acquire, CreateDir, GcSkip,
       GcLock, GcRecheck, ScanEntry, TryEntry, ScanDecide, ScanEnd, Evict, EvictEnd, GcEnd,
       ReadManifest, Finish, CleanDrop, CleanRemove, OrphanExit
  <2>2. 0 \in 0..MaxTime
    BY CacheAssumption
  <2> QED BY <1>1, <2>1, <2>2 DEF OtherTypes
<1>6. pc'[p] = "idle" => job'[p] = NoJob
  <2>1. (Goto(p, "idle") /\ Forget(p)) \/ pc'[p] # "idle"
    BY <1>1 DEF Types, Goto, Return, Request, Write, Kill, Step, procVars, Acquire, CreateDir,
       GcSkip, GcLock, GcRecheck, ScanEntry, TryEntry, ScanDecide, ScanEnd, Evict, EvictEnd, GcEnd,
       ReadManifest, Finish, CleanDrop, CleanRemove, OrphanExit
  <2> QED BY <1>1, <2>1 DEF Forget, Types
<1>7. \A q \in Procs : pc'[q] = "idle" => job'[q] = NoJob
  BY <1>1, <1>6 DEF Local, OtherTypes
<1> QED BY <1>2, <1>3, <1>4, <1>5, <1>7, StepsKeepHistory DEF OtherTypes

(* CountInv holds initially and is kept by every step.                     *)
THEOREM CountInvHolds == Spec => []CountInv
<1>1. Init => CountInv
  <2> SUFFICES ASSUME Init PROVE /\ OtherTypes
                                    /\ \A p \in Procs : Counted(p) /\ EndedInBounds(p) /\ Tried(p)
    BY InitCInv DEF CountInv
  <2>1. 0 \in 0..MaxTime
    BY CacheAssumption
  <2> QED BY <2>1 DEF Init, OtherTypes, Counted, EndedInBounds, Tried
<1>2. CountInv /\ [Next]_vars => CountInv'
  <2> SUFFICES ASSUME CountInv, [Next]_vars PROVE CountInv'
    OBVIOUS
  <2>1. CInv'
    BY NextCInv DEF CountInv
  <2>2. CASE Tick \/ UNCHANGED vars
    <3>1. UNCHANGED <<cache, gcOwner, gcStamp, procVars>>
      BY <2>2 DEF Tick, vars
    <3>2. OtherTypes'
      BY <3>1 DEF CountInv, OtherTypes, procVars, history
    <3>3. ASSUME NEW p \in Procs PROVE Counted(p)' /\ EndedInBounds(p)' /\ Tried(p)'
      <4>1. Counts(p)' = Counts(p)
        BY <3>1 DEF Counts, procVars
      <4>2. SizeOf(Counts(p))' = SizeOf(Counts(p))
        BY <3>1, <4>1, SizeOfMeasures
      <4> QED BY <3>1, <4>2 DEF CountInv, Counted, EndedInBounds, Tried, procVars, history
    <3> QED BY <2>1, <3>2, <3>3 DEF CountInv
  <2>3. ASSUME NEW p \in Procs, Request(p) \/ Write(p) \/ Kill(p) \/ Step(p) PROVE CountInv'
    <3>1. Local(p) /\ Gentle(p)
      BY <2>3, StepsAreGentle
    <3>2. total' \in [Procs -> Nat] /\ Counted(p)' /\ EndedInBounds(p)' /\ Tried(p)'
      <4>1. EvictEnd(p) => total' = total
        BY DEF EvictEnd
      <4> QED BY <2>3, <4>1, ScanEndCounts, EvictCounts, EvictEndCounts,
                 ElsewhereNothingIsCounted, StepsKeepHistory
           DEF CountInv, OtherTypes
    <3>3. OtherTypes'
      BY <2>3, <3>1, <3>2, StepsKeepTypes
    <3>4. \A q \in Procs \ {p} : Counted(q)' /\ EndedInBounds(q)' /\ Tried(q)'
      BY <2>1, <3>1, OthersStayCounted
    <3> QED BY <2>1, <3>2, <3>3, <3>4 DEF CountInv
  <2> QED BY <2>2, <2>3 DEF Next
<1> QED BY <1>1, <1>2, PTL DEF Spec

(* Every variable of the cache keeps its type, the bytes that a collection *)
(* counts among them: the subtraction of an evicted job (gc_cache) never   *)
(* goes below zero.                                                        *)
THEOREM TypesHold == Spec => []TypeOK
<1>1. CountInv => TypeOK
  <2> SUFFICES ASSUME CountInv PROVE TypeOK
    OBVIOUS
  <2>1. \A p \in Procs : /\ job[p] = NoJob <=> pc[p] = "idle"
                         /\ cur[p] # NoJob <=> pc[p] = "decide"
    BY CacheAssumption DEF CountInv, OtherTypes, CInv, Good, UsersOwn, CollectorOwns
  <2> QED BY <2>1 DEF CountInv, CInv, Types, OtherTypes, TypeOK
<1> QED BY <1>1, CountInvHolds, PTL

(* A collection that has finished evicting leaves within the limit the     *)
(* active job, what it keeps and what it failed to remove, or has found    *)
(* every listed job locked or tried to remove it (gc_cache): for any       *)
(* number of jobs and sizes, with removals that fail and cleans that       *)
(* interfere.                                                              *)
THEOREM CollectionBoundsCacheHolds == Spec => []CollectionBoundsCache
<1>1. CountInv => CollectionBoundsCache
  <2> SUFFICES ASSUME CountInv, NEW p \in Procs, pc[p] = "gcEnd", untried[p] # {}
               PROVE  SizeOf(kept[p] \cup {job[p]}) + stuck[p] <= MaxBytes
    BY DEF CollectionBoundsCache
  <2>1. /\ SizeOf(Counts(p)) + stuck[p] <= total[p] /\ total[p] <= MaxBytes
        /\ total[p] \in Nat /\ stuck[p] \in Nat
    BY DEF CountInv, Counted, EndedInBounds, OtherTypes
  <2>2. Counts(p) \in SUBSET Jobs /\ cache \in [Jobs -> Directories]
    BY DEF CountInv, CInv, Types, Good, UsersOwn, Counts
  <2>3. SizeOf(Counts(p)) \in Nat /\ MaxBytes \in Nat
    BY <2>2, SizeOfMeasures, MeasuredNat, CacheAssumption
  <2>4. SizeOf(Counts(p)) + stuck[p] <= MaxBytes
    BY <2>1, <2>3
  <2> QED BY <2>4 DEF Counts
<1> QED BY <1>1, CountInvHolds, PTL
=============================================================================
