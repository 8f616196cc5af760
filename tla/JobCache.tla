------------------------------ MODULE JobCache ------------------------------
(***************************************************************************)
(* The private job cache of texmk: builds, cleans (-c, -C) and the garbage *)
(* collector that a build runs at most once per interval (build, gc_cache  *)
(* and maybe_gc_cache of crates/tex-cli/src/bin/texmk.rs).                 *)
(*                                                                         *)
(* Locks are the abstract locks of JobMutex: taken in one step, gone with  *)
(* the process, a build's own job lock surviving until its engine exits.   *)
(* CacheLock shows that the lock files implement them.                     *)
(***************************************************************************)
EXTENDS Integers, FiniteSets, FiniteSetsExt

CONSTANTS
    Procs,          \* texmk processes
    Jobs,           \* job keys, each naming a directory; finitely many
    NoProc, NoJob,
    Kinds,          \* what processes are started for: "build", "clean"
    Sizes,          \* the sizes a job directory may have
    Leftovers,      \* the directories that earlier builds may have left
    MaxBytes,       \* CACHE_MAX_BYTES
    MaxAge,         \* CACHE_MAX_AGE
    GcInterval,     \* CACHE_GC_INTERVAL
    MaxTime         \* bound: the clock stops here

Never == -1         \* the modification time of a missing gc stamp

VARIABLES
    now,            \* the clock
    cache,          \* cache[j]: what job j's directory holds
    owner,          \* owner[j]: who has job j's lock
    gcOwner,        \* who has .gc-lock
    gcStamp,        \* the modification time of .gc-stamp
    pc,             \* pc[p]: where p is
    kind,           \* kind[p]: what p was started for
    job,            \* job[p]: the job p was started for
    gcNow,          \* gcNow[p]: the time at which p's collection started
    todo,           \* todo[p]: directory entries p has listed and not visited
    cur,            \* cur[p]: the entry whose lock p has just taken
    kept,           \* kept[p]: entries p keeps locked, to evict or to release
    total,          \* total[p]: the bytes p counts
    untried,        \* history: the listed entries whose lock p has not found
                    \*   taken and which p has not tried to remove
    stuck           \* history: the bytes of kept jobs that p failed to remove

history == <<untried, stuck>>
procVars == <<pc, kind, job, gcNow, todo, cur, kept, total, history>>
vars == <<now, cache, owner, gcOwner, gcStamp, procVars>>

(* A directory is absent, or holds no manifest, one that read_manifest     *)
(* refuses or that belongs to another key, or a valid one.                 *)
Directories ==
    [manifest : {"absent", "none", "bad", "valid"}, size : Sizes, stamp : 0..MaxTime]

Absent == [manifest |-> "absent", size |-> 0, stamp |-> 0]

ASSUME CacheAssumption ==
    /\ IsFiniteSet(Jobs)
    /\ NoProc \notin Procs
    /\ NoJob \notin Jobs
    /\ Kinds \subseteq {"build", "clean"}
    /\ Sizes \subseteq Nat /\ 0 \in Sizes
    /\ {MaxBytes, MaxAge, GcInterval, MaxTime} \subseteq Nat
    /\ MaxAge < MaxTime
    /\ Leftovers \subseteq Directories

Places == {"idle", "acquire", "create", "gcTest", "gcRecheck", "scan", "decide",
           "evict", "gcEnd", "manifest", "work", "orphan", "rmdir"}

(* Every variable has its type, and a process that uses the cache has a    *)
(* job; only kept entries are counted.                                     *)
TypeOK ==
    /\ now \in 0..MaxTime
    /\ cache \in [Jobs -> Directories]
    /\ owner \in [Jobs -> Procs \cup {NoProc}]
    /\ gcOwner \in Procs \cup {NoProc}
    /\ gcStamp \in {Never} \cup 0..MaxTime
    /\ pc \in [Procs -> Places]
    /\ kind \in [Procs -> Kinds \cup {"none"}]
    /\ job \in [Procs -> Jobs \cup {NoJob}]
    /\ gcNow \in [Procs -> 0..MaxTime]
    /\ todo \in [Procs -> SUBSET Jobs]
    /\ cur \in [Procs -> Jobs \cup {NoJob}]
    /\ kept \in [Procs -> SUBSET Jobs]
    /\ total \in [Procs -> Nat]
    /\ untried \in [Procs -> SUBSET Jobs]
    /\ stuck \in [Procs -> Nat]
    /\ \A p \in Procs :
         /\ job[p] = NoJob <=> pc[p] = "idle"
         /\ cur[p] # NoJob <=> pc[p] = "decide"

(* Earlier builds have left any mixture of directories.                    *)
Init ==
    /\ now = MaxAge + 1
    /\ cache \in [Jobs -> {Absent} \cup Leftovers]
    /\ owner = [j \in Jobs |-> NoProc]
    /\ gcOwner = NoProc
    /\ gcStamp = Never
    /\ pc = [p \in Procs |-> "idle"]
    /\ kind = [p \in Procs |-> "none"]
    /\ job = [p \in Procs |-> NoJob]
    /\ gcNow = [p \in Procs |-> 0]
    /\ todo = [p \in Procs |-> {}]
    /\ cur = [p \in Procs |-> NoJob]
    /\ kept = [p \in Procs |-> {}]
    /\ total = [p \in Procs |-> 0]
    /\ untried = [p \in Procs |-> {}]
    /\ stuck = [p \in Procs |-> 0]

-----------------------------------------------------------------------------
(* Helpers *)

Goto(p, place) == pc' = [pc EXCEPT ![p] = place]

(* Job locks after p has dropped those of the set js.                      *)
Unlocked(p, js) ==
    [j \in Jobs |-> IF j \in js /\ owner[j] = p THEN NoProc ELSE owner[j]]

(* remove_dir_all: all of it, or an error with the tree as it was or       *)
(* without the manifest.  A process killed in the middle leaves the same.  *)
RemoveDirAll(j, ok) ==
    IF ok
    THEN cache' = [cache EXCEPT ![j] = Absent]
    ELSE /\ cache[j].manifest # "absent"
         /\ \E m \in {cache[j].manifest, "none"} :
               cache' = [cache EXCEPT ![j].manifest = m]

(* The process ends, or is gone: its local state is dropped.               *)
Forget(p) ==
    /\ kind' = [kind EXCEPT ![p] = "none"]
    /\ job' = [job EXCEPT ![p] = NoJob]
    /\ todo' = [todo EXCEPT ![p] = {}]
    /\ cur' = [cur EXCEPT ![p] = NoJob]
    /\ kept' = [kept EXCEPT ![p] = {}]
    /\ total' = [total EXCEPT ![p] = 0]
    /\ gcNow' = [gcNow EXCEPT ![p] = 0]
    /\ untried' = [untried EXCEPT ![p] = {}]
    /\ stuck' = [stuck EXCEPT ![p] = 0]

Tick ==
    /\ now < MaxTime
    /\ now' = now + 1
    /\ UNCHANGED <<cache, owner, gcOwner, gcStamp, procVars>>

-----------------------------------------------------------------------------
(* Entering a job *)

Request(p) ==
    /\ pc[p] = "idle"
    /\ \E j \in Jobs, k \in Kinds :
          /\ job' = [job EXCEPT ![p] = j]
          /\ kind' = [kind EXCEPT ![p] = k]
    /\ Goto(p, "acquire")
    /\ UNCHANGED <<now, cache, owner, gcOwner, gcStamp, gcNow, todo, cur, kept, total, history>>

(* Mutant of Acquire: a build does not wait.                               *)
AcquireAtOnce(p) ==
    /\ pc[p] = "acquire"
    /\ owner' = [owner EXCEPT ![job[p]] = p]
    /\ Goto(p, "create")
    /\ UNCHANGED <<now, cache, gcOwner, gcStamp, kind, job, gcNow, todo, cur, kept, total, history>>

(* CacheLock::acquire, which waits.                                        *)
Acquire(p) ==
    /\ pc[p] = "acquire"
    /\ owner[job[p]] = NoProc
    /\ owner' = [owner EXCEPT ![job[p]] = p]
    /\ Goto(p, "create")
    /\ UNCHANGED <<now, cache, gcOwner, gcStamp, kind, job, gcNow, todo, cur, kept, total, history>>

(* create_dir_all of a directory: nothing happens to one that is there.    *)
Created(j) ==
    IF cache[j].manifest = "absent"
    THEN [cache EXCEPT ![j].manifest = "none"]
    ELSE cache

CreateDir(p) ==
    /\ pc[p] = "create"
    /\ cache' = Created(job[p])
    /\ Goto(p, "gcTest")
    /\ UNCHANGED <<now, owner, gcOwner, gcStamp, kind, job, gcNow, todo, cur, kept, total, history>>

-----------------------------------------------------------------------------
(* The collector *)

(* The closure `recent` of maybe_gc_cache.                                 *)
Recent == gcStamp # Never /\ now - gcStamp < GcInterval

(* Not due, or another process is collecting: go on with the build.        *)
GcSkip(p) ==
    /\ pc[p] = "gcTest"
    /\ Recent \/ gcOwner # NoProc
    /\ Goto(p, "manifest")
    /\ UNCHANGED <<now, cache, owner, gcOwner, gcStamp, kind, job, gcNow, todo, cur, kept, total, history>>

GcLock(p) ==
    /\ pc[p] = "gcTest"
    /\ ~Recent
    /\ gcOwner = NoProc
    /\ gcOwner' = p
    /\ Goto(p, "gcRecheck")
    /\ UNCHANGED <<now, cache, owner, gcStamp, kind, job, gcNow, todo, cur, kept, total, history>>

(* The second look at the stamp, then read_dir: every other directory.     *)
GcRecheck(p) ==
    /\ pc[p] = "gcRecheck"
    /\ \/ /\ Recent
          /\ gcOwner' = NoProc
          /\ Goto(p, "manifest")
          /\ UNCHANGED <<gcNow, todo, untried>>
       \/ /\ ~Recent
          /\ gcNow' = [gcNow EXCEPT ![p] = now]
          /\ todo' = [todo EXCEPT ![p] =
                        {j \in Jobs : cache[j].manifest # "absent"} \ {job[p]}]
          /\ untried' = [untried EXCEPT ![p] = todo'[p]]
          /\ Goto(p, "scan")
          /\ UNCHANGED gcOwner
    /\ UNCHANGED <<now, cache, owner, gcStamp, kind, job, cur, kept, total, stuck>>

(* Mutant of ScanEntry: the answer of try_acquire is not looked at.        *)
ScanLocked(p) ==
    /\ pc[p] = "scan"
    /\ \E j \in todo[p] :
          /\ todo' = [todo EXCEPT ![p] = @ \ {j}]
          /\ owner' = [owner EXCEPT ![j] = IF @ = NoProc THEN p ELSE @]
          /\ cur' = [cur EXCEPT ![p] = j]
          /\ Goto(p, "decide")
    /\ UNCHANGED <<now, cache, gcOwner, gcStamp, kind, job, gcNow, kept, total, history>>

(* An entry whose lock is free is locked and inspected.                    *)
TryEntry(p, j) ==
    /\ owner[j] = NoProc
    /\ owner' = [owner EXCEPT ![j] = p]
    /\ todo' = [todo EXCEPT ![p] = @ \ {j}]
    /\ cur' = [cur EXCEPT ![p] = j]
    /\ Goto(p, "decide")
    /\ UNCHANGED untried

(* One turn of the scan: a job whose lock is taken is passed over.         *)
ScanEntry(p) ==
    /\ pc[p] = "scan"
    /\ \E j \in todo[p] :
          \/ /\ owner[j] # NoProc
             /\ todo' = [todo EXCEPT ![p] = @ \ {j}]
             /\ untried' = [untried EXCEPT ![p] = @ \ {j}]
             /\ UNCHANGED <<owner, cur, pc>>
          \/ TryEntry(p, j)
    /\ UNCHANGED <<now, cache, gcOwner, gcStamp, kind, job, gcNow, kept, total, stuck>>

(* No valid manifest, or one that is too old.                              *)
Discard(p, j) ==
    \/ cache[j].manifest # "valid"
    \/ gcNow[p] - cache[j].stamp > MaxAge

(* Discard the entry and drop its lock, or keep it locked.                 *)
ScanDecide(p) ==
    /\ pc[p] = "decide"
    /\ \/ /\ Discard(p, cur[p])
          /\ \E ok \in BOOLEAN : RemoveDirAll(cur[p], ok)
          /\ owner' = Unlocked(p, {cur[p]})
          /\ untried' = [untried EXCEPT ![p] = @ \ {cur[p]}]
          /\ UNCHANGED kept
       \/ /\ ~Discard(p, cur[p])
          /\ kept' = [kept EXCEPT ![p] = @ \cup {cur[p]}]
          /\ UNCHANGED <<cache, owner, untried>>
    /\ cur' = [cur EXCEPT ![p] = NoJob]
    /\ Goto(p, "scan")
    /\ UNCHANGED <<now, gcOwner, gcStamp, kind, job, gcNow, todo, total, stuck>>

SizeOf(js) == MapThenSumSet(LAMBDA j : cache[j].size, js)

(* Mutant of ScanEnd: the active job is not counted.                       *)
ScanForgetsCurrent(p) ==
    /\ pc[p] = "scan"
    /\ todo[p] = {}
    /\ total' = [total EXCEPT ![p] = SizeOf(kept[p])]
    /\ Goto(p, "evict")
    /\ UNCHANGED <<now, cache, owner, gcOwner, gcStamp, kind, job, gcNow, todo, cur, kept, history>>

(* The listing is exhausted: add up what was kept and the active job.      *)
ScanEnd(p) ==
    /\ pc[p] = "scan"
    /\ todo[p] = {}
    /\ total' = [total EXCEPT ![p] = SizeOf(kept[p] \cup {job[p]})]
    /\ Goto(p, "evict")
    /\ UNCHANGED <<now, cache, owner, gcOwner, gcStamp, kind, job, gcNow, todo, cur, kept, history>>

Oldest(js) == {j \in js : \A k \in js : cache[j].stamp <= cache[k].stamp}

(* Mutant of Evict: a removal that fails counts like one that succeeds.    *)
EvictTrusting(p) ==
    /\ pc[p] = "evict"
    /\ total[p] > MaxBytes
    /\ \E j \in Oldest(kept[p]) :
          /\ \E ok \in BOOLEAN :
                /\ RemoveDirAll(j, ok)
                /\ total' = [total EXCEPT ![p] = @ - cache[j].size]
                /\ stuck' = [stuck EXCEPT ![p] = IF ok THEN @ ELSE @ + cache[j].size]
          /\ kept' = [kept EXCEPT ![p] = @ \ {j}]
          /\ untried' = [untried EXCEPT ![p] = @ \ {j}]
          /\ owner' = Unlocked(p, {j})
    /\ UNCHANGED <<now, gcOwner, gcStamp, pc, kind, job, gcNow, todo, cur>>

(* Mutant of Evict: a removal that fails ends the eviction.                *)
EvictGivesUp(p) ==
    /\ pc[p] = "evict"
    /\ total[p] > MaxBytes
    /\ \E j \in Oldest(kept[p]) :
          /\ \E ok \in BOOLEAN :
                /\ RemoveDirAll(j, ok)
                /\ total' = [total EXCEPT ![p] = IF ok THEN @ - cache[j].size ELSE @]
                /\ pc' = IF ok THEN pc ELSE [pc EXCEPT ![p] = "gcEnd"]
                /\ stuck' = [stuck EXCEPT ![p] = IF ok THEN @ ELSE @ + cache[j].size]
          /\ kept' = [kept EXCEPT ![p] = @ \ {j}]
          /\ untried' = [untried EXCEPT ![p] = @ \ {j}]
          /\ owner' = Unlocked(p, {j})
    /\ UNCHANGED <<now, gcOwner, gcStamp, kind, job, gcNow, todo, cur>>

(* One turn of the eviction: the oldest kept job goes, and only a removal  *)
(* that succeeded counts.  Its lock is dropped at the end of the turn.     *)
Evict(p) ==
    /\ pc[p] = "evict"
    /\ total[p] > MaxBytes
    /\ \E j \in Oldest(kept[p]) :
          /\ \E ok \in BOOLEAN :
                /\ RemoveDirAll(j, ok)
                /\ total' = [total EXCEPT ![p] = IF ok THEN @ - cache[j].size ELSE @]
                /\ stuck' = [stuck EXCEPT ![p] = IF ok THEN @ ELSE @ + cache[j].size]
          /\ kept' = [kept EXCEPT ![p] = @ \ {j}]
          /\ untried' = [untried EXCEPT ![p] = @ \ {j}]
          /\ owner' = Unlocked(p, {j})
    /\ UNCHANGED <<now, gcOwner, gcStamp, pc, kind, job, gcNow, todo, cur>>

EvictEnd(p) ==
    /\ pc[p] = "evict"
    /\ total[p] <= MaxBytes \/ kept[p] = {}
    /\ Goto(p, "gcEnd")
    /\ UNCHANGED <<now, cache, owner, gcOwner, gcStamp, kind, job, gcNow, todo, cur, kept, total, history>>

(* The remaining locks are dropped, the stamp is written (an error is      *)
(* ignored), .gc-lock is dropped.                                          *)
GcEnd(p) ==
    /\ pc[p] = "gcEnd"
    /\ owner' = Unlocked(p, kept[p])
    /\ gcStamp' \in {gcStamp, now}
    /\ gcOwner' = NoProc
    /\ kept' = [kept EXCEPT ![p] = {}]
    /\ total' = [total EXCEPT ![p] = 0]
    /\ gcNow' = [gcNow EXCEPT ![p] = 0]
    /\ untried' = [untried EXCEPT ![p] = {}]
    /\ stuck' = [stuck EXCEPT ![p] = 0]
    /\ Goto(p, "manifest")
    /\ UNCHANGED <<now, cache, kind, job, todo, cur>>

-----------------------------------------------------------------------------
(* The build, or the clean *)

(* Leave build(), the lock going out of scope.                             *)
Return(p) ==
    /\ owner' = Unlocked(p, {job[p]})
    /\ Goto(p, "idle")
    /\ Forget(p)

(* A build refuses a manifest it cannot use; otherwise it creates its      *)
(* auxiliary and staging directories.                                      *)
ReadManifest(p) ==
    /\ pc[p] = "manifest"
    /\ kind[p] = "build"
    /\ \/ /\ cache[job[p]].manifest = "bad"
          /\ Return(p)
          /\ UNCHANGED cache
       \/ /\ cache[job[p]].manifest # "bad"
          /\ cache' = Created(job[p])
          /\ Goto(p, "work")
          /\ UNCHANGED <<owner, kind, job, gcNow, todo, cur, kept, total, history>>
    /\ UNCHANGED <<now, gcOwner, gcStamp>>

(* Passes run and the manifest is written.                                 *)
Write(p) ==
    /\ pc[p] = "work"
    /\ cache[job[p]].manifest # "absent"
    /\ \E s \in Sizes \ {0} :
          cache' = [cache EXCEPT ![job[p]] =
                      [manifest |-> "valid", size |-> s, stamp |-> now]]
    /\ UNCHANGED <<now, owner, gcOwner, gcStamp, procVars>>

(* The build ends, well or not.                                            *)
Finish(p) ==
    /\ pc[p] = "work"
    /\ Return(p)
    /\ UNCHANGED <<now, cache, gcOwner, gcStamp>>

(* -c and -C: owned artifacts go, the lock is dropped, and then the job's  *)
(* directory is removed.                                                   *)
CleanDrop(p) ==
    /\ pc[p] = "manifest"
    /\ kind[p] = "clean"
    /\ owner' = Unlocked(p, {job[p]})
    /\ Goto(p, "rmdir")
    /\ UNCHANGED <<now, cache, gcOwner, gcStamp, kind, job, gcNow, todo, cur, kept, total, history>>

CleanRemove(p) ==
    /\ pc[p] = "rmdir"
    /\ \E ok \in BOOLEAN : RemoveDirAll(job[p], ok)
    /\ Goto(p, "idle")
    /\ Forget(p)
    /\ UNCHANGED <<now, owner, gcOwner, gcStamp>>

-----------------------------------------------------------------------------
(* Death *)

(* Mutant of LocksOfDead: locks outlive their process.                     *)
LocksLeftBehind(p, js) == owner

(* What the operating system leaves of a dead process's locks.             *)
LocksOfDead(p, js) == Unlocked(p, js)

(* The process is killed.  The locks of its collection go at once; its own *)
(* job stays locked as long as an engine that it started runs.             *)
Kill(p) ==
    /\ pc[p] \notin {"idle", "orphan"}
    /\ \/ /\ pc[p] = "work"
          /\ Goto(p, "orphan")
          /\ UNCHANGED <<owner, kind, job, gcNow, todo, cur, kept, total, history>>
       \/ /\ owner' = LocksOfDead(p, Jobs)
          /\ Goto(p, "idle")
          /\ Forget(p)
    /\ gcOwner' = IF gcOwner = p THEN NoProc ELSE gcOwner
    /\ UNCHANGED <<now, cache, gcStamp>>

OrphanExit(p) ==
    /\ pc[p] = "orphan"
    /\ Return(p)
    /\ UNCHANGED <<now, cache, gcOwner, gcStamp>>

-----------------------------------------------------------------------------

Step(p) ==
    \/ Acquire(p) \/ CreateDir(p)
    \/ GcSkip(p) \/ GcLock(p) \/ GcRecheck(p) \/ ScanEntry(p) \/ ScanDecide(p)
    \/ ScanEnd(p) \/ Evict(p) \/ EvictEnd(p) \/ GcEnd(p)
    \/ ReadManifest(p) \/ Finish(p) \/ CleanDrop(p) \/ CleanRemove(p)
    \/ OrphanExit(p)

Next ==
    \/ Tick
    \/ \E p \in Procs : Request(p) \/ Write(p) \/ Kill(p) \/ Step(p)

Spec == Init /\ [][Next]_vars

(* Whoever can run does, and a build ends (it runs boundedly many passes,  *)
(* so Finish cannot be put off for ever by further writes).  Nobody has to *)
(* start or to be killed.                                                  *)
FairSpec ==
    /\ Spec
    /\ \A p \in Procs : WF_vars(Step(p)) /\ SF_vars(Finish(p))

-----------------------------------------------------------------------------
(* Properties *)

(* p, or its orphaned engine, is at work in job j's directory ...          *)
Using(p, j) ==
    job[p] = j /\ pc[p] \notin {"idle", "acquire"}

(* ... or is a clean in its last step, which has no lock any more.         *)
Removing(p) == pc[p] = "rmdir"

(* The collector removes no job that a process uses under its lock:        *)
(* neither the job of the build that runs it nor one that is locked by     *)
(* another build, whose engine may have outlived it (gc_cache, "never      *)
(* collected").                                                            *)
CollectorSparesActiveJobs ==
    [][\A p \in Procs : ScanDecide(p) \/ Evict(p) =>
         \A q \in Procs, j \in Jobs :
            Using(q, j) /\ ~Removing(q) => cache'[j] = cache[j]]_vars

(* A collection that has finished evicting leaves within the limit what it *)
(* could count: the active job, the jobs it keeps and those that it failed *)
(* to remove (gc_cache subtracts only what is_ok).  Otherwise it has found *)
(* every listed job locked or has tried to remove it.                      *)
CollectionBoundsCache ==
    \A p \in Procs : pc[p] = "gcEnd" =>
        \/ SizeOf(kept[p] \cup {job[p]}) + stuck[p] <= MaxBytes
        \/ untried[p] = {}

(* One job, one process: while a process is at work in a job's directory,  *)
(* nobody else is, except a clean that removes the directory: clean drops  *)
(* the lock before (drop(lock) and remove_dir_all at the end of build's    *)
(* clean branch), so it alone meets the next user of the job.              *)
ExclusiveUse ==
    \A p, q \in Procs, j \in Jobs :
        p # q /\ Using(p, j) /\ Using(q, j) => Removing(p) \/ Removing(q)

(* Once no process starts, all of them come to an end: the blocking wait   *)
(* for the own job and the collector's many locks never form a cycle, and  *)
(* a killed process blocks nobody.                                         *)
EveryoneFinishes ==
    <>[][\A p \in Procs : ~Request(p)]_vars
        => \A p \in Procs : <>[](pc[p] = "idle")
=============================================================================
