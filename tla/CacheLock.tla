----------------------------- MODULE CacheLock -----------------------------
(***************************************************************************)
(* The advisory lock texmk takes on a job of its private cache: CacheLock  *)
(* of crates/tex-cli/src/bin/texmk.rs, on Unix.                            *)
(*                                                                         *)
(* The lock is an flock on a file that the holder UNLINKS when it is done, *)
(* so a waiter may lock an inode that the path no longer names; it then    *)
(* retries with the current file.  The flock belongs to the open file      *)
(* description, which an engine started by texmk inherits, so that a job   *)
(* stays locked while an engine outlives a killed texmk.                   *)
(*                                                                         *)
(* One lock file is modelled.  Each process opens it at most once at a     *)
(* time, so an open file description is named by the process that opened   *)
(* it.  Every system call is a step of its own.                            *)
(***************************************************************************)
EXTENDS Naturals

CONSTANTS
    Procs,      \* texmk processes (a process slot is reused after an exit)
    Inodes,     \* inode numbers the file system may hand out, and reuse
    NoProc,     \* "no process"
    NoInode     \* "no such file"

ASSUME LockAssumption ==
    /\ NoProc \notin Procs
    /\ NoInode \notin Inodes

VARIABLES
    link,       \* the inode that the lock path names
    fd,         \* fd[p]: the inode that p's descriptor refers to
    flock,      \* flock[i]: whose open file description has the flock on i
    mode,       \* mode[p]: "gc" in try_acquire called by gc_cache;
                \*          "try", "wait": the first and second half of acquire
    pc,         \* pc[p]: where p is
    engine      \* engine[p]: a tool that p started is running

lockVars == <<link, fd, flock, mode, pc, engine>>

Modes == {"gc", "try", "wait"}

(* "killed": texmk is gone, its engine still runs. *)
Places == {"idle", "open", "lock", "check", "held", "drop", "unlink", "close",
           "killed"}

(* The places at which the process has the file open. *)
OpenPlaces == {"lock", "check", "held", "drop", "unlink", "close"}

(* Every variable has its type, and no flock is asked of a file that was   *)
(* not opened.                                                             *)
TypeOK ==
    /\ link \in Inodes \cup {NoInode}
    /\ fd \in [Procs -> Inodes \cup {NoInode}]
    /\ flock \in [Inodes -> Procs \cup {NoProc}]
    /\ mode \in [Procs -> Modes]
    /\ pc \in [Procs -> Places]
    /\ engine \in [Procs -> BOOLEAN]
    /\ \A p \in Procs : pc[p] \in OpenPlaces => fd[p] # NoInode

Init ==
    /\ link = NoInode
    /\ fd = [p \in Procs |-> NoInode]
    /\ flock = [i \in Inodes |-> NoProc]
    /\ mode = [p \in Procs |-> "try"]
    /\ pc = [p \in Procs |-> "idle"]
    /\ engine = [p \in Procs |-> FALSE]

-----------------------------------------------------------------------------
(* The operating system *)

(* An inode number is free once no name and no descriptor refers to it.    *)
Free(i) == link # i /\ \A p \in Procs : fd[p] # i

(* The flocks left when the last reference to p's description is closed.   *)
FlocksWithout(p) == [i \in Inodes |-> IF flock[i] = p THEN NoProc ELSE flock[i]]

CloseDescription(p) ==
    /\ fd' = [fd EXCEPT ![p] = NoInode]
    /\ flock' = FlocksWithout(p)

Goto(p, place) == pc' = [pc EXCEPT ![p] = place]

-----------------------------------------------------------------------------
(* Taking the lock *)

(* A build calls acquire, the collector of another build try_acquire.      *)
Start(p) ==
    /\ pc[p] = "idle"
    /\ \E m \in {"gc", "try"} : mode' = [mode EXCEPT ![p] = m]
    /\ Goto(p, "open")
    /\ UNCHANGED <<link, fd, flock, engine>>

(* open: O_CREAT makes a new file when the path names nothing.             *)
Open(p) ==
    /\ pc[p] = "open"
    /\ \/ /\ link # NoInode
          /\ fd' = [fd EXCEPT ![p] = link]
          /\ UNCHANGED link
       \/ /\ link = NoInode
          /\ \E i \in Inodes :
                /\ Free(i)
                /\ link' = i
                /\ fd' = [fd EXCEPT ![p] = i]
    /\ Goto(p, "lock")
    /\ UNCHANGED <<flock, mode, engine>>

(* open, or the flock call, reports an error: the `?` returns.             *)
Fail(p) ==
    /\ pc[p] \in {"open", "lock"}
    /\ CloseDescription(p)
    /\ Goto(p, "idle")
    /\ UNCHANGED <<link, mode, engine>>

(* try_lock or lock succeeds.                                              *)
Lock(p) ==
    /\ pc[p] = "lock"
    /\ flock[fd[p]] = NoProc
    /\ flock' = [flock EXCEPT ![fd[p]] = p]
    /\ Goto(p, "check")
    /\ UNCHANGED <<link, fd, mode, engine>>

(* try_lock reports WouldBlock.  try_acquire returns None: the collector   *)
(* passes over the job, acquire goes on to its blocking loop.              *)
WouldBlock(p) ==
    /\ pc[p] = "lock"
    /\ mode[p] # "wait"
    /\ flock[fd[p]] # NoProc
    /\ CloseDescription(p)
    /\ \/ /\ mode[p] = "gc"
          /\ Goto(p, "idle")
          /\ UNCHANGED mode
       \/ /\ mode[p] = "try"
          /\ Goto(p, "open")
          /\ mode' = [mode EXCEPT ![p] = "wait"]
    /\ UNCHANGED <<link, engine>>

(* Mutant of StillLinked: the recheck after the flock is dropped.          *)
NoRecheck(p) == TRUE

(* The path still names the inode that the descriptor refers to.           *)
StillLinked(p) == link = fd[p]

(* Mutant of Check: the retry locks the same file again.                   *)
CheckSameFile(p) ==
    /\ pc[p] = "check"
    /\ Goto(p, IF StillLinked(p) THEN "held" ELSE "lock")
    /\ UNCHANGED <<link, fd, flock, mode, engine>>

(* After the flock: keep the lock, or close the descriptor and go round    *)
(* the loop again.                                                         *)
Check(p) ==
    /\ pc[p] = "check"
    /\ \/ /\ StillLinked(p)
          /\ Goto(p, "held")
          /\ UNCHANGED <<fd, flock>>
       \/ /\ ~StillLinked(p)
          /\ CloseDescription(p)
          /\ Goto(p, "open")
    /\ UNCHANGED <<link, mode, engine>>

-----------------------------------------------------------------------------
(* Holding it *)

(* Mutant of SharedWithChildren: the job lock keeps FD_CLOEXEC.            *)
NotShared(p) == FALSE

(* build clears FD_CLOEXEC on its job lock; the collector's locks keep it. *)
SharedWithChildren(p) == mode[p] # "gc"

(* run_tool starts a tool and waits for it.                                *)
RunTool(p) ==
    /\ pc[p] = "held"
    /\ mode[p] # "gc"
    /\ ~engine[p]
    /\ engine' = [engine EXCEPT ![p] = TRUE]
    /\ UNCHANGED <<link, fd, flock, mode, pc>>

(* The tool ends: by itself, or by the SIGKILL it asked for (PDEATHSIG)    *)
(* some time after its texmk died.  An orphan's exit closes the last       *)
(* descriptor; nobody unlinks the file.                                    *)
ToolExit(p) ==
    /\ engine[p]
    /\ engine' = [engine EXCEPT ![p] = FALSE]
    /\ \/ /\ pc[p] = "held"
          /\ UNCHANGED <<fd, flock, pc>>
       \/ /\ pc[p] = "killed"
          /\ CloseDescription(p)
          /\ Goto(p, "idle")
    /\ UNCHANGED <<link, mode>>

(* The process is killed (an editor starting a newer build, a crash).  Its *)
(* descriptor goes with it unless a running tool has inherited it.         *)
Kill(p) ==
    /\ pc[p] \notin {"idle", "killed"}
    /\ \/ /\ engine[p] /\ SharedWithChildren(p)
          /\ UNCHANGED <<fd, flock>>
       \/ /\ ~(engine[p] /\ SharedWithChildren(p))
          /\ CloseDescription(p)
    /\ Goto(p, IF engine[p] THEN "killed" ELSE "idle")
    /\ UNCHANGED <<link, mode, engine>>

-----------------------------------------------------------------------------
(* Giving it up: Drop for CacheLock, then the file is closed *)

(* The lock goes out of scope; no tool is running.                         *)
BeginDrop(p) ==
    /\ pc[p] = "held"
    /\ ~engine[p]
    /\ Goto(p, "drop")
    /\ UNCHANGED <<link, fd, flock, mode, engine>>

(* Mutant of DropCheck: the file is closed before it is unlinked.          *)
DropClosesFirst(p) ==
    /\ pc[p] = "drop"
    /\ CloseDescription(p)
    /\ Goto(p, "unlink")
    /\ UNCHANGED <<link, mode, engine>>

DropCheck(p) ==
    /\ pc[p] = "drop"
    /\ Goto(p, IF StillLinked(p) THEN "unlink" ELSE "close")
    /\ UNCHANGED <<link, fd, flock, mode, engine>>

(* remove_file removes whatever the path names at that moment.             *)
Unlink(p) ==
    /\ pc[p] = "unlink"
    /\ link' = NoInode
    /\ Goto(p, "close")
    /\ UNCHANGED <<fd, flock, mode, engine>>

Close(p) ==
    /\ pc[p] = "close"
    /\ CloseDescription(p)
    /\ Goto(p, "idle")
    /\ UNCHANGED <<link, mode, engine>>

-----------------------------------------------------------------------------

(* The steps a live process, or a running tool, goes on to take.           *)
Step(p) ==
    \/ Open(p) \/ Lock(p) \/ WouldBlock(p) \/ Check(p)
    \/ ToolExit(p)
    \/ BeginDrop(p) \/ DropCheck(p) \/ Unlink(p) \/ Close(p)

Next ==
    \E p \in Procs : Start(p) \/ Fail(p) \/ RunTool(p) \/ Kill(p) \/ Step(p)

Spec == Init /\ [][Next]_lockVars

(* A process that can run does run, and a tool ends.  A build runs at most *)
(* MAX_PASSES passes with a few tools each, so it does not start tools for *)
(* ever: it comes to drop its lock.  Nobody has to start, to fail, to be   *)
(* killed, or to run a tool.                                               *)
FairSpec ==
    /\ Spec
    /\ \A p \in Procs : WF_lockVars(Step(p)) /\ SF_lockVars(BeginDrop(p))

-----------------------------------------------------------------------------
(* Properties *)

(* p, or an engine that p left behind, may touch the job's directories.    *)
Working(p) == pc[p] = "held" \/ engine[p]

(* No two builds, and no build and no collector, touch a job's staging and *)
(* auxiliary directories at once; an engine whose texmk was killed counts. *)
MutualExclusion ==
    \A p, q \in Procs : Working(p) /\ Working(q) => p = q

(* p has the job: from the confirmation of its lock to the unlink.         *)
Owns(p) == pc[p] \in {"held", "drop", "unlink"} \/ engine[p]

(* While the job is owned, the path names the owner's own locked file: a   *)
(* newcomer meets the lock and cannot start a second file beside it, and   *)
(* the remove_file of Drop removes nobody else's lock, although the check  *)
(* before it was a separate system call.                                   *)
OwnerHoldsCurrentFile ==
    \A p \in Procs : Owns(p) => link = fd[p] /\ flock[fd[p]] = p

Waiting(p) == pc[p] \in {"open", "lock", "check"}

(* Once no further process starts, every waiter gets its turn: a crashed   *)
(* or killed build leaves no stale lock behind, and the retry loop over    *)
(* unlinked inodes does not go round for ever.                             *)
WaitersServed ==
    <>[][\A p \in Procs : ~Start(p)]_lockVars
        => \A p \in Procs : Waiting(p) ~> ~Waiting(p)

-----------------------------------------------------------------------------
(* The lock implements JobMutex *)

Wants == {p \in Procs : Waiting(p)}

Owner ==
    IF \E p \in Procs : Owns(p) THEN CHOOSE p \in Procs : Owns(p) ELSE NoProc

Mutex == INSTANCE JobMutex WITH wants <- Wants, owner <- Owner

(* Every step of the lock-file protocol is a step of the abstract lock, or *)
(* changes nothing that it shows.                                          *)
ImplementsMutex == Mutex!MutexSpec
=============================================================================
