------------------------------ MODULE JobMutex ------------------------------
(***************************************************************************)
(* What a job lock promises the rest of texmk, with no lock file in it.    *)
(* A build, or a garbage collector, asks for a job, is granted it while    *)
(* nobody has it, or gives up, and in the end gives it back.  A process    *)
(* "has" the job from the moment its lock is confirmed until its lock file *)
(* is unlinked, or, if it is killed, until the engine it started is gone.  *)
(*                                                                         *)
(* CacheLock is shown to implement this specification.                     *)
(***************************************************************************)
CONSTANTS
    Procs,      \* the processes that may want the job
    NoProc      \* the owner of a free job

VARIABLES
    wants,      \* the processes that have asked and have no answer yet
    owner       \* the process that has the job

mutexVars == <<wants, owner>>

MutexInit ==
    /\ wants = {}
    /\ owner = NoProc

Request(p) ==
    /\ p \notin wants
    /\ owner # p
    /\ wants' = wants \cup {p}
    /\ UNCHANGED owner

Grant(p) ==
    /\ p \in wants
    /\ owner = NoProc
    /\ owner' = p
    /\ wants' = wants \ {p}

(* A collector that meets a held lock, an I/O error, a kill. *)
GiveUp(p) ==
    /\ p \in wants
    /\ wants' = wants \ {p}
    /\ UNCHANGED owner

Release(p) ==
    /\ owner = p
    /\ owner' = NoProc
    /\ UNCHANGED wants

MutexNext ==
    \E p \in Procs : Request(p) \/ Grant(p) \/ GiveUp(p) \/ Release(p)

MutexSpec == MutexInit /\ [][MutexNext]_mutexVars
=============================================================================
