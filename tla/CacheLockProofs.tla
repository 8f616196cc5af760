-------------------------- MODULE CacheLockProofs --------------------------
(***************************************************************************)
(* Proofs about CacheLock, for any number of processes and inodes.         *)
(***************************************************************************)
EXTENDS CacheLock, TLAPS

(***************************************************************************)
(* The inductive invariant.  MutualExclusion by itself is not preserved:   *)
(* it must be known that an flock is only ever held through a descriptor   *)
(* on that very inode (so an inode number that is handed out again carries *)
(* no old flock), that whoever is past the flock call has the flock, and   *)
(* that the path names the owner's file until the owner unlinks it.        *)
(***************************************************************************)
FlockNeedsDescriptor ==
    \A i \in Inodes, p \in Procs : flock[i] = p => fd[p] = i

PastFlock(p) == pc[p] \in {"check", "held", "drop", "unlink", "close"} \/ engine[p]

PastFlockHasFlock ==
    \A p \in Procs : PastFlock(p) => fd[p] \in Inodes /\ flock[fd[p]] = p

OwnsIsLinked ==
    \A p \in Procs : Owns(p) => link = fd[p]

EngineOfBuild ==
    \A p \in Procs : engine[p] => pc[p] \in {"held", "killed"} /\ mode[p] # "gc"

NothingOpenBefore ==
    \A p \in Procs : pc[p] \in {"idle", "open"} => fd[p] = NoInode

IInv ==
    /\ TypeOK
    /\ FlockNeedsDescriptor
    /\ PastFlockHasFlock
    /\ OwnsIsLinked
    /\ EngineOfBuild
    /\ NothingOpenBefore

-----------------------------------------------------------------------------

(* The variables have their types in every reachable state. *)
THEOREM TypeInvariant == Spec => []TypeOK
<1>1. Init => TypeOK
  BY DEF Init, TypeOK, Modes, Places, OpenPlaces
<1>2. TypeOK /\ [Next]_lockVars => TypeOK'
  <2> SUFFICES ASSUME TypeOK, [Next]_lockVars PROVE TypeOK'
    OBVIOUS
  <2> USE DEF TypeOK, Modes, Places, OpenPlaces
  <2>0. CASE UNCHANGED lockVars
    BY <2>0 DEF lockVars
  <2>1. ASSUME NEW p \in Procs, Start(p) PROVE TypeOK'
    BY <2>1 DEF Start, Goto
  <2>2. ASSUME NEW p \in Procs, Open(p) PROVE TypeOK'
    BY <2>2, LockAssumption DEF Open, Goto
  <2>3. ASSUME NEW p \in Procs, Fail(p) PROVE TypeOK'
    BY <2>3 DEF Fail, Goto, CloseDescription, FlocksWithout
  <2>4. ASSUME NEW p \in Procs, Lock(p) PROVE TypeOK'
    BY <2>4 DEF Lock, Goto
  <2>5. ASSUME NEW p \in Procs, WouldBlock(p) PROVE TypeOK'
    BY <2>5 DEF WouldBlock, Goto, CloseDescription, FlocksWithout
  <2>6. ASSUME NEW p \in Procs, Check(p) PROVE TypeOK'
    BY <2>6 DEF Check, Goto, CloseDescription, FlocksWithout
  <2>7. ASSUME NEW p \in Procs, RunTool(p) PROVE TypeOK'
    BY <2>7 DEF RunTool
  <2>8. ASSUME NEW p \in Procs, ToolExit(p) PROVE TypeOK'
    BY <2>8 DEF ToolExit, Goto, CloseDescription, FlocksWithout
  <2>9. ASSUME NEW p \in Procs, Kill(p) PROVE TypeOK'
    BY <2>9 DEF Kill, Goto, CloseDescription, FlocksWithout
  <2>10. ASSUME NEW p \in Procs, BeginDrop(p) PROVE TypeOK'
    BY <2>10 DEF BeginDrop, Goto
  <2>11. ASSUME NEW p \in Procs, DropCheck(p) PROVE TypeOK'
    BY <2>11 DEF DropCheck, Goto
  <2>12. ASSUME NEW p \in Procs, Unlink(p) PROVE TypeOK'
    BY <2>12 DEF Unlink, Goto
  <2>13. ASSUME NEW p \in Procs, Close(p) PROVE TypeOK'
    BY <2>13 DEF Close, Goto, CloseDescription, FlocksWithout
  <2> QED
    BY <2>0, <2>1, <2>2, <2>3, <2>4, <2>5, <2>6, <2>7, <2>8, <2>9, <2>10,
       <2>11, <2>12, <2>13 DEF Next, Step
<1> QED
  BY <1>1, <1>2, PTL DEF Spec

-----------------------------------------------------------------------------

(* IInv holds initially and every step preserves it. *)
LEMMA Induction == Spec => []IInv
<1>1. Init => IInv
  BY LockAssumption DEF Init, IInv, TypeOK, Modes, Places, OpenPlaces,
     FlockNeedsDescriptor, PastFlockHasFlock, PastFlock, OwnsIsLinked, Owns,
     EngineOfBuild, NothingOpenBefore
<1>2. TypeOK' /\ IInv /\ [Next]_lockVars => IInv'
  <2> SUFFICES ASSUME TypeOK', IInv, [Next]_lockVars PROVE IInv'
    OBVIOUS
  <2> USE LockAssumption DEF IInv, TypeOK, Modes, Places, OpenPlaces,
          FlockNeedsDescriptor, PastFlockHasFlock, PastFlock, OwnsIsLinked,
          Owns, EngineOfBuild, NothingOpenBefore
  <2>0. CASE UNCHANGED lockVars
    BY <2>0 DEF lockVars
  <2>1. ASSUME NEW p \in Procs, Start(p) PROVE IInv'
    BY <2>1 DEF Start, Goto
  <2>2. ASSUME NEW p \in Procs, Open(p) PROVE IInv'
    BY <2>2 DEF Open, Goto, Free
  <2>3. ASSUME NEW p \in Procs, Fail(p) PROVE IInv'
    BY <2>3 DEF Fail, Goto, CloseDescription, FlocksWithout
  <2>4. ASSUME NEW p \in Procs, Lock(p) PROVE IInv'
    BY <2>4 DEF Lock, Goto
  <2>5. ASSUME NEW p \in Procs, WouldBlock(p) PROVE IInv'
    BY <2>5 DEF WouldBlock, Goto, CloseDescription, FlocksWithout
  <2>6. ASSUME NEW p \in Procs, Check(p) PROVE IInv'
    BY <2>6 DEF Check, Goto, CloseDescription, FlocksWithout, StillLinked
  <2>7. ASSUME NEW p \in Procs, RunTool(p) PROVE IInv'
    BY <2>7 DEF RunTool
  <2>8. ASSUME NEW p \in Procs, ToolExit(p) PROVE IInv'
    BY <2>8 DEF ToolExit, Goto, CloseDescription, FlocksWithout
  <2>9. ASSUME NEW p \in Procs, Kill(p) PROVE IInv'
    BY <2>9 DEF Kill, Goto, CloseDescription, FlocksWithout, SharedWithChildren
  <2>10. ASSUME NEW p \in Procs, BeginDrop(p) PROVE IInv'
    BY <2>10 DEF BeginDrop, Goto
  <2>11. ASSUME NEW p \in Procs, DropCheck(p) PROVE IInv'
    BY <2>11 DEF DropCheck, Goto, StillLinked
  <2>12. ASSUME NEW p \in Procs, Unlink(p) PROVE IInv'
    BY <2>12 DEF Unlink, Goto
  <2>13. ASSUME NEW p \in Procs, Close(p) PROVE IInv'
    BY <2>13 DEF Close, Goto, CloseDescription, FlocksWithout
  <2> QED
    BY <2>0, <2>1, <2>2, <2>3, <2>4, <2>5, <2>6, <2>7, <2>8, <2>9, <2>10,
       <2>11, <2>12, <2>13 DEF Next, Step
<1> QED
  BY <1>1, <1>2, TypeInvariant, PTL DEF Spec

-----------------------------------------------------------------------------

(* At most one process owns the job. *)
LEMMA OneOwner == IInv => \A p, q \in Procs : Owns(p) /\ Owns(q) => p = q
  BY DEF IInv, OwnsIsLinked, PastFlockHasFlock, PastFlock, Owns

(* No two builds, and no build and no collector, touch a job's directories *)
(* at once, not even an engine whose texmk was killed.                     *)
THEOREM MutualExclusionHolds == Spec => []MutualExclusion
<1>1. IInv => MutualExclusion
  BY OneOwner DEF MutualExclusion, Working, Owns
<1> QED
  BY <1>1, Induction, PTL

(* The lock file that is current while a job is owned is the owner's; the  *)
(* unlink of Drop removes no other process's lock.                         *)
THEOREM OwnerHoldsCurrentFileHolds == Spec => []OwnerHoldsCurrentFile
<1>1. IInv => OwnerHoldsCurrentFile
  BY DEF IInv, OwnerHoldsCurrentFile, OwnsIsLinked, PastFlockHasFlock,
     PastFlock, Owns
<1> QED
  BY <1>1, Induction, PTL

-----------------------------------------------------------------------------
(* Refinement of JobMutex *)

(* The refinement mapping names the one owner, before and after a step. *)
LEMMA OwnerNamed ==
    ASSUME IInv
    PROVE  /\ \A p \in Procs : Owns(p) <=> Owner = p
           /\ Owner \in Procs \cup {NoProc}
  BY OneOwner, LockAssumption DEF Owner

(* The same in the next state, for the steps of the refinement.            *)
LEMMA OwnerNamedNext ==
    ASSUME IInv'
    PROVE  /\ \A p \in Procs : Owns(p)' <=> Owner' = p
           /\ Owner' \in Procs \cup {NoProc}
<1>1. \A p, q \in Procs : Owns(p)' /\ Owns(q)' => p = q
  BY DEF IInv, OwnsIsLinked, PastFlockHasFlock, PastFlock, Owns
<1> QED
  BY <1>1, LockAssumption DEF Owner

(* Every step of the lock implements a step of the mutex or a stutter. *)
LEMMA StepSimulation ==
    IInv /\ IInv' /\ [Next]_lockVars => [Mutex!MutexNext]_(Mutex!mutexVars)
<1> SUFFICES ASSUME IInv, IInv', [Next]_lockVars
             PROVE  [Mutex!MutexNext]_(Mutex!mutexVars)
  OBVIOUS
<1> DEFINE Sim == [Mutex!MutexNext]_(Mutex!mutexVars)
<1>a. /\ \A p \in Procs : Owns(p) <=> Owner = p
      /\ Owner \in Procs \cup {NoProc}
  BY OwnerNamed
<1>b. /\ \A p \in Procs : Owns(p)' <=> Owner' = p
      /\ Owner' \in Procs \cup {NoProc}
  BY OwnerNamedNext
<1>c. TypeOK
  BY DEF IInv
<1> USE <1>a, <1>b, <1>c, LockAssumption
<1> DEFINE Others(p) ==
      \A q \in Procs \ {p} :
        /\ Waiting(q)' <=> Waiting(q)
        /\ Owns(q)' <=> Owns(q)
<1> USE DEF Wants
<1>stutter. ASSUME NEW p \in Procs, Others(p),
                   Waiting(p)' <=> Waiting(p), Owns(p)' <=> Owns(p)
            PROVE  Sim
  <2>1. Wants' = Wants /\ Owner' = Owner
    BY <1>stutter
  <2> QED
    BY <2>1 DEF Mutex!mutexVars
<1>request. ASSUME NEW p \in Procs, Others(p),
                   ~Waiting(p), Waiting(p)', ~Owns(p), ~Owns(p)'
            PROVE  Sim
  <2>1. Wants' = Wants \cup {p} /\ Owner' = Owner /\ Owner # p /\ p \notin Wants
    BY <1>request
  <2> QED
    BY <2>1 DEF Mutex!MutexNext, Mutex!Request
<1>giveup. ASSUME NEW p \in Procs, Others(p),
                  Waiting(p), ~Waiting(p)', Owns(p)' <=> Owns(p)
           PROVE  Sim
  <2>1. Wants' = Wants \ {p} /\ Owner' = Owner /\ p \in Wants
    BY <1>giveup
  <2> QED
    BY <2>1 DEF Mutex!MutexNext, Mutex!GiveUp
<1>grant. ASSUME NEW p \in Procs, Others(p), Owner = NoProc,
                 Waiting(p), ~Waiting(p)', Owns(p)'
          PROVE  Sim
  <2>1. Wants' = Wants \ {p} /\ Owner' = p /\ p \in Wants
    BY <1>grant
  <2> QED
    BY <2>1, <1>grant DEF Mutex!MutexNext, Mutex!Grant
<1>release. ASSUME NEW p \in Procs, Others(p),
                   Waiting(p)' <=> Waiting(p), Owns(p), ~Owns(p)'
            PROVE  Sim
  <2>1. Wants' = Wants /\ Owner = p /\ Owner' = NoProc
    BY <1>release
  <2> QED
    BY <2>1 DEF Mutex!MutexNext, Mutex!Release
<1> HIDE DEF Sim
<1>engines. EngineOfBuild /\ OwnsIsLinked /\ PastFlockHasFlock
  BY DEF IInv
<1> USE <1>engines DEF TypeOK, Places, Modes, EngineOfBuild, Waiting, Owns
<1>0. CASE UNCHANGED lockVars
  <2>1. Wants' = Wants /\ Owner' = Owner
    BY <1>0 DEF lockVars, Owner
  <2> QED
    BY <2>1 DEF Sim, Mutex!mutexVars
<1>1. ASSUME NEW p \in Procs, Start(p) PROVE Sim
  BY <1>1, <1>request DEF Start, Goto
<1>2. ASSUME NEW p \in Procs, Open(p) PROVE Sim
  BY <1>2, <1>stutter DEF Open, Goto
<1>3. ASSUME NEW p \in Procs, Fail(p) PROVE Sim
  BY <1>3, <1>giveup DEF Fail, Goto
<1>4. ASSUME NEW p \in Procs, Lock(p) PROVE Sim
  BY <1>4, <1>stutter DEF Lock, Goto
<1>5. ASSUME NEW p \in Procs, WouldBlock(p) PROVE Sim
  BY <1>5, <1>giveup, <1>stutter DEF WouldBlock, Goto
<1>6. ASSUME NEW p \in Procs, Check(p) PROVE Sim
  <2>1. CASE StillLinked(p)
    <3>1. Owner = NoProc
      BY <1>6, <2>1 DEF Check, StillLinked, OwnsIsLinked, PastFlockHasFlock, PastFlock
    <3> QED
      BY <1>6, <2>1, <3>1, <1>grant DEF Check, Goto
  <2>2. CASE ~StillLinked(p)
    BY <1>6, <2>2, <1>stutter DEF Check, Goto
  <2> QED
    BY <2>1, <2>2
<1>7. ASSUME NEW p \in Procs, RunTool(p) PROVE Sim
  BY <1>7, <1>stutter DEF RunTool
<1>8. ASSUME NEW p \in Procs, ToolExit(p) PROVE Sim
  BY <1>8, <1>stutter, <1>release DEF ToolExit, Goto
<1>9. ASSUME NEW p \in Procs, Kill(p) PROVE Sim
  <2>1. CASE Waiting(p)
    BY <1>9, <2>1, <1>giveup DEF Kill, Goto
  <2>2. CASE Owns(p) /\ ~engine[p]
    BY <1>9, <2>2, <1>release DEF Kill, Goto
  <2>3. CASE engine[p] \/ pc[p] = "close"
    BY <1>9, <2>3, <1>stutter DEF Kill, Goto
  <2> QED
    BY <1>9, <2>1, <2>2, <2>3 DEF Kill
<1>10. ASSUME NEW p \in Procs, BeginDrop(p) PROVE Sim
  BY <1>10, <1>stutter DEF BeginDrop, Goto
<1>11. ASSUME NEW p \in Procs, DropCheck(p) PROVE Sim
  BY <1>11, <1>stutter DEF DropCheck, Goto, StillLinked, OwnsIsLinked
<1>12. ASSUME NEW p \in Procs, Unlink(p) PROVE Sim
  BY <1>12, <1>release DEF Unlink, Goto
<1>13. ASSUME NEW p \in Procs, Close(p) PROVE Sim
  BY <1>13, <1>stutter DEF Close, Goto
<1> QED
  BY <1>0, <1>1, <1>2, <1>3, <1>4, <1>5, <1>6, <1>7, <1>8, <1>9, <1>10,
     <1>11, <1>12, <1>13 DEF Next, Step, Sim

(* The lock-file protocol implements the abstract lock.                    *)
THEOREM LockImplementsMutex == Spec => ImplementsMutex
<1>1. Init => Mutex!MutexInit
  BY DEF Init, Mutex!MutexInit, Wants, Waiting, Owner, Owns
<1> QED
  BY <1>1, Induction, StepSimulation, PTL DEF Spec, ImplementsMutex, Mutex!MutexSpec
=============================================================================
