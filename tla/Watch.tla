------------------------------- MODULE Watch -------------------------------
(***************************************************************************)
(* Watch mode (-pvc): the Tracker of crates/tex-cli/src/watch/mod.rs and   *)
(* the loop around it, watch_main and watch_dependencies of                *)
(* crates/tex-cli/src/bin/texmk.rs, with a user who edits the project's    *)
(* files at any moment.                                                    *)
(*                                                                         *)
(* A file has a content, a modification time and an inode.  All contents   *)
(* have the same length, the case in which metadata shows least.  The      *)
(* metadata and the content of a file are read in two steps, with edits    *)
(* possible in between.                                                    *)
(***************************************************************************)
EXTENDS Naturals, FiniteSets

CONSTANTS
    Main,           \* the main source
    Includes,       \* files the main source may input
    Outputs,        \* files every build both writes and reads (.aux ...)
    Contents,       \* contents a user gives a file
    NoContent,      \* the content of a missing file
    Needs(_),       \* Needs(c): the includes a main source of content c reads
    Inos,           \* inode numbers of new files
    BackupIno,      \* the inode number of an older file the user has
    Granularity,    \* ticks between two file time stamps
    RacyWindow,     \* RACY_WINDOW, in ticks
    UserMay,        \* what the user may also do to a file that a build has
                    \* discovered and the tracker has not yet recorded:
                    \*   "vanish": delete it, or move an older file there;
                    \*   "race": edit it between the stat and the hash of
                    \*           the first recording
    MaxTime,        \* bound: the clock stops here
    MaxEdits        \* bound: the user stops after as many edits

Files == {Main} \cup Includes \cup Outputs
NoFile == "no file"

ASSUME WatchAssumption ==
    /\ NoContent \notin Contents
    /\ \A c \in Contents \cup {NoContent} : Contents \ {c} # {}   \* a build changes its outputs
    /\ Main \notin Includes \cup Outputs
    /\ Includes \cap Outputs = {}
    /\ IsFiniteSet(Includes \cup Outputs) /\ NoFile \notin Files
    /\ \A c \in Contents : Needs(c) \subseteq Includes
    /\ Inos # {}
    /\ 0 \notin Inos /\ BackupIno \notin Inos \cup {0}
    /\ Granularity \in Nat \ {0}
    /\ RacyWindow \in Nat /\ Granularity <= RacyWindow
    /\ UserMay \subseteq {"vanish", "race"}
    /\ MaxTime \in Nat \ {0} /\ MaxEdits \in Nat

VARIABLES
    now,        \* the clock
    disk,       \* disk[f]: content, mtime and inode of f
    edits,      \* edits so far
    changes,    \* reasons to build: edits that changed the content of a
                \* tracked file, discoveries of a file that may be stale
    pc,         \* where the watch loop is
    tracker,    \* tracker[f]: the entry of a tracked path
    tracked,    \* the tracked paths
    started,    \* WatchInputs::started of the running build
    builds,     \* builds so far
    seen,       \* seen[f]: what the last build that read f found in it
    readSet,    \* the files that the running, or the last, build has read
    reported,   \* the files that the engine's recorder names
    todo,       \* files still to visit in the step under way
    stamp,      \* the metadata read for the file that is being visited
    visit,      \* that file, or NoFile
    scanNow,    \* the time at which the scan started
    moved,      \* a change appeared or moved in this scan
    changed,    \* files whose content really changed
    interrupted \* Ctrl-C was pressed

buildVars == <<started, builds, seen, readSet, reported>>
loopVars == <<todo, stamp, visit, scanNow, moved, changed>>
vars == <<now, disk, edits, changes, pc, tracker, tracked, buildVars, loopVars, interrupted>>

NoStamp == [mtime |-> 0, ino |-> 0]
Stamps == [mtime : 0..MaxTime, ino : Inos \cup {BackupIno}] \cup {NoStamp}
AllContents == Contents \cup {NoContent}
NoPending == <<>>

Entries ==
    [stamp : Stamps, hash : AllContents, racy : BOOLEAN, forced : BOOLEAN,
     pending : {NoPending} \cup (Stamps \X AllContents)]

Places == {"start", "read", "replace", "sleep", "scan", "accept", "done"}

(* Every variable has its type; a file that is being visited is still to   *)
(* be dealt with.                                                          *)
TypeOK ==
    /\ now \in 0..MaxTime
    /\ disk \in [Files -> [content : AllContents, stamp : Stamps]]
    /\ \A f \in Files : disk[f].content = NoContent <=> disk[f].stamp = NoStamp
    /\ edits \in 0..MaxEdits /\ changes \in Nat
    /\ pc \in Places
    /\ tracker \in [Files -> Entries]
    /\ tracked \subseteq Files
    /\ started \in 0..MaxTime
    /\ builds \in Nat
    /\ seen \in [Files -> AllContents]
    /\ readSet \subseteq Files /\ reported \subseteq Files
    /\ todo \subseteq Files
    /\ stamp \in Stamps
    /\ visit \in todo \cup {NoFile}
    /\ scanNow \in 0..MaxTime
    /\ moved \in BOOLEAN
    /\ changed \subseteq tracked
    /\ interrupted \in BOOLEAN

Missing == [content |-> NoContent, stamp |-> NoStamp]

BlankEntry ==
    [stamp |-> NoStamp, hash |-> NoContent, racy |-> FALSE, forced |-> FALSE,
     pending |-> NoPending]

(* The project holds its sources, written some time ago, and no outputs.   *)
Init ==
    /\ now = 1
    /\ \E c \in [{Main} \cup Includes -> Contents] :
          disk = [f \in Files |-> IF f \in Outputs THEN Missing
                    ELSE [content |-> c[f],
                          stamp |-> [mtime |-> 0, ino |-> CHOOSE i \in Inos : TRUE]]]
    /\ edits = 0 /\ changes = 0
    /\ pc = "start"
    /\ tracker = [f \in Files |-> BlankEntry]
    /\ tracked = {}
    /\ started = 0
    /\ builds = 0
    /\ seen = [f \in Files |-> NoContent]
    /\ readSet = {} /\ reported = {}
    /\ todo = {}
    /\ stamp = NoStamp
    /\ visit = NoFile
    /\ scanNow = 0
    /\ moved = FALSE
    /\ changed = {}
    /\ interrupted = FALSE

-----------------------------------------------------------------------------
(* The user *)

Exists(f) == disk[f].content # NoContent

(* The time stamp that the file system gives a write now.                  *)
FileTime == now - (now % Granularity)

Tick ==
    /\ now < MaxTime
    /\ ~interrupted
    /\ now' = now + 1
    /\ UNCHANGED <<disk, edits, changes, pc, tracker, tracked, buildVars, loopVars, interrupted>>

(* The user gives f a new state.  Edits after Ctrl-C are of no interest.   *)
Edit(f, file) ==
    /\ edits < MaxEdits
    /\ ~interrupted
    /\ pc = "replace" /\ visit = f => "race" \in UserMay
    /\ edits' = edits + 1
    /\ changes' = IF file.content # disk[f].content /\ f \in tracked
                  THEN changes + 1 ELSE changes
    /\ disk' = [disk EXCEPT ![f] = file]
    /\ UNCHANGED <<now, pc, tracker, tracked, buildVars, loopVars, interrupted>>

(* f is, or may be, found by the build that is running, or is found and    *)
(* not yet recorded.                                                       *)
JustDiscovered(f) ==
    \/ pc \in {"start", "read"} /\ f \notin tracked
    \/ pc = "replace" /\ f \in todo

(* A write in place, perhaps of the same bytes.                            *)
WriteInPlace(f) ==
    /\ Exists(f)
    /\ \E c \in Contents :
          Edit(f, [content |-> c, stamp |-> [disk[f].stamp EXCEPT !.mtime = FileTime]])

(* A new file is renamed to f, or f is created.                            *)
Install(f) ==
    \E c \in Contents, i \in Inos \ {disk[f].stamp.ino} :
        Edit(f, [content |-> c, stamp |-> [mtime |-> FileTime, ino |-> i]])

(* An old file is moved to f, its modification time unchanged.             *)
InstallOld(f) ==
    /\ JustDiscovered(f) => "vanish" \in UserMay
    /\ disk[f].stamp.ino # BackupIno
    /\ Edit(f, [content |-> CHOOSE c \in Contents : TRUE,
                stamp |-> [mtime |-> 0, ino |-> BackupIno]])

Delete(f) ==
    /\ Exists(f)
    /\ JustDiscovered(f) => "vanish" \in UserMay
    /\ Edit(f, Missing)

User ==
    \E f \in {Main} \cup Includes :
        WriteInPlace(f) \/ Install(f) \/ InstallOld(f) \/ Delete(f)

Interrupt ==
    /\ ~interrupted
    /\ interrupted' = TRUE
    /\ UNCHANGED <<now, disk, edits, changes, pc, tracker, tracked, buildVars, loopVars>>

-----------------------------------------------------------------------------
(* A build, as far as watching is concerned *)

(* build() without a main source fails before it can name its files.  That *)
(* ends a first build; later the tracker is left alone.                    *)
BuildWithoutSource ==
    /\ pc = "start"
    /\ ~Exists(Main)
    /\ builds' = builds + 1
    /\ seen' = [seen EXCEPT ![Main] = NoContent]
    /\ readSet' = {Main}
    /\ pc' = IF builds = 0 \/ interrupted THEN "done" ELSE "sleep"
    /\ UNCHANGED <<now, disk, edits, changes, tracker, tracked, started, reported, loopVars, interrupted>>

BuildStart ==
    /\ pc = "start"
    /\ Exists(Main)
    /\ builds' = builds + 1
    /\ started' = now
    /\ readSet' = {}
    /\ seen' = [f \in Files |-> NoContent]
    /\ pc' = "read"
    /\ UNCHANGED <<now, disk, edits, changes, tracker, tracked, reported, loopVars, interrupted>>

(* What the build wants to read, once it has read the main source.         *)
Wanted ==
    IF Main \notin readSet THEN {Main}
    ELSE {Main} \cup Outputs \cup
         (IF seen[Main] = NoContent THEN {} ELSE Needs(seen[Main]))

(* The engine reads a file, or finds it missing.                           *)
BuildRead ==
    /\ pc = "read"
    /\ \E f \in Wanted \ readSet :
          /\ seen' = [seen EXCEPT ![f] = disk[f].content]
          /\ readSet' = readSet \cup {f}
    /\ UNCHANGED <<now, disk, edits, changes, pc, tracker, tracked, started, builds, reported, loopVars, interrupted>>

(* Mutant of Dependencies: files that the build writes are watched.        *)
AllRead(named, keep) == named \cup {Main} \cup keep

(* watch_dependencies: the main source and what the recorder names, less   *)
(* what the build writes; and what was watched before, if a failed build   *)
(* left the recorder as it was.                                            *)
Dependencies(named, keep) == ((named \cup {Main}) \ Outputs) \cup keep

(* An output after a build: never the bytes that were there before.        *)
Rewritten(f) ==
    [content |-> CHOOSE c \in Contents : c # disk[f].content,
     stamp |-> [mtime |-> FileTime, ino |-> CHOOSE i \in Inos : TRUE]]

(* The build ends, its outputs rewritten.  Either the engine has written   *)
(* its recorder, or it failed before that.  Then Tracker::replace drops    *)
(* what is no longer a dependency and goes on to record what is new.       *)
BuildEnd ==
    /\ pc = "read"
    /\ Wanted \subseteq readSet
    /\ disk' = [f \in Files |-> IF f \in Outputs THEN Rewritten(f) ELSE disk[f]]
    /\ \E failed \in BOOLEAN :
          LET named == IF failed THEN reported ELSE readSet
              keep  == IF failed THEN tracked ELSE {}
              deps  == Dependencies(named, keep)
          IN  /\ reported' = named
              /\ IF interrupted
                 THEN /\ pc' = "done"
                      /\ UNCHANGED <<tracked, tracker, todo>>
                 ELSE /\ pc' = "replace"
                      /\ tracked' = deps
                      /\ tracker' = [f \in Files |->
                            IF f \in tracked \cap deps THEN tracker[f] ELSE BlankEntry]
                      /\ todo' = deps \ tracked
    /\ UNCHANGED <<now, edits, changes, started, builds, seen, readSet,
                   stamp, visit, scanNow, moved, changed, interrupted>>

-----------------------------------------------------------------------------
(* The tracker *)

(* Mutant of IsRacy: only a modification time in the future is distrusted. *)
InFuture(s, t) == s # NoStamp /\ t < s.mtime

(* An unknown, future or recent modification time proves nothing.          *)
IsRacy(s, t) == s # NoStamp /\ t < s.mtime + RacyWindow

(* Every visit starts with the metadata (Stamp::of).  Files are visited in *)
(* the order of the map, any one fixed order.                              *)
Stat(place) ==
    /\ pc = place
    /\ visit = NoFile
    /\ todo # {}
    /\ visit' = CHOOSE f \in todo : TRUE
    /\ stamp' = disk[visit'].stamp
    /\ UNCHANGED <<now, disk, edits, changes, pc, tracker, tracked, buildVars,
                   todo, scanNow, moved, changed, interrupted>>

(* hash_file after Stamp::of: nothing is hashed where nothing was found.   *)
HashOf(f) == IF stamp = NoStamp THEN NoContent ELSE disk[f].content

(* Entry::record.                                                          *)
Recorded(f) ==
    [stamp |-> stamp, hash |-> HashOf(f), racy |-> IsRacy(stamp, now),
     forced |-> FALSE, pending |-> NoPending]

(* A discovered file that was modified since the build started.            *)
Forced(s) == s # NoStamp /\ s.mtime >= started

(* The next turn of the loop over the files.                               *)
VisitDone == /\ visit' = NoFile
             /\ stamp' = NoStamp
             /\ todo' = todo \ {visit}

(* Tracker::replace records a newly discovered file.                       *)
ReplaceRecord ==
    /\ pc = "replace"
    /\ visit # NoFile
    /\ tracker' = [tracker EXCEPT ![visit] =
                     [Recorded(visit) EXCEPT !.forced = Forced(stamp)]]
    /\ changes' = IF Forced(stamp) THEN changes + 1 ELSE changes
    /\ VisitDone
    /\ UNCHANGED <<now, disk, edits, pc, tracked, buildVars, scanNow, moved, changed, interrupted>>

ReplaceEnd ==
    /\ pc = "replace"
    /\ todo = {}
    /\ pc' = "sleep"
    /\ started' = 0
    /\ UNCHANGED <<now, disk, edits, changes, tracker, tracked, builds, seen, readSet, reported, loopVars, interrupted>>

(* Mutant of Sleep: Ctrl-C is only looked at after builds.                 *)
SleepThrough ==
    /\ pc = "sleep"
    /\ pc' = "scan"
    /\ todo' = tracked
    /\ scanNow' = now
    /\ moved' = FALSE
    /\ UNCHANGED <<now, disk, edits, changes, tracker, tracked, buildVars, stamp, visit, changed, interrupted>>

(* wait_for_change sleeps for POLL_INTERVAL, then scans; or is interrupted.*)
Sleep ==
    /\ pc = "sleep"
    /\ \/ /\ interrupted
          /\ pc' = "done"
          /\ UNCHANGED <<todo, scanNow, moved>>
       \/ /\ ~interrupted
          /\ pc' = "scan"
          /\ todo' = tracked
          /\ scanNow' = now
          /\ moved' = FALSE
    /\ UNCHANGED <<now, disk, edits, changes, tracker, tracked, buildVars, stamp, visit, changed, interrupted>>

(* Mutant of ProvenUnchanged: the racy flag is not looked at.              *)
SameMetadata(e, s) ==
    e.pending = NoPending /\ ~e.forced /\ s = e.stamp

(* The metadata proves the content unchanged: no need to hash.             *)
ProvenUnchanged(e, s) ==
    e.pending = NoPending /\ ~e.forced /\ ~e.racy /\ s = e.stamp

(* A touch, an identical rewrite, or a change already undone.              *)
SameContent(e, f) == ~e.forced /\ HashOf(f) = e.hash

(* One turn of Tracker::scan.                                              *)
ScanFile ==
    /\ pc = "scan"
    /\ visit # NoFile
    /\ LET e == tracker[visit]
           observed == <<stamp, HashOf(visit)>>
       IN  \/ /\ ProvenUnchanged(e, stamp)
              /\ UNCHANGED <<tracker, moved>>
           \/ /\ ~ProvenUnchanged(e, stamp)
              /\ SameContent(e, visit)
              /\ tracker' = [tracker EXCEPT ![visit] =
                    [e EXCEPT !.stamp = stamp, !.racy = IsRacy(stamp, scanNow),
                              !.pending = NoPending]]
              /\ UNCHANGED moved
           \/ /\ ~ProvenUnchanged(e, stamp)
              /\ ~SameContent(e, visit)
              /\ tracker' = [tracker EXCEPT ![visit].pending = observed]
              /\ moved' = (moved \/ e.pending # observed)
    /\ VisitDone
    /\ UNCHANGED <<now, disk, edits, changes, pc, tracked, buildVars, scanNow, changed, interrupted>>

Pending(f) == tracker[f].pending # NoPending \/ tracker[f].forced

(* After a scan: nothing is pending, or something has just moved (the      *)
(* next scan comes after DEBOUNCE, which is POLL_INTERVAL), or the pending *)
(* changes are accepted.                                                   *)
ScanEnd ==
    /\ pc = "scan"
    /\ todo = {}
    /\ \/ /\ moved \/ \A f \in tracked : ~Pending(f)
          /\ pc' = "sleep"
          /\ UNCHANGED todo
       \/ /\ ~moved
          /\ \E f \in tracked : Pending(f)
          /\ pc' = "accept"
          /\ todo' = {f \in tracked : Pending(f)}
    /\ scanNow' = 0 /\ moved' = FALSE
    /\ UNCHANGED <<now, disk, edits, changes, tracker, tracked, buildVars, stamp, visit, changed, interrupted>>

(* One turn of Tracker::accept_pending.                                    *)
AcceptFile ==
    /\ pc = "accept"
    /\ visit # NoFile
    /\ changed' = IF tracker[visit].forced \/ HashOf(visit) # tracker[visit].hash
                  THEN changed \cup {visit} ELSE changed
    /\ tracker' = [tracker EXCEPT ![visit] = Recorded(visit)]
    /\ VisitDone
    /\ UNCHANGED <<now, disk, edits, changes, pc, tracked, buildVars, scanNow, moved, interrupted>>

(* Build again if a content really changed, else sleep again.              *)
AcceptEnd ==
    /\ pc = "accept"
    /\ todo = {}
    /\ pc' = IF changed # {} THEN "start" ELSE "sleep"
    /\ changed' = {}
    /\ UNCHANGED <<now, disk, edits, changes, tracker, tracked, buildVars,
                   todo, stamp, visit, scanNow, moved, interrupted>>

-----------------------------------------------------------------------------

Watcher ==
    \/ BuildWithoutSource \/ BuildStart \/ BuildRead \/ BuildEnd
    \/ Stat("replace") \/ ReplaceRecord \/ ReplaceEnd
    \/ Sleep \/ Stat("scan") \/ ScanFile \/ ScanEnd
    \/ Stat("accept") \/ AcceptFile \/ AcceptEnd

Next == Tick \/ User \/ Interrupt \/ Watcher

Spec == Init /\ [][Next]_vars

(* The watch loop is one thread that runs; the user does what he likes.    *)
FairSpec == Spec /\ WF_vars(Watcher)

-----------------------------------------------------------------------------
(* Properties *)

(* What the last build read, of the files it can know of, is what is there.*)
UpToDate ==
    \A f \in (({Main} \cup reported) \cap readSet) \ Outputs :
        seen[f] = disk[f].content

(* No lost update: once the user stops, and unless he pressed Ctrl-C, the  *)
(* loop comes to rest, with a last build that has read every file as it    *)
(* then is ("rebuild whenever a file the last build read changes").        *)
EventuallyUpToDate ==
    <>[](pc = "done" \/ (UpToDate /\ pc \notin {"start", "read"}))

(* Where a scan would not hash a file because its metadata are the         *)
(* recorded ones, the recorded hash is that of its content: neither an     *)
(* edit within one tick of the file system's clock nor one between the     *)
(* stat and the hash of a visit makes stale metadata pass for proof        *)
(* (RACY_WINDOW and the order of the reads in Entry::record).  An older    *)
(* file that is moved to the path keeps its modification time, which shows *)
(* nothing of when it came: it is left out.                                *)
MetadataProves ==
    \A f \in tracked :
        /\ ProvenUnchanged(tracker[f], disk[f].stamp)
        /\ disk[f].stamp.ino # BackupIno
        => tracker[f].hash = disk[f].content

(* A build never triggers itself, and neither a touch nor an identical     *)
(* rewrite of a watched file triggers one: besides the first there is at   *)
(* most one build per change of a watched content and per discovery of a   *)
(* file that may have been read before it was modified.                    *)
OneBuildPerChange == builds <= 1 + changes

(* Ctrl-C ends the loop, whatever it is doing.                             *)
InterruptEnds == interrupted ~> pc = "done"
=============================================================================
