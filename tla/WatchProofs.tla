---------------------------- MODULE WatchProofs ----------------------------
(***************************************************************************)
(* Proofs about watch mode, for any project, any contents, any granularity *)
(* of the file system's time stamps and any bounds, with edits at any      *)
(* moment: also between the stat and the hash of one file, and of files    *)
(* that a build has just discovered.                                       *)
(***************************************************************************)
EXTENDS Watch, TLAPS, FiniteSetTheorems

-----------------------------------------------------------------------------
(* The inductive invariant *)

\* What the steps of the loop may have left for later
Cursor ==
    /\ pc \in {"replace", "scan", "accept"} \/ (todo = {} /\ visit = NoFile)
    /\ pc = "accept" \/ changed = {}
    /\ todo \subseteq tracked
    /\ tracked \cap Outputs = {}

\* The tracked files that have an entry in the tracker
Entered == IF pc = "replace" THEN tracked \ todo ELSE tracked

\* What the tracker finds, or is going to find, in f
Found(f) == IF f = visit THEN HashOf(f) ELSE disk[f].content

\* Files that a scan would take for changed
Dirty == {f \in Entered : tracker[f].forced \/ Found(f) # tracker[f].hash}

\* The file that is being visited was created after its metadata were read
Late == visit # NoFile /\ disk[visit].content # HashOf(visit)

Starting == pc = "start" \/ changed # {}

\* Builds to come: each is paid for by a change of its own
Owed == Cardinality(Dirty) + (IF Late THEN 1 ELSE 0) + (IF Starting THEN 1 ELSE 0)

Paid == builds + Owed <= 1 + changes

WatchInv == TypeOK /\ Cursor /\ Paid

-----------------------------------------------------------------------------
(* Lemmas *)

\* There are finitely many files.
LEMMA FilesFinite == IsFiniteSet(Files)
<1>1. Files = (Includes \cup Outputs) \cup {Main}
  BY DEF Files
<1> QED BY <1>1, WatchAssumption, FS_AddElement

(* A set that has at most one element more than another one.               *)
LEMMA OneMore ==
    ASSUME NEW S, IsFiniteSet(S), NEW x, NEW T, T \subseteq S \cup {x}
    PROVE  /\ Cardinality(S) \in Nat /\ Cardinality(T) \in Nat
           /\ Cardinality(T) <= Cardinality(S) + 1
           /\ T \subseteq S => Cardinality(T) <= Cardinality(S)
<1>1. /\ IsFiniteSet(S \cup {x}) /\ Cardinality(S) \in Nat
      /\ Cardinality(S \cup {x}) <= Cardinality(S) + 1
  <2>1. Cardinality(S) \in Nat
    BY FS_CardinalityType
  <2>2. /\ IsFiniteSet(S \cup {x})
        /\ \/ Cardinality(S \cup {x}) = Cardinality(S)
           \/ Cardinality(S \cup {x}) = Cardinality(S) + 1
    BY FS_AddElement
  <2> QED BY <2>1, <2>2
<1>2. IsFiniteSet(T) /\ Cardinality(T) <= Cardinality(S \cup {x})
  BY <1>1, FS_Subset
<1>3. Cardinality(T) \in Nat /\ Cardinality(S \cup {x}) \in Nat
  BY <1>1, <1>2, FS_CardinalityType
<1>4. T \subseteq S => Cardinality(T) <= Cardinality(S)
  BY FS_Subset
<1> QED BY <1>1, <1>2, <1>3, <1>4

\* So the changed ones can be counted.
LEMMA DirtyFinite == TypeOK => IsFiniteSet(Dirty) /\ Cardinality(Dirty) \in Nat
<1> SUFFICES ASSUME TypeOK PROVE IsFiniteSet(Dirty) /\ Cardinality(Dirty) \in Nat
  OBVIOUS
<1>1. Dirty \subseteq Files
  BY DEF TypeOK, Dirty, Entered
<1> QED BY <1>1, FilesFinite, FS_Subset, FS_CardinalityType

\* A rounded time is a time.
LEMMA FileTimeType == ASSUME now \in 0..MaxTime PROVE FileTime \in 0..MaxTime
<1>1. now \in Nat /\ MaxTime \in Nat /\ Granularity \in Nat \ {0}
  BY WatchAssumption
<1>2. now % Granularity \in 0..(Granularity - 1)
  BY <1>1
<1>3. now % Granularity <= now
  BY <1>1, <1>2
<1> QED BY <1>1, <1>2, <1>3 DEF FileTime

(* No file has the stamp of a missing one.                                 *)
LEMMA StampTypes ==
    ASSUME NEW m \in 0..MaxTime, NEW i \in Inos \cup {BackupIno}
    PROVE  [mtime |-> m, ino |-> i] \in Stamps /\ [mtime |-> m, ino |-> i] # NoStamp
<1>1. i # 0
  BY WatchAssumption
<1>2. [mtime |-> m, ino |-> i].ino # NoStamp.ino
  BY <1>1 DEF NoStamp
<1> QED BY <1>2 DEF Stamps

-----------------------------------------------------------------------------
(* The steps *)

\* The first build is on the account from the start.
LEMMA WatchInit == Init => WatchInv
<1> SUFFICES ASSUME Init PROVE WatchInv
  OBVIOUS
<1>1. NoStamp \in Stamps /\ BlankEntry \in Entries
  BY DEF Stamps, BlankEntry, Entries, AllContents
<1>2. /\ disk \in [Files -> [content : AllContents, stamp : Stamps]]
      /\ \A f \in Files : disk[f].content = NoContent <=> disk[f].stamp = NoStamp
  <2>1. PICK c \in [{Main} \cup Includes -> Contents] :
          disk = [f \in Files |-> IF f \in Outputs THEN Missing
                    ELSE [content |-> c[f],
                          stamp |-> [mtime |-> 0, ino |-> CHOOSE i \in Inos : TRUE]]]
    BY DEF Init
  <2> DEFINE first == CHOOSE i \in Inos : TRUE
             old == [mtime |-> 0, ino |-> first]
  <2>2. first \in Inos
    BY WatchAssumption
  <2>3. old \in Stamps /\ old # NoStamp
    BY <2>2, StampTypes, WatchAssumption
  <2> HIDE DEF old
  <2>4. disk = [f \in Files |-> IF f \in Outputs THEN Missing ELSE [content |-> c[f], stamp |-> old]]
    BY <2>1 DEF old
  <2> QED BY <2>3, <2>4, <1>1, WatchAssumption DEF Missing, AllContents, Files
<1>3. TypeOK
  <2>1. now \in 0..MaxTime /\ started \in 0..MaxTime /\ scanNow \in 0..MaxTime
    BY WatchAssumption DEF Init
  <2>2. edits \in 0..MaxEdits /\ changes \in Nat /\ builds \in Nat
    BY WatchAssumption DEF Init
  <2>3. tracker \in [Files -> Entries] /\ seen \in [Files -> AllContents]
    BY <1>1 DEF Init, AllContents
  <2>4. moved \in BOOLEAN /\ interrupted \in BOOLEAN
    BY DEF Init
  <2> QED BY <1>1, <1>2, <2>1, <2>2, <2>3, <2>4 DEF Init, TypeOK, Places
<1>4. Cursor
  BY DEF Init, Cursor
<1>5. Dirty = {}
  BY DEF Init, Dirty, Entered
<1>6. ~Late /\ Cardinality(Dirty) = 0
  BY <1>5, FS_EmptySet DEF Init, Late
<1>7. Paid
  BY <1>6 DEF Init, Paid, Owed, Starting
<1> QED BY <1>3, <1>4, <1>7 DEF WatchInv

(* The sum after a step that owes no more than before.                     *)
LEMMA OwesNoMore ==
    ASSUME WatchInv, TypeOK', Dirty' \subseteq Dirty, Late' => Late, Starting' => Starting,
           builds' = builds, changes' >= changes
    PROVE  Paid'
<1> DEFINE d == Cardinality(Dirty)
           e == Cardinality(Dirty')
           l == IF Late THEN 1 ELSE 0
           m == IF Late' THEN 1 ELSE 0
           s == IF Starting THEN 1 ELSE 0
           t == IF Starting' THEN 1 ELSE 0
<1>1. IsFiniteSet(Dirty) /\ d \in Nat
  BY DirtyFinite DEF WatchInv
<1>2. e \in Nat /\ e <= d
  BY <1>1, FS_Subset, FS_CardinalityType
<1>3. builds \in Nat /\ changes \in Nat /\ changes' \in Nat
  BY DEF WatchInv, TypeOK
<1>4. /\ (l = 1 /\ m = 1) \/ (l = 0 /\ m = 0) \/ (l = 1 /\ m = 0)
      /\ (s = 1 /\ t = 1) \/ (s = 0 /\ t = 0) \/ (s = 1 /\ t = 0)
  BY Zenon
<1>5. builds + (d + l + s) <= 1 + changes
  BY DEF WatchInv, Paid, Owed
<1> HIDE DEF d, e, l, m, s, t
<1>6. builds + (e + m + t) <= 1 + changes'
  BY <1>1, <1>2, <1>3, <1>4, <1>5
<1> QED BY <1>6 DEF Paid, Owed, e, m, t

(* The sum after a step that pays for what it adds.                        *)
LEMMA OwesOneMore ==
    ASSUME WatchInv, TypeOK', NEW x, Dirty' \subseteq Dirty \cup {x}, builds' = builds,
           Starting' <=> Starting,
           \/ changes' = changes + 1 /\ (Late' <=> Late)
           \/ changes' = changes + 1 /\ Dirty' \subseteq Dirty
           \/ changes' = changes + 1 /\ ~Late'
           \/ changes' = changes /\ Late /\ ~Late'
    PROVE  Paid'
<1> DEFINE d == Cardinality(Dirty)
           e == Cardinality(Dirty')
           l == IF Late THEN 1 ELSE 0
           m == IF Late' THEN 1 ELSE 0
           s == IF Starting THEN 1 ELSE 0
           t == IF Starting' THEN 1 ELSE 0
<1>1. IsFiniteSet(Dirty)
  BY DirtyFinite DEF WatchInv
<1>2. d \in Nat /\ e \in Nat /\ e <= d + 1 /\ (Dirty' \subseteq Dirty => e <= d)
  BY <1>1, OneMore
<1>3. builds \in Nat /\ changes \in Nat /\ changes' \in Nat
  BY DEF WatchInv, TypeOK
<1>4. (l = 0 \/ l = 1) /\ (m = 0 \/ m = 1) /\ ((s = 1 /\ t = 1) \/ (s = 0 /\ t = 0))
  BY Zenon
<1>5. \/ changes' = changes + 1 /\ l = m
      \/ changes' = changes + 1 /\ Dirty' \subseteq Dirty
      \/ changes' = changes + 1 /\ m = 0
      \/ changes' = changes /\ l = 1 /\ m = 0
  BY Zenon
<1>6. builds + (d + l + s) <= 1 + changes
  BY DEF WatchInv, Paid, Owed
<1> HIDE DEF d, e, l, m, s, t
<1>7. builds + (e + m + t) <= 1 + changes'
  BY <1>2, <1>3, <1>4, <1>5, <1>6
<1> QED BY <1>7 DEF Paid, Owed, e, m, t

(* An edit dirties one file at most, and is counted when it does.          *)
LEMMA EditKeeps ==
    ASSUME WatchInv, NEW f \in {Main} \cup Includes,
           NEW file \in [content : AllContents, stamp : Stamps],
           file.content = NoContent <=> file.stamp = NoStamp, Edit(f, file)
    PROVE  WatchInv'
<1>1. f \in Files
  BY DEF Files
<1>2. TypeOK
  BY DEF WatchInv
<1>3. TypeOK'
  <2>1. /\ disk' \in [Files -> [content : AllContents, stamp : Stamps]]
        /\ \A g \in Files : disk'[g].content = NoContent <=> disk'[g].stamp = NoStamp
    BY <1>1, <1>2 DEF Edit, TypeOK
  <2>2. edits' \in 0..MaxEdits /\ changes' \in Nat
    BY <1>2, WatchAssumption DEF Edit, TypeOK
  <2> QED BY <1>2, <2>1, <2>2 DEF Edit, TypeOK, buildVars, loopVars
<1>4. Cursor'
  BY DEF WatchInv, Cursor, Edit, buildVars, loopVars
<1>5. /\ Starting' <=> Starting
      /\ builds' = builds /\ tracked' = tracked /\ Entered' = Entered /\ tracker' = tracker
      /\ visit' = visit /\ stamp' = stamp /\ disk' = [disk EXCEPT ![f] = file]
  BY DEF Edit, buildVars, loopVars, Starting, Entered
<1>6. \A g \in Files : g # f => disk'[g] = disk[g] /\ Found(g)' = Found(g)
  BY <1>1, <1>2, <1>5 DEF TypeOK, Found, HashOf
<1>7. disk'[f] = file
  BY <1>1, <1>2, <1>5 DEF TypeOK
<1>8. Entered \subseteq Files /\ Entered \subseteq tracked
  BY <1>2 DEF TypeOK, Entered
<1>9. visit # NoFile => visit \in tracked /\ visit \in Files
  BY <1>2 DEF WatchInv, Cursor, TypeOK
<1>10. Dirty' \subseteq Dirty \cup {f}
  BY <1>5, <1>6, <1>8 DEF Dirty
<1>11. CASE file.content = disk[f].content \/ f \notin tracked
  <2>1. changes' = changes
    BY <1>11 DEF Edit
  <2>2. f \in tracked => Found(f)' = Found(f)
    BY <1>5, <1>7, <1>11 DEF Found, HashOf
  <2>3. Dirty' \subseteq Dirty
    BY <2>2, <1>5, <1>6, <1>8 DEF Dirty
  <2>4. Late' => Late
    BY <1>5, <1>6, <1>7, <1>9, <1>11 DEF Late, HashOf
  <2> QED BY <1>2, <1>3, <1>4, <1>5, <2>1, <2>3, <2>4, OwesNoMore DEF WatchInv, TypeOK
<1>12. CASE file.content # disk[f].content /\ f \in tracked
  <2>1. changes' = changes + 1
    BY <1>12 DEF Edit
  <2>2. CASE visit # f
    <3>1. Late' <=> Late
      BY <2>2, <1>5, <1>6, <1>9 DEF Late, HashOf
    <3> QED BY <3>1, <2>1, <1>3, <1>4, <1>5, <1>10, OwesOneMore DEF WatchInv
  <2>3. CASE visit = f /\ stamp = NoStamp
    <3>1. Found(f)' = Found(f)
      BY <2>3, <1>5 DEF Found, HashOf
    <3>2. Dirty' \subseteq Dirty
      BY <3>1, <1>5, <1>6, <1>8 DEF Dirty
    <3> QED BY <3>2, <2>1, <1>3, <1>4, <1>5, <1>10, OwesOneMore DEF WatchInv
  <2>4. CASE visit = f /\ stamp # NoStamp
    <3>1. ~Late'
      BY <2>4, <1>5 DEF Late, HashOf
    <3> QED BY <3>1, <2>1, <1>3, <1>4, <1>5, <1>10, OwesOneMore DEF WatchInv
  <2> QED BY <2>2, <2>3, <2>4
<1> QED BY <1>11, <1>12

\* An edit makes at most one file dirty and counts as a change.
LEMMA UserKeeps == WatchInv /\ User => WatchInv'
<1> SUFFICES ASSUME WatchInv, NEW f \in {Main} \cup Includes,
                    WriteInPlace(f) \/ Install(f) \/ InstallOld(f) \/ Delete(f)
             PROVE  WatchInv'
  BY DEF User
<1>1. TypeOK /\ f \in Files /\ FileTime \in 0..MaxTime
  BY FileTimeType DEF WatchInv, TypeOK, Files
<1>2. Contents \subseteq AllContents /\ NoContent \notin Contents
  BY WatchAssumption DEF AllContents
<1>3. CASE WriteInPlace(f)
  <2>1. PICK c \in Contents :
          Edit(f, [content |-> c, stamp |-> [disk[f].stamp EXCEPT !.mtime = FileTime]])
    BY <1>3 DEF WriteInPlace
  <2>2. disk[f].stamp \in Stamps /\ disk[f].stamp # NoStamp
    BY <1>1, <1>3 DEF WriteInPlace, Exists, TypeOK
  <2>3. disk[f].stamp \in [mtime : 0..MaxTime, ino : Inos \cup {BackupIno}]
    BY <2>2 DEF Stamps
  <2>4. [disk[f].stamp EXCEPT !.mtime = FileTime] = [mtime |-> FileTime, ino |-> disk[f].stamp.ino]
    BY <2>3
  <2>5. /\ [disk[f].stamp EXCEPT !.mtime = FileTime] \in Stamps
        /\ [disk[f].stamp EXCEPT !.mtime = FileTime] # NoStamp
    BY <2>3, <2>4, <1>1, StampTypes
  <2> QED BY <2>1, <2>5, <1>2, EditKeeps
<1>4. CASE Install(f)
  <2>1. PICK c \in Contents, i \in Inos \ {disk[f].stamp.ino} :
          Edit(f, [content |-> c, stamp |-> [mtime |-> FileTime, ino |-> i]])
    BY <1>4 DEF Install
  <2>2. [mtime |-> FileTime, ino |-> i] \in Stamps /\ [mtime |-> FileTime, ino |-> i] # NoStamp
    BY <1>1, StampTypes
  <2> QED BY <2>1, <2>2, <1>2, EditKeeps
<1>5. CASE InstallOld(f)
  <2> DEFINE c == CHOOSE c \in Contents : TRUE
  <2>1. Edit(f, [content |-> c, stamp |-> [mtime |-> 0, ino |-> BackupIno]])
    BY <1>5 DEF InstallOld
  <2>2. c \in Contents
    BY WatchAssumption DEF AllContents
  <2>3. [mtime |-> 0, ino |-> BackupIno] \in Stamps /\ [mtime |-> 0, ino |-> BackupIno] # NoStamp
    BY StampTypes, WatchAssumption
  <2> HIDE DEF c
  <2> QED BY <2>1, <2>2, <2>3, <1>2, EditKeeps
<1>6. CASE Delete(f)
  <2>1. Edit(f, Missing)
    BY <1>6 DEF Delete
  <2>2. /\ Missing \in [content : AllContents, stamp : Stamps]
        /\ Missing.content = NoContent /\ Missing.stamp = NoStamp
    BY DEF Missing, AllContents, Stamps
  <2> QED BY <2>1, <2>2, EditKeeps
<1> QED BY <1>3, <1>4, <1>5, <1>6

(* Time and Ctrl-C change nothing of what is owed.                         *)
LEMMA TickKeeps == WatchInv /\ (Tick \/ Interrupt \/ UNCHANGED vars) => WatchInv'
<1> SUFFICES ASSUME WatchInv, Tick \/ Interrupt \/ UNCHANGED vars PROVE WatchInv'
  OBVIOUS
<1>1. /\ UNCHANGED <<disk, edits, changes, pc, tracker, tracked>>
      /\ UNCHANGED <<started, builds, seen, readSet, reported>>
      /\ UNCHANGED <<todo, stamp, visit, scanNow, moved, changed>>
  BY DEF Tick, Interrupt, vars, buildVars, loopVars
<1>2. now' \in 0..MaxTime /\ interrupted' \in BOOLEAN
  <2>1. now' \in 0..MaxTime
    BY WatchAssumption DEF WatchInv, TypeOK, Tick, Interrupt, vars
  <2>2. interrupted' \in BOOLEAN
    BY Zenon DEF WatchInv, TypeOK, Tick, Interrupt, vars
  <2> QED BY <2>1, <2>2
<1>3. TypeOK'
  BY <1>1, <1>2 DEF WatchInv, TypeOK
<1>4. Cursor'
  BY <1>1 DEF WatchInv, Cursor
<1>5. Dirty' = Dirty /\ (Late' <=> Late) /\ (Starting' <=> Starting)
  BY <1>1 DEF Dirty, Entered, Found, HashOf, Late, Starting
<1> QED BY <1>1, <1>3, <1>4, <1>5, OwesNoMore DEF WatchInv, TypeOK

(* A build is what was owed.                                               *)
LEMMA PaysBuild ==
    ASSUME WatchInv, Dirty' \subseteq Dirty, Late' => Late, Starting, ~Starting',
           builds' = builds + 1, changes' = changes
    PROVE  Paid'
<1> DEFINE d == Cardinality(Dirty)
           e == Cardinality(Dirty')
           l == IF Late THEN 1 ELSE 0
           m == IF Late' THEN 1 ELSE 0
<1>1. IsFiniteSet(Dirty) /\ d \in Nat
  BY DirtyFinite DEF WatchInv
<1>2. e \in Nat /\ e <= d
  BY <1>1, FS_Subset, FS_CardinalityType
<1>3. builds \in Nat /\ changes \in Nat
  BY DEF WatchInv, TypeOK
<1>4. (l = 1 /\ m = 1) \/ (l = 0 /\ m = 0) \/ (l = 1 /\ m = 0)
  BY Zenon
<1>5. builds + (d + l + 1) <= 1 + changes
  BY DEF WatchInv, Paid, Owed
<1> HIDE DEF d, e, l, m
<1>6. builds' + (e + m + 0) <= 1 + changes'
  BY <1>1, <1>2, <1>3, <1>4, <1>5
<1> QED BY <1>6 DEF Paid, Owed, e, m

\* A build that begins was owed.
LEMMA BuildBeginKeeps ==
    ASSUME WatchInv, BuildWithoutSource \/ BuildStart
    PROVE  WatchInv'
<1>1. /\ UNCHANGED <<now, disk, edits, changes, tracker, tracked, reported, interrupted>>
      /\ UNCHANGED <<todo, stamp, visit, scanNow, moved, changed>>
      /\ pc = "start" /\ pc' \in {"done", "sleep", "read"} /\ builds' = builds + 1
  BY DEF BuildWithoutSource, BuildStart, loopVars
<1>2. /\ seen' \in [Files -> AllContents] /\ readSet' \subseteq Files
      /\ started' \in 0..MaxTime /\ builds' \in Nat
  BY WatchAssumption DEF WatchInv, TypeOK, BuildWithoutSource, BuildStart, AllContents, Files
<1>3. TypeOK'
  BY <1>1, <1>2 DEF WatchInv, TypeOK, Places
<1>4. Cursor'
  BY <1>1 DEF WatchInv, Cursor
<1>5. Dirty' = Dirty /\ (Late' <=> Late) /\ Starting /\ ~Starting'
  BY <1>1 DEF WatchInv, Cursor, Dirty, Entered, Found, HashOf, Late, Starting
<1> QED BY <1>1, <1>3, <1>4, <1>5, PaysBuild DEF WatchInv

\* A build reads its inputs.
LEMMA BuildReadKeeps == WatchInv /\ BuildRead => WatchInv'
<1> SUFFICES ASSUME WatchInv, BuildRead PROVE WatchInv'
  OBVIOUS
<1>1. /\ UNCHANGED <<now, disk, edits, changes, pc, tracker, tracked, interrupted>>
      /\ UNCHANGED <<todo, stamp, visit, scanNow, moved, changed, started, builds, reported>>
  BY DEF BuildRead, loopVars
<1>2. seen' \in [Files -> AllContents] /\ readSet' \subseteq Files
  <2>1. PICK f \in Wanted \ readSet :
           seen' = [seen EXCEPT ![f] = disk[f].content] /\ readSet' = readSet \cup {f}
    BY DEF BuildRead
  <2>2. Wanted \subseteq Files
    BY WatchAssumption DEF Wanted, Files, WatchInv, TypeOK, AllContents
  <2> QED BY <2>1, <2>2 DEF WatchInv, TypeOK
<1>3. TypeOK'
  BY <1>1, <1>2 DEF WatchInv, TypeOK
<1>4. Cursor'
  BY <1>1 DEF WatchInv, Cursor
<1>5. Dirty' = Dirty /\ (Late' <=> Late) /\ (Starting' <=> Starting)
  BY <1>1 DEF Dirty, Entered, Found, HashOf, Late, Starting
<1> QED BY <1>1, <1>3, <1>4, <1>5, OwesNoMore DEF WatchInv, TypeOK

\* What the user writes.
LEMMA RewrittenType ==
    ASSUME TypeOK, NEW f \in Files
    PROVE  /\ Rewritten(f) \in [content : AllContents, stamp : Stamps]
           /\ Rewritten(f).content # NoContent /\ Rewritten(f).stamp # NoStamp
<1> DEFINE c == CHOOSE c \in Contents : c # disk[f].content
           i == CHOOSE i \in Inos : TRUE
<1>1. \E x \in Contents : x # disk[f].content
  BY WatchAssumption DEF TypeOK, AllContents
<1>2. c \in Contents
  BY <1>1
<1>3. i \in Inos
  BY WatchAssumption
<1> HIDE DEF c, i
<1>4. [mtime |-> FileTime, ino |-> i] \in Stamps /\ [mtime |-> FileTime, ino |-> i] # NoStamp
  BY <1>3, FileTimeType, StampTypes DEF TypeOK
<1>5. Rewritten(f) = [content |-> c, stamp |-> [mtime |-> FileTime, ino |-> i]]
  BY DEF Rewritten, c, i
<1> QED BY <1>2, <1>4, <1>5, WatchAssumption DEF AllContents

(* What a build rewrites is not tracked, and what it discovers has no      *)
(* entry yet.                                                              *)
LEMMA BuildEndKeeps == WatchInv /\ BuildEnd => WatchInv'
<1> SUFFICES ASSUME WatchInv, BuildEnd PROVE WatchInv'
  OBVIOUS
<1>1. /\ UNCHANGED <<now, edits, changes, started, builds, seen, readSet>>
      /\ UNCHANGED <<stamp, visit, scanNow, moved, changed, interrupted>>
      /\ disk' = [f \in Files |-> IF f \in Outputs THEN Rewritten(f) ELSE disk[f]]
      /\ pc = "read" /\ pc' \in {"done", "replace"}
  BY DEF BuildEnd
<1>2. TypeOK /\ Cursor
  BY DEF WatchInv
<1>3. PICK failed \in BOOLEAN :
        LET named == IF failed THEN reported ELSE readSet
            keep  == IF failed THEN tracked ELSE {}
            deps  == Dependencies(named, keep)
        IN  /\ reported' = named
            /\ IF interrupted
               THEN /\ pc' = "done"
                    /\ UNCHANGED <<tracked, tracker, todo>>
               ELSE /\ pc' = "replace"
                    /\ tracked' = deps
                    /\ tracker' = [f \in Files |->
                          IF f \in tracked \cap deps THEN tracker[f] ELSE BlankEntry]
                    /\ todo' = deps \ tracked
  BY DEF BuildEnd
<1> DEFINE named == IF failed THEN reported ELSE readSet
           keep == IF failed THEN tracked ELSE {}
           deps == Dependencies(named, keep)
<1>4. named \subseteq Files /\ keep \subseteq Files \ Outputs
  BY <1>2 DEF TypeOK, Cursor
<1>5. deps \subseteq Files \ Outputs
  BY <1>4, WatchAssumption DEF Dependencies, Files
<1>6. /\ reported' \subseteq Files
      /\ \/ pc' = "done" /\ UNCHANGED <<tracked, tracker, todo>>
         \/ /\ pc' = "replace" /\ tracked' = deps /\ todo' = deps \ tracked
            /\ tracker' = [f \in Files |->
                             IF f \in tracked \cap deps THEN tracker[f] ELSE BlankEntry]
  BY <1>3, <1>4
<1> HIDE DEF named, keep, deps
<1>7. /\ disk' \in [Files -> [content : AllContents, stamp : Stamps]]
      /\ \A f \in Files : disk'[f].content = NoContent <=> disk'[f].stamp = NoStamp
  <2>1. \A f \in Files : /\ Rewritten(f) \in [content : AllContents, stamp : Stamps]
                         /\ Rewritten(f).content # NoContent /\ Rewritten(f).stamp # NoStamp
    BY <1>2, RewrittenType
  <2> QED BY <1>1, <1>2, <2>1 DEF TypeOK
<1>8. BlankEntry \in Entries
  BY DEF Stamps, BlankEntry, Entries, AllContents
<1>9. tracked' \subseteq Files \ Outputs /\ todo' \subseteq tracked' /\ tracker' \in [Files -> Entries]
  BY <1>2, <1>5, <1>6, <1>8 DEF TypeOK, Cursor
<1>10. changed = {} /\ visit = NoFile /\ todo = {}
  BY <1>1, <1>2 DEF Cursor
<1>11. TypeOK'
  BY <1>1, <1>2, <1>6, <1>7, <1>9, <1>10 DEF TypeOK, Places
<1>12. Cursor'
  BY <1>1, <1>6, <1>9, <1>10 DEF Cursor
<1>13. Entered' \subseteq Entered /\ \A f \in Entered' : tracker'[f] = tracker[f]
  BY <1>1, <1>2, <1>5, <1>6 DEF Entered, TypeOK
<1>14. \A f \in Entered' : disk'[f] = disk[f] /\ f # visit
  BY <1>1, <1>2, <1>9, <1>10, <1>13, WatchAssumption DEF Entered, TypeOK, Cursor
<1>15. \A f \in Entered' : Found(f)' = Found(f)
  BY <1>1, <1>14 DEF Found
<1>16. Dirty' \subseteq Dirty
  BY <1>13, <1>15 DEF Dirty
<1>17. ~Late' /\ ~Starting'
  BY <1>1, <1>10 DEF Late, Starting
<1> QED BY <1>1, <1>2, <1>11, <1>12, <1>16, <1>17, OwesNoMore DEF WatchInv, TypeOK

(* What is hashed right after the metadata were read is the content.       *)
LEMMA StatKeeps ==
    ASSUME WatchInv, NEW place \in {"replace", "scan", "accept"}, Stat(place)
    PROVE  WatchInv'
<1>1. /\ UNCHANGED <<now, disk, edits, changes, pc, tracker, tracked, todo, scanNow, moved>>
      /\ UNCHANGED <<changed, interrupted, started, builds, seen, readSet, reported>>
      /\ pc = place /\ visit = NoFile /\ stamp' = disk[visit'].stamp
  BY DEF Stat, buildVars
<1>2. visit' \in todo
  BY DEF Stat
<1>3. TypeOK /\ Cursor
  BY DEF WatchInv
<1>4. visit' \in Files /\ stamp' \in Stamps
  BY <1>1, <1>2, <1>3 DEF TypeOK
<1>5. TypeOK'
  BY <1>1, <1>2, <1>3, <1>4 DEF TypeOK
<1>6. Cursor'
  BY <1>1, <1>3 DEF Cursor
<1>7. \A f \in Files :
        HashOf(f)' = IF disk[visit'].stamp = NoStamp THEN NoContent ELSE disk[f].content
  BY <1>1 DEF HashOf
<1>8. Entered' = Entered /\ Entered \subseteq Files
  BY <1>1, <1>3 DEF Entered, TypeOK
<1>9. \A f \in Entered : Found(f)' = disk[f].content /\ Found(f) = disk[f].content
  BY <1>1, <1>3, <1>7, <1>8, WatchAssumption DEF Found, TypeOK
<1>10. Dirty' = Dirty
  BY <1>1, <1>8, <1>9 DEF Dirty
<1>11. ~Late' /\ (Starting' <=> Starting)
  BY <1>1, <1>3, <1>4, <1>7 DEF Late, Starting, TypeOK
<1> QED BY <1>1, <1>3, <1>5, <1>6, <1>10, <1>11, OwesNoMore DEF WatchInv, TypeOK

(* A visit: what holds in all three loops over the files.                  *)
LEMMA VisitFacts ==
    ASSUME WatchInv, visit # NoFile, VisitDone
    PROVE  /\ visit \in todo /\ visit \in tracked /\ visit \in Files
           /\ HashOf(visit) \in AllContents /\ Recorded(visit) \in Entries
           /\ visit' = NoFile /\ stamp' \in Stamps /\ todo' = todo \ {visit} /\ ~Late'
<1>1. visit \in todo /\ visit \in tracked /\ visit \in Files
  BY DEF WatchInv, TypeOK, Cursor
<1>2. HashOf(visit) \in AllContents
  BY <1>1 DEF WatchInv, TypeOK, HashOf, AllContents
<1>3. IsRacy(stamp, now) \in BOOLEAN
  BY DEF IsRacy
<1>4. Recorded(visit) \in Entries
  BY <1>2, <1>3 DEF WatchInv, TypeOK, Recorded, Entries
<1>5. visit' = NoFile /\ stamp' \in Stamps /\ todo' = todo \ {visit} /\ ~Late'
  BY DEF VisitDone, Stamps, Late
<1> QED BY <1>1, <1>2, <1>4, <1>5

(* A discovered file is paid for by the build that discovered it too late, *)
(* or by the edit that created it behind the tracker's back.               *)
LEMMA ReplaceRecordKeeps == WatchInv /\ ReplaceRecord => WatchInv'
<1> SUFFICES ASSUME WatchInv, ReplaceRecord PROVE WatchInv'
  OBVIOUS
<1>1. /\ UNCHANGED <<now, disk, edits, pc, tracked, scanNow, moved, changed, interrupted>>
      /\ UNCHANGED <<started, builds, seen, readSet, reported>>
      /\ pc = "replace" /\ visit # NoFile /\ VisitDone
      /\ changes' = IF Forced(stamp) THEN changes + 1 ELSE changes
  BY DEF ReplaceRecord, buildVars
<1> DEFINE e == [Recorded(visit) EXCEPT !.forced = Forced(stamp)]
<1>2. tracker' = [tracker EXCEPT ![visit] = e]
  BY DEF ReplaceRecord
<1>3. TypeOK /\ Cursor
  BY DEF WatchInv
<1>4. /\ visit \in todo /\ visit \in tracked /\ visit \in Files /\ Recorded(visit) \in Entries
      /\ visit' = NoFile /\ stamp' \in Stamps /\ todo' = todo \ {visit} /\ ~Late'
  BY <1>1, VisitFacts
<1>5. Forced(stamp) \in BOOLEAN
  BY DEF Forced
<1>6. e \in Entries /\ e.hash = HashOf(visit) /\ (e.forced <=> Forced(stamp))
  <2>1. e \in Entries
    BY <1>4, <1>5 DEF Entries
  <2>2. e.hash = HashOf(visit) /\ e.forced = Forced(stamp)
    BY DEF Recorded
  <2> QED BY <2>1, <2>2
<1> HIDE DEF e
<1>7. tracker' \in [Files -> Entries] /\ changes' \in Nat
  BY <1>1, <1>2, <1>3, <1>4, <1>6 DEF TypeOK
<1>8. TypeOK'
  BY <1>1, <1>3, <1>4, <1>7 DEF TypeOK
<1>9. Cursor'
  BY <1>1, <1>3, <1>4 DEF Cursor
<1>10. Starting' <=> Starting
  BY <1>1 DEF Starting
<1>11. Entered' = Entered \cup {visit} /\ Entered \subseteq Files /\ visit \notin Entered
  BY <1>1, <1>3, <1>4 DEF Entered, TypeOK
<1>12. \A f \in Entered : /\ tracker'[f] = tracker[f] /\ Found(f)' = Found(f)
  BY <1>1, <1>2, <1>3, <1>4, <1>11, WatchAssumption DEF Found, TypeOK
<1>13. Dirty' \subseteq Dirty \cup {visit}
  BY <1>11, <1>12 DEF Dirty
<1>14. CASE Forced(stamp)
  BY <1>14, <1>1, <1>4, <1>8, <1>9, <1>10, <1>13, OwesOneMore DEF WatchInv
<1>15. CASE ~Forced(stamp) /\ Late
  BY <1>15, <1>1, <1>4, <1>8, <1>9, <1>10, <1>13, OwesOneMore DEF WatchInv
<1>16. CASE ~Forced(stamp) /\ ~Late
  <2>1. \A f \in Files : f = visit => tracker'[f] = e /\ Found(f)' = disk[f].content
    BY <1>1, <1>2, <1>3, <1>4, WatchAssumption DEF TypeOK, Found
  <2>2. disk[visit].content = HashOf(visit)
    BY <1>1, <1>16 DEF Late
  <2>3. visit \notin Dirty'
    BY <1>4, <2>1, <2>2, <1>6, <1>16 DEF Dirty
  <2>4. Dirty' \subseteq Dirty
    BY <2>3, <1>13
  <2> QED BY <2>4, <1>1, <1>3, <1>4, <1>8, <1>9, <1>10, <1>16, OwesNoMore DEF WatchInv, TypeOK
<1> QED BY <1>14, <1>15, <1>16

(* The steps between the loops.                                            *)
LEMMA TurnKeeps ==
    ASSUME WatchInv, ReplaceEnd \/ Sleep \/ ScanEnd
    PROVE  WatchInv'
<1>1. /\ UNCHANGED <<now, disk, edits, changes, tracker, tracked, stamp, visit, changed>>
      /\ UNCHANGED <<interrupted, builds, seen, readSet, reported>>
      /\ pc \in {"replace", "sleep", "scan"} /\ pc' \in {"sleep", "done", "scan", "accept"}
  BY DEF ReplaceEnd, Sleep, ScanEnd, buildVars, loopVars
<1>2. TypeOK /\ Cursor
  BY DEF WatchInv
<1>3. started' \in 0..MaxTime /\ scanNow' \in 0..MaxTime
  BY <1>2, WatchAssumption DEF ReplaceEnd, Sleep, ScanEnd, buildVars, loopVars, TypeOK
<1>4. moved' \in BOOLEAN
  BY <1>2, Zenon DEF ReplaceEnd, Sleep, ScanEnd, loopVars, TypeOK
<1>5. visit = NoFile /\ todo = {}
  BY <1>2 DEF ReplaceEnd, Sleep, ScanEnd, Cursor, TypeOK
<1>6. todo' \subseteq tracked /\ (pc' \in {"scan", "accept"} \/ todo' = {})
  BY <1>5 DEF ReplaceEnd, Sleep, ScanEnd, loopVars
<1>7. TypeOK'
  BY <1>1, <1>2, <1>3, <1>4, <1>5, <1>6 DEF TypeOK, Places
<1>8. Cursor'
  BY <1>1, <1>2, <1>5, <1>6 DEF Cursor
<1>9. Entered' = Entered
  BY <1>1, <1>5 DEF Entered
<1>10. Dirty' = Dirty /\ ~Late' /\ ~Starting'
  BY <1>1, <1>2, <1>5, <1>9 DEF Dirty, Found, HashOf, Late, Starting, Cursor
<1> QED BY <1>1, <1>2, <1>7, <1>8, <1>10, OwesNoMore DEF WatchInv, TypeOK

\* A scan notices a dirty file or passes a clean one.
LEMMA ScanFileKeeps == WatchInv /\ ScanFile => WatchInv'
<1> SUFFICES ASSUME WatchInv, ScanFile PROVE WatchInv'
  OBVIOUS
<1>1. /\ UNCHANGED <<now, disk, edits, changes, pc, tracked, scanNow, changed, interrupted>>
      /\ UNCHANGED <<started, builds, seen, readSet, reported>>
      /\ pc = "scan" /\ visit # NoFile /\ VisitDone
  BY DEF ScanFile, buildVars
<1>2. TypeOK /\ Cursor
  BY DEF WatchInv
<1>3. /\ visit \in todo /\ visit \in tracked /\ visit \in Files /\ HashOf(visit) \in AllContents
      /\ visit' = NoFile /\ stamp' \in Stamps /\ todo' = todo \ {visit} /\ ~Late'
  BY <1>1, VisitFacts
<1> DEFINE e == tracker[visit]
           observed == <<stamp, HashOf(visit)>>
           same == [e EXCEPT !.stamp = stamp, !.racy = IsRacy(stamp, scanNow),
                             !.pending = NoPending]
           waits == [e EXCEPT !.pending = observed]
<1>4. e \in Entries /\ observed \in Stamps \X AllContents
  BY <1>2, <1>3 DEF TypeOK
<1>5. IsRacy(stamp, scanNow) \in BOOLEAN
  BY DEF IsRacy
<1>6. same \in Entries /\ same.hash = e.hash /\ same.forced = e.forced
  BY <1>2, <1>4, <1>5 DEF Entries, TypeOK
<1>7. waits \in Entries /\ waits.hash = e.hash /\ waits.forced = e.forced
  BY <1>4 DEF Entries
<1>8. /\ \/ tracker' = tracker
         \/ tracker' = [tracker EXCEPT ![visit] = same]
         \/ tracker' = [tracker EXCEPT ![visit] = waits]
      /\ \/ moved' = moved
         \/ moved' = (moved \/ e.pending # observed)
  BY DEF ScanFile
<1>9. moved' \in BOOLEAN
  BY <1>2, <1>8, Zenon DEF TypeOK
<1> HIDE DEF same, waits, observed
<1>10. /\ tracker' \in [Files -> Entries]
       /\ \A f \in Files : tracker'[f].hash = tracker[f].hash /\ tracker'[f].forced = tracker[f].forced
  BY <1>2, <1>3, <1>6, <1>7, <1>8 DEF TypeOK
<1>11. TypeOK'
  BY <1>1, <1>2, <1>3, <1>9, <1>10 DEF TypeOK
<1>12. Cursor'
  BY <1>1, <1>2, <1>3 DEF Cursor
<1>13. (Starting' <=> Starting) /\ Entered' = tracked /\ Entered = tracked /\ tracked \subseteq Files
  BY <1>1, <1>2 DEF Starting, Entered, TypeOK
<1>14. \A f \in Files : /\ Found(f)' = disk[f].content
                        /\ f # visit => Found(f) = disk[f].content
                        /\ f = visit => Found(f) = HashOf(f)
  BY <1>1, <1>3, WatchAssumption DEF Found
<1>15. Dirty' \subseteq Dirty \cup {visit}
  BY <1>10, <1>13, <1>14 DEF Dirty
<1>16. CASE Late
  BY <1>16, <1>1, <1>3, <1>11, <1>12, <1>13, <1>15, OwesOneMore DEF WatchInv
<1>17. CASE ~Late
  <2>1. disk[visit].content = HashOf(visit)
    BY <1>1, <1>17 DEF Late
  <2>2. Dirty' \subseteq Dirty
    BY <2>1, <1>10, <1>13, <1>14 DEF Dirty
  <2> QED BY <2>2, <1>1, <1>2, <1>3, <1>11, <1>12, <1>13, OwesNoMore DEF WatchInv, TypeOK
<1> QED BY <1>16, <1>17

(* A change is accepted once.                                              *)
LEMMA OwesBuild ==
    ASSUME WatchInv, TypeOK', ~Late', builds' = builds, changes' = changes,
           \/ Late /\ Dirty' \subseteq Dirty
           \/ \E x \in Dirty : Dirty' \subseteq Dirty \ {x}
    PROVE  Paid'
<1> DEFINE d == Cardinality(Dirty)
           e == Cardinality(Dirty')
           l == IF Late THEN 1 ELSE 0
           s == IF Starting THEN 1 ELSE 0
           t == IF Starting' THEN 1 ELSE 0
<1>1. IsFiniteSet(Dirty) /\ d \in Nat
  BY DirtyFinite DEF WatchInv
<1>2. e \in Nat /\ (Dirty' \subseteq Dirty => e <= d)
  <2>1. Dirty' \subseteq Dirty
    OBVIOUS
  <2> QED BY <2>1, <1>1, FS_Subset, FS_CardinalityType
<1>3. (\E x \in Dirty : Dirty' \subseteq Dirty \ {x}) => e <= d - 1
  <2> SUFFICES ASSUME NEW x \in Dirty, Dirty' \subseteq Dirty \ {x} PROVE e <= d - 1
    OBVIOUS
  <2>1. IsFiniteSet(Dirty \ {x}) /\ Cardinality(Dirty \ {x}) = d - 1
    BY <1>1, FS_RemoveElement
  <2> QED BY <2>1, FS_Subset
<1>4. builds \in Nat /\ changes \in Nat
  BY DEF WatchInv, TypeOK
<1>5. (l = 0 \/ l = 1) /\ (s = 0 \/ s = 1) /\ (t = 0 \/ t = 1)
  BY Zenon
<1>6. (l = 1 /\ Dirty' \subseteq Dirty) \/ (\E x \in Dirty : Dirty' \subseteq Dirty \ {x})
  BY Zenon
<1>7. builds + (d + l + s) <= 1 + changes
  BY DEF WatchInv, Paid, Owed
<1>8. Cardinality(Dirty)' = e /\ (IF Late' THEN 1 ELSE 0) = 0
  OBVIOUS
<1> HIDE DEF d, e, l, s, t
<1>9. (l = 1 /\ e <= d) \/ e <= d - 1
  BY <1>2, <1>3, <1>6
<1>10. builds + (e + 0 + t) <= 1 + changes
  BY <1>1, <1>2, <1>4, <1>5, <1>7, <1>9
<1> QED BY <1>8, <1>10 DEF Paid, Owed, e, t

\* accept_pending makes a file clean.
LEMMA AcceptFileKeeps == WatchInv /\ AcceptFile => WatchInv'
<1> SUFFICES ASSUME WatchInv, AcceptFile PROVE WatchInv'
  OBVIOUS
<1>1. /\ UNCHANGED <<now, disk, edits, changes, pc, tracked, scanNow, moved, interrupted>>
      /\ UNCHANGED <<started, builds, seen, readSet, reported>>
      /\ pc = "accept" /\ visit # NoFile /\ VisitDone
      /\ tracker' = [tracker EXCEPT ![visit] = Recorded(visit)]
      /\ changed' = IF tracker[visit].forced \/ HashOf(visit) # tracker[visit].hash
                    THEN changed \cup {visit} ELSE changed
  BY DEF AcceptFile, buildVars
<1>2. TypeOK /\ Cursor
  BY DEF WatchInv
<1>3. /\ visit \in todo /\ visit \in tracked /\ visit \in Files /\ Recorded(visit) \in Entries
      /\ visit' = NoFile /\ stamp' \in Stamps /\ todo' = todo \ {visit} /\ ~Late'
  BY <1>1, VisitFacts
<1>4. tracker' \in [Files -> Entries] /\ changed' \subseteq tracked
  BY <1>1, <1>2, <1>3 DEF TypeOK
<1>5. TypeOK'
  BY <1>1, <1>2, <1>3, <1>4 DEF TypeOK
<1>6. Cursor'
  BY <1>1, <1>2, <1>3 DEF Cursor
<1>7. Entered' = tracked /\ Entered = tracked /\ tracked \subseteq Files
  BY <1>1, <1>2 DEF Entered, TypeOK
<1>8. \A f \in Files : /\ Found(f)' = disk[f].content
                       /\ f # visit => Found(f) = disk[f].content /\ tracker'[f] = tracker[f]
                       /\ f = visit => Found(f) = HashOf(f) /\ tracker'[f] = Recorded(visit)
  BY <1>1, <1>2, <1>3, WatchAssumption DEF Found, TypeOK
<1>9. Recorded(visit).hash = HashOf(visit) /\ Recorded(visit).forced = FALSE
  BY DEF Recorded
<1>10. Dirty' \subseteq Dirty \cup {visit}
  BY <1>7, <1>8 DEF Dirty
<1>11. visit \in Dirty' => Late
  BY <1>1, <1>3, <1>8, <1>9 DEF Dirty, Late
<1>12. visit \in Dirty <=> tracker[visit].forced \/ HashOf(visit) # tracker[visit].hash
  BY <1>3, <1>7, <1>8 DEF Dirty
<1>13. CASE visit \in Dirty
  <2>1. (Late /\ Dirty' \subseteq Dirty) \/ (Dirty' \subseteq Dirty \ {visit})
    BY <1>10, <1>11, <1>13
  <2> QED BY <2>1, <1>1, <1>3, <1>5, <1>6, <1>13, OwesBuild DEF WatchInv
<1>14. CASE visit \notin Dirty
  <2>1. changed' = changed
    BY <1>1, <1>12, <1>14
  <2>2. Starting' <=> Starting
    BY <2>1, <1>1 DEF Starting
  <2>3. CASE Late
    BY <2>2, <2>3, <1>1, <1>3, <1>5, <1>6, <1>10, OwesOneMore DEF WatchInv
  <2>4. CASE ~Late
    <3>1. Dirty' \subseteq Dirty
      BY <2>4, <1>10, <1>11
    <3> QED BY <3>1, <2>2, <2>4, <1>1, <1>2, <1>3, <1>5, <1>6, OwesNoMore DEF WatchInv, TypeOK
  <2> QED BY <2>3, <2>4
<1> QED BY <1>13, <1>14

\* The end of accept_pending.
LEMMA AcceptEndKeeps == WatchInv /\ AcceptEnd => WatchInv'
<1> SUFFICES ASSUME WatchInv, AcceptEnd PROVE WatchInv'
  OBVIOUS
<1>1. /\ UNCHANGED <<now, disk, edits, changes, tracker, tracked, todo, stamp, visit, scanNow>>
      /\ UNCHANGED <<moved, interrupted, started, builds, seen, readSet, reported>>
      /\ pc = "accept" /\ todo = {} /\ changed' = {}
      /\ pc' = IF changed # {} THEN "start" ELSE "sleep"
  BY DEF AcceptEnd, buildVars
<1>2. TypeOK /\ Cursor
  BY DEF WatchInv
<1>3. visit = NoFile
  BY <1>1, <1>2 DEF TypeOK
<1>4. TypeOK'
  BY <1>1, <1>2 DEF TypeOK, Places
<1>5. Cursor'
  BY <1>1, <1>2, <1>3 DEF Cursor
<1>6. Dirty' = Dirty
  BY <1>1 DEF Dirty, Entered, Found, HashOf
<1>7. ~Late' /\ (Starting' => Starting)
  BY <1>1, <1>3 DEF Late, Starting
<1> QED BY <1>1, <1>2, <1>4, <1>5, <1>6, <1>7, OwesNoMore DEF WatchInv, TypeOK

\* Every step keeps the account.
LEMMA WatchStep == WatchInv /\ [Next]_vars => WatchInv'
<1> SUFFICES ASSUME WatchInv, [Next]_vars PROVE WatchInv'
  OBVIOUS
<1>1. CASE User
  BY <1>1, UserKeeps
<1>2. CASE Tick \/ Interrupt \/ UNCHANGED vars
  BY <1>2, TickKeeps
<1>3. CASE BuildWithoutSource \/ BuildStart
  BY <1>3, BuildBeginKeeps
<1>4. CASE BuildRead \/ BuildEnd
  BY <1>4, BuildReadKeeps, BuildEndKeeps
<1>5. CASE Stat("replace") \/ Stat("scan") \/ Stat("accept")
  BY <1>5, StatKeeps
<1>6. CASE ReplaceRecord
  BY <1>6, ReplaceRecordKeeps
<1>7. CASE ReplaceEnd \/ Sleep \/ ScanEnd
  BY <1>7, TurnKeeps
<1>8. CASE ScanFile
  BY <1>8, ScanFileKeeps
<1>9. CASE AcceptFile \/ AcceptEnd
  BY <1>9, AcceptFileKeeps, AcceptEndKeeps
<1> QED
  BY <1>1, <1>2, <1>3, <1>4, <1>5, <1>6, <1>7, <1>8, <1>9 DEF Next, Watcher

\* What the invariant says of the run's properties.
LEMMA WatchInvFacts == WatchInv => TypeOK /\ OneBuildPerChange
<1> SUFFICES ASSUME WatchInv PROVE OneBuildPerChange
  BY DEF WatchInv
<1> DEFINE l == IF Late THEN 1 ELSE 0
           s == IF Starting THEN 1 ELSE 0
<1>1. (l = 0 \/ l = 1) /\ (s = 0 \/ s = 1)
  BY Zenon
<1>2. Cardinality(Dirty) \in Nat /\ builds \in Nat /\ changes \in Nat
  BY DirtyFinite DEF WatchInv, TypeOK
<1>3. builds + (Cardinality(Dirty) + l + s) <= 1 + changes
  BY DEF WatchInv, Paid, Owed
<1> HIDE DEF l, s
<1> QED BY <1>1, <1>2, <1>3 DEF OneBuildPerChange

-----------------------------------------------------------------------------
(* Metadata as proof *)

(* An entry that is not racy is older than the window.                     *)
Aged(f) ==
    ~tracker[f].racy /\ tracker[f].stamp # NoStamp
        => tracker[f].stamp.mtime + RacyWindow <= now

(* ... and describes the file, if the file still has its stamp.            *)
Faithful(f) ==
    /\ ~tracker[f].racy
    /\ tracker[f].stamp = disk[f].stamp
    /\ disk[f].stamp.ino # BackupIno
    => tracker[f].hash = disk[f].content

(* Nothing is hashed where nothing was found.                              *)
Nothing(f) == tracker[f].stamp = NoStamp => tracker[f].hash = NoContent

Proven(f) == Aged(f) /\ Faithful(f) /\ Nothing(f)

ProofInv ==
    /\ WatchInv
    /\ scanNow <= now
    /\ \A f \in Files : Proven(f)

(* A file that is written now cannot get the stamp of an aged entry: the   *)
(* file system's clock is behind by less than the window.                  *)
LEMMA WrittenIsNewer ==
    ASSUME now \in 0..MaxTime, NEW m \in 0..MaxTime, m + RacyWindow <= now
    PROVE  FileTime # m
<1>1. /\ now \in Nat /\ Granularity \in Nat \ {0} /\ RacyWindow \in Nat
      /\ Granularity <= RacyWindow /\ m \in Nat
  BY WatchAssumption
<1>2. now % Granularity \in 0..(Granularity - 1)
  BY <1>1
<1> DEFINE g == now % Granularity
<1>3. g \in Nat /\ g <= Granularity - 1
  BY <1>1, <1>2
<1> HIDE DEF g
<1>4. now - g # m
  BY <1>1, <1>3
<1> QED BY <1>4 DEF FileTime, g

(* All entries blank and all files there or missing.                       *)
LEMMA ProofInit == Init => scanNow <= now /\ \A f \in Files : Proven(f)
<1> SUFFICES ASSUME Init PROVE scanNow <= now /\ \A f \in Files : Proven(f)
  OBVIOUS
<1>1. WatchInv
  BY WatchInit
<1>2. \A f \in Files : /\ tracker[f].stamp = NoStamp /\ tracker[f].hash = NoContent
                       /\ disk[f].stamp = NoStamp => disk[f].content = NoContent
  BY <1>1 DEF Init, BlankEntry, WatchInv, TypeOK
<1> QED BY <1>2 DEF Init, Proven, Aged, Faithful, Nothing

(* A file in a state that no aged entry describes keeps the invariant.     *)
LEMMA WriteIsSeen ==
    ASSUME ProofInv, NEW f \in Files, NEW file, disk' = [disk EXCEPT ![f] = file],
           UNCHANGED <<now, tracker, scanNow>>,
           \/ file = Missing
           \/ file.stamp # NoStamp /\ file.stamp.mtime = FileTime
           \/ file.stamp.ino = BackupIno
    PROVE  scanNow' <= now' /\ \A g \in Files : Proven(g)'
<1>1. TypeOK
  BY DEF ProofInv, Proven, WatchInv
<1>2. \A g \in Files : Aged(g)' /\ Nothing(g)'
  BY DEF ProofInv, Proven, Aged, Nothing
<1>3. \A g \in Files : g # f => disk'[g] = disk[g]
  BY <1>1 DEF TypeOK
<1>4. \A g \in Files : g # f => Faithful(g)'
  BY <1>3 DEF ProofInv, Proven, Faithful
<1>5. disk'[f] = file
  BY <1>1 DEF TypeOK
<1>6. tracker[f] \in Entries /\ tracker[f].stamp \in Stamps
  BY <1>1 DEF TypeOK, Entries
<1>7. Faithful(f)'
  <2>1. CASE file = Missing
    <3>1. tracker[f].stamp = NoStamp => tracker[f].hash = NoContent
      BY DEF ProofInv, Proven, Nothing
    <3> QED BY <2>1, <3>1, <1>5 DEF Faithful, Missing
  <2>2. CASE file.stamp # NoStamp /\ file.stamp.mtime = FileTime
    <3>1. ASSUME ~tracker[f].racy, tracker[f].stamp = file.stamp PROVE FALSE
      <4>1. tracker[f].stamp \in [mtime : 0..MaxTime, ino : Inos \cup {BackupIno}]
        BY <1>6, <2>2, <3>1 DEF Stamps
      <4>2. tracker[f].stamp.mtime \in 0..MaxTime /\ tracker[f].stamp.mtime + RacyWindow <= now
        BY <2>2, <3>1, <4>1 DEF ProofInv, Proven, Aged
      <4>3. FileTime # tracker[f].stamp.mtime
        BY <1>1, <4>2, WrittenIsNewer DEF TypeOK
      <4> QED BY <2>2, <3>1, <4>3
    <3> QED BY <3>1, <1>5 DEF Faithful
  <2>3. CASE file.stamp.ino = BackupIno
    BY <2>3, <1>5 DEF Faithful
  <2> QED BY <2>1, <2>2, <2>3
<1> QED BY <1>2, <1>4, <1>7 DEF ProofInv, Proven

(* An entry that is recorded now, or by a scan that started before now,    *)
(* describes what is there now.                                            *)
LEMMA RecordIsFaithful ==
    ASSUME ProofInv, NEW f \in Files, visit = f, NEW e, NEW t \in Nat, t <= now,
           e.stamp = stamp, e.hash = HashOf(f), e.racy = IsRacy(stamp, t),
           tracker' = [tracker EXCEPT ![f] = e], UNCHANGED <<now, disk, scanNow>>
    PROVE  scanNow' <= now' /\ \A g \in Files : Proven(g)'
<1>1. TypeOK
  BY DEF ProofInv, WatchInv
<1>2. \A g \in Files : g # f => tracker'[g] = tracker[g]
  BY <1>1 DEF TypeOK
<1>3. \A g \in Files : g # f => Proven(g)'
  BY <1>2 DEF ProofInv, Proven, Aged, Faithful, Nothing
<1>4. tracker'[f] = e
  BY <1>1 DEF TypeOK
<1>5. Nothing(f)'
  BY <1>4 DEF Nothing, HashOf
<1>6. Aged(f)'
  <2> SUFFICES ASSUME ~IsRacy(stamp, t), stamp # NoStamp PROVE stamp.mtime + RacyWindow <= now
    BY <1>4 DEF Aged
  <2>1. stamp \in [mtime : 0..MaxTime, ino : Inos \cup {BackupIno}]
    BY <1>1 DEF TypeOK, Stamps
  <2>2. stamp.mtime \in Nat /\ RacyWindow \in Nat /\ now \in Nat
    BY <1>1, <2>1, WatchAssumption DEF TypeOK
  <2> QED BY <2>2 DEF IsRacy
<1>7. Faithful(f)'
  <2> SUFFICES ASSUME stamp = disk[f].stamp PROVE HashOf(f) = disk[f].content
    BY <1>4 DEF Faithful
  <2> QED BY <1>1 DEF TypeOK, HashOf
<1> QED BY <1>3, <1>5, <1>6, <1>7 DEF ProofInv, Proven

(* A build rewrites its outputs and leaves out or blanks entries.          *)
LEMMA BuildEndProves ==
    ASSUME ProofInv, BuildEnd
    PROVE  scanNow' <= now' /\ \A f \in Files : Proven(f)'
<1>1. TypeOK /\ UNCHANGED <<now, scanNow>>
  BY DEF ProofInv, WatchInv, BuildEnd
<1>2. ASSUME NEW f \in Files PROVE tracker'[f] \in {tracker[f], BlankEntry}
  BY <1>1 DEF BuildEnd, TypeOK
<1>3. ASSUME NEW f \in Files
      PROVE  disk'[f] = IF f \in Outputs THEN Rewritten(f) ELSE disk[f]
  BY <1>3 DEF BuildEnd
<1>4. FileTime \in 0..MaxTime /\ (CHOOSE i \in Inos : TRUE) \in Inos
  BY <1>1, FileTimeType, WatchAssumption DEF TypeOK
<1>5. ASSUME NEW f \in Files PROVE Rewritten(f).stamp # NoStamp /\ Rewritten(f).stamp.mtime = FileTime
  BY <1>4, StampTypes DEF Rewritten
<1>6. ASSUME NEW f \in Files PROVE Proven(f)'
  <2>1. Aged(f) /\ Faithful(f) /\ Nothing(f)
    BY DEF ProofInv, Proven
  <2>2. Aged(f)' /\ Nothing(f)'
    BY <1>1, <1>2, <2>1 DEF Aged, Nothing, BlankEntry
  <2>3. CASE f \notin Outputs
    <3>1. disk'[f] = disk[f] /\ (disk[f].stamp = NoStamp => disk[f].content = NoContent)
      BY <1>1, <1>3, <2>3 DEF TypeOK
    <3>2. Faithful(f)'
      BY <3>1, <1>2, <2>1 DEF Faithful, BlankEntry
    <3> QED BY <2>2, <3>2 DEF Proven
  <2>4. CASE f \in Outputs
    <3>1. ASSUME ~tracker'[f].racy, tracker'[f].stamp = disk'[f].stamp PROVE FALSE
      <4>1. tracker'[f] = tracker[f]
        BY <1>2, <1>3, <1>5, <2>4, <3>1 DEF BlankEntry
      <4>2. tracker[f].stamp \in Stamps /\ tracker[f].stamp # NoStamp
        BY <1>1, <1>3, <1>5, <2>4, <3>1, <4>1 DEF TypeOK, Entries
      <4>3. tracker[f].stamp.mtime \in 0..MaxTime /\ tracker[f].stamp.mtime + RacyWindow <= now
        BY <2>1, <3>1, <4>1, <4>2 DEF Aged, Stamps
      <4>4. FileTime # tracker[f].stamp.mtime
        BY <1>1, <4>3, WrittenIsNewer DEF TypeOK
      <4> QED BY <1>3, <1>5, <2>4, <3>1, <4>1, <4>4
    <3>2. Faithful(f)'
      BY <3>1 DEF Faithful
    <3> QED BY <2>2, <3>2 DEF Proven
  <2> QED BY <2>3, <2>4
<1> QED BY <1>1, <1>6 DEF ProofInv

(* One turn of a scan.                                                     *)
LEMMA ScanFileProves ==
    ASSUME ProofInv, ScanFile
    PROVE  scanNow' <= now' /\ \A f \in Files : Proven(f)'
<1>1. /\ TypeOK /\ visit \in Files /\ UNCHANGED <<now, disk, scanNow>>
      /\ scanNow \in Nat /\ scanNow <= now
  BY WatchAssumption DEF ProofInv, WatchInv, TypeOK, ScanFile
<1> DEFINE e == tracker[visit]
           same == [e EXCEPT !.stamp = stamp, !.racy = IsRacy(stamp, scanNow),
                             !.pending = NoPending]
           waits == [e EXCEPT !.pending = <<stamp, HashOf(visit)>>]
<1>2. e \in Entries
  BY <1>1 DEF TypeOK
<1>3. CASE tracker' = tracker
  BY <1>1, <1>3 DEF ProofInv, Proven, Aged, Faithful, Nothing
<1>4. CASE SameContent(e, visit) /\ tracker' = [tracker EXCEPT ![visit] = same]
  <2>1. same.stamp = stamp /\ same.racy = IsRacy(stamp, scanNow) /\ same.hash = HashOf(visit)
    BY <1>2, <1>4 DEF Entries, SameContent
  <2> HIDE DEF same
  <2> QED BY <1>1, <1>4, <2>1, RecordIsFaithful
<1>5. CASE tracker' = [tracker EXCEPT ![visit] = waits]
  <2>1. waits.stamp = e.stamp /\ waits.racy = e.racy /\ waits.hash = e.hash
    BY <1>2 DEF Entries
  <2> HIDE DEF waits
  <2>2. \A f \in Files : /\ tracker'[f].stamp = tracker[f].stamp
                         /\ tracker'[f].racy = tracker[f].racy
                         /\ tracker'[f].hash = tracker[f].hash
    BY <1>1, <1>5, <2>1 DEF TypeOK
  <2> QED BY <1>1, <2>2 DEF ProofInv, Proven, Aged, Faithful, Nothing
<1>6. \/ tracker' = tracker
      \/ SameContent(e, visit) /\ tracker' = [tracker EXCEPT ![visit] = same]
      \/ tracker' = [tracker EXCEPT ![visit] = waits]
  BY DEF ScanFile
<1> QED BY <1>3, <1>4, <1>5, <1>6

(* Every step keeps what the metadata prove.                               *)
LEMMA ProofStep ==
    ProofInv /\ [Next]_vars => scanNow' <= now' /\ \A f \in Files : Proven(f)'
<1> SUFFICES ASSUME ProofInv, [Next]_vars PROVE scanNow' <= now' /\ \A f \in Files : Proven(f)'
  OBVIOUS
<1>1. /\ TypeOK /\ now \in Nat /\ scanNow \in Nat /\ FileTime \in 0..MaxTime
      /\ \A f \in Files : disk[f].stamp \in Stamps
  BY FileTimeType, WatchAssumption DEF ProofInv, WatchInv, TypeOK
<1>2. ASSUME UNCHANGED <<disk, tracker>>, now' \in {now, now + 1}, scanNow' \in {0, scanNow, now}
      PROVE  scanNow' <= now' /\ \A f \in Files : Proven(f)'
  <2>1. scanNow' <= now'
    BY <1>1, <1>2 DEF ProofInv
  <2>2. ASSUME NEW f \in Files PROVE Aged(f)'
    <3> SUFFICES ASSUME ~tracker[f].racy, tracker[f].stamp # NoStamp
                 PROVE  tracker[f].stamp.mtime + RacyWindow <= now'
      BY <1>2 DEF Aged
    <3>1. tracker[f].stamp \in Stamps
      BY <1>1 DEF TypeOK, Entries
    <3>2. tracker[f].stamp \in [mtime : 0..MaxTime, ino : Inos \cup {BackupIno}]
      BY <3>1 DEF Stamps
    <3>3. tracker[f].stamp.mtime \in Nat /\ RacyWindow \in Nat
      BY <3>2, WatchAssumption
    <3>4. tracker[f].stamp.mtime + RacyWindow <= now
      BY DEF ProofInv, Proven, Aged
    <3> QED BY <1>1, <1>2, <3>3, <3>4
  <2> QED BY <1>2, <2>1, <2>2 DEF ProofInv, Proven, Faithful, Nothing
<1>3. CASE User
  <2>1. PICK f \in {Main} \cup Includes :
           WriteInPlace(f) \/ Install(f) \/ InstallOld(f) \/ Delete(f)
    BY <1>3 DEF User
  <2>2. f \in Files
    BY DEF Files
  <2>3. ASSUME NEW file, Edit(f, file),
               \/ file = Missing
               \/ file.stamp # NoStamp /\ file.stamp.mtime = FileTime
               \/ file.stamp.ino = BackupIno
        PROVE  scanNow' <= now' /\ \A g \in Files : Proven(g)'
    BY <2>2, <2>3, WriteIsSeen DEF Edit, loopVars
  <2>4. CASE WriteInPlace(f)
    <3> DEFINE s == [disk[f].stamp EXCEPT !.mtime = FileTime]
    <3>1. PICK c \in Contents : Edit(f, [content |-> c, stamp |-> s])
      BY <2>4 DEF WriteInPlace
    <3>2. disk[f].stamp \in Stamps /\ disk[f].stamp # NoStamp
      BY <1>1, <2>2, <2>4 DEF WriteInPlace, Exists, TypeOK
    <3>3. disk[f].stamp \in [mtime : 0..MaxTime, ino : Inos \cup {BackupIno}]
      BY <3>2 DEF Stamps
    <3>4. s = [mtime |-> FileTime, ino |-> disk[f].stamp.ino] /\ s.mtime = FileTime
      BY <3>3
    <3>5. s # NoStamp
      BY <3>3, <3>4, <1>1, StampTypes
    <3> HIDE DEF s
    <3>6. [content |-> c, stamp |-> s].stamp = s
      OBVIOUS
    <3> QED BY <3>1, <3>4, <3>5, <3>6, <2>3
  <2>5. CASE Install(f)
    <3>1. PICK c \in Contents, i \in Inos \ {disk[f].stamp.ino} :
            Edit(f, [content |-> c, stamp |-> [mtime |-> FileTime, ino |-> i]])
      BY <2>5 DEF Install
    <3>2. [mtime |-> FileTime, ino |-> i] # NoStamp
      BY <1>1, StampTypes
    <3> QED BY <3>1, <3>2, <2>3
  <2>6. CASE InstallOld(f)
    <3> DEFINE c == CHOOSE c \in Contents : TRUE
    <3>1. Edit(f, [content |-> c, stamp |-> [mtime |-> 0, ino |-> BackupIno]])
      BY <2>6 DEF InstallOld
    <3> HIDE DEF c
    <3> QED BY <3>1, <2>3
  <2>7. CASE Delete(f)
    BY <2>3, <2>7 DEF Delete
  <2> QED BY <2>1, <2>4, <2>5, <2>6, <2>7
<1>4. CASE Tick \/ Interrupt \/ UNCHANGED vars
  BY <1>2, <1>4 DEF Tick, Interrupt, vars, loopVars
<1>5. CASE BuildWithoutSource \/ BuildStart \/ BuildRead
  BY <1>2, <1>5 DEF BuildWithoutSource, BuildStart, BuildRead, loopVars
<1>6. CASE BuildEnd
  BY <1>6, BuildEndProves
<1>7. CASE Stat("replace") \/ Stat("scan") \/ Stat("accept")
  BY <1>2, <1>7 DEF Stat
<1>8. CASE ReplaceEnd \/ Sleep \/ ScanEnd \/ AcceptEnd
  BY <1>2, <1>8 DEF ReplaceEnd, Sleep, ScanEnd, AcceptEnd, loopVars
<1>9. CASE ReplaceRecord
  <2> DEFINE e == [Recorded(visit) EXCEPT !.forced = Forced(stamp)]
  <2>1. e.stamp = stamp /\ e.hash = HashOf(visit) /\ e.racy = IsRacy(stamp, now)
    BY DEF Recorded
  <2>2. visit \in Files /\ tracker' = [tracker EXCEPT ![visit] = e] /\ UNCHANGED <<now, disk, scanNow>>
    BY <1>1, <1>9 DEF ReplaceRecord, TypeOK
  <2>3. now \in Nat /\ now <= now
    BY <1>1
  <2> HIDE DEF e
  <2> QED BY <2>1, <2>2, <2>3, RecordIsFaithful
<1>10. CASE AcceptFile
  <2>1. /\ visit \in Files /\ tracker' = [tracker EXCEPT ![visit] = Recorded(visit)]
        /\ UNCHANGED <<now, disk, scanNow>>
    BY <1>1, <1>10 DEF AcceptFile, TypeOK
  <2>2. /\ Recorded(visit).stamp = stamp /\ Recorded(visit).hash = HashOf(visit)
        /\ Recorded(visit).racy = IsRacy(stamp, now)
    BY DEF Recorded
  <2>3. now \in Nat /\ now <= now
    BY <1>1
  <2> QED BY <2>1, <2>2, <2>3, RecordIsFaithful
<1>11. CASE ScanFile
  BY <1>11, ScanFileProves
<1> QED
  BY <1>3, <1>4, <1>5, <1>6, <1>7, <1>8, <1>9, <1>10, <1>11 DEF Next, Watcher

-----------------------------------------------------------------------------
(* The theorems *)

(* Every variable of the loop of watch_main and of the Tracker has its     *)
(* type; in particular, a file is missing exactly when Stamp::of finds     *)
(* nothing, and the files that replace, scan and accept_pending still have *)
(* to visit are tracked ones.                                              *)
THEOREM TypeCorrect == Spec => []TypeOK
<1> QED BY WatchInit, WatchStep, WatchInvFacts, PTL DEF Spec

(* watch_main builds at most once per change, after the first build: every *)
(* build that Tracker::accept_pending asks for is paid for by an edit that *)
(* changed the content of a watched file, or by the discovery of a file    *)
(* that may have been modified while the build ran, and by none of them    *)
(* twice, also when an edit falls between Stamp::of and hash_file.         *)
THEOREM BuildsArePaidFor == Spec => []OneBuildPerChange
<1> QED BY WatchInit, WatchStep, WatchInvFacts, PTL DEF Spec

(* Where a scan takes a file's metadata as proof (Tracker::scan), they are *)
(* proof, at any moment and for any edits, granularity and window of at    *)
(* least one tick of the file system's clock; an older file moved to the   *)
(* path is excepted.                                                       *)
THEOREM MetadataProve == Spec => []MetadataProves
<1>1. ProofInv => MetadataProves
  <2> SUFFICES ASSUME ProofInv, NEW f \in tracked, disk[f].stamp.ino # BackupIno,
                      ProvenUnchanged(tracker[f], disk[f].stamp)
               PROVE  tracker[f].hash = disk[f].content
    BY DEF MetadataProves
  <2>1. f \in Files
    BY DEF ProofInv, WatchInv, TypeOK
  <2> QED BY <2>1 DEF ProofInv, Proven, Faithful, ProvenUnchanged
<1>2. Init => ProofInv
  BY WatchInit, ProofInit DEF ProofInv
<1>3. ProofInv /\ [Next]_vars => ProofInv'
  BY WatchStep, ProofStep DEF ProofInv
<1> QED BY <1>1, <1>2, <1>3, PTL DEF Spec
=============================================================================
