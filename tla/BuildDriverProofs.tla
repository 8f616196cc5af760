------------------------- MODULE BuildDriverProofs -------------------------
(***************************************************************************)
(* Proofs about BuildDriver, whatever the documents and the number of      *)
(* passes: files that a pass may have cut short are marked on disk, and no *)
(* tool is run on them; a build that ends as converged leaves files that   *)
(* another pass would not change; a hit of the result cache is what a pass *)
(* would produce; the SyncTeX file is published before the PDF.  Then, by  *)
(* longer arguments over several builds: the types of all variables, that  *)
(* a build that reports success has indexed what the document asks to      *)
(* index, that its bibliography is the present one, and that its PDF is    *)
(* the one a further pass would make.  From all this: if nothing goes      *)
(* wrong, the driver implements JobBuild, within four passes.  Last, a     *)
(* bound on the length of a build that holds whatever goes wrong.          *)
(***************************************************************************)
EXTENDS BuildDriver, TLAPS

(* The fields of build's local variables that the argument is about.       *)
HasMark(r) ==
    /\ {"man", "prior"} \subseteq DOMAIN r
    /\ "unfinished" \in DOMAIN r.man

Shape == HasMark(run) /\ "unfinished" \in DOMAIN disk

(* The manifest on disk carries the mark as long as a build runs.          *)
MarkedWhileBuilding == pc # "idle" => disk.unfinished

(* Before the first pass the answer to "did the last pass finish" is the   *)
(* one the manifest gave.                                                  *)
TrustedBeforeFirstPass ==
    pc \in {"refresh", "refreshTool"} /\ ~run.prior => aux.state # "cut"

RefreshToolTrusts == pc = "refreshTool" => ~run.prior

(* The build's own copy of the mark is right.                              *)
UnmarkedIsFinished ==
    pc # "idle" /\ ~run.man.unfinished => aux.state # "cut"

(* It is down between a pass and the next one.                             *)
AfterPass == {"index", "makeindex", "decide", "tool", "publish", "publishPdf", "save"}
DownAfterPass == pc \in AfterPass => ~run.man.unfinished
UpInPass == pc \in {"engine", "running", "refresh", "refreshTool"} => run.man.unfinished

(* A result-cache record describes files of a pass that finished.          *)
RecordOfFinishedPass == record.aux.state # "cut"

(* Biber is run on a complete control file only.                           *)
BiberHasControlFile ==
    pc \in {"refreshTool", "tool"} /\ UsesBiber(aux) => bcf.state = "full"

DInv ==
    /\ Shape
    /\ TruncationMarked
    /\ MarkedWhileBuilding
    /\ TrustedBeforeFirstPass
    /\ RefreshToolTrusts
    /\ UnmarkedIsFinished
    /\ DownAfterPass
    /\ UpInPass
    /\ RecordOfFinishedPass
    /\ BiberHasControlFile

-----------------------------------------------------------------------------
(* A pass that runs to its end leaves finished files and, if it is         *)
(* recorded, a record of finished files (engine, write_depcache).          *)
LEMMA EngineWritesFinished ==
    ASSUME NEW errors \in BOOLEAN, RecordOfFinishedPass, EngineWrites(errors)
    PROVE  aux'.state # "cut" /\ RecordOfFinishedPass'
<1>1. \A d, a, b, i : NewAux(d, a, b, i).state # "cut"
  BY DEF NewAux, TrivialAux, NoAux
<1>2. aux' = NewAux(run.reads.doc, run.before[1], bbl, ind)
  BY DEF EngineWrites
<1>3. record' = record \/ record'.aux = aux'
  BY DEF EngineWrites
<1> QED BY <1>1, <1>2, <1>3 DEF RecordOfFinishedPass

(* A signature exists only for a bibliography that is ready, and Biber's   *)
(* is ready only with a complete control file (biber_signature).           *)
LEMMA ReadyControlFile ==
    ASSUME UsesBiber(aux), Ready(aux) \/ Signature(aux) # NoSig
    PROVE  bcf.state = "full"
BY DEF Ready, Signature

(* The local variables of a build that has not started.                    *)
LEMMA FreshHasMark == HasMark(Fresh)
BY DEF Fresh, NewManifest, HasMark

(* The empty result cache names no file that was cut short.                *)
LEMMA NoRecordFinished == NoRecord.aux.state # "cut"
BY DEF NoRecord, NoAux

(* A build that ends keeps DInv if the manifest it leaves has the mark     *)
(* whenever the files may be cut short.                                    *)
LEMMA EndOfBuild ==
    ASSUME DInv, NEW status, NEW m, Return(status, m),
           "unfinished" \in DOMAIN m, aux'.state = "cut" => m.unfinished,
           RecordOfFinishedPass'
    PROVE  DInv'
<1>1. pc' = "idle" /\ run' = Fresh /\ disk' = m
  BY DEF Return
<1>2. Shape'
  BY <1>1, FreshHasMark DEF Shape
<1> QED
  BY <1>1, <1>2 DEF DInv, TruncationMarked, MarkedWhileBuilding, TrustedBeforeFirstPass,
     RefreshToolTrusts, UnmarkedIsFinished, DownAfterPass, UpInPass, AfterPass,
     BiberHasControlFile

(* An early return that leaves the manifest on disk alone keeps the mark   *)
(* that Start saved.                                                       *)
LEMMA AbandonedBuild ==
    ASSUME DInv, NEW status, Abandon(status), pc # "idle", RecordOfFinishedPass'
    PROVE  DInv'
<1>1. "unfinished" \in DOMAIN disk /\ disk.unfinished
  BY DEF DInv, Shape, MarkedWhileBuilding
<1> QED BY <1>1, EndOfBuild DEF Abandon

(* A build that goes on keeps DInv if its own mark is right.               *)
LEMMA BuildGoesOn ==
    ASSUME DInv, pc # "idle", NEW place, NEW r, Goto(place, r), place # "refresh",
           HasMark(r), RecordOfFinishedPass', BiberHasControlFile',
           ~r.man.unfinished => aux'.state # "cut",
           place \in AfterPass => ~r.man.unfinished,
           place \in {"engine", "running", "refreshTool"} => r.man.unfinished,
           place = "refreshTool" => ~r.prior /\ aux'.state # "cut"
    PROVE  DInv'
<1>1. pc' = place /\ run' = r /\ disk' = disk
  BY DEF Goto
<1>2. Shape'
  BY <1>1 DEF Shape, DInv
<1>3. TruncationMarked' /\ MarkedWhileBuilding'
  BY <1>1 DEF DInv, MarkedWhileBuilding, TruncationMarked
<1> QED
  BY <1>1, <1>2, <1>3 DEF DInv, TrustedBeforeFirstPass,
     RefreshToolTrusts, UnmarkedIsFinished, DownAfterPass, UpInPass

(* DInv holds initially.                                                   *)
THEOREM InitDInv == Init => DInv
BY FreshHasMark DEF Init, DInv, Shape, TruncationMarked, MarkedWhileBuilding, TrustedBeforeFirstPass,
       RefreshToolTrusts, UnmarkedIsFinished, DownAfterPass, UpInPass, AfterPass,
       RecordOfFinishedPass, BiberHasControlFile, NoAux, NewManifest, NoRecord

(* The steps before the first pass.                                        *)
LEMMA EnterLoopGoesOn ==
    ASSUME DInv, NEW r, EnterLoop(r), HasMark(r), pc \in {"refresh", "refreshTool"},
           r.man.unfinished, UNCHANGED record
    PROVE  DInv'
<1> DEFINE q == [r EXCEPT !.trivial = aux.state = "none"]
<1>1. Goto("pass", q)
  BY DEF EnterLoop
<1>2. HasMark(q) /\ q.man.unfinished
  BY DEF HasMark
<1>3. RecordOfFinishedPass' /\ BiberHasControlFile'
  BY <1>1 DEF DInv, RecordOfFinishedPass, BiberHasControlFile, Goto
<1> HIDE DEF q
<1> QED BY <1>1, <1>2, <1>3, BuildGoesOn DEF AfterPass

(* Clearing the bibliography fields does not touch the mark.               *)
LEMMA NoToolKeepsMark ==
    ASSUME NEW m, "unfinished" \in DOMAIN m
    PROVE  "unfinished" \in DOMAIN NoTool(m) /\ NoTool(m).unfinished = m.unfinished
BY DEF NoTool

(* What a tool's success writes into the manifest is not the mark.         *)
LEMMA ProducedKeepsMark ==
    ASSUME HasMark(run)
    PROVE  HasMark(Produced) /\ Produced.man.unfinished = run.man.unfinished
<1>1. DOMAIN Produced = DOMAIN run
  BY DEF Produced
<1>2. DOMAIN Produced.man = DOMAIN run.man
  BY DEF Produced, HasMark
<1>3. Produced.man.unfinished = run.man.unfinished
  BY DEF Produced, HasMark
<1> QED BY <1>1, <1>2, <1>3 DEF HasMark

(* Start saves the mark before anything is written, and remembers whether  *)
(* the previous build had left one (unfinished_pass in build).             *)
LEMMA StartStep == DInv /\ Start => DInv'
<1> SUFFICES ASSUME DInv, Start PROVE DInv'
  OBVIOUS
<1> DEFINE d == [disk EXCEPT !.unfinished = TRUE]
           r == [Fresh EXCEPT !.prior = disk.unfinished, !.complete = AuxComplete(aux),
                              !.man = d]
<1>1. pc' = "refresh" /\ disk' = d /\ run' = r /\ UNCHANGED <<aux, bcf, record>>
  BY DEF Start, Begin
<1>2. "unfinished" \in DOMAIN d /\ d.unfinished
  BY DEF DInv, Shape
<1> HIDE DEF d
<1>3. HasMark(r) /\ r.man = d /\ r.prior = disk.unfinished
  BY <1>2, FreshHasMark DEF HasMark
<1> HIDE DEF r
<1> QED
  BY <1>1, <1>2, <1>3 DEF DInv, Shape, TruncationMarked, MarkedWhileBuilding,
     TrustedBeforeFirstPass, RefreshToolTrusts, UnmarkedIsFinished, DownAfterPass, UpInPass,
     AfterPass, RecordOfFinishedPass, BiberHasControlFile

(* The refresh before the first pass hands files to a tool only if the     *)
(* previous build left no mark (prior_pass_unfinished).                    *)
LEMMA RefreshStep == DInv /\ Refresh => DInv'
<1> SUFFICES ASSUME DInv, Refresh PROVE DInv'
  OBVIOUS
<1> DEFINE sig == Signature(aux)
           man == IF Adopts(aux)
                  THEN [run.man EXCEPT !.sig = sig, !.out = srcBbl]
                  ELSE run.man
           known == [run EXCEPT !.man = man, !.cites = AuxCites(aux),
                                !.done = Adopts(aux), !.sig = sig]
           none == [run EXCEPT !.man = NoTool(run.man)]
<1>1. pc = "refresh" /\ UNCHANGED <<bcf, record>>
  BY DEF Refresh
<1>2. HasMark(run) /\ run.man.unfinished
  BY <1>1 DEF DInv, Shape, UpInPass
<1>3. "unfinished" \in DOMAIN man /\ man.unfinished
  BY <1>2 DEF HasMark
<1>4. \/ EnterLoop(none)
      \/ EnterLoop(known)
      \/ /\ ~run.prior /\ sig # NoSig
         /\ Goto("refreshTool", known)
         /\ UNCHANGED aux
  BY DEF Refresh
<1> HIDE DEF man
<1>5. HasMark(known) /\ known.man.unfinished /\ known.prior = run.prior
  BY <1>2, <1>3 DEF HasMark
<1>6. HasMark(none) /\ none.man.unfinished
  BY <1>2, NoToolKeepsMark DEF HasMark
<1> HIDE DEF known, none, sig
<1>7. CASE EnterLoop(none)
  BY <1>1, <1>6, <1>7, EnterLoopGoesOn
<1>8. CASE EnterLoop(known)
  BY <1>1, <1>5, <1>8, EnterLoopGoesOn
<1>9. CASE /\ ~run.prior /\ sig # NoSig
           /\ Goto("refreshTool", known)
           /\ UNCHANGED aux
  <2>1. aux'.state # "cut"
    BY <1>1, <1>9 DEF DInv, TrustedBeforeFirstPass
  <2>2. BiberHasControlFile'
    BY <1>1, <1>9, ReadyControlFile DEF BiberHasControlFile, UsesBiber, sig
  <2>3. RecordOfFinishedPass'
    BY <1>1 DEF DInv, RecordOfFinishedPass
  <2> QED BY <1>1, <1>5, <1>9, <2>1, <2>2, <2>3, BuildGoesOn DEF AfterPass
<1> QED BY <1>4, <1>7, <1>8, <1>9

(* The tool of the refresh ends in the first pass or in a failure that     *)
(* saves a marked manifest.                                                *)
LEMMA RefreshToolStep == DInv /\ RefreshTool => DInv'
<1> SUFFICES ASSUME DInv, RefreshTool PROVE DInv'
  OBVIOUS
<1> DEFINE fallback == [run EXCEPT !.done = TRUE]
<1>1. pc = "refreshTool" /\ UNCHANGED <<bcf, record>>
  BY DEF RefreshTool
<1>2. HasMark(run) /\ run.man.unfinished
  BY <1>1 DEF DInv, Shape, UpInPass
<1>3. HasMark(fallback) /\ fallback.man.unfinished
  BY <1>2 DEF HasMark
<1>4. HasMark(Produced) /\ Produced.man.unfinished
  BY <1>2, ProducedKeepsMark
<1>5. \/ EnterLoop(Produced)
      \/ EnterLoop(fallback)
      \/ Return("failed", NoTool(run.man)) /\ UNCHANGED aux
  BY DEF RefreshTool
<1> HIDE DEF fallback
<1>6. CASE Return("failed", NoTool(run.man)) /\ UNCHANGED aux
  <2>1. "unfinished" \in DOMAIN NoTool(run.man) /\ NoTool(run.man).unfinished
    BY <1>2, NoToolKeepsMark DEF HasMark
  <2>2. RecordOfFinishedPass'
    BY <1>1 DEF DInv, RecordOfFinishedPass
  <2> QED BY <1>6, <2>1, <2>2, EndOfBuild
<1>7. CASE EnterLoop(Produced)
  BY <1>1, <1>4, <1>7, EnterLoopGoesOn
<1>8. CASE EnterLoop(fallback)
  BY <1>1, <1>3, <1>8, EnterLoopGoesOn
<1> QED BY <1>5, <1>6, <1>7, <1>8


(* A pass: the mark on disk, and the build's copy, are up until it ends.   *)
LEMMA BeginPassStep == DInv /\ BeginPass => DInv'
<1> SUFFICES ASSUME DInv, BeginPass PROVE DInv'
  OBVIOUS
<1> DEFINE man == [run.man EXCEPT !.unfinished = TRUE]
           r == [run EXCEPT !.passes = run.passes + 1, !.man = man,
                            !.before = <<aux, bcf, bbl, ind>>]
<1>1. /\ pc = "pass" /\ pc' = "engine" /\ run' = r
      /\ disk' = IF run.man.unfinished THEN disk ELSE man
      /\ UNCHANGED <<aux, record>>
  BY DEF BeginPass, Pass
<1>2. "unfinished" \in DOMAIN man /\ man.unfinished
  BY DEF DInv, Shape, HasMark
<1>3. "unfinished" \in DOMAIN disk' /\ disk'.unfinished
  BY <1>1, <1>2 DEF DInv, Shape, MarkedWhileBuilding
<1> HIDE DEF man
<1>4. HasMark(r) /\ r.man.unfinished
  BY <1>2 DEF DInv, Shape, HasMark
<1> HIDE DEF r
<1> QED
  BY <1>1, <1>3, <1>4 DEF DInv, Shape, TruncationMarked, MarkedWhileBuilding,
     TrustedBeforeFirstPass, RefreshToolTrusts, UnmarkedIsFinished, DownAfterPass, UpInPass,
     AfterPass, RecordOfFinishedPass, BiberHasControlFile

(* A build that gives up after MAX_PASSES passes saves its own mark, which *)
(* is down only if the files are finished.                                 *)
LEMMA NotConvergedStep == DInv /\ NotConverged => DInv'
<1> SUFFICES ASSUME DInv, NotConverged PROVE DInv'
  OBVIOUS
<1>1. pc = "pass" /\ Return("failed", run.man) /\ UNCHANGED <<aux, record>>
  BY DEF NotConverged
<1>2. "unfinished" \in DOMAIN run.man /\ RecordOfFinishedPass'
  BY <1>1 DEF DInv, Shape, HasMark, RecordOfFinishedPass
<1>3. aux'.state = "cut" => run.man.unfinished
  BY <1>1 DEF DInv, UnmarkedIsFinished
<1> QED BY <1>1, <1>2, <1>3, EndOfBuild

(* A hit vouches for the auxiliary files: they are those of the record.    *)
LEMMA CacheHitStep == DInv /\ CacheHit => DInv'
<1> SUFFICES ASSUME DInv, CacheHit PROVE DInv'
  OBVIOUS
<1> DEFINE fin == [run EXCEPT !.man.unfinished = FALSE, !.wrote = TRUE, !.failed = FALSE]
           hit == [fin EXCEPT !.hit = TRUE]
<1>1. pc = "engine" /\ UNCHANGED <<aux, record>>
  BY DEF CacheHit
<1>2. Goto("publish", hit) \/ Goto("index", fin)
  BY DEF CacheHit
<1>3. aux'.state # "cut" /\ RecordOfFinishedPass'
  BY <1>1 DEF CacheHit, Hit, DInv, RecordOfFinishedPass
<1>4. HasMark(fin) /\ ~fin.man.unfinished
  BY DEF DInv, Shape, HasMark
<1> HIDE DEF fin
<1>5. HasMark(hit) /\ ~hit.man.unfinished
  BY <1>4 DEF HasMark
<1> HIDE DEF hit
<1>6. BiberHasControlFile'
  BY <1>2 DEF Goto, BiberHasControlFile
<1>7. CASE Goto("publish", hit)
  BY <1>1, <1>3, <1>5, <1>6, <1>7, BuildGoesOn
<1>8. CASE Goto("index", fin)
  BY <1>1, <1>3, <1>4, <1>6, <1>8, BuildGoesOn
<1> QED BY <1>2, <1>7, <1>8

(* The engine cuts the files short while the mark is up (run_tool).        *)
LEMMA EngineStartStep == DInv /\ EngineStart => DInv'
<1> SUFFICES ASSUME DInv, EngineStart PROVE DInv'
  OBVIOUS
<1> DEFINE r == [run EXCEPT !.reads = Reads(doc, aux, bbl, ind)]
<1>1. pc = "engine" /\ Goto("running", r) /\ UNCHANGED record
  BY DEF EngineStart
<1>2. HasMark(r) /\ r.man.unfinished
  BY <1>1 DEF DInv, Shape, HasMark, UpInPass
<1>3. RecordOfFinishedPass' /\ BiberHasControlFile'
  BY <1>1 DEF DInv, RecordOfFinishedPass, Goto, BiberHasControlFile
<1> HIDE DEF r
<1> QED BY <1>1, <1>2, <1>3, BuildGoesOn DEF AfterPass

(* A pass that ends with finished files lowers the build's own mark.       *)
LEMMA PassFinishedGoesOn ==
    ASSUME DInv, pc = "running", NEW errors \in BOOLEAN,
           EngineWrites(errors), PassFinished(errors)
    PROVE  DInv'
<1> DEFINE r == [run EXCEPT !.man.unfinished = FALSE, !.failed = errors,
                            !.wrote = @ \/ WrotePdf]
<1>1. Goto("index", r)
  BY DEF PassFinished
<1>2. HasMark(r) /\ ~r.man.unfinished
  BY DEF DInv, Shape, HasMark
<1>3. aux'.state # "cut" /\ RecordOfFinishedPass'
  BY EngineWritesFinished DEF DInv
<1>4. BiberHasControlFile'
  BY <1>1 DEF Goto, BiberHasControlFile
<1> HIDE DEF r
<1> QED BY <1>1, <1>2, <1>3, <1>4, BuildGoesOn

(* However the engine ends, a file it left cut short stays marked.         *)
LEMMA EngineEndSteps == DInv /\ (EngineFinish \/ EngineErrors \/ EngineStops) => DInv'
<1> SUFFICES ASSUME DInv, EngineFinish \/ EngineErrors \/ EngineStops PROVE DInv'
  OBVIOUS
<1>1. pc = "running"
  BY DEF EngineFinish, EngineErrors, EngineStops
<1>2. "unfinished" \in DOMAIN run.man /\ run.man.unfinished
  BY <1>1 DEF DInv, Shape, HasMark, UpInPass
<1>3. CASE EngineFinish
  BY <1>1, <1>3, PassFinishedGoesOn DEF EngineFinish
<1>4. CASE EngineErrors
  <2>1. CASE PassFinished(TRUE)
    BY <1>1, <1>4, <2>1, PassFinishedGoesOn DEF EngineErrors
  <2>2. CASE Return("failed", run.man)
    <3>1. RecordOfFinishedPass'
      BY <1>4, EngineWritesFinished DEF EngineErrors, DInv
    <3> QED BY <1>2, <2>2, <3>1, EndOfBuild
  <2> QED BY <1>4, <2>1, <2>2 DEF EngineErrors
<1>5. CASE EngineStops
  <2>1. Return("failed", run.man) /\ UNCHANGED record
    BY <1>5 DEF EngineStops
  <2>2. RecordOfFinishedPass'
    BY <2>1 DEF DInv, RecordOfFinishedPass
  <2> QED BY <1>2, <2>1, <2>2, EndOfBuild
<1> QED BY <1>3, <1>4, <1>5


(* After a pass the mark is down and nothing writes the files it is about. *)
LEMMA AfterPassGoesOn ==
    ASSUME DInv, pc \in AfterPass, NEW place \in AfterPass \cup {"pass"}, NEW r,
           Goto(place, r), HasMark(r), r.man.unfinished = run.man.unfinished,
           UNCHANGED <<aux, record>>, BiberHasControlFile'
    PROVE  DInv'
<1>1. aux'.state # "cut" /\ RecordOfFinishedPass' /\ ~r.man.unfinished
  BY DEF DInv, AfterPass, DownAfterPass, UnmarkedIsFinished, RecordOfFinishedPass
<1>2. place # "refresh" /\ place \notin {"engine", "running", "refreshTool"} /\ pc # "idle"
  BY DEF AfterPass
<1> QED BY <1>1, <1>2, BuildGoesOn

(* A build that returns after a pass saves an unmarked manifest, and its   *)
(* files are finished.                                                     *)
LEMMA AfterPassEnds ==
    ASSUME DInv, pc \in AfterPass, NEW status, NEW m, Return(status, m),
           "unfinished" \in DOMAIN m, UNCHANGED <<aux, record>>
    PROVE  DInv'
<1>1. aux'.state # "cut" /\ RecordOfFinishedPass'
  BY DEF DInv, AfterPass, DownAfterPass, UnmarkedIsFinished, RecordOfFinishedPass
<1> QED BY <1>1, EndOfBuild

(* makeindex reads the .idx of a finished pass (run_index_tools).          *)
LEMMA IndexSteps == DInv /\ (IndexTools \/ Makeindex) => DInv'
<1> SUFFICES ASSUME DInv, IndexTools \/ Makeindex PROVE DInv'
  OBVIOUS
<1>1. pc \in AfterPass /\ UNCHANGED <<aux, record>>
  BY DEF AfterPass, IndexTools, Makeindex
<1>2. HasMark(run)
  BY DEF DInv, Shape
<1>3. CASE IndexTools
  <2>1. PICK place \in {"decide", "makeindex"} : Goto(place, run)
    BY <1>3 DEF IndexTools
  <2>2. BiberHasControlFile'
    BY <2>1 DEF Goto, BiberHasControlFile
  <2> QED BY <1>1, <1>2, <2>1, <2>2, AfterPassGoesOn DEF AfterPass
<1>4. CASE Makeindex
  <2> DEFINE r == [run EXCEPT !.man.idx = aux]
             m == [run.man EXCEPT !.idx = NoAux]
  <2>1. Goto("decide", r) \/ Return("failed", m)
    BY <1>4 DEF Makeindex
  <2>2. HasMark(r) /\ r.man.unfinished = run.man.unfinished
    BY <1>2 DEF HasMark
  <2>3. "unfinished" \in DOMAIN m
    BY <1>2 DEF HasMark
  <2> HIDE DEF r, m
  <2>4. CASE Goto("decide", r)
    <3>1. BiberHasControlFile'
      BY <2>4 DEF Goto, BiberHasControlFile
    <3> QED BY <1>1, <2>2, <2>4, <3>1, AfterPassGoesOn DEF AfterPass
  <2>5. CASE Return("failed", m)
    BY <1>1, <2>3, <2>5, AfterPassEnds
  <2> QED BY <2>1, <2>4, <2>5
<1> QED BY <1>3, <1>4

(* The bibliography: the tool is run only on what is ready.                *)
LEMMA DecideStep == DInv /\ Decide => DInv'
<1> SUFFICES ASSUME DInv, Decide PROVE DInv'
  OBVIOUS
<1>1. pc = "decide" /\ pc \in AfterPass /\ UNCHANGED <<aux, bcf, record>>
  BY DEF AfterPass, Decide
<1>2. HasMark(run)
  BY DEF DInv, Shape
<1> DEFINE man == IF Adopts(aux)
                  THEN [run.man EXCEPT !.sig = Signature(aux), !.out = srcBbl]
                  ELSE run.man
           newMan == IF Ready(aux) THEN man ELSE NoTool(man)
           done == run.done \/ Adopts(aux)
           r(changed) == [run EXCEPT !.man = newMan, !.cites = AuxCites(aux), !.done = done,
                                     !.sig = Signature(aux), !.changed = changed]
<1>3. "unfinished" \in DOMAIN man /\ man.unfinished = run.man.unfinished
  BY <1>2 DEF HasMark
<1>4. PICK changed, place :
        /\ Goto(place, r(changed))
        /\ place \in {"publish", "pass"} \/ (place = "tool" /\ Ready(aux))
  BY DEF Decide, Settle
<1> HIDE DEF man
<1>5. "unfinished" \in DOMAIN newMan /\ newMan.unfinished = run.man.unfinished
  BY <1>3, NoToolKeepsMark
<1> HIDE DEF newMan
<1>6. HasMark(r(changed)) /\ r(changed).man.unfinished = run.man.unfinished
  BY <1>2, <1>5 DEF HasMark
<1>7. BiberHasControlFile'
  <2>1. UsesBiber(aux)' = UsesBiber(aux)
    BY <1>1 DEF UsesBiber, AuxCites
  <2> QED BY <1>1, <1>4, <2>1, ReadyControlFile DEF Goto, BiberHasControlFile
<1> HIDE DEF r
<1> QED BY <1>1, <1>4, <1>6, <1>7, AfterPassGoesOn DEF AfterPass

(* The bibliography tool after a pass changes neither the mark nor the     *)
(* files it is about.                                                      *)
LEMMA ToolStep == DInv /\ Tool => DInv'
<1> SUFFICES ASSUME DInv, Tool PROVE DInv'
  OBVIOUS
<1>1. pc \in AfterPass /\ UNCHANGED <<aux, record>>
  BY DEF AfterPass, Tool
<1>2. HasMark(run)
  BY DEF DInv, Shape
<1> DEFINE r == [run EXCEPT !.done = TRUE]
<1>3. HasMark(r) /\ r.man.unfinished = run.man.unfinished
  BY <1>2 DEF HasMark
<1>4. \/ Goto("pass", Produced)
      \/ Goto("publish", r) \/ Goto("pass", r)
      \/ Return("failed", NoTool(run.man))
  BY DEF Tool, Settle
<1> HIDE DEF r
<1>5. CASE Return("failed", NoTool(run.man))
  BY <1>1, <1>2, <1>5, NoToolKeepsMark, AfterPassEnds DEF HasMark
<1>6. CASE Goto("pass", Produced) \/ Goto("publish", r) \/ Goto("pass", r)
  <2>1. BiberHasControlFile'
    BY <1>6 DEF Goto, BiberHasControlFile
  <2> QED BY <1>1, <1>2, <1>3, <1>6, <2>1, ProducedKeepsMark, AfterPassGoesOn DEF AfterPass
<1> QED BY <1>4, <1>5, <1>6

(* Publication and the last save of the manifest leave the auxiliary files *)
(* alone.                                                                  *)
LEMMA PublicationSteps ==
    DInv /\ (NoOutput \/ PublishSynctex \/ PublishPdf \/ Save) => DInv'
<1> SUFFICES ASSUME DInv, NoOutput \/ PublishSynctex \/ PublishPdf \/ Save PROVE DInv'
  OBVIOUS
<1>1. pc \in AfterPass /\ UNCHANGED <<aux, record>>
  BY DEF AfterPass, NoOutput, PublishSynctex, PublishPdf, Save
<1>2. HasMark(run)
  BY DEF DInv, Shape
<1> DEFINE sync == [run EXCEPT !.man.sync = staged]
           pdf == [run EXCEPT !.man.pdf = staged]
<1>3. /\ HasMark(sync) /\ sync.man.unfinished = run.man.unfinished
      /\ HasMark(pdf) /\ pdf.man.unfinished = run.man.unfinished
  BY <1>2 DEF HasMark
<1>4. \/ \E r \in {run, sync, pdf}, place \in {"publishPdf", "save"} : Goto(place, r)
      \/ \E status : Return(status, run.man)
  <2>1. CASE NoOutput \/ Save
    BY <2>1 DEF NoOutput, Save
  <2>2. CASE PublishSynctex
    BY <2>2 DEF PublishSynctex
  <2>3. CASE PublishPdf
    BY <2>3 DEF PublishPdf
  <2> QED BY <2>1, <2>2, <2>3
<1> HIDE DEF sync, pdf
<1>5. CASE \E status : Return(status, run.man)
  BY <1>1, <1>2, <1>5, AfterPassEnds DEF HasMark
<1>6. CASE \E r \in {run, sync, pdf}, place \in {"publishPdf", "save"} : Goto(place, r)
  <2>1. PICK r \in {run, sync, pdf}, place \in {"publishPdf", "save"} : Goto(place, r)
    BY <1>6
  <2>2. BiberHasControlFile'
    BY <2>1 DEF Goto, BiberHasControlFile
  <2>3. HasMark(r) /\ r.man.unfinished = run.man.unfinished
    BY <1>2, <1>3
  <2> QED BY <1>1, <2>1, <2>2, <2>3, AfterPassGoesOn DEF AfterPass
<1> QED BY <1>4, <1>5, <1>6

(* A build that stops anywhere without saving leaves the mark on disk.     *)
LEMMA AbandonSteps ==
    DInv /\ (EngineMissing \/ PublishFails("publish") \/ PublishFails("publishPdf") \/ Kill)
        => DInv'
<1> SUFFICES ASSUME DInv,
                    \/ EngineMissing \/ Kill
                    \/ PublishFails("publish") \/ PublishFails("publishPdf")
             PROVE  DInv'
  OBVIOUS
<1>1. pc # "idle" /\ \E status : Abandon(status)
  BY DEF EngineMissing, PublishFails, Kill
<1>2. RecordOfFinishedPass
  BY DEF DInv
<1>3. RecordOfFinishedPass'
  <2>1. UNCHANGED record \/ EngineWrites(FALSE)
    BY DEF EngineMissing, PublishFails, Kill
  <2>2. CASE UNCHANGED record
    BY <1>2, <2>2 DEF RecordOfFinishedPass
  <2>3. CASE EngineWrites(FALSE)
    BY <1>2, <2>3, EngineWritesFinished
  <2> QED BY <2>1, <2>2, <2>3
<1> QED BY <1>1, <1>3, AbandonedBuild

(* Edits and the clock touch none of this.                                 *)
LEMMA OutsideSteps ==
    DInv /\ (EditDoc \/ EditBib \/ PutBbl \/ MinutePasses \/ UNCHANGED vars) => DInv'
<1> SUFFICES ASSUME DInv, EditDoc \/ EditBib \/ PutBbl \/ MinutePasses \/ UNCHANGED vars
             PROVE  DInv'
  OBVIOUS
<1>1. UNCHANGED <<aux, bcf, disk, pc, run>>
  BY DEF EditDoc, EditBib, PutBbl, MinutePasses, Edit, vars
<1>2. record' \in {record, NoRecord}
  BY DEF EditDoc, EditBib, PutBbl, MinutePasses, Edit, vars
<1>3. RecordOfFinishedPass'
  BY <1>2, NoRecordFinished DEF DInv, RecordOfFinishedPass
<1>4. BiberHasControlFile'
  BY <1>1 DEF DInv, BiberHasControlFile, UsesBiber, AuxCites
<1> QED
  BY <1>1, <1>3, <1>4 DEF DInv, Shape, TruncationMarked, MarkedWhileBuilding,
     TrustedBeforeFirstPass, RefreshToolTrusts, UnmarkedIsFinished, DownAfterPass, UpInPass

(* Every step keeps DInv.                                                  *)
THEOREM NextDInv == DInv /\ [Next]_vars => DInv'
BY StartStep, RefreshStep, RefreshToolStep, BeginPassStep, NotConvergedStep, CacheHitStep,
   EngineStartStep, EngineEndSteps, IndexSteps, DecideStep, ToolStep, PublicationSteps,
   AbandonSteps, OutsideSteps
DEF Next, Driver

(* DInv is an invariant of every build and every fault of BuildDriver.     *)
THEOREM DInvHolds == Spec => []DInv
BY InitDInv, NextDInv, PTL DEF Spec

(* Whenever the .aux, .bcf or .idx may have been cut short, the manifest   *)
(* on disk says so (unfinished_pass in build).                             *)
THEOREM TruncationMarkedHolds == Spec => []TruncationMarked
<1>1. DInv => TruncationMarked
  BY DEF DInv
<1> QED BY <1>1, DInvHolds, PTL

(* BibTeX, Biber and makeindex are never run on a file that a pass cut     *)
(* short, however builds end: on their own, by a failure, or killed.       *)
THEOREM ToolsReadFinishedFilesHolds == Spec => []ToolsReadFinishedFiles
<1>1. DInv => ToolsReadFinishedFiles
  <2> SUFFICES ASSUME DInv PROVE ToolsReadFinishedFiles
    OBVIOUS
  <2>1. pc \in {"tool", "makeindex", "decide"} => aux.state # "cut"
    BY DEF DInv, DownAfterPass, AfterPass, UnmarkedIsFinished
  <2>2. pc = "refreshTool" => aux.state # "cut"
    BY DEF DInv, RefreshToolTrusts, TrustedBeforeFirstPass
  <2> QED BY <2>1, <2>2 DEF ToolsReadFinishedFiles, DInv, BiberHasControlFile
<1> QED BY <1>1, DInvHolds, PTL
-----------------------------------------------------------------------------
(* Convergence.  What the files must be when the loop ends follows from    *)
(* what a pass has read, which its build remembers in `before'.            *)

\* The .aux files that a pass over these inputs leaves, started with the .aux files a
AuxOf(inputs, a) ==
    IF inputs.doc \in OnePageDocs THEN TrivialAux
    ELSE [state |-> "full", doc |-> inputs.doc, bbl |-> inputs.bbl,
          ind |-> inputs.ind.by # "none",
          flip |-> inputs.doc \in UnstableDocs /\ ~a.flip]

\* A record of the result cache is of a pass that changed nothing
RecordIsStable ==
    record # NoRecord =>
        /\ record.pdf = record.in /\ record.in.doc \notin EmptyDocs
        /\ record.aux = AuxOf(record.in, record.aux)

LocalFields == {"before", "reads", "wrote"} \subseteq DOMAIN run

SourcesKnown == bib \in Bibs \cup NoBibs /\ (~ProjectBbl => srcBbl = NoBbl)

\* Nothing but the engine writes during a pass
PassReads ==
    /\ pc \in {"engine", "running"} => run.before[3] = bbl /\ run.before[4] = ind
    /\ pc = "engine" => run.before[1] = aux
    /\ pc = "running" /\ ~moved => run.reads.doc = doc

\* A document without pages writes no PDF
WroteWhatItHas == run.wrote /\ ~moved => doc \notin EmptyDocs

\* After a pass the staged PDF and the .aux are what it made of what it read
PassWrote ==
    pc \in {"index", "makeindex", "decide", "tool"} /\ run.wrote /\ ~moved =>
        /\ staged = Typeset(doc, run.before[1], run.before[3], run.before[4])
        /\ aux = NewAux(doc, run.before[1], run.before[3], run.before[4])

Converging ==
    /\ LocalFields /\ SourcesKnown /\ RecordIsStable
    /\ PassReads /\ WroteWhatItHas /\ PassWrote /\ ConvergedIsStable

\* The .aux files follow from what a pass reads and, if unstable, from the old.
LEMMA AuxOfReads ==
    ASSUME NEW d, NEW a, NEW b, NEW i
    PROVE  NewAux(d, a, b, i) = AuxOf(Reads(d, a, b, i), a) /\ Reads(d, a, b, i).doc = d
BY DEF NewAux, AuxOf, Reads

(* check_depcache compares all that a pass reads, and the record is of a   *)
(* pass that changed nothing.                                              *)
LEMMA HitStable ==
    ASSUME RecordIsStable, Hit
    PROVE  /\ staged = Typeset(doc, aux, bbl, ind) /\ aux = NewAux(doc, aux, bbl, ind)
           /\ doc \notin EmptyDocs
<1>1. /\ record # NoRecord /\ staged = record.pdf /\ record.aux = aux
      /\ record.in = Reads(doc, aux, bbl, ind)
  BY DEF Hit
<1>2. /\ record.pdf = record.in /\ record.in.doc \notin EmptyDocs
      /\ record.aux = AuxOf(record.in, record.aux)
  BY <1>1 DEF RecordIsStable
<1> QED BY <1>1, <1>2, AuxOfReads DEF Typeset

(* write_depcache records a pass only if it changed no auxiliary file and  *)
(* what it read is still there.                                            *)
LEMMA EngineRecords ==
    ASSUME RecordIsStable, NEW errors \in BOOLEAN, EngineWrites(errors)
    PROVE  RecordIsStable'
<1> DEFINE start == run.before[1]
           d == run.reads.doc
           new == NewAux(d, start, bbl, ind)
<1>1. \/ record' = record
      \/ /\ d \notin EmptyDocs /\ new = start /\ run.reads = Reads(doc, start, bbl, ind)
         /\ record' = [in |-> run.reads, aux |-> new, pdf |-> Typeset(d, start, bbl, ind)]
  BY DEF EngineWrites
<1>2. CASE record' = record
  BY <1>2 DEF RecordIsStable
<1>3. CASE /\ d \notin EmptyDocs /\ new = start /\ run.reads = Reads(doc, start, bbl, ind)
           /\ record' = [in |-> run.reads, aux |-> new, pdf |-> Typeset(d, start, bbl, ind)]
  <2>1. d = doc
    BY <1>3, AuxOfReads
  <2>2. new = AuxOf(run.reads, start)
    BY <1>3, <2>1, AuxOfReads
  <2> HIDE DEF start, d, new
  <2>3. /\ record'.in = run.reads /\ record'.aux = new /\ record'.aux = start
        /\ record'.pdf = Reads(d, start, bbl, ind)
    BY <1>3 DEF Typeset
  <2> QED BY <1>3, <2>1, <2>2, <2>3 DEF RecordIsStable, d
<1> QED BY <1>1, <1>2, <1>3

(* Where nothing is claimed of the files.                                  *)
LEMMA Elsewhere ==
    ASSUME Converging, LocalFields', SourcesKnown', RecordIsStable',
           pc' \in {"idle", "refresh", "refreshTool", "pass", "publishPdf", "save"},
           ~run'.wrote \/ (run'.wrote = run.wrote /\ moved' = moved /\ doc' = doc)
    PROVE  Converging'
<1>1. PassReads' /\ PassWrote' /\ ConvergedIsStable'
  BY DEF PassReads, PassWrote, ConvergedIsStable
<1>2. WroteWhatItHas'
  BY DEF Converging, WroteWhatItHas
<1> QED BY <1>1, <1>2 DEF Converging

\* The fields of the local variables when a build begins.
LEMMA FreshFields == {"before", "reads", "wrote"} \subseteq DOMAIN Fresh /\ Fresh.wrote = FALSE
BY DEF Fresh

(* A build that returns.                                                   *)
LEMMA ReturnConverges ==
    ASSUME Converging, NEW status, NEW m, Return(status, m), RecordIsStable', UNCHANGED files
    PROVE  Converging'
<1>1. pc' = "idle" /\ run' = Fresh
  BY DEF Return
<1>2. LocalFields' /\ ~run'.wrote
  BY <1>1, FreshFields DEF LocalFields
<1>3. SourcesKnown'
  BY DEF Converging, SourcesKnown, files
<1> QED BY <1>1, <1>2, <1>3, Elsewhere

\* A first build starts with nothing to compare.
LEMMA ConvergingInit == Init => Converging
<1> SUFFICES ASSUME Init PROVE Converging
  OBVIOUS
<1>1. pc = "idle" /\ run = Fresh /\ record = NoRecord /\ srcBbl = NoBbl /\ bib \in Bibs \cup NoBibs
  BY DEF Init
<1>2. LocalFields /\ ~run.wrote
  BY <1>1, FreshFields DEF LocalFields
<1> QED
  BY <1>1, <1>2 DEF Converging, SourcesKnown, RecordIsStable, PassReads, PassWrote,
     WroteWhatItHas, ConvergedIsStable
(* Local variables that differ in others than those of the last pass.      *)
SamePass(r) ==
    /\ {"before", "reads", "wrote"} \subseteq DOMAIN r
    /\ r.before = run.before /\ r.reads = run.reads /\ r.wrote = run.wrote

(* A build that goes on to a place where nothing is claimed.               *)
LEMMA GoesElsewhere ==
    ASSUME Converging, NEW place \in {"pass", "refreshTool", "publishPdf", "save"}, NEW r,
           Goto(place, r), SamePass(r), UNCHANGED <<sources, record>>
    PROVE  Converging'
<1>1. pc' = place /\ run' = r /\ UNCHANGED <<doc, bib, srcBbl, moved, record>>
  BY DEF Goto, sources, files
<1>2. LocalFields' /\ run'.wrote = run.wrote
  BY <1>1 DEF SamePass, LocalFields
<1>3. SourcesKnown' /\ RecordIsStable'
  BY <1>1 DEF Converging, SourcesKnown, RecordIsStable
<1> QED BY <1>1, <1>2, <1>3, Elsewhere

\* Entering the loop, or going round, keeps what the last pass is known for.
LEMMA EnterLoopConverges ==
    ASSUME Converging, NEW r, EnterLoop(r), SamePass(r), UNCHANGED <<sources, record>>
    PROVE  Converging'
<1> DEFINE q == [r EXCEPT !.trivial = aux.state = "none"]
<1>1. Goto("pass", q)
  BY DEF EnterLoop
<1>2. SamePass(q)
  BY DEF SamePass
<1> HIDE DEF q
<1> QED BY <1>1, <1>2, GoesElsewhere

\* Recording what a pass produced does not change what it read.
LEMMA ProducedSamePass == LocalFields => SamePass(Produced)
BY DEF LocalFields, SamePass, Produced

\* build, up to its first pass.
LEMMA StartConverges == Converging /\ Start => Converging'
<1> SUFFICES ASSUME Converging, Start PROVE Converging'
  OBVIOUS
<1>1. /\ pc' = "refresh" /\ UNCHANGED <<bib, srcBbl, record>>
      /\ run' = [Fresh EXCEPT !.prior = disk.unfinished, !.complete = AuxComplete(aux),
                              !.man = [disk EXCEPT !.unfinished = TRUE]]
  BY DEF Start, Begin, files
<1>2. LocalFields' /\ ~run'.wrote
  BY <1>1, FreshFields DEF LocalFields
<1>3. SourcesKnown' /\ RecordIsStable'
  BY <1>1 DEF Converging, SourcesKnown, RecordIsStable
<1> QED BY <1>1, <1>2, <1>3, Elsewhere

\* The refresh of the bibliography before the first pass.
LEMMA RefreshConverges == Converging /\ (Refresh \/ RefreshTool) => Converging'
<1> SUFFICES ASSUME Converging, Refresh \/ RefreshTool PROVE Converging'
  OBVIOUS
<1>1. LocalFields /\ UNCHANGED <<sources, record>>
  BY DEF Refresh, RefreshTool, Converging
<1> DEFINE man == IF Adopts(aux)
                  THEN [run.man EXCEPT !.sig = Signature(aux), !.out = srcBbl]
                  ELSE run.man
           known == [run EXCEPT !.man = man, !.cites = AuxCites(aux),
                                !.done = Adopts(aux), !.sig = Signature(aux)]
           none == [run EXCEPT !.man = NoTool(run.man)]
           tried == [run EXCEPT !.done = TRUE]
<1>2. SamePass(known) /\ SamePass(none) /\ SamePass(tried) /\ SamePass(Produced)
  BY <1>1, ProducedSamePass DEF SamePass, LocalFields
<1>3. \/ EnterLoop(none) \/ EnterLoop(known) \/ Goto("refreshTool", known)
      \/ EnterLoop(Produced) \/ EnterLoop(tried)
      \/ Return("failed", NoTool(run.man))
  BY DEF Refresh, RefreshTool
<1> HIDE DEF known, none, tried
<1>4. CASE Return("failed", NoTool(run.man))
  <2>1. RecordIsStable' /\ UNCHANGED files
    BY <1>1 DEF Converging, RecordIsStable, sources
  <2> QED BY <1>4, <2>1, ReturnConverges
<1> QED BY <1>1, <1>2, <1>3, <1>4, EnterLoopConverges, GoesElsewhere

(* A pass starts with the files of this moment.                            *)
LEMMA BeginPassConverges == Converging /\ BeginPass => Converging'
<1> SUFFICES ASSUME Converging, BeginPass PROVE Converging'
  OBVIOUS
<1>1. /\ pc' = "engine" /\ UNCHANGED <<doc, bib, srcBbl, moved, record, aux, bbl, ind>>
      /\ run' = [run EXCEPT !.passes = run.passes + 1, !.man = [run.man EXCEPT !.unfinished = TRUE],
                            !.before = <<aux, bcf, bbl, ind>>]
  BY DEF BeginPass, Pass, sources, files
<1>2. LocalFields' /\ run'.before = <<aux, bcf, bbl, ind>> /\ run'.wrote = run.wrote
  BY <1>1 DEF Converging, LocalFields
<1>3. SourcesKnown' /\ RecordIsStable' /\ WroteWhatItHas'
  BY <1>1, <1>2 DEF Converging, SourcesKnown, RecordIsStable, WroteWhatItHas
<1>4. PassReads'
  BY <1>1, <1>2 DEF PassReads
<1>5. PassWrote' /\ ConvergedIsStable'
  BY <1>1 DEF PassWrote, ConvergedIsStable
<1> QED BY <1>2, <1>3, <1>4, <1>5 DEF Converging

\* A hit: the record is of a pass that reproduced what it read.
LEMMA CacheHitConverges == Converging /\ CacheHit => Converging'
<1> SUFFICES ASSUME Converging, CacheHit PROVE Converging'
  OBVIOUS
<1> DEFINE finished == [run EXCEPT !.man.unfinished = FALSE, !.wrote = TRUE, !.failed = FALSE]
           hit == [finished EXCEPT !.hit = TRUE]
<1>1. /\ pc = "engine" /\ Hit /\ UNCHANGED <<doc, bib, srcBbl, moved, record, aux, bbl, ind, staged>>
      /\ \/ pc' = "publish" /\ run' = hit
         \/ pc' = "index" /\ run' = finished
  BY DEF CacheHit, Goto, sources, files
<1>2. /\ staged = Typeset(doc, aux, bbl, ind) /\ aux = NewAux(doc, aux, bbl, ind)
      /\ doc \notin EmptyDocs
  BY <1>1, HitStable DEF Converging
<1>3. LocalFields' /\ run'.before = run.before
  BY <1>1 DEF Converging, LocalFields
<1> HIDE DEF finished, hit
<1>4. SourcesKnown' /\ RecordIsStable' /\ PassReads' /\ WroteWhatItHas'
  BY <1>1, <1>2 DEF Converging, SourcesKnown, RecordIsStable, PassReads, WroteWhatItHas
<1>5. run.before[1] = aux /\ run.before[3] = bbl /\ run.before[4] = ind
  BY <1>1 DEF Converging, PassReads
<1>6. /\ staged' = Typeset(doc, aux, bbl, ind)' /\ aux' = NewAux(doc, aux, bbl, ind)'
  BY <1>1, <1>2 DEF Typeset, NewAux, Reads, Inert
<1>7. ConvergedIsStable'
  BY <1>6 DEF ConvergedIsStable
<1>8. PassWrote'
  BY <1>1, <1>2, <1>3, <1>5 DEF PassWrote, Typeset, NewAux, Reads, Inert
<1> QED BY <1>3, <1>4, <1>7, <1>8 DEF Converging

\* A pass begins with what is there, which `before` holds.
LEMMA EngineStartConverges == Converging /\ EngineStart => Converging'
<1> SUFFICES ASSUME Converging, EngineStart PROVE Converging'
  OBVIOUS
<1>1. /\ pc = "engine" /\ pc' = "running" /\ UNCHANGED <<doc, bib, srcBbl, moved, record, bbl, ind>>
      /\ run' = [run EXCEPT !.reads = Reads(doc, aux, bbl, ind)]
  BY DEF EngineStart, Goto, sources, files
<1>2. /\ LocalFields' /\ run'.before = run.before /\ run'.wrote = run.wrote
      /\ run'.reads = Reads(doc, aux, bbl, ind)
  BY <1>1 DEF Converging, LocalFields
<1>3. SourcesKnown' /\ RecordIsStable' /\ WroteWhatItHas'
  BY <1>1, <1>2 DEF Converging, SourcesKnown, RecordIsStable, WroteWhatItHas
<1>4. PassReads'
  BY <1>1, <1>2, AuxOfReads DEF Converging, PassReads
<1>5. PassWrote' /\ ConvergedIsStable'
  BY <1>1 DEF PassWrote, ConvergedIsStable
<1> QED BY <1>2, <1>3, <1>4, <1>5 DEF Converging
(* The engine writes what it made of what it read.                         *)
LEMMA PassFinishedConverges ==
    ASSUME Converging, pc = "running", NEW errors \in BOOLEAN, EngineWrites(errors),
           PassFinished(errors), UNCHANGED <<files, moved, bbl, ind>>
    PROVE  Converging'
<1>1. /\ pc' = "index" /\ UNCHANGED <<doc, bib, srcBbl, moved, bbl, ind>>
      /\ run' = [run EXCEPT !.man.unfinished = FALSE, !.failed = errors,
                            !.wrote = @ \/ WrotePdf]
  BY DEF PassFinished, Goto, files
<1>2. /\ LocalFields' /\ run'.before = run.before /\ run'.reads = run.reads
      /\ run'.wrote <=> run.wrote \/ WrotePdf
  BY <1>1 DEF Converging, LocalFields
<1>3. RecordIsStable'
  BY EngineRecords DEF Converging
<1>4. run.before[3] = bbl /\ run.before[4] = ind /\ (~moved => run.reads.doc = doc)
  BY DEF Converging, PassReads
<1>5. WroteWhatItHas'
  BY <1>1, <1>2, <1>4 DEF Converging, WroteWhatItHas, WrotePdf
<1>6. SourcesKnown' /\ PassReads' /\ ConvergedIsStable'
  BY <1>1 DEF Converging, SourcesKnown, PassReads, ConvergedIsStable
<1>7. PassWrote'
  <2> SUFFICES ASSUME run'.wrote, ~moved
               PROVE  /\ staged' = Typeset(doc, run.before[1], run.before[3], run.before[4])
                      /\ aux' = NewAux(doc, run.before[1], run.before[3], run.before[4])
    BY <1>1, <1>2 DEF PassWrote, Typeset, NewAux, Reads, Inert
  <2>1. run.reads.doc = doc /\ doc \notin EmptyDocs
    BY <1>1, <1>4, <1>5 DEF WroteWhatItHas
  <2> QED BY <2>1, <1>4 DEF EngineWrites
<1> QED BY <1>2, <1>3, <1>5, <1>6, <1>7 DEF Converging

\* A pass ends, and has written what follows from what it read.
LEMMA EngineEndConverges ==
    Converging /\ (EngineFinish \/ EngineErrors \/ EngineStops) => Converging'
<1> SUFFICES ASSUME Converging, EngineFinish \/ EngineErrors \/ EngineStops PROVE Converging'
  OBVIOUS
<1>1. CASE EngineFinish
  BY <1>1, PassFinishedConverges DEF EngineFinish, sources
<1>2. CASE EngineErrors
  <2>1. /\ pc = "running" /\ EngineWrites(TRUE) /\ UNCHANGED <<files, moved, bbl, ind>>
        /\ PassFinished(TRUE) \/ Return("failed", run.man)
    BY <1>2 DEF EngineErrors
  <2>2. RecordIsStable'
    BY <2>1, EngineRecords DEF Converging
  <2> QED BY <2>1, <2>2, PassFinishedConverges, ReturnConverges
<1>3. CASE EngineStops
  <2>1. Return("failed", run.man) /\ UNCHANGED <<files, record>>
    BY <1>3 DEF EngineStops
  <2>2. RecordIsStable'
    BY <2>1 DEF Converging, RecordIsStable
  <2> QED BY <2>1, <2>2, ReturnConverges
<1> QED BY <1>1, <1>2, <1>3

(* A step after a pass that stays with what the pass wrote.                *)
LEMMA StaysAfterPass ==
    ASSUME Converging, pc \in {"index", "makeindex", "decide"}, NEW r, SamePass(r),
           NEW place \in {"makeindex", "decide", "tool"}, Goto(place, r),
           UNCHANGED <<files, moved, record, aux, staged>>
    PROVE  Converging'
<1>1. pc' = place /\ run' = r /\ UNCHANGED <<doc, bib, srcBbl, moved, record, aux, staged>>
  BY DEF Goto, files
<1>2. LocalFields' /\ run'.before = run.before /\ run'.wrote = run.wrote
  BY <1>1 DEF LocalFields, SamePass
<1>3. SourcesKnown' /\ RecordIsStable' /\ PassReads' /\ WroteWhatItHas' /\ ConvergedIsStable'
  BY <1>1, <1>2 DEF Converging, SourcesKnown, RecordIsStable, PassReads, WroteWhatItHas,
     ConvergedIsStable
<1>4. PassWrote'
  BY <1>1, <1>2 DEF Converging, PassWrote, Typeset, NewAux, Reads, Inert
<1> QED BY <1>2, <1>3, <1>4 DEF Converging

\* makeindex changes the .ind, which the last pass has read.
LEMMA IndexConverges == Converging /\ (IndexTools \/ Makeindex) => Converging'
<1> SUFFICES ASSUME Converging, IndexTools \/ Makeindex PROVE Converging'
  OBVIOUS
<1> DEFINE indexed == [run EXCEPT !.man.idx = aux]
<1>1. /\ pc \in {"index", "makeindex"} /\ UNCHANGED <<files, moved, record, aux, staged>>
      /\ \/ Goto("decide", run) \/ Goto("makeindex", run) \/ Goto("decide", indexed)
         \/ Return("failed", [run.man EXCEPT !.idx = NoAux])
  BY DEF IndexTools, Makeindex, sources
<1>2. SamePass(run) /\ SamePass(indexed)
  BY DEF SamePass, Converging, LocalFields
<1>3. RecordIsStable'
  BY <1>1 DEF Converging, RecordIsStable
<1> HIDE DEF indexed
<1> QED BY <1>1, <1>2, <1>3, StaysAfterPass, ReturnConverges

(* The loop ends when the pass read what is there now, or when it wrote    *)
(* inert files, which do not depend on what it read.                       *)
LEMMA DecideConverges == Converging /\ Decide => Converging'
<1> SUFFICES ASSUME Converging, Decide PROVE Converging'
  OBVIOUS
<1> DEFINE sig == Signature(aux)
           man == IF Adopts(aux)
                  THEN [run.man EXCEPT !.sig = sig, !.out = srcBbl]
                  ELSE run.man
           now == IF Adopts(aux) THEN srcBbl ELSE bbl
           changed == run.before # <<aux, bcf, now, ind>>
           next == [run EXCEPT !.man = IF Ready(aux) THEN man ELSE NoTool(man),
                               !.cites = AuxCites(aux), !.done = run.done \/ Adopts(aux),
                               !.sig = sig, !.changed = changed]
<1>1. /\ pc = "decide" /\ UNCHANGED <<files, moved, record, aux, staged, ind>>
      /\ \/ Goto("tool", next) \/ Goto("pass", next)
         \/ /\ Goto("publish", next) /\ bbl' = now
            /\ \/ ~changed
               \/ AuxInert(aux) /\ now = NoBbl /\ ind = NoInd
  BY DEF Decide, Settle, sources
<1>2. SamePass(next)
  BY DEF SamePass, Converging, LocalFields
<1>3. UNCHANGED sources
  BY DEF Decide
<1> HIDE DEF next
<1>4. CASE Goto("tool", next)
  BY <1>1, <1>2, <1>4, StaysAfterPass
<1>5. CASE Goto("pass", next)
  BY <1>1, <1>2, <1>3, <1>5, GoesElsewhere
<1>6. CASE /\ Goto("publish", next) /\ bbl' = now
           /\ \/ ~changed
              \/ AuxInert(aux) /\ now = NoBbl /\ ind = NoInd
  <2>1. /\ pc' = "publish" /\ run' = next
        /\ UNCHANGED <<doc, bib, srcBbl, moved, record, aux, staged, ind>>
    BY <1>1, <1>6 DEF Goto, files
  <2>2. LocalFields' /\ run'.wrote = run.wrote
    BY <2>1, <1>2 DEF LocalFields, SamePass
  <2>3. SourcesKnown' /\ RecordIsStable' /\ PassReads' /\ WroteWhatItHas' /\ PassWrote'
    BY <2>1, <2>2 DEF Converging, SourcesKnown, RecordIsStable, PassReads, WroteWhatItHas, PassWrote
  <2>4. ASSUME run.wrote, ~moved
        PROVE  staged = Typeset(doc, aux, now, ind) /\ aux = NewAux(doc, aux, now, ind)
    <3>1. /\ staged = Typeset(doc, run.before[1], run.before[3], run.before[4])
          /\ aux = NewAux(doc, run.before[1], run.before[3], run.before[4])
      BY <1>1, <2>4 DEF Converging, PassWrote
    <3>2. CASE ~changed
      BY <3>1, <3>2
    <3>3. CASE AuxInert(aux)
      <4>1. Inert(doc)
        BY <3>1, <3>3, DriverAssumption DEF AuxInert, NewAux, Inert, TrivialAux, NoAux
      <4>2. \A a, b, i, c, e, j : Reads(doc, a, b, i) = Reads(doc, c, e, j)
        BY <4>1 DEF Reads, Inert
      <4>3. \A a, b, i, c, e, j : NewAux(doc, a, b, i) = NewAux(doc, c, e, j)
        BY <4>1, <4>2 DEF NewAux, Inert
      <4> HIDE DEF now
      <4> QED BY <3>1, <4>2, <4>3 DEF Typeset
    <3> QED BY <1>6, <3>2, <3>3
  <2>5. ConvergedIsStable'
    BY <1>6, <2>1, <2>2, <2>4 DEF ConvergedIsStable, Typeset, NewAux, Reads, Inert
  <2> QED BY <2>2, <2>3, <2>5 DEF Converging
<1> QED BY <1>1, <1>4, <1>5, <1>6
(* The project's own .bbl, copied when the tool fails, is not part of the  *)
(* comparison that Decide made: the one step that needs the hypothesis.    *)
LEMMA ToolConverges ==
    ASSUME NoBibs = {} \/ ~ProjectBbl, Converging, Tool
    PROVE  Converging'
<1>1. UNCHANGED <<sources, record>> /\ LocalFields /\ SourcesKnown
  BY DEF Tool, Converging
<1>2. ToolSucceeds \/ srcBbl = NoBbl
  BY <1>1 DEF SourcesKnown, ToolSucceeds
<1>3. Goto("pass", Produced) \/ Return("failed", NoTool(run.man))
  BY <1>2 DEF Tool
<1>4. RecordIsStable' /\ UNCHANGED files
  BY <1>1 DEF Converging, RecordIsStable, sources
<1> QED BY <1>1, <1>3, <1>4, ProducedSamePass, GoesElsewhere, ReturnConverges

\* The end of the loop and the publication change no auxiliary file.
LEMMA PublicationConverges ==
    Converging /\ (NotConverged \/ NoOutput \/ PublishSynctex \/ PublishPdf \/ Save) => Converging'
<1> SUFFICES ASSUME Converging, NotConverged \/ NoOutput \/ PublishSynctex \/ PublishPdf \/ Save
             PROVE  Converging'
  OBVIOUS
<1> DEFINE sync == [run EXCEPT !.man.sync = staged]
           pdf == [run EXCEPT !.man.pdf = staged]
<1>1. UNCHANGED <<sources, record>> /\ LocalFields
  BY DEF NotConverged, NoOutput, PublishSynctex, PublishPdf, Save, Converging
<1>2. \/ \E status : Return(status, run.man)
      \/ \E r \in {run, sync, pdf}, place \in {"publishPdf", "save"} : Goto(place, r)
  <2>1. CASE NotConverged \/ NoOutput \/ Save
    BY <2>1 DEF NotConverged, NoOutput, Save
  <2>2. CASE PublishSynctex
    BY <2>2 DEF PublishSynctex
  <2>3. CASE PublishPdf
    BY <2>3 DEF PublishPdf
  <2> QED BY <2>1, <2>2, <2>3
<1>3. SamePass(run) /\ SamePass(sync) /\ SamePass(pdf)
  BY <1>1 DEF SamePass, LocalFields
<1>4. RecordIsStable' /\ UNCHANGED files
  BY <1>1 DEF Converging, RecordIsStable, sources
<1> HIDE DEF sync, pdf
<1> QED BY <1>1, <1>2, <1>3, <1>4, GoesElsewhere, ReturnConverges

\* A build that ends early leaves no claim behind.
LEMMA AbandonConverges ==
    Converging /\ (EngineMissing \/ PublishFails("publish") \/ PublishFails("publishPdf") \/ Kill)
        => Converging'
<1> SUFFICES ASSUME Converging,
                    \/ EngineMissing \/ Kill
                    \/ PublishFails("publish") \/ PublishFails("publishPdf")
             PROVE  Converging'
  OBVIOUS
<1>1. UNCHANGED files /\ \E status : Abandon(status)
  BY DEF EngineMissing, PublishFails, Kill
<1>2. UNCHANGED record \/ EngineWrites(FALSE)
  BY DEF EngineMissing, PublishFails, Kill
<1>3. RecordIsStable'
  <2>1. CASE UNCHANGED record
    BY <2>1 DEF Converging, RecordIsStable
  <2>2. CASE EngineWrites(FALSE)
    BY <2>2, EngineRecords DEF Converging
  <2> QED BY <1>2, <2>1, <2>2
<1> QED BY <1>1, <1>3, ReturnConverges DEF Abandon

(* After an edit nothing is claimed, until the next build.                 *)
LEMMA OutsideConverges ==
    Converging /\ (EditDoc \/ EditBib \/ PutBbl \/ MinutePasses \/ UNCHANGED vars) => Converging'
<1> SUFFICES ASSUME Converging,
                    EditDoc \/ EditBib \/ PutBbl \/ MinutePasses \/ UNCHANGED vars
             PROVE  Converging'
  OBVIOUS
<1>1. UNCHANGED <<aux, bbl, ind, staged, pc, run>> /\ record' \in {record, NoRecord}
  BY DEF EditDoc, EditBib, PutBbl, MinutePasses, Edit, vars
<1>2. moved' \/ UNCHANGED <<doc, moved>>
  BY DEF EditDoc, EditBib, PutBbl, MinutePasses, Edit, vars, sources, files
<1>3. SourcesKnown'
  BY DEF Converging, SourcesKnown, EditDoc, EditBib, PutBbl, MinutePasses, vars, sources, files
<1>4. LocalFields' /\ RecordIsStable'
  BY <1>1 DEF Converging, LocalFields, RecordIsStable
<1>5. CASE moved'
  BY <1>1, <1>3, <1>4, <1>5 DEF Converging, PassReads, WroteWhatItHas, PassWrote, ConvergedIsStable
<1>6. CASE UNCHANGED <<doc, moved>>
  <2>1. PassReads' /\ WroteWhatItHas'
    BY <1>1, <1>6 DEF Converging, PassReads, WroteWhatItHas
  <2>2. PassWrote' /\ ConvergedIsStable'
    BY <1>1, <1>6 DEF Converging, PassWrote, ConvergedIsStable, Typeset, NewAux, Reads, Inert
  <2> QED BY <1>3, <1>4, <2>1, <2>2 DEF Converging
<1> QED BY <1>2, <1>5, <1>6

\* Every step keeps the invariant of the loop.
LEMMA ConvergingStep ==
    ASSUME NoBibs = {} \/ ~ProjectBbl, Converging, [Next]_vars
    PROVE  Converging'
BY StartConverges, RefreshConverges, BeginPassConverges, CacheHitConverges, EngineStartConverges,
   EngineEndConverges, IndexConverges, DecideConverges, ToolConverges, PublicationConverges,
   AbandonConverges, OutsideConverges
DEF Next, Driver

(* When the pass loop of build ends as converged, by a pass that changed   *)
(* nothing, by a first pass that wrote inert files or by a hit in the      *)
(* result cache, another pass would make the staged PDF and the auxiliary  *)
(* files again: for all documents, faults, kills and pass limits, if the   *)
(* project has no .bbl of its own, or BibTeX can read all its databases.   *)
(* Without that the .bbl copied after a failed run escapes the comparison. *)
THEOREM ConvergedHolds ==
    ASSUME NoBibs = {} \/ ~ProjectBbl
    PROVE  Spec => []ConvergedIsStable
<1>1. Converging /\ [Next]_vars => Converging'
  BY ConvergingStep
<1>2. Converging => ConvergedIsStable
  BY DEF Converging
<1> QED BY <1>1, <1>2, ConvergingInit, PTL DEF Spec

(* A record is made by a pass that ends, and by nothing else.              *)
LEMMA RecordStep == RecordIsStable /\ [Next]_vars => RecordIsStable'
<1> SUFFICES ASSUME RecordIsStable, [Next]_vars PROVE RecordIsStable'
  OBVIOUS
<1>1. record' \in {record, NoRecord} \/ \E errors \in BOOLEAN : EngineWrites(errors)
  <2>1. CASE Start \/ Kill \/ EditDoc \/ EditBib \/ PutBbl \/ MinutePasses \/ UNCHANGED vars
    BY <2>1 DEF Start, Begin, Kill, EditDoc, EditBib, PutBbl, MinutePasses, Edit, vars
  <2>2. CASE EngineFinish \/ EngineErrors
    BY <2>2 DEF EngineFinish, EngineErrors
  <2>3. CASE Driver /\ ~(EngineFinish \/ EngineErrors)
    BY <2>3 DEF Driver, Refresh, RefreshTool, BeginPass, Pass, NotConverged, CacheHit,
       EngineStart, EngineMissing, EngineStops, IndexTools, Makeindex, Decide, Tool,
       NoOutput, PublishSynctex, PublishPdf, Save, PublishFails
  <2> QED BY <2>1, <2>2, <2>3 DEF Next
<1>2. CASE record' \in {record, NoRecord}
  BY <1>2 DEF RecordIsStable
<1> QED BY <1>1, <1>2, EngineRecords

(* A hit of check_depcache, whenever it comes: the staged PDF is the one a *)
(* pass over the files would make, and the pass would change none of them. *)
(* write_depcache sees to it, for all documents, edits during a pass,      *)
(* errors and kills.                                                       *)
THEOREM HitIsFreshHolds == Spec => []HitIsFresh
<1>1. Init => RecordIsStable
  BY DEF Init, RecordIsStable
<1>2. RecordIsStable => HitIsFresh
  BY HitStable DEF HitIsFresh
<1> QED BY <1>1, <1>2, RecordStep, PTL DEF Spec
-----------------------------------------------------------------------------
(* Publication.  Only a kill separates the published PDF from the manifest *)
(* that describes it.                                                      *)

PublishFields(r) ==
    {"man", "hit"} \subseteq DOMAIN r /\ {"pdf", "sync"} \subseteq DOMAIN r.man

\* Local variables that differ in others than those of the publication
SameOutputs(r) ==
    /\ PublishFields(r)
    /\ r.man.pdf = run.man.pdf /\ r.man.sync = run.man.sync

SyncTexKnown(m) == m.pdf = NoPdf => m.sync = NoPdf

Published ==
    /\ PublishFields(run)
    /\ {"pdf", "sync"} \subseteq DOMAIN disk /\ {"pdf", "sync"} \subseteq DOMAIN visible
    /\ SyncTexKnown(disk)
    /\ pc # "save" => visible.pdf = disk.pdf
    /\ pc \notin {"idle", "publishPdf", "save"} =>
         run.man.pdf = disk.pdf /\ run.man.sync = disk.sync
    /\ pc = "publishPdf" =>
         /\ run.man.pdf = disk.pdf
         /\ \/ visible.sync = staged /\ run.man.sync = staged
            \/ run.hit /\ disk.sync # NoPdf /\ run.man.sync = disk.sync
    /\ pc = "save" => visible.pdf = run.man.pdf /\ SyncTexKnown(run.man)

\* The fields of the local variables that publication uses.
LEMMA FreshPublishes == PublishFields(Fresh)
BY DEF PublishFields, Fresh, NewManifest

\* Before the first build nothing is published.
LEMMA PublishedInit == Init => Published
BY FreshPublishes DEF Init, Published, SyncTexKnown, NewManifest

(* A build that goes on before its publication.                            *)
LEMMA GoesOnUnpublished ==
    ASSUME Published, pc \notin {"idle", "publishPdf", "save"}, NEW r, SameOutputs(r), NEW place,
           place \notin {"idle", "publishPdf", "save"}, Goto(place, r), UNCHANGED visible
    PROVE  Published'
<1>1. pc' = place /\ run' = r /\ disk' = disk /\ visible' = visible
  BY DEF Goto
<1> QED BY <1>1 DEF Published, SameOutputs, SyncTexKnown

(* A build that returns before its publication.                            *)
LEMMA ReturnsUnpublished ==
    ASSUME Published, pc \notin {"idle", "publishPdf", "save"}, NEW status, NEW m, Return(status, m),
           {"pdf", "sync"} \subseteq DOMAIN m, m.pdf = run.man.pdf, m.sync = run.man.sync,
           UNCHANGED visible
    PROVE  Published'
<1>1. pc' = "idle" /\ run' = Fresh /\ disk' = m /\ visible' = visible
  BY DEF Return
<1>2. SyncTexKnown(m) /\ visible.pdf = m.pdf
  BY DEF Published, SyncTexKnown
<1> QED BY <1>1, <1>2, FreshPublishes DEF Published, SyncTexKnown

\* Updates of the local variables that leave the outputs of the manifest.
LEMMA SameOutputsOf ==
    ASSUME PublishFields(run)
    PROVE  /\ SameOutputs(run) /\ SameOutputs(Produced)
           /\ \A d : SameOutputs([run EXCEPT !.done = d])
           /\ \A m : {"pdf", "sync"} \subseteq DOMAIN m => {"pdf", "sync"} \subseteq DOMAIN NoTool(m)
                       /\ NoTool(m).pdf = m.pdf /\ NoTool(m).sync = m.sync
BY DEF PublishFields, SameOutputs, Produced, NoTool

\* Entering the loop publishes nothing.
LEMMA EnterLoopUnpublished ==
    ASSUME Published, pc \notin {"idle", "publishPdf", "save"}, NEW r, SameOutputs(r), EnterLoop(r),
           UNCHANGED visible
    PROVE  Published'
<1> DEFINE q == [r EXCEPT !.trivial = aux.state = "none"]
<1>1. Goto("pass", q)
  BY DEF EnterLoop
<1>2. SameOutputs(q)
  BY DEF SameOutputs, PublishFields
<1> HIDE DEF q
<1> QED BY <1>1, <1>2, GoesOnUnpublished

\* build starts from the manifest on disk.
LEMMA StartPublished == Published /\ Start => Published'
<1> SUFFICES ASSUME Published, Start PROVE Published'
  OBVIOUS
<1> DEFINE man == [disk EXCEPT !.unfinished = TRUE]
<1>1. /\ pc = "idle" /\ pc' = "refresh" /\ disk' = man /\ visible' = visible
      /\ run' = [Fresh EXCEPT !.prior = disk.unfinished, !.complete = AuxComplete(aux), !.man = man]
  BY DEF Start, Begin
<1>2. {"pdf", "sync"} \subseteq DOMAIN man /\ man.pdf = disk.pdf /\ man.sync = disk.sync
  BY DEF Published
<1> HIDE DEF man
<1>3. PublishFields(run') /\ run'.man = man
  BY <1>1, <1>2, FreshPublishes DEF PublishFields
<1> QED BY <1>1, <1>2, <1>3 DEF Published, SyncTexKnown, PublishFields

\* The refresh of the bibliography publishes nothing.
LEMMA RefreshPublished == Published /\ (Refresh \/ RefreshTool) => Published'
<1> SUFFICES ASSUME Published, Refresh \/ RefreshTool PROVE Published'
  OBVIOUS
<1> DEFINE man == IF Adopts(aux)
                  THEN [run.man EXCEPT !.sig = Signature(aux), !.out = srcBbl]
                  ELSE run.man
           known == [run EXCEPT !.man = man, !.cites = AuxCites(aux),
                                !.done = Adopts(aux), !.sig = Signature(aux)]
           none == [run EXCEPT !.man = NoTool(run.man)]
           tried == [run EXCEPT !.done = TRUE]
<1>1. pc \in {"refresh", "refreshTool"} /\ UNCHANGED visible /\ PublishFields(run)
  BY DEF Refresh, RefreshTool, Published
<1>2. SameOutputs(tried) /\ SameOutputs(Produced)
  BY <1>1, SameOutputsOf
<1>3. {"pdf", "sync"} \subseteq DOMAIN man /\ man.pdf = run.man.pdf /\ man.sync = run.man.sync
  BY <1>1 DEF PublishFields
<1>4. SameOutputs(none)
  BY <1>1, SameOutputsOf DEF SameOutputs, PublishFields
<1>5. SameOutputs(known)
  <2> HIDE DEF man
  <2> QED BY <1>1, <1>3 DEF SameOutputs, PublishFields
<1>6. \/ EnterLoop(none) \/ EnterLoop(known) \/ Goto("refreshTool", known)
      \/ EnterLoop(Produced) \/ EnterLoop(tried)
      \/ Return("failed", NoTool(run.man))
  BY DEF Refresh, RefreshTool
<1> HIDE DEF known, none, tried
<1>7. CASE Return("failed", NoTool(run.man))
  BY <1>1, <1>7, SameOutputsOf, ReturnsUnpublished DEF PublishFields
<1> QED BY <1>1, <1>2, <1>4, <1>5, <1>6, <1>7, EnterLoopUnpublished, GoesOnUnpublished
\* Passes and hits publish nothing.
LEMMA PassPublished ==
    Published /\ (BeginPass \/ NotConverged \/ CacheHit \/ EngineStart) => Published'
<1> SUFFICES ASSUME Published, BeginPass \/ NotConverged \/ CacheHit \/ EngineStart
             PROVE  Published'
  OBVIOUS
<1>1. pc \in {"pass", "engine"} /\ UNCHANGED visible /\ PublishFields(run)
  BY DEF BeginPass, Pass, NotConverged, CacheHit, EngineStart, Published
<1>2. CASE BeginPass
  <2> DEFINE man == [run.man EXCEPT !.unfinished = TRUE]
  <2>1. /\ pc' = "engine" /\ disk' \in {disk, man}
        /\ run' = [run EXCEPT !.passes = run.passes + 1, !.man = man,
                              !.before = <<aux, bcf, bbl, ind>>]
    BY <1>2 DEF BeginPass, Pass
  <2>2. {"pdf", "sync"} \subseteq DOMAIN man /\ man.pdf = run.man.pdf /\ man.sync = run.man.sync
    BY <1>1 DEF PublishFields
  <2> HIDE DEF man
  <2>3. PublishFields(run') /\ run'.man = man
    BY <1>1, <2>1, <2>2 DEF PublishFields
  <2>4. run.man.pdf = disk.pdf /\ run.man.sync = disk.sync /\ visible.pdf = disk.pdf
    BY <1>1 DEF Published
  <2> QED BY <1>1, <2>1, <2>2, <2>3, <2>4 DEF Published, SyncTexKnown
<1>3. CASE NotConverged
  BY <1>1, <1>3, ReturnsUnpublished DEF NotConverged, PublishFields
<1>4. CASE CacheHit
  <2> DEFINE finished == [run EXCEPT !.man.unfinished = FALSE, !.wrote = TRUE, !.failed = FALSE]
             hit == [finished EXCEPT !.hit = TRUE]
  <2>1. Goto("publish", hit) \/ Goto("index", finished)
    BY <1>4 DEF CacheHit
  <2>2. SameOutputs(finished)
    BY <1>1 DEF SameOutputs, PublishFields
  <2> HIDE DEF finished
  <2>3. SameOutputs(hit)
    BY <2>2 DEF SameOutputs, PublishFields
  <2> HIDE DEF hit
  <2> QED BY <1>1, <2>1, <2>2, <2>3, GoesOnUnpublished
<1>5. CASE EngineStart
  <2> DEFINE r == [run EXCEPT !.reads = Reads(doc, aux, bbl, ind)]
  <2>1. Goto("running", r) /\ SameOutputs(r)
    BY <1>1, <1>5 DEF EngineStart, SameOutputs, PublishFields
  <2> HIDE DEF r
  <2> QED BY <1>1, <2>1, GoesOnUnpublished
<1> QED BY <1>2, <1>3, <1>4, <1>5

\* The end of a pass publishes nothing.
LEMMA EngineEndPublished ==
    Published /\ (EngineFinish \/ EngineErrors \/ EngineStops) => Published'
<1> SUFFICES ASSUME Published, EngineFinish \/ EngineErrors \/ EngineStops PROVE Published'
  OBVIOUS
<1>1. /\ pc = "running" /\ UNCHANGED visible /\ PublishFields(run)
      /\ Return("failed", run.man) \/ \E errors \in BOOLEAN : PassFinished(errors)
  BY DEF EngineFinish, EngineErrors, EngineStops, Published
<1>2. CASE Return("failed", run.man)
  BY <1>1, <1>2, ReturnsUnpublished DEF PublishFields
<1>3. ASSUME NEW errors \in BOOLEAN, PassFinished(errors) PROVE Published'
  <2> DEFINE r == [run EXCEPT !.man.unfinished = FALSE, !.failed = errors,
                              !.wrote = @ \/ WrotePdf]
  <2>1. Goto("index", r) /\ SameOutputs(r)
    BY <1>1, <1>3 DEF PassFinished, SameOutputs, PublishFields
  <2> HIDE DEF r
  <2> QED BY <1>1, <2>1, GoesOnUnpublished
<1> QED BY <1>1, <1>2, <1>3

\* The tools after a pass publish nothing.
LEMMA AfterPassPublished ==
    Published /\ (IndexTools \/ Makeindex \/ Decide \/ Tool \/ NoOutput) => Published'
<1> SUFFICES ASSUME Published, IndexTools \/ Makeindex \/ Decide \/ Tool \/ NoOutput
             PROVE  Published'
  OBVIOUS
<1>1. /\ pc \in {"index", "makeindex", "decide", "tool", "publish"} /\ UNCHANGED visible
      /\ PublishFields(run)
  BY DEF IndexTools, Makeindex, Decide, Tool, NoOutput, Published
<1> DEFINE indexed == [run EXCEPT !.man.idx = aux]
           unindexed == [run.man EXCEPT !.idx = NoAux]
           tried == [run EXCEPT !.done = TRUE]
<1>2. /\ SameOutputs(run) /\ SameOutputs(Produced) /\ SameOutputs(tried) /\ SameOutputs(indexed)
      /\ \A m \in {run.man, NoTool(run.man), unindexed} :
           {"pdf", "sync"} \subseteq DOMAIN m /\ m.pdf = run.man.pdf /\ m.sync = run.man.sync
  <2>1. SameOutputs(run) /\ SameOutputs(Produced) /\ SameOutputs(tried)
    BY <1>1, SameOutputsOf
  <2>2. SameOutputs(indexed)
    BY <1>1 DEF SameOutputs, PublishFields
  <2>3. \A m \in {run.man, NoTool(run.man), unindexed} :
           {"pdf", "sync"} \subseteq DOMAIN m /\ m.pdf = run.man.pdf /\ m.sync = run.man.sync
    BY <1>1, SameOutputsOf DEF PublishFields
  <2> QED BY <2>1, <2>2, <2>3
<1>3. CASE IndexTools \/ Makeindex
  <2>1. \/ Goto("decide", run) \/ Goto("makeindex", run) \/ Goto("decide", indexed)
        \/ Return("failed", unindexed)
    BY <1>3 DEF IndexTools, Makeindex
  <2> HIDE DEF indexed, unindexed
  <2> QED BY <1>1, <1>2, <2>1, GoesOnUnpublished, ReturnsUnpublished
<1>4. CASE Decide
  <2> DEFINE man == IF Adopts(aux)
                    THEN [run.man EXCEPT !.sig = Signature(aux), !.out = srcBbl]
                    ELSE run.man
             kept == IF Ready(aux) THEN man ELSE NoTool(man)
             now == IF Adopts(aux) THEN srcBbl ELSE bbl
             next == [run EXCEPT !.man = kept, !.cites = AuxCites(aux),
                                 !.done = run.done \/ Adopts(aux), !.sig = Signature(aux),
                                 !.changed = run.before # <<aux, bcf, now, ind>>]
  <2>1. \E place \in {"tool", "pass", "publish"} : Goto(place, next)
    BY <1>4 DEF Decide, Settle
  <2>2. {"pdf", "sync"} \subseteq DOMAIN man /\ man.pdf = run.man.pdf /\ man.sync = run.man.sync
    BY <1>1 DEF PublishFields
  <2> HIDE DEF man
  <2>3. {"pdf", "sync"} \subseteq DOMAIN kept /\ kept.pdf = run.man.pdf /\ kept.sync = run.man.sync
    BY <1>1, <2>2, SameOutputsOf
  <2> HIDE DEF kept
  <2>4. SameOutputs(next)
    BY <1>1, <2>3 DEF SameOutputs, PublishFields
  <2> HIDE DEF next
  <2> QED BY <1>1, <2>1, <2>4, GoesOnUnpublished
<1>5. CASE Tool
  <2>1. \/ Goto("pass", Produced) \/ Goto("pass", tried) \/ Goto("publish", tried)
        \/ Return("failed", NoTool(run.man))
    BY <1>5 DEF Tool, Settle
  <2> HIDE DEF tried
  <2> QED BY <1>1, <1>2, <2>1, GoesOnUnpublished, ReturnsUnpublished
<1>6. CASE NoOutput
  BY <1>1, <1>2, <1>6, ReturnsUnpublished DEF NoOutput
<1> QED BY <1>3, <1>4, <1>5, <1>6

(* The SyncTeX data are the staged ones by the time the PDF is published,  *)
(* or the PDF is not published at all.                                     *)
LEMMA PublishSynctexPublished == Published /\ PublishSynctex => Published'
<1> SUFFICES ASSUME Published, PublishSynctex PROVE Published'
  OBVIOUS
<1>1. /\ pc = "publish" /\ pc' = "publishPdf" /\ disk' = disk /\ staged' = staged
      /\ \/ /\ visible' = [visible EXCEPT !.sync = staged]
            /\ run' = [run EXCEPT !.man.sync = staged]
         \/ /\ run.hit /\ run.man.sync # NoPdf
            /\ visible' = visible /\ run' = run
  BY DEF PublishSynctex, Goto, Unpublished
<1>2. /\ PublishFields(run) /\ {"pdf", "sync"} \subseteq DOMAIN visible
      /\ run.man.pdf = disk.pdf /\ run.man.sync = disk.sync /\ visible.pdf = disk.pdf
  BY <1>1 DEF Published
<1>3. CASE visible' = [visible EXCEPT !.sync = staged] /\ run' = [run EXCEPT !.man.sync = staged]
  <2>1. /\ PublishFields(run') /\ run'.man.pdf = run.man.pdf /\ run'.man.sync = staged
        /\ {"pdf", "sync"} \subseteq DOMAIN visible'
        /\ visible'.pdf = visible.pdf /\ visible'.sync = staged
    BY <1>2, <1>3 DEF PublishFields
  <2> QED BY <1>1, <1>2, <2>1 DEF Published, SyncTexKnown, PublishFields
<1>4. CASE run.hit /\ run.man.sync # NoPdf /\ visible' = visible /\ run' = run
  BY <1>1, <1>2, <1>4 DEF Published, SyncTexKnown, PublishFields
<1> QED BY <1>1, <1>3, <1>4

\* The PDF becomes visible after its SyncTeX file.
LEMMA PublishPdfPublished ==
    ASSUME Published, PublishPdf
    PROVE  Published' /\ (visible'.pdf # visible.pdf => visible'.sync = visible'.pdf)
<1>1. /\ pc = "publishPdf" /\ pc' = "save" /\ disk' = disk /\ staged' = staged
      /\ \/ /\ ~(run.hit /\ run.man.pdf # NoPdf /\ visible.pdf = run.man.pdf)
            /\ visible' = [visible EXCEPT !.pdf = staged]
            /\ run' = [run EXCEPT !.man.pdf = staged]
         \/ /\ run.man.pdf # NoPdf
            /\ visible' = visible /\ run' = run
  BY DEF PublishPdf, Goto, Unpublished
<1>2. /\ PublishFields(run) /\ {"pdf", "sync"} \subseteq DOMAIN visible /\ SyncTexKnown(disk)
      /\ run.man.pdf = disk.pdf /\ visible.pdf = disk.pdf
      /\ \/ visible.sync = staged /\ run.man.sync = staged
         \/ run.hit /\ disk.sync # NoPdf /\ run.man.sync = disk.sync
  BY <1>1 DEF Published
<1>3. CASE /\ ~(run.hit /\ run.man.pdf # NoPdf /\ visible.pdf = run.man.pdf)
           /\ visible' = [visible EXCEPT !.pdf = staged]
           /\ run' = [run EXCEPT !.man.pdf = staged]
  <2>1. visible.sync = staged /\ run.man.sync = staged
    BY <1>2, <1>3 DEF SyncTexKnown
  <2>2. /\ PublishFields(run') /\ run'.man.pdf = staged /\ run'.man.sync = run.man.sync
        /\ {"pdf", "sync"} \subseteq DOMAIN visible'
        /\ visible'.pdf = staged /\ visible'.sync = visible.sync
    BY <1>2, <1>3 DEF PublishFields
  <2> QED BY <1>1, <1>2, <2>1, <2>2 DEF Published, SyncTexKnown, PublishFields
<1>4. CASE run.man.pdf # NoPdf /\ visible' = visible /\ run' = run
  BY <1>1, <1>2, <1>4 DEF Published, SyncTexKnown, PublishFields
<1> QED BY <1>1, <1>3, <1>4

\* The ends of a build: saved, or given up.
LEMMA EndPublished ==
    ASSUME Published, \/ Save \/ EngineMissing
                      \/ PublishFails("publish") \/ PublishFails("publishPdf")
    PROVE  Published'
<1>1. CASE Save
  <2>1. pc = "save" /\ pc' = "idle" /\ run' = Fresh /\ disk' = run.man /\ visible' = visible
    BY <1>1 DEF Save, Return
  <2> QED BY <2>1, FreshPublishes DEF Published, SyncTexKnown, PublishFields
<1>2. CASE EngineMissing \/ PublishFails("publish") \/ PublishFails("publishPdf")
  <2>1. /\ pc \in {"engine", "publish", "publishPdf"} /\ visible' = visible
        /\ pc' = "idle" /\ run' = Fresh /\ disk' = disk
    BY <1>2 DEF EngineMissing, PublishFails, Abandon, Return
  <2> QED BY <2>1, FreshPublishes DEF Published, SyncTexKnown
<1> QED BY <1>1, <1>2

\* The user changes sources, never outputs.
LEMMA OutsidePublished ==
    ASSUME Published, EditDoc \/ EditBib \/ PutBbl \/ MinutePasses \/ UNCHANGED vars
    PROVE  Published'
<1>1. UNCHANGED <<disk, staged, visible, pc, run>>
  BY DEF EditDoc, EditBib, PutBbl, MinutePasses, Edit, vars
<1> QED BY <1>1 DEF Published, SyncTexKnown, PublishFields

(* A PDF that becomes visible has its SyncTeX data beside it, of the same  *)
(* pass (the publication order in build): for all documents and faults,    *)
(* also when a publication fails in between, as long as no build is        *)
(* killed.  With kills the outputs and the manifest can be made to         *)
(* disagree on both, and a cache hit then publishes the PDF alone.         *)
THEOREM SynctexFirstHolds ==
    ASSUME "kill" \notin Faults
    PROVE  Spec => SynctexFirst
<1>1. Published /\ [Next]_vars => Published'
  <2> SUFFICES ASSUME Published, [Next]_vars PROVE Published'
    OBVIOUS
  <2>1. ~Kill
    BY DEF Kill
  <2> QED
    BY <2>1, StartPublished, RefreshPublished, PassPublished, EngineEndPublished,
       AfterPassPublished, PublishSynctexPublished, PublishPdfPublished, EndPublished,
       OutsidePublished
    DEF Next, Driver
<1>2. Published /\ [Next]_vars => [visible'.pdf # visible.pdf => visible'.sync = visible'.pdf]_vars
  <2> SUFFICES ASSUME Published, [Next]_vars, visible'.pdf # visible.pdf
               PROVE  visible'.sync = visible'.pdf
    OBVIOUS
  <2>1. CASE PublishPdf
    BY <2>1, PublishPdfPublished
  <2>2. CASE PublishSynctex
    <3>1. visible' = visible \/ visible' = [visible EXCEPT !.sync = staged]
      BY <2>2 DEF PublishSynctex
    <3>2. visible'.pdf = visible.pdf
      BY <3>1 DEF Published
    <3> QED BY <3>2
  <2>3. CASE Start \/ Kill \/ EditDoc \/ EditBib \/ PutBbl \/ MinutePasses \/ UNCHANGED vars
    BY <2>3 DEF Start, Begin, Kill, EditDoc, EditBib, PutBbl, MinutePasses, Edit, vars
  <2>4. CASE Driver /\ ~PublishPdf /\ ~PublishSynctex
    BY <2>4 DEF Driver, Refresh, RefreshTool, BeginPass, Pass, NotConverged, CacheHit,
       EngineStart, EngineMissing, EngineFinish, EngineErrors, EngineStops, IndexTools,
       Makeindex, Decide, Tool, NoOutput, Save, PublishFails
  <2> QED BY <2>1, <2>2, <2>3, <2>4 DEF Next
<1> QED BY <1>1, <1>2, PublishedInit, PTL DEF Spec, SynctexFirst

-----------------------------------------------------------------------------
(* Types.  What a file contains depends on what the build was about when a *)
(* tool was started, so the type invariant needs more than itself.         *)

(* The local variables that the argument is about.                         *)
CountFields(r) == {"passes", "reads", "man"} \subseteq DOMAIN r

(* A build that has started is told from one that has not: it has run a    *)
(* pass, or its own copy of the mark is up.                                *)
RunTyped ==
    /\ CountFields(run)
    /\ run.passes \in 0..MaxPasses
    /\ pc = "idle" => run = Fresh
    /\ pc \in AfterPass \cup {"engine", "running"} => run.passes > 0
    /\ pc = "pass" /\ run.passes = 0 => run.man.unfinished
    /\ pc \in AfterPass \cup {"idle", "refresh", "refreshTool", "pass", "engine", "running"}
    /\ pc = "running" => run.reads.doc \in Docs

SourcesTyped ==
    /\ doc \in Docs
    /\ bib \in Bibs \cup NoBibs
    /\ srcBbl.by \in {"none", "source"}
    /\ srcBbl.by = "source" <=> srcBbl.cites # NoCites
    /\ srcNew => srcBbl # NoBbl
    /\ moved \in BOOLEAN
    /\ left \in 0..MaxEvents

AuxTyped ==
    /\ aux.state \in {"none", "trivial", "cut", "full"}
    /\ aux.state \in {"none", "trivial"} <=> aux.doc = NoDoc
    /\ bcf.state \in {"none", "cut", "full"}
    /\ bcf.state = "full" <=> bcf.cites # NoCites

OutputsTyped ==
    /\ bbl.by \in {"none", "part", "source", "tool"}
    /\ bbl.by \in {"source", "tool"} <=> bbl.cites # NoCites
    /\ ind.by \in {"none", "part", "tool"}
    /\ ind.by = "tool" <=> ind.of # NoAux

(* A tool is started for citations that there are, makeindex for an .idx.  *)
ToolsHaveInput ==
    /\ pc \in {"refreshTool", "tool"} => ToolCites(aux) # NoCites
    /\ pc = "makeindex" => aux.state = "full"

ReportTyped == report \in {"none", "ok", "errors", "failed", "killed"}

TInv ==
    /\ DInv /\ RunTyped /\ SourcesTyped /\ AuxTyped /\ OutputsTyped /\ ToolsHaveInput
    /\ ReportTyped

(* Init satisfies TInv.                                                    *)
LEMMA InitTInv == Init => TInv
<1> SUFFICES ASSUME Init PROVE TInv
  OBVIOUS
<1>1. CountFields(Fresh) /\ Fresh.passes = 0
  BY DEF CountFields, Fresh
<1>2. RunTyped
  BY <1>1, DriverAssumption DEF Init, RunTyped, AfterPass
<1>3. SourcesTyped /\ ReportTyped
  <2>1. MaxEvents \in 0..MaxEvents
    BY DriverAssumption
  <2>2. srcBbl.by = "none" /\ srcBbl.cites = NoCites
    BY DEF Init, NoBbl
  <2> QED BY <2>1, <2>2 DEF Init, SourcesTyped, ReportTyped
<1>4. AuxTyped /\ OutputsTyped /\ ToolsHaveInput
  BY DEF Init, AuxTyped, OutputsTyped, ToolsHaveInput, NoAux, NoBcf, NoBbl, NoInd, NoDoc
<1> QED BY <1>2, <1>3, <1>4, InitDInv DEF TInv

(* The sources are the user's, and only the user's steps change them.      *)
LEMMA SourcesStep == TInv /\ [Next]_vars => SourcesTyped'
<1> SUFFICES ASSUME TInv, [Next]_vars PROVE SourcesTyped'
  OBVIOUS
<1>1. left' = left \/ (left > 0 /\ left' = left - 1)
  BY DEF Next, Driver, Start, Begin, Refresh, RefreshTool, BeginPass, Pass, NotConverged, CacheHit,
     EngineStart, EngineMissing, EngineFinish, EngineErrors, EngineStops, IndexTools,
     Makeindex, Decide, Tool, NoOutput, PublishSynctex, PublishPdf, Save, PublishFails, Kill,
     EditDoc, EditBib, PutBbl, MinutePasses, Edit, Event, vars, sources
<1>2. left' \in 0..MaxEvents
  BY <1>1, DriverAssumption DEF TInv, SourcesTyped
<1>3. moved' \in BOOLEAN
  BY DEF TInv, SourcesTyped, Next, Driver, Start, Begin, Refresh, RefreshTool, BeginPass, Pass, NotConverged, CacheHit,
     EngineStart, EngineMissing, EngineFinish, EngineErrors, EngineStops, IndexTools,
     Makeindex, Decide, Tool, NoOutput, PublishSynctex, PublishPdf, Save, PublishFails, Kill,
     EditDoc, EditBib, PutBbl, MinutePasses, Edit, vars, sources
<1>4. \/ UNCHANGED files
      \/ doc' \in Docs /\ UNCHANGED <<bib, srcBbl, srcNew>>
      \/ bib' \in Bibs \cup NoBibs /\ srcNew' = FALSE /\ UNCHANGED <<doc, srcBbl>>
      \/ /\ Cites[doc] # NoCites /\ srcBbl' = ProjectBblFor(Cites[doc], bib)
         /\ UNCHANGED <<doc, bib>>
  BY DEF Next, Driver, Start, Begin, Refresh, RefreshTool, BeginPass, Pass, NotConverged, CacheHit,
     EngineStart, EngineMissing, EngineFinish, EngineErrors, EngineStops, IndexTools,
     Makeindex, Decide, Tool, NoOutput, PublishSynctex, PublishPdf, Save, PublishFails, Kill,
     EditDoc, EditBib, PutBbl, MinutePasses, Edit, vars, sources
<1>5. ASSUME Cites[doc] # NoCites, srcBbl' = ProjectBblFor(Cites[doc], bib)
      PROVE  srcBbl'.by = "source" /\ srcBbl'.cites # NoCites /\ srcBbl' # NoBbl
  BY <1>5 DEF ProjectBblFor, NoBbl
<1> QED BY <1>2, <1>3, <1>4, <1>5 DEF TInv, SourcesTyped, files

(* A pass, cut short or not, writes the files of the document it has read. *)
LEMMA EngineTyped ==
    ASSUME TInv, EngineStart \/ (pc = "running" /\ \E errors \in BOOLEAN : EngineWrites(errors))
    PROVE  AuxTyped'
<1>1. \A d \in Docs : d # NoDoc
  BY DriverAssumption DEF NoDoc
<1>2. CASE EngineStart
  <2>1. aux' = CutAux(doc) /\ bcf' = BrokenBcf(doc) /\ doc \in Docs
    BY <1>2 DEF EngineStart, TInv, SourcesTyped
  <2>2. aux'.state = "cut" /\ aux'.doc = doc
    BY <2>1 DEF CutAux, NoAux
  <2>3. bcf' = bcf \/ bcf' = CutBcf
    BY <2>1 DEF BrokenBcf
  <2> QED BY <1>1, <2>1, <2>2, <2>3 DEF TInv, AuxTyped, CutBcf
<1>3. CASE pc = "running" /\ \E errors \in BOOLEAN : EngineWrites(errors)
  <2> DEFINE d == run.reads.doc
  <2>1. /\ aux' = NewAux(d, run.before[1], bbl, ind) /\ bcf' = NewBcf(d) /\ d \in Docs
    BY <1>3 DEF EngineWrites, TInv, RunTyped
  <2> HIDE DEF d
  <2>2. \/ aux'.state = "trivial" /\ aux'.doc = NoDoc
        \/ aux'.state = "full" /\ aux'.doc = d
    BY <2>1 DEF NewAux, TrivialAux, NoAux
  <2>3. bcf' = bcf \/ (d \in BiberDocs /\ bcf'.state = "full" /\ bcf'.cites = Cites[d])
    BY <2>1 DEF NewBcf
  <2> QED BY <1>1, <2>1, <2>2, <2>3, DriverAssumption DEF TInv, AuxTyped
<1> QED BY <1>2, <1>3

(* No other step writes them but the loop's entry, with the trivial .aux.  *)
LEMMA AuxStep == TInv /\ [Next]_vars => AuxTyped'
<1> SUFFICES ASSUME TInv, [Next]_vars PROVE AuxTyped'
  OBVIOUS
<1>1. \/ UNCHANGED <<aux, bcf>> \/ (aux' = TrivialAux /\ UNCHANGED bcf)
      \/ EngineStart \/ (pc = "running" /\ \E errors \in BOOLEAN : EngineWrites(errors))
  BY DEF Next, Driver, Start, Begin, Refresh, RefreshTool, EnterLoop, BeginPass, Pass, NotConverged, CacheHit,
     EngineMissing, EngineFinish, EngineErrors, EngineStops, IndexTools,
     Makeindex, Decide, Tool, NoOutput, PublishSynctex, PublishPdf, Save, PublishFails, Kill,
     EditDoc, EditBib, PutBbl, MinutePasses, Edit, vars, sources
<1>2. ASSUME aux' = TrivialAux PROVE aux'.state = "trivial" /\ aux'.doc = NoDoc
  BY <1>2 DEF TrivialAux, NoAux
<1> QED BY <1>1, <1>2, EngineTyped DEF TInv, AuxTyped

(* A tool writes entries for the citations it found, or leaves a part; the *)
(* other .bbl files are the project's; an .ind is of the .idx that a       *)
(* finished pass left.                                                     *)
LEMMA OutputsStep == TInv /\ [Next]_vars => OutputsTyped'
<1> SUFFICES ASSUME TInv, [Next]_vars PROVE OutputsTyped'
  OBVIOUS
<1>1. \/ bbl' \in {bbl, srcBbl, NoBbl, PartBbl}
      \/ /\ pc \in {"refreshTool", "tool"}
         /\ \E b : bbl' = ToolBbl(ToolCites(aux), b)
  BY DEF Next, Driver, Start, Begin, Refresh, RefreshTool, BeginPass, Pass, NotConverged, CacheHit,
     EngineStart, EngineMissing, EngineFinish, EngineErrors, EngineStops, IndexTools,
     Makeindex, Decide, Tool, NoOutput, PublishSynctex, PublishPdf, Save, PublishFails, Kill,
     EditDoc, EditBib, PutBbl, MinutePasses, Edit, vars, sources
<1>2. \/ ind' \in {ind, NoInd, PartInd}
      \/ pc = "makeindex" /\ ind' = ToolInd(aux)
  BY DEF Next, Driver, Start, Begin, Refresh, RefreshTool, BeginPass, Pass, NotConverged, CacheHit,
     EngineStart, EngineMissing, EngineFinish, EngineErrors, EngineStops, IndexTools,
     Makeindex, Decide, Tool, NoOutput, PublishSynctex, PublishPdf, Save, PublishFails, Kill,
     EditDoc, EditBib, PutBbl, MinutePasses, Edit, vars, sources
<1>3. /\ bbl'.by \in {"none", "part", "source", "tool"}
      /\ bbl'.by \in {"source", "tool"} <=> bbl'.cites # NoCites
  <2>1. CASE bbl' \in {bbl, srcBbl, NoBbl, PartBbl}
    BY <2>1 DEF TInv, OutputsTyped, SourcesTyped, NoBbl, PartBbl
  <2>2. CASE pc \in {"refreshTool", "tool"} /\ \E b : bbl' = ToolBbl(ToolCites(aux), b)
    BY <2>2 DEF TInv, ToolsHaveInput, ToolBbl
  <2> QED BY <1>1, <2>1, <2>2
<1>4. ind'.by \in {"none", "part", "tool"} /\ (ind'.by = "tool" <=> ind'.of # NoAux)
  <2>1. CASE ind' \in {ind, NoInd, PartInd}
    BY <2>1 DEF TInv, OutputsTyped, NoInd, PartInd
  <2>2. CASE pc = "makeindex" /\ ind' = ToolInd(aux)
    <3>1. aux.state = "full" /\ NoAux.state = "none"
      BY <2>2 DEF TInv, ToolsHaveInput, NoAux
    <3> QED BY <2>2, <3>1 DEF ToolInd
  <2> QED BY <1>2, <2>1, <2>2
<1> QED BY <1>3, <1>4 DEF OutputsTyped

(* The report is that of a build that has ended, or none.                  *)
LEMMA ReportStep == TInv /\ [Next]_vars => ReportTyped'
BY DEF TInv, ReportTyped, Next, Driver, Start, Begin, Return, Abandon, Goto, Settle, EnterLoop,
   PassFinished, Refresh, RefreshTool, BeginPass, Pass, NotConverged, CacheHit, EngineStart,
   EngineMissing, EngineFinish, EngineErrors, EngineStops, IndexTools, Makeindex, Decide, Tool,
   NoOutput, PublishSynctex, PublishPdf, Save, PublishFails, Kill, EditDoc, EditBib, PutBbl,
   MinutePasses, Edit, vars

(* Local variables that differ from the build's, but not in its passes.    *)
SameCount(r) ==
    /\ CountFields(r)
    /\ r.passes = run.passes
    /\ r.reads = run.reads

(* A build that has not started has counted nothing.                       *)
LEMMA FreshCount == CountFields(Fresh) /\ Fresh.passes = 0
BY DEF CountFields, Fresh

(* A build that ends leaves the variables of one that has not started.     *)
LEMMA EndTyped ==
    ASSUME TInv, NEW status, NEW m, Return(status, m)
    PROVE  RunTyped' /\ ToolsHaveInput'
<1>1. pc' = "idle" /\ run' = Fresh
  BY DEF Return
<1>2. RunTyped'
  BY <1>1, FreshCount, DriverAssumption DEF RunTyped, AfterPass
<1> QED BY <1>1, <1>2 DEF ToolsHaveInput

(* A build goes on from a pass or after one, and a first pass under the    *)
(* mark.                                                                   *)
LEMMA GoesOnTyped ==
    ASSUME TInv, NEW place, NEW r, Goto(place, r), SameCount(r),
           \/ /\ pc \in AfterPass \cup {"engine", "running"}
              /\ place \in AfterPass \cup {"pass"}
           \/ place \in {"pass", "refreshTool"} /\ r.man.unfinished
    PROVE  RunTyped'
<1>1. pc' = place /\ run' = r
  BY DEF Goto
<1>2. run.passes \in Nat
  BY DEF TInv, RunTyped
<1> QED BY <1>1, <1>2 DEF TInv, RunTyped, SameCount, AfterPass

(* The copies of the local variables that the actions make.                *)
LEMMA SameCounts ==
    ASSUME CountFields(run)
    PROVE  /\ SameCount(run) /\ SameCount(Produced)
           /\ \A d : SameCount([run EXCEPT !.done = d])
           /\ \A m : SameCount([run EXCEPT !.man = m])
BY DEF CountFields, SameCount, Produced

(* The first pass is entered under the mark that Start put up.             *)
LEMMA EnterLoopTyped ==
    ASSUME TInv, NEW r, EnterLoop(r), SameCount(r), r.man.unfinished
    PROVE  RunTyped' /\ ToolsHaveInput'
<1> DEFINE q == [r EXCEPT !.trivial = aux.state = "none"]
<1>1. Goto("pass", q)
  BY DEF EnterLoop
<1>2. SameCount(q) /\ q.man.unfinished
  BY DEF SameCount, CountFields
<1> HIDE DEF q
<1>3. RunTyped'
  BY <1>1, <1>2, GoesOnTyped
<1> QED BY <1>1, <1>3 DEF Goto, ToolsHaveInput

(* The bibliography is ready only if there are citations to look for.      *)
LEMMA ReadyCites ==
    ASSUME TInv, Ready(aux) \/ Signature(aux) # NoSig
    PROVE  ToolCites(aux) # NoCites
<1>1. Ready(aux)
  BY DEF Signature
<1>2. CASE UsesBiber(aux)
  BY <1>1, <1>2 DEF Ready, ToolCites, TInv, AuxTyped
<1>3. CASE ~UsesBiber(aux)
  BY <1>1, <1>3 DEF Ready, ToolCites
<1> QED BY <1>2, <1>3

(* What a tool looks for is in the .aux and the .bcf.                      *)
LEMMA SameToolCites ==
    ASSUME UNCHANGED <<aux, bcf>>
    PROVE  ToolCites(aux)' = ToolCites(aux)
BY DEF ToolCites, UsesBiber, AuxCites

(* A build starts with the mark up.                                        *)
LEMMA StartTyped == TInv /\ Start => RunTyped' /\ ToolsHaveInput'
<1> SUFFICES ASSUME TInv, Start PROVE RunTyped' /\ ToolsHaveInput'
  OBVIOUS
<1>1. /\ pc' = "refresh"
      /\ run' = [Fresh EXCEPT !.prior = disk.unfinished, !.complete = AuxComplete(aux),
                              !.man = [disk EXCEPT !.unfinished = TRUE]]
  BY DEF Start, Begin
<1>2. CountFields(run') /\ run'.passes = 0
  BY <1>1, FreshCount DEF CountFields
<1> QED BY <1>1, <1>2, DriverAssumption DEF RunTyped, ToolsHaveInput, AfterPass

(* The refresh starts a tool only for citations, and keeps the mark up.    *)
LEMMA RefreshTyped == TInv /\ (Refresh \/ RefreshTool) => RunTyped' /\ ToolsHaveInput'
<1> SUFFICES ASSUME TInv, Refresh \/ RefreshTool PROVE RunTyped' /\ ToolsHaveInput'
  OBVIOUS
<1> DEFINE man == IF Adopts(aux)
                  THEN [run.man EXCEPT !.sig = Signature(aux), !.out = srcBbl]
                  ELSE run.man
           known == [run EXCEPT !.man = man, !.cites = AuxCites(aux),
                                !.done = Adopts(aux), !.sig = Signature(aux)]
           none == [run EXCEPT !.man = NoTool(run.man)]
           tried == [run EXCEPT !.done = TRUE]
<1>1. pc \in {"refresh", "refreshTool"} /\ UNCHANGED bcf /\ CountFields(run)
  BY DEF Refresh, RefreshTool, TInv, RunTyped
<1>2. run.man.unfinished /\ HasMark(run)
  BY <1>1 DEF TInv, DInv, Shape, UpInPass
<1>3. man.unfinished
  BY <1>2 DEF HasMark
<1>4. SameCount(known) /\ known.man.unfinished
  <2> HIDE DEF man
  <2> QED BY <1>1, <1>3 DEF SameCount, CountFields
<1>5. SameCount(none) /\ none.man.unfinished
  <2>1. NoTool(run.man).unfinished
    BY <1>2, NoToolKeepsMark DEF HasMark
  <2> QED BY <1>1, <2>1 DEF SameCount, CountFields
<1>6. SameCount(tried) /\ tried.man.unfinished
  BY <1>1, <1>2, SameCounts DEF CountFields
<1>7. SameCount(Produced) /\ Produced.man.unfinished
  BY <1>1, <1>2, SameCounts, ProducedKeepsMark
<1>8. \/ EnterLoop(none) \/ EnterLoop(known) \/ EnterLoop(Produced) \/ EnterLoop(tried)
      \/ Goto("refreshTool", known) /\ Signature(aux) # NoSig /\ UNCHANGED aux
      \/ Return("failed", NoTool(run.man))
  BY DEF Refresh, RefreshTool
<1> HIDE DEF known, none, tried
<1>9. CASE Goto("refreshTool", known) /\ Signature(aux) # NoSig /\ UNCHANGED aux
  <2>1. RunTyped'
    BY <1>4, <1>9, GoesOnTyped
  <2>2. ToolCites(aux)' # NoCites
    BY <1>1, <1>9, ReadyCites, SameToolCites
  <2> QED BY <1>9, <2>1, <2>2 DEF Goto, ToolsHaveInput
<1> QED BY <1>4, <1>5, <1>6, <1>7, <1>8, <1>9, EnterLoopTyped, EndTyped

(* Passes are counted up to MAX_PASSES.                                    *)
LEMMA PassTyped ==
    ASSUME TInv, BeginPass \/ CacheHit \/ EngineStart
    PROVE  RunTyped' /\ ToolsHaveInput'
<1>1. CountFields(run) /\ run.passes \in 0..MaxPasses /\ doc \in Docs
  BY DEF TInv, RunTyped, SourcesTyped
<1>2. CASE BeginPass
  <2>1. /\ pc' = "engine" /\ run.passes < MaxPasses
        /\ run' = [run EXCEPT !.passes = run.passes + 1,
                              !.man = [run.man EXCEPT !.unfinished = TRUE],
                              !.before = <<aux, bcf, bbl, ind>>]
    BY <1>2 DEF BeginPass, Pass
  <2>2. CountFields(run') /\ run'.passes = run.passes + 1
    BY <1>1, <2>1 DEF CountFields
  <2> QED BY <1>1, <2>1, <2>2, DriverAssumption DEF RunTyped, ToolsHaveInput, AfterPass
<1>3. CASE CacheHit
  <2> DEFINE fin == [run EXCEPT !.man.unfinished = FALSE, !.wrote = TRUE, !.failed = FALSE]
             hit == [fin EXCEPT !.hit = TRUE]
  <2>1. pc = "engine" /\ (Goto("publish", hit) \/ Goto("index", fin))
    BY <1>3 DEF CacheHit
  <2>2. SameCount(fin)
    BY <1>1 DEF SameCount, CountFields
  <2> HIDE DEF fin
  <2>3. SameCount(hit)
    BY <2>2 DEF SameCount, CountFields
  <2> HIDE DEF hit
  <2>4. RunTyped'
    BY <2>1, <2>2, <2>3, GoesOnTyped DEF AfterPass
  <2> QED BY <2>1, <2>4 DEF Goto, ToolsHaveInput
<1>4. CASE EngineStart
  <2>1. /\ pc = "engine" /\ pc' = "running"
        /\ run' = [run EXCEPT !.reads = Reads(doc, aux, bbl, ind)]
    BY <1>4 DEF EngineStart, Goto
  <2>2. CountFields(run') /\ run'.passes = run.passes /\ run'.reads = Reads(doc, aux, bbl, ind)
    BY <1>1, <2>1 DEF CountFields
  <2>3. run'.reads.doc \in Docs
    BY <1>1, <2>2, AuxOfReads
  <2>4. run.passes > 0
    BY <2>1 DEF TInv, RunTyped
  <2> QED BY <1>1, <2>1, <2>2, <2>3, <2>4 DEF RunTyped, ToolsHaveInput, AfterPass
<1> QED BY <1>2, <1>3, <1>4

(* The end of a pass, and what follows it.                                 *)
LEMMA AfterPassTyped ==
    ASSUME TInv, \/ EngineFinish \/ EngineErrors \/ EngineStops
                 \/ IndexTools \/ Makeindex \/ Decide \/ Tool \/ PublishSynctex \/ PublishPdf
    PROVE  RunTyped' /\ ToolsHaveInput'
<1>1. CountFields(run)
  BY DEF TInv, RunTyped
<1>2. CASE EngineFinish \/ EngineErrors \/ EngineStops
  <2>1. /\ pc = "running"
        /\ Return("failed", run.man) \/ \E errors \in BOOLEAN : PassFinished(errors)
    BY <1>2 DEF EngineFinish, EngineErrors, EngineStops
  <2>2. ASSUME NEW errors \in BOOLEAN, PassFinished(errors) PROVE RunTyped' /\ ToolsHaveInput'
    <3> DEFINE r == [run EXCEPT !.man.unfinished = FALSE, !.failed = errors,
                                !.wrote = @ \/ WrotePdf]
    <3>1. Goto("index", r) /\ SameCount(r)
      BY <1>1, <2>2 DEF PassFinished, SameCount, CountFields
    <3> HIDE DEF r
    <3>2. RunTyped'
      BY <2>1, <3>1, GoesOnTyped DEF AfterPass
    <3> QED BY <3>1, <3>2 DEF Goto, ToolsHaveInput
  <2> QED BY <2>1, <2>2, EndTyped
<1>3. CASE IndexTools \/ Makeindex
  <2> DEFINE indexed == [run EXCEPT !.man.idx = aux]
  <2>1. /\ pc \in AfterPass /\ UNCHANGED aux
        /\ \/ Goto("decide", run) \/ Goto("decide", indexed)
           \/ Goto("makeindex", run) /\ aux.state = "full"
           \/ \E m : Return("failed", m)
    BY <1>3 DEF IndexTools, Makeindex, AfterPass
  <2>2. SameCount(run) /\ SameCount(indexed)
    BY <1>1 DEF SameCount, CountFields
  <2> HIDE DEF indexed
  <2>3. pc' = "makeindex" => aux'.state = "full"
    BY <2>1 DEF Goto, Return
  <2>4. CASE Goto("decide", run) \/ Goto("decide", indexed) \/ Goto("makeindex", run)
    <3>1. RunTyped'
      BY <2>1, <2>2, <2>4, GoesOnTyped DEF AfterPass
    <3> QED BY <2>3, <2>4, <3>1 DEF Goto, ToolsHaveInput
  <2> QED BY <2>1, <2>4, EndTyped
<1>4. CASE Decide
  <2> DEFINE next(m, d, c) == [run EXCEPT !.man = m, !.cites = AuxCites(aux), !.done = d,
                                          !.sig = Signature(aux), !.changed = c]
  <2>1. /\ pc = "decide" /\ UNCHANGED <<aux, bcf>>
        /\ \E m, d, c : \/ Goto("tool", next(m, d, c)) /\ Ready(aux)
                        \/ Goto("pass", next(m, d, c)) \/ Goto("publish", next(m, d, c))
    BY <1>4 DEF Decide, Settle
  <2>2. PICK m, d, c : \/ Goto("tool", next(m, d, c)) /\ Ready(aux)
                       \/ Goto("pass", next(m, d, c)) \/ Goto("publish", next(m, d, c))
    BY <2>1
  <2>3. SameCount(next(m, d, c))
    BY <1>1 DEF SameCount, CountFields
  <2> HIDE DEF next
  <2>4. RunTyped'
    BY <2>1, <2>2, <2>3, GoesOnTyped DEF AfterPass
  <2>5. pc' = "tool" => ToolCites(aux)' # NoCites
    BY <2>1, <2>2, ReadyCites, SameToolCites DEF Goto
  <2> QED BY <2>2, <2>4, <2>5 DEF Goto, ToolsHaveInput
<1>5. CASE Tool
  <2> DEFINE tried == [run EXCEPT !.done = TRUE]
  <2>1. /\ pc = "tool"
        /\ \/ Goto("pass", Produced) \/ Goto("pass", tried) \/ Goto("publish", tried)
           \/ Return("failed", NoTool(run.man))
    BY <1>5 DEF Tool, Settle
  <2>2. SameCount(Produced) /\ SameCount(tried)
    BY <1>1, SameCounts
  <2> HIDE DEF tried
  <2>3. CASE Goto("pass", Produced) \/ Goto("pass", tried) \/ Goto("publish", tried)
    BY <2>1, <2>2, <2>3, GoesOnTyped DEF AfterPass, Goto, ToolsHaveInput
  <2> QED BY <2>1, <2>3, EndTyped
<1>6. CASE PublishSynctex \/ PublishPdf
  <2> DEFINE sync == [run EXCEPT !.man.sync = staged]
             pdf == [run EXCEPT !.man.pdf = staged]
  <2>1. /\ pc \in AfterPass
        /\ \E place \in {"publishPdf", "save"} :
             Goto(place, run) \/ Goto(place, sync) \/ Goto(place, pdf)
    BY <1>6 DEF PublishSynctex, PublishPdf, AfterPass
  <2>2. SameCount(run) /\ SameCount(sync) /\ SameCount(pdf)
    BY <1>1 DEF SameCount, CountFields
  <2> HIDE DEF sync, pdf
  <2> QED BY <2>1, <2>2, GoesOnTyped DEF AfterPass, Goto, ToolsHaveInput
<1> QED BY <1>2, <1>3, <1>4, <1>5, <1>6

(* Every step keeps TInv.                                                  *)
LEMMA TInvStep == TInv /\ [Next]_vars => TInv'
<1> SUFFICES ASSUME TInv, [Next]_vars PROVE TInv'
  OBVIOUS
<1>1. DInv' /\ SourcesTyped' /\ AuxTyped' /\ OutputsTyped' /\ ReportTyped'
  BY NextDInv, SourcesStep, AuxStep, OutputsStep, ReportStep DEF TInv
<1>2. CASE \/ NotConverged \/ NoOutput \/ Save \/ EngineMissing \/ Kill
           \/ PublishFails("publish") \/ PublishFails("publishPdf")
  <2>1. \E status, m : Return(status, m)
    BY <1>2 DEF NotConverged, NoOutput, Save, EngineMissing, Kill, PublishFails, Abandon
  <2> QED BY <1>1, <2>1, EndTyped DEF TInv
<1>3. CASE EditDoc \/ EditBib \/ PutBbl \/ MinutePasses \/ UNCHANGED vars
  <2>1. UNCHANGED <<aux, bcf, pc, run>>
    BY <1>3 DEF EditDoc, EditBib, PutBbl, MinutePasses, Edit, vars
  <2>2. RunTyped'
    BY <2>1 DEF TInv, RunTyped, CountFields
  <2>3. ToolsHaveInput'
    BY <2>1, SameToolCites DEF TInv, ToolsHaveInput
  <2> QED BY <1>1, <2>2, <2>3 DEF TInv
<1> QED
  BY <1>1, <1>2, <1>3, StartTyped, RefreshTyped, PassTyped, AfterPassTyped DEF Next, Driver, TInv

(* TInv is an invariant.                                                   *)
THEOREM TInvHolds == Spec => []TInv
BY InitTInv, TInvStep, PTL DEF Spec

(* Every file of the driver has contents of its kind, a build counts its   *)
(* passes up to MAX_PASSES, and its local variables are those of a new     *)
(* build exactly when none runs: whatever the documents, edits and faults. *)
THEOREM TypesHold == Spec => []TypeOK
<1>1. TInv => TypeOK
  <2> SUFFICES ASSUME TInv PROVE TypeOK
    OBVIOUS
  <2>1. pc = "idle" <=> run = Fresh
    <3>1. pc # "idle" => run.passes > 0 \/ run.man.unfinished
      BY DEF TInv, RunTyped, DInv, UpInPass, AfterPass
    <3>2. Fresh.passes = 0 /\ ~Fresh.man.unfinished
      BY DEF Fresh, NewManifest
    <3> QED BY <3>1, <3>2 DEF TInv, RunTyped
  <2>2. run.passes \in 0..MaxPasses
    BY DEF TInv, RunTyped
  <2> QED
    BY <2>1, <2>2 DEF TInv, SourcesTyped, AuxTyped, OutputsTyped, ReportTyped, TypeOK
<1> QED BY <1>1, TInvHolds, PTL
-----------------------------------------------------------------------------
(* The document of a build.  The files that a build leaves are of the      *)
(* document it was started for, unless that was edited.                    *)

AuxOfDoc ==
    /\ pc = "running" /\ ~moved => run.reads.doc = doc
    /\ (pc \in AfterPass \/ Ended) /\ ~moved /\ doc \notin OnePageDocs =>
         aux.state = "full" /\ aux.doc = doc

ReportsAtEnd == pc # "idle" => report = "none"

OfDocument == RecordIsStable /\ AuxOfDoc /\ ReportsAtEnd /\ "reads" \in DOMAIN run

(* A pass that ends writes the files of the document it has read.          *)
LEMMA NewAuxOfDoc ==
    ASSUME NEW d, NEW a, NEW b, NEW i, d \notin OnePageDocs
    PROVE  NewAux(d, a, b, i).state = "full" /\ NewAux(d, a, b, i).doc = d
BY DEF NewAux

(* OfDocument is kept, whatever fails.                                     *)
LEMMA OfDocumentStep == OfDocument /\ [Next]_vars => OfDocument'
<1> SUFFICES ASSUME OfDocument, [Next]_vars PROVE OfDocument'
  OBVIOUS
<1>1. RecordIsStable'
  BY RecordStep DEF OfDocument
<1>2. "reads" \in DOMAIN Fresh
  BY DEF Fresh
<1>3. CASE Save
  <2>1. pc = "save" /\ pc' = "idle" /\ run' = Fresh /\ UNCHANGED <<doc, moved, aux>>
    BY <1>3 DEF Save, Return, sources, files
  <2> QED BY <1>1, <1>2, <2>1 DEF OfDocument, AuxOfDoc, ReportsAtEnd, AfterPass
<1>4. CASE \E m : Return("failed", m) \/ Return("killed", m)
  BY <1>1, <1>2, <1>4 DEF Return, OfDocument, AuxOfDoc, ReportsAtEnd, Ended, AfterPass
<1>5. CASE Start
  <2>1. /\ pc' = "refresh" /\ report' = "none"
        /\ run' = [Fresh EXCEPT !.prior = disk.unfinished, !.complete = AuxComplete(aux),
                                !.man = [disk EXCEPT !.unfinished = TRUE]]
    BY <1>5 DEF Start, Begin
  <2> QED BY <1>1, <1>2, <2>1 DEF OfDocument, AuxOfDoc, ReportsAtEnd, Ended, AfterPass
<1>6. CASE \/ RefreshTool \/ Refresh \/ BeginPass \/ IndexTools \/ Makeindex \/ Decide \/ Tool
           \/ PublishSynctex \/ PublishPdf
  <2>1. CASE RefreshTool \/ Refresh \/ BeginPass
    <3>1. \/ Return("failed", NoTool(run.man))
          \/ /\ pc # "idle" /\ pc' \in {"refreshTool", "pass", "engine"} /\ report' = report
             /\ "reads" \in DOMAIN run'
      BY <2>1 DEF Refresh, RefreshTool, BeginPass, Pass, EnterLoop, Goto, OfDocument, Produced
    <3> QED BY <1>1, <1>4, <3>1 DEF OfDocument, AuxOfDoc, ReportsAtEnd, Ended, AfterPass
  <2>2. CASE IndexTools \/ Makeindex \/ Decide \/ Tool \/ PublishSynctex \/ PublishPdf
    <3>1. /\ pc \in AfterPass /\ UNCHANGED <<doc, moved, aux>>
          /\ \/ \E m : Return("failed", m)
             \/ /\ pc' \in AfterPass \cup {"pass"} /\ report' = report
                /\ "reads" \in DOMAIN run'
      <4>1. CASE IndexTools \/ Makeindex
        BY <4>1 DEF IndexTools, Makeindex, Goto, OfDocument, AfterPass, sources, files
      <4>2. CASE Decide
        BY <4>2 DEF Decide, Settle, Goto, OfDocument, AfterPass, sources, files
      <4>3. CASE Tool
        BY <4>3 DEF Tool, Settle, Produced, Goto, OfDocument, AfterPass, sources, files
      <4>4. CASE PublishSynctex \/ PublishPdf
        BY <4>4 DEF PublishSynctex, PublishPdf, Goto, OfDocument, AfterPass, sources, files
      <4> QED BY <2>2, <4>1, <4>2, <4>3, <4>4
    <3> QED BY <1>1, <1>4, <3>1 DEF OfDocument, AuxOfDoc, ReportsAtEnd, Ended, AfterPass
  <2> QED BY <1>6, <2>1, <2>2
<1>7. CASE CacheHit
  <2>1. /\ pc = "engine" /\ Hit /\ pc' \in {"publish", "index"} /\ "reads" \in DOMAIN run'
        /\ UNCHANGED <<doc, moved, aux, report>>
    BY <1>7 DEF CacheHit, Goto, OfDocument, sources, files
  <2>2. doc \notin OnePageDocs => aux.state = "full" /\ aux.doc = doc
    BY <2>1, HitStable, NewAuxOfDoc DEF OfDocument
  <2> QED BY <1>1, <2>1, <2>2 DEF OfDocument, AuxOfDoc, ReportsAtEnd
<1>8. CASE EngineStart
  <2>1. /\ pc = "engine" /\ pc' = "running" /\ UNCHANGED <<doc, moved, report>>
        /\ run' = [run EXCEPT !.reads = Reads(doc, aux, bbl, ind)]
    BY <1>8 DEF EngineStart, Goto, sources, files
  <2>2. "reads" \in DOMAIN run' /\ run'.reads.doc = doc
    BY <2>1, AuxOfReads DEF OfDocument
  <2> QED BY <1>1, <2>1, <2>2 DEF OfDocument, AuxOfDoc, ReportsAtEnd, Ended, AfterPass
<1>9. CASE EngineFinish \/ EngineErrors
  <2>1. /\ pc = "running" /\ UNCHANGED <<doc, moved>>
        /\ aux' = NewAux(run.reads.doc, run.before[1], bbl, ind)
        /\ Return("failed", run.man) \/ \E errors : PassFinished(errors)
    BY <1>9 DEF EngineFinish, EngineErrors, EngineWrites, sources, files
  <2>2. ASSUME NEW errors, PassFinished(errors)
        PROVE  pc' = "index" /\ report' = report /\ "reads" \in DOMAIN run'
    BY <2>2 DEF PassFinished, Goto, OfDocument
  <2>3. ~moved /\ doc \notin OnePageDocs => aux'.state = "full" /\ aux'.doc = doc
    BY <2>1, NewAuxOfDoc DEF OfDocument, AuxOfDoc
  <2> QED BY <1>1, <1>4, <2>1, <2>2, <2>3 DEF OfDocument, AuxOfDoc, ReportsAtEnd
<1>10. CASE EditDoc \/ EditBib \/ PutBbl \/ MinutePasses \/ UNCHANGED vars
  <2>1. UNCHANGED <<aux, pc, run, report>> /\ (moved' \/ UNCHANGED <<doc, moved>>)
    BY <1>10 DEF EditDoc, EditBib, PutBbl, MinutePasses, Edit, vars, sources, files
  <2> QED BY <1>1, <2>1 DEF OfDocument, AuxOfDoc, ReportsAtEnd, Ended
<1>11. CASE \/ NotConverged \/ NoOutput \/ EngineStops \/ EngineMissing \/ Kill
            \/ PublishFails("publish") \/ PublishFails("publishPdf")
  BY <1>4, <1>11 DEF NotConverged, NoOutput, EngineStops, EngineMissing, Kill, PublishFails, Abandon
<1> QED BY <1>3, <1>5, <1>6, <1>7, <1>8, <1>9, <1>10, <1>11 DEF Next, Driver

(* OfDocument holds at the beginning.                                      *)
LEMMA OfDocumentInit == Init => OfDocument
BY DEF Init, OfDocument, RecordIsStable, AuxOfDoc, ReportsAtEnd, Ended, AfterPass, Fresh

-----------------------------------------------------------------------------
(* The index.  run_index_tools takes an .ind for current if it exists and  *)
(* the manifest has the signature of the .idx: an argument about what the  *)
(* manifest says of the .ind, in memory and, when a build ends without     *)
(* saving, on disk.                                                        *)

IndexFields(r) ==
    /\ {"man", "reads", "before", "changed"} \subseteq DOMAIN r
    /\ {"idx", "unfinished"} \subseteq DOMAIN r.man

IndexShape == IndexFields(run) /\ {"idx", "unfinished"} \subseteq DOMAIN disk

(* The .ind is the one that the manifest names.                            *)
IndexKnown ==
    /\ pc = "idle" => ind \in {NoInd, ToolInd(disk.idx)}
    /\ pc # "idle" => ind \in {NoInd, ToolInd(run.man.idx)}

(* A signature that is not on disk yet is of an .ind that the pass has not *)
(* read, so that another pass follows, and it is saved.                    *)
Signed == run.man.idx = disk.idx

IndexSaved ==
    /\ pc \notin {"idle", "decide", "tool", "pass"} => Signed
    /\ pc = "pass" /\ run.man.unfinished => Signed
    /\ pc = "decide" => Signed \/ ind \notin {NoInd, run.before[4]}
    /\ pc = "tool" => Signed \/ run.changed
    /\ pc \in {"engine", "running"} => run.before[4] = ind
    /\ pc \in {"index", "makeindex"} => run.before[4] \in {NoInd, ToolInd(disk.idx)}

(* Finished .aux files with an index have theirs, but between the pass and *)
(* makeindex.                                                              *)
AuxIndexed ==
    pc \notin {"running", "index", "makeindex"} /\ aux.state = "full" /\ aux.doc \in IndexDocs
        => ind = ToolInd(aux)

Indexing ==
    DInv /\ OfDocument /\ IndexShape /\ IndexKnown /\ IndexSaved /\ AuxIndexed

(* Init satisfies Indexing.                                                *)
LEMMA IndexingInit == Init => Indexing
<1> SUFFICES ASSUME Init PROVE Indexing
  OBVIOUS
<1>1. IndexFields(Fresh) /\ {"idx", "unfinished"} \subseteq DOMAIN NewManifest
  BY DEF IndexFields, Fresh, NewManifest
<1>2. pc = "idle" /\ run = Fresh /\ disk = NewManifest /\ ind = NoInd /\ aux = NoAux
  BY DEF Init
<1>3. NoAux.state = "none"
  BY DEF NoAux
<1> QED
  BY <1>1, <1>2, <1>3, InitDInv, OfDocumentInit
  DEF Indexing, IndexShape, IndexKnown, IndexSaved, AuxIndexed

(* Local variables that differ in others than those of the index.          *)
SameIndex(r) ==
    /\ IndexFields(r)
    /\ r.man.idx = run.man.idx /\ r.man.unfinished = run.man.unfinished
    /\ r.before = run.before

(* A build that returns with its manifest saved, which knows the .ind.     *)
LEMMA ReturnIndexed ==
    ASSUME Indexing, DInv', OfDocument', pc \in AfterPass \cup {"refreshTool", "pass"},
           pc \notin {"index", "makeindex"},
           NEW status, NEW m, Return(status, m), {"idx", "unfinished"} \subseteq DOMAIN m,
           m.idx = run.man.idx, UNCHANGED <<aux, ind>>
    PROVE  Indexing'
<1>1. pc' = "idle" /\ run' = Fresh /\ disk' = m
  BY DEF Return
<1>2. IndexShape'
  BY <1>1 DEF IndexShape, IndexFields, Fresh, NewManifest
<1>3. IndexKnown' /\ IndexSaved' /\ AuxIndexed'
  BY <1>1 DEF Indexing, IndexKnown, IndexSaved, AuxIndexed, AfterPass
<1> QED BY <1>2, <1>3 DEF Indexing

(* A build that goes on from where the .aux has its index.                 *)
LEMMA GoesOnIndexed ==
    ASSUME Indexing, DInv', OfDocument', NEW r, SameIndex(r),
           NEW place \in {"refreshTool", "pass", "tool", "publish", "publishPdf", "save"},
           Goto(place, r),
           pc \in {"refresh", "refreshTool", "decide", "tool", "publish", "publishPdf"},
           place = "refreshTool" => pc = "refresh",
           place \in {"publish", "publishPdf", "save"} => Signed,
           place = "tool" => Signed \/ r.changed,
           UNCHANGED ind, aux' \in {aux, TrivialAux}
    PROVE  Indexing'
<1>1. pc' = place /\ run' = r /\ disk' = disk
  BY DEF Goto
<1>2. TrivialAux.state = "trivial"
  BY DEF TrivialAux, NoAux
<1>3. IndexShape'
  BY <1>1 DEF Indexing, IndexShape, SameIndex
<1>4. IndexKnown'
  BY <1>1 DEF Indexing, IndexKnown, SameIndex
<1>5. IndexSaved'
  <2>1. pc \in {"decide", "tool", "publish", "publishPdf"} => ~run.man.unfinished
    BY DEF Indexing, DInv, DownAfterPass, AfterPass
  <2> QED BY <1>1, <2>1 DEF Indexing, IndexSaved, Signed, SameIndex
<1>6. AuxIndexed'
  BY <1>1, <1>2 DEF Indexing, AuxIndexed
<1> QED BY <1>3, <1>4, <1>5, <1>6 DEF Indexing

(* A build starts with the signature that is on disk.                      *)
LEMMA StartIndexed ==
    ASSUME Indexing, DInv', OfDocument', Start
    PROVE  Indexing'
<1>1. /\ pc = "idle" /\ pc' = "refresh" /\ UNCHANGED <<aux, ind>>
      /\ disk' = [disk EXCEPT !.unfinished = TRUE]
      /\ run' = [Fresh EXCEPT !.prior = disk.unfinished, !.complete = AuxComplete(aux),
                              !.man = [disk EXCEPT !.unfinished = TRUE]]
  BY DEF Start, Begin
<1>2. IndexShape' /\ run'.man.idx = disk.idx /\ disk'.idx = disk.idx
  BY <1>1 DEF Indexing, IndexShape, IndexFields, Fresh
<1>3. IndexKnown' /\ IndexSaved' /\ AuxIndexed'
  BY <1>1, <1>2 DEF Indexing, IndexKnown, IndexSaved, AuxIndexed, Signed
<1> QED BY <1>2, <1>3 DEF Indexing

(* The copies of the local variables that keep what is known of the index. *)
LEMMA SameIndexes ==
    ASSUME IndexFields(run)
    PROVE  /\ SameIndex(run) /\ SameIndex(Produced)
           /\ \A d : SameIndex([run EXCEPT !.done = d])
           /\ SameIndex([run EXCEPT !.man = NoTool(run.man)])
           /\ SameIndex([run EXCEPT !.man.sync = staged])
           /\ SameIndex([run EXCEPT !.man.pdf = staged])
<1>1. SameIndex(run) /\ \A d : SameIndex([run EXCEPT !.done = d])
  BY DEF SameIndex, IndexFields
<1>2. SameIndex(Produced)
  BY DEF SameIndex, IndexFields, Produced
<1>3. SameIndex([run EXCEPT !.man = NoTool(run.man)])
  BY DEF SameIndex, IndexFields, NoTool
<1>4. SameIndex([run EXCEPT !.man.sync = staged]) /\ SameIndex([run EXCEPT !.man.pdf = staged])
  BY DEF SameIndex, IndexFields
<1> QED BY <1>1, <1>2, <1>3, <1>4

(* The refresh of the bibliography has nothing to do with the index.       *)
LEMMA RefreshIndexed ==
    ASSUME Indexing, DInv', OfDocument', Refresh \/ RefreshTool
    PROVE  Indexing'
<1>1. /\ pc \in {"refresh", "refreshTool"} /\ IndexFields(run)
      /\ UNCHANGED ind
  BY DEF Refresh, RefreshTool, Indexing, IndexShape
<1> DEFINE man == IF Adopts(aux)
                  THEN [run.man EXCEPT !.sig = Signature(aux), !.out = srcBbl]
                  ELSE run.man
           known == [run EXCEPT !.man = man, !.cites = AuxCites(aux),
                                !.done = Adopts(aux), !.sig = Signature(aux)]
           none == [run EXCEPT !.man = NoTool(run.man)]
           tried == [run EXCEPT !.done = TRUE]
           entered(r) == [r EXCEPT !.trivial = aux.state = "none"]
<1>2. SameIndex(known)
  <2>1. /\ {"idx", "unfinished"} \subseteq DOMAIN man
        /\ man.idx = run.man.idx /\ man.unfinished = run.man.unfinished
    BY <1>1 DEF IndexFields
  <2> HIDE DEF man
  <2> QED BY <1>1, <2>1 DEF SameIndex, IndexFields
<1>3. SameIndex(none) /\ SameIndex(tried) /\ SameIndex(Produced)
  BY <1>1, SameIndexes
<1>4. \/ pc = "refreshTool" /\ UNCHANGED aux /\ Return("failed", NoTool(run.man))
      \/ EnterLoop(none) \/ EnterLoop(known) \/ EnterLoop(Produced) \/ EnterLoop(tried)
      \/ pc = "refresh" /\ UNCHANGED aux /\ Goto("refreshTool", known)
  BY DEF Refresh, RefreshTool
<1> HIDE DEF known, none, tried
<1>5. ASSUME NEW r, SameIndex(r), EnterLoop(r) PROVE Indexing'
  <2>1. SameIndex(entered(r))
    BY <1>5 DEF SameIndex, IndexFields
  <2>2. Goto("pass", entered(r)) /\ aux' \in {aux, TrivialAux}
    BY <1>5 DEF EnterLoop
  <2> HIDE DEF entered
  <2> QED BY <1>1, <2>1, <2>2, GoesOnIndexed DEF AfterPass
<1>6. CASE pc = "refreshTool" /\ UNCHANGED aux /\ Return("failed", NoTool(run.man))
  <2>1. {"idx", "unfinished"} \subseteq DOMAIN NoTool(run.man) /\ NoTool(run.man).idx = run.man.idx
    BY <1>1 DEF IndexFields, NoTool
  <2> QED BY <1>1, <1>6, <2>1, ReturnIndexed DEF AfterPass
<1>7. CASE pc = "refresh" /\ UNCHANGED aux /\ Goto("refreshTool", known)
  BY <1>1, <1>2, <1>7, GoesOnIndexed DEF AfterPass
<1> QED BY <1>2, <1>3, <1>4, <1>5, <1>6, <1>7

(* The mark that a pass puts up again saves the signature.                 *)
LEMMA BeginPassIndexed ==
    ASSUME Indexing, DInv', OfDocument', BeginPass
    PROVE  Indexing'
<1> DEFINE man == [run.man EXCEPT !.unfinished = TRUE]
<1>1. /\ pc = "pass" /\ pc' = "engine" /\ UNCHANGED <<aux, ind>>
      /\ run' = [run EXCEPT !.passes = run.passes + 1, !.man = man,
                            !.before = <<aux, bcf, bbl, ind>>]
      /\ disk' = IF run.man.unfinished THEN disk ELSE man
  BY DEF BeginPass, Pass, sources, files
<1>2. man.idx = run.man.idx /\ {"idx", "unfinished"} \subseteq DOMAIN man
  BY DEF Indexing, IndexShape, IndexFields
<1>3. IndexFields(run') /\ run'.man = man /\ run'.before = <<aux, bcf, bbl, ind>>
  BY <1>1, <1>2 DEF Indexing, IndexShape, IndexFields
<1> HIDE DEF man
<1>4. IndexShape' /\ Signed'
  BY <1>1, <1>2, <1>3 DEF Indexing, IndexShape, IndexSaved, Signed
<1>5. run'.before[4] = ind
  BY <1>3
<1>6. IndexKnown' /\ IndexSaved' /\ AuxIndexed'
  BY <1>1, <1>2, <1>3, <1>4, <1>5
  DEF Indexing, IndexKnown, IndexSaved, AuxIndexed
<1> QED BY <1>4, <1>6 DEF Indexing

(* A hit leaves all files as they are, and they are the document's.        *)
LEMMA CacheHitIndexed ==
    ASSUME Indexing, DInv', OfDocument', CacheHit
    PROVE  Indexing'
<1> DEFINE finished == [run EXCEPT !.man.unfinished = FALSE, !.wrote = TRUE, !.failed = FALSE]
           hit == [finished EXCEPT !.hit = TRUE]
<1>1. /\ pc = "engine" /\ UNCHANGED <<aux, ind, disk>>
      /\ \/ pc' = "publish" /\ run' = hit
         \/ pc' = "index" /\ run' = finished
  BY DEF CacheHit, Goto, sources, files
<1>2. /\ IndexFields(run') /\ run'.man.idx = run.man.idx
      /\ run'.before = run.before
  BY <1>1 DEF Indexing, IndexShape, IndexFields
<1> HIDE DEF finished, hit
<1>3. IndexShape' /\ IndexKnown' /\ AuxIndexed'
  BY <1>1, <1>2 DEF Indexing, IndexShape, IndexKnown, AuxIndexed
<1>4. IndexSaved'
  BY <1>1, <1>2 DEF Indexing, IndexSaved, Signed, IndexKnown
<1> QED BY <1>3, <1>4 DEF Indexing

(* During a pass the .ind stays.                                           *)
LEMMA EngineStartIndexed ==
    ASSUME Indexing, DInv', OfDocument', EngineStart
    PROVE  Indexing'
<1>1. /\ pc = "engine" /\ pc' = "running" /\ UNCHANGED <<ind, disk>>
      /\ run' = [run EXCEPT !.reads = Reads(doc, aux, bbl, ind)]
  BY DEF EngineStart, Goto, sources, files
<1>2. /\ IndexFields(run') /\ run'.man = run.man /\ run'.before = run.before
  BY <1>1 DEF Indexing, IndexShape, IndexFields
<1>3. IndexShape' /\ IndexKnown' /\ AuxIndexed' /\ IndexSaved'
  BY <1>1, <1>2
  DEF Indexing, IndexShape, IndexKnown, AuxIndexed, IndexSaved, Signed
<1> QED BY <1>3 DEF Indexing

(* A pass that ends leaves the .ind that it has read.                      *)
LEMMA EngineFinishIndexed ==
    ASSUME Indexing, DInv', OfDocument', EngineFinish
    PROVE  Indexing'
<1>1. /\ pc = "running" /\ pc' = "index" /\ UNCHANGED <<ind, disk>>
      /\ run' = [run EXCEPT !.man.unfinished = FALSE, !.failed = FALSE,
                            !.wrote = @ \/ WrotePdf]
  BY DEF EngineFinish, PassFinished, Goto
<1>2. /\ IndexFields(run') /\ run'.man.idx = run.man.idx /\ run'.before = run.before
  BY <1>1 DEF Indexing, IndexShape, IndexFields
<1>3. IndexShape' /\ IndexKnown' /\ AuxIndexed'
  BY <1>1, <1>2 DEF Indexing, IndexShape, IndexKnown, AuxIndexed
<1>4. IndexSaved'
  BY <1>1, <1>2 DEF Indexing, IndexSaved, Signed, IndexKnown
<1> QED BY <1>3, <1>4 DEF Indexing

(* An .ind with the signature of this .idx in the manifest is of this      *)
(* .idx; otherwise makeindex makes one, with another signature.            *)
LEMMA IndexToolsIndexed ==
    ASSUME Indexing, DInv', OfDocument', IndexTools
    PROVE  Indexing'
<1>1. /\ pc = "index" /\ UNCHANGED <<aux, run, disk>>
      /\ \/ /\ pc' = "decide" /\ ind' = ind
            /\ aux.state = "full" /\ aux.doc \in IndexDocs => ind # NoInd /\ run.man.idx = aux
         \/ pc' = "makeindex" /\ ind' = NoInd
  BY DEF IndexTools, IndexIsCurrent, Goto, sources, files
<1>2. AuxIndexed'
  BY <1>1 DEF Indexing, AuxIndexed, IndexKnown
<1>3. IndexShape' /\ IndexKnown'
  BY <1>1 DEF Indexing, IndexShape, IndexKnown
<1>4. IndexSaved'
  BY <1>1 DEF Indexing, IndexSaved, Signed
<1> QED BY <1>2, <1>3, <1>4 DEF Indexing

(* A new .ind is of this .idx, and differs from the one before unless the  *)
(* manifest on disk names it.                                              *)
LEMMA MakeindexIndexed ==
    ASSUME "index" \notin Faults, Indexing, DInv', OfDocument', Makeindex
    PROVE  Indexing'
<1>1. /\ pc = "makeindex" /\ pc' = "decide" /\ ind' = ToolInd(aux)
      /\ UNCHANGED <<aux, disk>>
      /\ run' = [run EXCEPT !.man.idx = aux]
  BY DEF Makeindex, Goto, files
<1>2. IndexFields(run') /\ run'.man.idx = aux /\ run'.before = run.before
  BY <1>1 DEF Indexing, IndexShape, IndexFields
<1>3. \A a, b : ToolInd(a) # NoInd /\ (ToolInd(a) = ToolInd(b) => a = b)
  BY DEF ToolInd, NoInd
<1>4. IndexShape' /\ IndexKnown' /\ AuxIndexed'
  BY <1>1, <1>2 DEF Indexing, IndexShape, IndexKnown, AuxIndexed
<1>5. IndexSaved'
  BY <1>1, <1>2, <1>3 DEF Indexing, IndexSaved, Signed
<1> QED BY <1>4, <1>5 DEF Indexing

(* The loop goes on after a new .ind: it is not the one the pass has read. *)
LEMMA DecideIndexed ==
    ASSUME Indexing, DInv', OfDocument', Decide
    PROVE  Indexing'
<1> DEFINE sig == Signature(aux)
           man == IF Adopts(aux)
                  THEN [run.man EXCEPT !.sig = sig, !.out = srcBbl]
                  ELSE run.man
           kept == IF Ready(aux) THEN man ELSE NoTool(man)
           now == IF Adopts(aux) THEN srcBbl ELSE bbl
           changed == run.before # <<aux, bcf, now, ind>>
           next == [run EXCEPT !.man = kept, !.cites = AuxCites(aux),
                               !.done = run.done \/ Adopts(aux),
                               !.sig = sig, !.changed = changed]
<1>1. /\ pc = "decide" /\ UNCHANGED <<aux, ind>>
      /\ \/ Goto("tool", next) \/ Goto("pass", next)
         \/ Goto("publish", next) /\ (~changed \/ ind = NoInd)
  BY DEF Decide, Settle, sources, files
<1>2. IndexFields(run)
  BY DEF Indexing, IndexShape
<1>3. /\ {"idx", "unfinished"} \subseteq DOMAIN man
      /\ man.idx = run.man.idx /\ man.unfinished = run.man.unfinished
  BY <1>2 DEF IndexFields
<1> HIDE DEF man
<1>4. /\ {"idx", "unfinished"} \subseteq DOMAIN kept
      /\ kept.idx = run.man.idx /\ kept.unfinished = run.man.unfinished
  BY <1>3 DEF NoTool
<1> HIDE DEF kept
<1>5. ~changed => run.before[4] = ind
  OBVIOUS
<1> HIDE DEF changed
<1>6. SameIndex(next) /\ next.changed = changed
  BY <1>2, <1>4 DEF SameIndex, IndexFields
<1> HIDE DEF next
<1>7. Signed \/ changed
  BY <1>1, <1>5 DEF Indexing, IndexSaved
<1>8. Goto("publish", next) => Signed
  BY <1>1, <1>5 DEF Indexing, IndexSaved, Goto
<1> QED BY <1>1, <1>6, <1>7, <1>8, GoesOnIndexed DEF AfterPass

(* A failed tool ends the loop only if the .ind did not change.            *)
LEMMA ToolIndexed ==
    ASSUME Indexing, DInv', OfDocument', Tool
    PROVE  Indexing'
<1> DEFINE tried == [run EXCEPT !.done = TRUE]
<1>1. /\ pc = "tool" /\ IndexFields(run) /\ UNCHANGED <<aux, ind>>
      /\ \/ Goto("pass", Produced) \/ Goto("pass", tried)
         \/ Goto("publish", tried) /\ ~run.changed
         \/ Return("failed", NoTool(run.man))
  BY DEF Tool, Settle, Indexing, IndexShape, sources, files
<1>2. SameIndex(Produced) /\ SameIndex(tried)
  BY <1>1, SameIndexes
<1> HIDE DEF tried
<1>3. {"idx", "unfinished"} \subseteq DOMAIN NoTool(run.man) /\ NoTool(run.man).idx = run.man.idx
  BY <1>1 DEF IndexFields, NoTool
<1>4. ~run.changed => Signed
  BY <1>1 DEF Indexing, IndexSaved
<1>5. CASE Return("failed", NoTool(run.man))
  BY <1>1, <1>3, <1>5, ReturnIndexed DEF AfterPass
<1> QED BY <1>1, <1>2, <1>4, <1>5, GoesOnIndexed DEF AfterPass

(* The end of a build.                                                     *)
LEMMA PublicationIndexed ==
    ASSUME Indexing, DInv', OfDocument',
           NotConverged \/ NoOutput \/ PublishSynctex \/ PublishPdf \/ Save
    PROVE  Indexing'
<1> DEFINE sync == [run EXCEPT !.man.sync = staged]
           pdf == [run EXCEPT !.man.pdf = staged]
<1>1. UNCHANGED <<aux, ind>> /\ IndexFields(run)
  BY DEF NotConverged, NoOutput, PublishSynctex, PublishPdf, Save, sources, files, Indexing, IndexShape
<1>2. CASE NotConverged \/ NoOutput \/ Save
  <2>1. \E status : Return(status, run.man)
    BY <1>2 DEF NotConverged, NoOutput, Save
  <2>2. pc \in {"pass", "publish", "save"}
    BY <1>2 DEF NotConverged, NoOutput, Save
  <2> QED BY <1>1, <2>1, <2>2, ReturnIndexed DEF IndexFields, AfterPass
<1>3. CASE PublishSynctex \/ PublishPdf
  <2>1. /\ pc \in {"publish", "publishPdf"}
        /\ \E r \in {run, sync, pdf}, place \in {"publishPdf", "save"} : Goto(place, r)
    BY <1>3 DEF PublishSynctex, PublishPdf
  <2>2. SameIndex(run) /\ SameIndex(sync) /\ SameIndex(pdf)
    BY <1>1, SameIndexes
  <2> HIDE DEF sync, pdf
  <2>3. Signed
    BY <2>1 DEF Indexing, IndexSaved
  <2> QED BY <1>1, <2>1, <2>2, <2>3, GoesOnIndexed DEF AfterPass
<1> QED BY <1>2, <1>3

(* A build that cannot go on leaves the manifest of its last pass, which   *)
(* has the signature.                                                      *)
LEMMA AbandonIndexed ==
    ASSUME Indexing, DInv', OfDocument',
           EngineMissing \/ PublishFails("publish") \/ PublishFails("publishPdf")
    PROVE  Indexing'
<1>1. /\ pc \in {"engine", "publish", "publishPdf"} /\ Abandon("failed")
      /\ UNCHANGED <<aux, ind>>
  BY DEF EngineMissing, PublishFails, files
<1>2. pc' = "idle" /\ run' = Fresh /\ disk' = disk
  BY <1>1 DEF Abandon, Return
<1>3. IndexShape'
  BY <1>2 DEF Indexing, IndexShape, IndexFields, Fresh, NewManifest
<1>4. IndexKnown' /\ IndexSaved' /\ AuxIndexed'
  BY <1>1, <1>2 DEF Indexing, IndexKnown, IndexSaved, Signed, AuxIndexed
<1> QED BY <1>3, <1>4 DEF Indexing

(* The user does not touch what the tools made.                            *)
LEMMA OutsideIndexed ==
    ASSUME Indexing, DInv', OfDocument',
           EditDoc \/ EditBib \/ PutBbl \/ MinutePasses \/ UNCHANGED vars
    PROVE  Indexing'
<1>1. UNCHANGED <<aux, ind, disk, pc, run>>
  BY DEF EditDoc, EditBib, PutBbl, MinutePasses, Edit, vars
<1>2. IndexShape' /\ IndexKnown' /\ IndexSaved' /\ AuxIndexed'
  BY <1>1 DEF Indexing, IndexShape, IndexKnown, IndexSaved, Signed, AuxIndexed
<1> QED BY <1>2 DEF Indexing

(* Indexing is an invariant if no pass and no run of makeindex fails and   *)
(* no build is killed.                                                     *)
THEOREM IndexingHolds ==
    ASSUME Faults \subseteq {"engine", "publish"}
    PROVE  Spec => []Indexing
<1>1. Indexing /\ [Next]_vars => Indexing'
  <2> SUFFICES ASSUME Indexing, [Next]_vars PROVE Indexing'
    OBVIOUS
  <2>1. DInv' /\ OfDocument'
    BY NextDInv, OfDocumentStep DEF Indexing
  <2>2. ~Kill /\ ~EngineErrors /\ ~EngineStops /\ "index" \notin Faults
    BY DEF Kill, EngineErrors, EngineStops
  <2> QED
    BY <2>1, <2>2, StartIndexed, RefreshIndexed, BeginPassIndexed, CacheHitIndexed,
       EngineStartIndexed, EngineFinishIndexed, IndexToolsIndexed, MakeindexIndexed,
       DecideIndexed, ToolIndexed, PublicationIndexed, AbandonIndexed, OutsideIndexed
    DEF Next, Driver
<1> QED BY <1>1, IndexingInit, PTL DEF Spec

(* A build that reports OK has the index of the pages it has: the .ind     *)
(* that run_index_tools leaves is of the .idx of the last pass, whatever   *)
(* the documents, the databases, the edits during builds and the limit on  *)
(* passes, also when a build before could not start the engine or could    *)
(* not publish.  Kills, TeX errors and failures of makeindex are excluded. *)
THEOREM OkIndexesHolds ==
    ASSUME Faults \subseteq {"engine", "publish"}
    PROVE  Spec => []OkIndexes
<1>1. Indexing => OkIndexes
  <2> SUFFICES ASSUME Indexing, Ended, doc \in IndexDocs PROVE ind = ToolInd(aux)
    BY DEF OkIndexes
  <2>1. pc = "idle" /\ ~moved
    BY DEF Indexing, OfDocument, ReportsAtEnd, Ended
  <2>2. doc \notin OnePageDocs
    BY DriverAssumption
  <2>3. aux.state = "full" /\ aux.doc = doc
    BY <2>1, <2>2 DEF Indexing, OfDocument, AuxOfDoc
  <2> QED BY <2>1, <2>3 DEF Indexing, AuxIndexed
<1> QED BY <1>1, IndexingHolds, PTL
-----------------------------------------------------------------------------
(* The bibliography.  A .bbl is taken for current if the manifest has the  *)
(* signature of the citations and the database, and names the .bbl.        *)

SourceCurrent == srcNew => srcBbl.bib = bib

(* What the .aux files say of the citations; with biblatex the .bcf does.  *)
AuxSaysCites ==
    /\ aux.state \in {"cut", "full"} => aux.doc \in Docs
    /\ aux.state = "full" /\ aux.doc \in BiberDocs =>
         bcf.state = "full" /\ bcf.cites = Cites[aux.doc]

CiteBase == TInv /\ OfDocument /\ SourceCurrent /\ AuxSaysCites

(* CiteBase holds at the beginning.                                        *)
LEMMA CiteBaseInit == Init => CiteBase
<1>1. Init => SourceCurrent
  BY DEF Init, SourceCurrent
<1>2. Init => AuxSaysCites
  BY DEF Init, AuxSaysCites, NoAux
<1> QED BY <1>1, <1>2, InitTInv, OfDocumentInit DEF CiteBase

(* A pass that ends has written both, an edit of the database makes the    *)
(* project's .bbl older.                                                   *)
LEMMA CiteBaseStep == CiteBase /\ [Next]_vars => CiteBase'
<1> SUFFICES ASSUME CiteBase, [Next]_vars PROVE CiteBase'
  OBVIOUS
<1>1. TInv' /\ OfDocument'
  BY TInvStep, OfDocumentStep DEF CiteBase
<1>2. SourceCurrent'
  <2>1. \/ UNCHANGED <<bib, srcBbl, srcNew>>
        \/ srcNew' = FALSE
        \/ srcBbl' = ProjectBblFor(Cites[doc], bib) /\ bib' = bib
    BY DEF Next, Driver, Start, Begin, Refresh, RefreshTool, BeginPass, Pass, NotConverged, CacheHit,
       EngineStart, EngineMissing, EngineFinish, EngineErrors, EngineStops, IndexTools,
       Makeindex, Decide, Tool, NoOutput, PublishSynctex, PublishPdf, Save, PublishFails, Kill,
       EditDoc, EditBib, PutBbl, MinutePasses, Edit, vars, sources, files
  <2>2. ProjectBblFor(Cites[doc], bib).bib = bib
    BY DEF ProjectBblFor
  <2>3. CASE UNCHANGED <<bib, srcBbl, srcNew>>
    BY <2>3 DEF CiteBase, SourceCurrent
  <2> QED BY <2>1, <2>2, <2>3 DEF SourceCurrent
<1>3. AuxSaysCites'
  <2>1. \/ UNCHANGED <<aux, bcf>> \/ (aux' = TrivialAux /\ UNCHANGED bcf)
        \/ EngineStart \/ (pc = "running" /\ \E errors \in BOOLEAN : EngineWrites(errors))
    BY DEF Next, Driver, Start, Begin, Refresh, RefreshTool, EnterLoop, BeginPass, Pass, NotConverged,
       CacheHit, EngineMissing, EngineFinish, EngineErrors, EngineStops, IndexTools,
       Makeindex, Decide, Tool, NoOutput, PublishSynctex, PublishPdf, Save, PublishFails, Kill,
       EditDoc, EditBib, PutBbl, MinutePasses, Edit, vars, sources
  <2>2. CASE UNCHANGED <<aux, bcf>> \/ aux' = TrivialAux
    BY <2>2 DEF CiteBase, AuxSaysCites, TrivialAux, NoAux
  <2>3. CASE EngineStart
    BY <2>3 DEF EngineStart, CutAux, NoAux, AuxSaysCites, CiteBase, TInv, SourcesTyped
  <2>4. CASE pc = "running" /\ \E errors \in BOOLEAN : EngineWrites(errors)
    <3> DEFINE d == run.reads.doc
    <3>1. aux' = NewAux(d, run.before[1], bbl, ind) /\ bcf' = NewBcf(d) /\ d \in Docs
      BY <2>4 DEF EngineWrites, CiteBase, TInv, RunTyped
    <3> HIDE DEF d
    <3>2. aux'.state = "trivial" \/ (aux'.state = "full" /\ aux'.doc = d)
      BY <3>1 DEF NewAux, TrivialAux, NoAux
    <3>3. d \in BiberDocs => bcf'.state = "full" /\ bcf'.cites = Cites[d]
      BY <3>1 DEF NewBcf
    <3> QED BY <3>1, <3>2, <3>3 DEF AuxSaysCites
  <2> QED BY <2>1, <2>2, <2>3, <2>4
<1> QED BY <1>1, <1>2, <1>3 DEF CiteBase

(* The local variables and the fields of the manifest that matter here.    *)
CiteFields(r) ==
    /\ {"man", "prior", "passes", "complete", "cites", "done", "sig"} \subseteq DOMAIN r
    /\ {"sig", "out", "unfinished"} \subseteq DOMAIN r.man

CiteShape == CiteFields(run) /\ {"sig", "out", "unfinished"} \subseteq DOMAIN disk

(* The .bbl that a manifest names was made from what its signature says.   *)
OutSigned(m) ==
    \/ m.out = NoBbl
    \/ /\ m.out.by \in {"tool", "source"}
       /\ m.sig # NoSig => m.sig = <<m.out.cites, m.out.bib>>

(* No build ends with a pass that it has not finished, so that the next    *)
(* one looks at the bibliography before its first pass.                    *)
Trusts ==
    /\ pc = "idle" => ~disk.unfinished
    /\ ~run.prior
    /\ pc \in {"refresh", "refreshTool"} => run.passes = 0
    /\ pc = "pass" /\ run.passes > 0 => ~run.man.unfinished
    /\ pc = "refresh" /\ run.complete => AuxComplete(aux)

(* A tool is run for the signature that will be recorded.                  *)
SigCurrent ==
    pc \in {"refreshTool", "tool"} => run.sig = Signature(aux) /\ run.cites = AuxCites(aux)

(* A .bbl without a signature is one that this build made for the          *)
(* citations of its last pass.                                             *)
DoneIsOurs(r) == r.done /\ r.man.sig = NoSig /\ r.man.out # NoBbl => r.man.out = ToolBbl(r.cites, bib)

DoneKnown ==
    /\ run.done => run.cites # UnknownCites
    /\ pc # "tool" => DoneIsOurs(run)

(* The .bbl is of the citations in the .aux and of the database.           *)
Fits ==
    aux.state = "full" /\ Cites[aux.doc] # NoCites =>
        bbl.by \in {"tool", "source"} /\ bbl.cites = Cites[aux.doc] /\ bbl.bib = bib

BblFits ==
    /\ pc \in {"pass", "engine"} /\ run.complete => Fits
    /\ pc \in {"publish", "publishPdf", "save"} \/ Ended => Fits

Citing ==
    /\ CiteBase /\ CiteShape /\ OutSigned(disk) /\ OutSigned(run.man)
    /\ Trusts /\ SigCurrent /\ DoneKnown /\ BblFits

(* If the last pass has cited, the tool is ready to run, and looks for     *)
(* these citations.                                                        *)
LEMMA CitedReady ==
    ASSUME CiteBase, NoBibs = {}, aux.state = "full", Cites[aux.doc] # NoCites
    PROVE  /\ Ready(aux) /\ ToolCites(aux) = Cites[aux.doc]
           /\ Signature(aux) # NoSig => Signature(aux) = <<Cites[aux.doc], bib>>
           /\ Signature(aux) = NoSig => ~AuxComplete(aux) /\ AuxCites(aux) = Cites[aux.doc]
<1>1. bib # "absent"
  BY DriverAssumption DEF CiteBase, TInv, SourcesTyped
<1>2. Ready(aux) /\ ToolCites(aux) = Cites[aux.doc]
      /\ (~UsesBiber(aux) => AuxCites(aux) = Cites[aux.doc])
  <2>1. CASE aux.doc \in BiberDocs
    <3>1. bcf.state = "full" /\ bcf.cites = Cites[aux.doc] /\ bcf # NoBcf
      BY <2>1 DEF CiteBase, AuxSaysCites, NoBcf
    <3>2. UsesBiber(aux)
      BY <2>1, <3>1 DEF UsesBiber, AuxCites
    <3> QED BY <3>1, <3>2 DEF Ready, ToolCites
  <2>2. CASE aux.doc \notin BiberDocs
    <3>1. AuxCites(aux) = Cites[aux.doc]
      BY <2>2 DEF AuxCites
    <3>2. ~UsesBiber(aux)
      BY <3>1 DEF UsesBiber
    <3> QED BY <1>1, <3>1, <3>2 DEF Ready, ToolCites
  <2> QED BY <2>1, <2>2
<1>3. <<Cites[aux.doc], bib>> # NoSig
  BY DEF NoSig
<1> QED BY <1>2, <1>3 DEF Signature

(* The .bbl that the manifest names, with the signature of this moment.    *)
LEMMA CurrentFits ==
    ASSUME CiteBase, NoBibs = {}, NEW m, NEW b, OutSigned(m), Matches(m, b),
           m.sig = Signature(aux),
           Signature(aux) # NoSig \/ AuxComplete(aux) \/ m.out = ToolBbl(AuxCites(aux), bib),
           aux.state = "full", Cites[aux.doc] # NoCites
    PROVE  b.by \in {"tool", "source"} /\ b.cites = Cites[aux.doc] /\ b.bib = bib
<1>1. m.out = b /\ m.out # NoBbl
  BY DEF Matches, NoBbl
<1>2. CASE Signature(aux) # NoSig
  BY <1>1, <1>2, CitedReady DEF OutSigned
<1>3. CASE Signature(aux) = NoSig
  <2>1. m.out = ToolBbl(Cites[aux.doc], bib)
    BY <1>3, CitedReady
  <2> QED BY <1>1, <2>1 DEF ToolBbl
<1> QED BY <1>2, <1>3

(* The project's .bbl is adopted with the signature that it deserves.      *)
LEMMA AdoptedSigned ==
    ASSUME CiteBase, Adopts(aux)
    PROVE  /\ Signature(aux) # NoSig /\ srcBbl.by = "source"
           /\ Signature(aux) = <<srcBbl.cites, srcBbl.bib>>
<1>1. ~UsesBiber(aux) /\ Signature(aux) # NoSig /\ srcNew /\ srcBbl.cites = AuxCites(aux)
  BY DEF Adopts
<1>2. Signature(aux) = <<AuxCites(aux), bib>> /\ AuxCites(aux) # NoCites
  BY <1>1 DEF Signature, ToolCites, Ready
<1>3. srcBbl.bib = bib /\ (srcBbl.by = "source" <=> srcBbl.cites # NoCites)
  BY <1>1 DEF CiteBase, SourceCurrent, TInv, SourcesTyped
<1> QED BY <1>1, <1>2, <1>3

(* The citations in the .aux files are known, even if there are none.      *)
LEMMA AuxCitesKnown ==
    ASSUME CiteBase
    PROVE  AuxCites(aux) # UnknownCites
BY DriverAssumption DEF CiteBase, AuxSaysCites, AuxCites, UnknownCites
(* Citing holds at the beginning.                                          *)
LEMMA CitingInit == Init => Citing
<1> SUFFICES ASSUME Init PROVE Citing
  OBVIOUS
<1>1. CiteFields(Fresh) /\ {"sig", "out", "unfinished"} \subseteq DOMAIN NewManifest
  BY DEF CiteFields, Fresh, NewManifest
<1>2. /\ pc = "idle" /\ run = Fresh /\ disk = NewManifest /\ report = "none"
  BY DEF Init
<1>3. /\ ~Fresh.done /\ ~Fresh.prior /\ Fresh.man = NewManifest
      /\ NewManifest.out = NoBbl /\ ~NewManifest.unfinished
  BY DEF Fresh, NewManifest
<1> QED
  BY <1>1, <1>2, <1>3, CiteBaseInit DEF Citing, CiteShape, OutSigned, Trusts, SigCurrent, DoneKnown,
     DoneIsOurs, BblFits, Ended

(* What a build must leave when it returns.                                *)
LEMMA CitingReturns ==
    ASSUME Citing, CiteBase', NEW status, NEW m, Return(status, m),
           {"sig", "out", "unfinished"} \subseteq DOMAIN m, OutSigned(m), ~m.unfinished,
           status = "ok" => Fits'
    PROVE  Citing'
<1>1. pc' = "idle" /\ run' = Fresh /\ disk' = m /\ report' = status
  BY DEF Return
<1>2. CiteFields(Fresh)
  BY DEF CiteFields, Fresh, NewManifest
<1>3. ~Fresh.done /\ ~Fresh.prior /\ Fresh.man.out = NoBbl
  BY DEF Fresh, NewManifest
<1>4. CiteShape' /\ Trusts' /\ SigCurrent' /\ DoneKnown' /\ BblFits'
  BY <1>1, <1>2, <1>3
  DEF CiteShape, Trusts, SigCurrent, DoneKnown, DoneIsOurs, BblFits, Ended
<1>5. OutSigned(disk)' /\ OutSigned(run.man)'
  BY <1>1, <1>3 DEF OutSigned
<1> QED BY <1>4, <1>5 DEF Citing

(* What a build must know when it goes on.                                 *)
LEMMA CitingGoesOn ==
    ASSUME Citing, CiteBase', pc # "idle", NEW place, NEW r, Goto(place, r),
           place \notin {"idle", "refresh"}, UNCHANGED bib,
           CiteFields(r), OutSigned(r.man), ~r.prior,
           place = "refreshTool" => r.passes = 0,
           place = "pass" /\ r.passes > 0 => ~r.man.unfinished,
           place \in {"refreshTool", "tool"} => r.sig = Signature(aux)' /\ r.cites = AuxCites(aux)',
           r.done => r.cites # UnknownCites,
           place # "tool" => DoneIsOurs(r),
           place \in {"pass", "engine"} /\ r.complete => Fits',
           place \in {"publish", "publishPdf", "save"} => Fits'
    PROVE  Citing'
<1>1. pc' = place /\ run' = r /\ disk' = disk /\ report' = report
  BY DEF Goto
<1>2. CiteShape' /\ Trusts' /\ SigCurrent'
  BY <1>1 DEF Citing, CiteShape, Trusts, SigCurrent
<1>3. DoneKnown'
  BY <1>1 DEF DoneKnown, DoneIsOurs
<1>4. BblFits'
  <2>1. ~Ended'
    BY <1>1 DEF Citing, CiteBase, OfDocument, ReportsAtEnd, Ended
  <2> QED BY <1>1, <2>1 DEF BblFits
<1>5. OutSigned(disk)' /\ OutSigned(run.man)'
  BY <1>1 DEF Citing, OutSigned
<1> QED BY <1>2, <1>3, <1>4, <1>5 DEF Citing

(* Local variables that differ in others than those of the bibliography.   *)
SameCites(r) ==
    /\ CiteFields(r)
    /\ r.prior = run.prior /\ r.complete = run.complete
    /\ r.cites = run.cites /\ r.done = run.done
    /\ r.man.sig = run.man.sig /\ r.man.out = run.man.out

(* The steps that have nothing to do with the bibliography.                *)
LEMMA CitingStays ==
    ASSUME Citing, CiteBase', pc \notin {"idle", "tool"}, NEW r, SameCites(r),
           NEW place \in {"running", "index", "makeindex", "decide", "publish", "publishPdf", "save"},
           Goto(place, r), UNCHANGED bib, place \in {"publish", "publishPdf", "save"} => Fits'
    PROVE  Citing'
<1>1. CiteFields(r) /\ OutSigned(r.man) /\ ~r.prior /\ DoneIsOurs(r)
      /\ (r.done => r.cites # UnknownCites)
  BY DEF Citing, SameCites, OutSigned, Trusts, DoneKnown, DoneIsOurs
<1> QED BY <1>1, CitingGoesOn

(* Fits speaks of the .aux, the .bbl and the database.                     *)
LEMMA SameFits ==
    ASSUME UNCHANGED <<aux, bbl, bib>>, Fits
    PROVE  Fits'
BY DEF Fits

(* A build starts with the manifest on disk, which no pass has marked.     *)
LEMMA StartCites ==
    ASSUME Citing, CiteBase', Start
    PROVE  Citing'
<1> DEFINE man == [disk EXCEPT !.unfinished = TRUE]
<1>1. /\ pc = "idle" /\ pc' = "refresh" /\ report' = "none" /\ aux' = aux /\ disk' = man
      /\ run' = [Fresh EXCEPT !.prior = disk.unfinished, !.complete = AuxComplete(aux), !.man = man]
  BY DEF Start, Begin
<1>2. /\ {"sig", "out", "unfinished"} \subseteq DOMAIN man
      /\ man.sig = disk.sig /\ man.out = disk.out
  BY DEF Citing, CiteShape
<1> HIDE DEF man
<1>3. /\ CiteFields(run') /\ run'.prior = disk.unfinished /\ run'.complete = AuxComplete(aux)
      /\ run'.man = man /\ run'.passes = 0 /\ ~run'.done
  BY <1>1, <1>2 DEF Fresh, CiteFields
<1>4. CiteShape' /\ SigCurrent' /\ DoneKnown' /\ BblFits'
  BY <1>1, <1>2, <1>3 DEF CiteShape, SigCurrent, DoneKnown, DoneIsOurs, BblFits, Ended
<1>5. Trusts'
  BY <1>1, <1>3 DEF Citing, Trusts, AuxComplete
<1>6. OutSigned(disk)' /\ OutSigned(run.man)'
  BY <1>1, <1>2, <1>3 DEF Citing, OutSigned
<1> QED BY <1>4, <1>5, <1>6 DEF Citing

(* A tool that has run leaves a .bbl with the signature it was run for.    *)
LEMMA ProducedCites ==
    ASSUME Citing, pc \in {"refreshTool", "tool"}
    PROVE  /\ CiteFields(Produced) /\ OutSigned(Produced.man) /\ DoneIsOurs(Produced)
           /\ Produced.prior = run.prior /\ Produced.passes = run.passes
           /\ Produced.man.unfinished = run.man.unfinished
           /\ Produced.cites # UnknownCites
<1> DEFINE out == ToolBbl(ToolCites(aux), bib)
           r == [run EXCEPT !.done = TRUE, !.man.sig = run.sig, !.man.out = out]
<1>1. Produced = r
  BY DEF Produced
<1>2. run.sig = Signature(aux) /\ run.cites = AuxCites(aux) /\ CiteFields(run)
  BY DEF Citing, SigCurrent, CiteShape
<1>3. /\ CiteFields(r) /\ r.man.sig = run.sig /\ r.man.out = out /\ r.cites = run.cites
      /\ r.prior = run.prior /\ r.passes = run.passes /\ r.man.unfinished = run.man.unfinished
  <2> HIDE DEF out
  <2> QED BY <1>2 DEF CiteFields
<1>4. out.by = "tool" /\ out.cites = ToolCites(aux) /\ out.bib = bib
  BY DEF ToolBbl
<1>5. Signature(aux) # NoSig => Signature(aux) = <<out.cites, out.bib>>
  BY <1>4 DEF Signature
<1>6. Signature(aux) = NoSig => ToolCites(aux) = AuxCites(aux)
  <2>1. UsesBiber(aux) => bcf.state = "full"
    BY DEF Citing, CiteBase, TInv, DInv, BiberHasControlFile
  <2>2. UsesBiber(aux) => Ready(aux) /\ ToolCites(aux) # NoCites
    BY <2>1 DEF Ready, ToolCites, Citing, CiteBase, TInv, AuxTyped
  <2>3. ToolCites(aux) # NoCites => <<ToolCites(aux), bib>> # NoSig
    BY DEF NoSig
  <2> QED BY <2>2, <2>3 DEF Signature, ToolCites
<1>7. AuxCites(aux) # UnknownCites
  BY AuxCitesKnown DEF Citing
<1> HIDE DEF r
<1>8. OutSigned(r.man)
  BY <1>2, <1>3, <1>4, <1>5 DEF OutSigned
<1>9. DoneIsOurs(r)
  BY <1>2, <1>3, <1>6 DEF DoneIsOurs
<1> QED BY <1>1, <1>2, <1>3, <1>7, <1>8, <1>9

(* ... and it fits.                                                        *)
LEMMA ProducedFits ==
    ASSUME CiteBase, NoBibs = {}, bbl' = ToolBbl(ToolCites(aux), bib), UNCHANGED bib,
           aux' \in {aux, TrivialAux}
    PROVE  Fits'
<1>1. TrivialAux.state = "trivial"
  BY DEF TrivialAux, NoAux
<1>2. /\ bbl'.by = "tool" /\ bbl'.cites = ToolCites(aux) /\ bbl'.bib = bib
  BY DEF ToolBbl
<1> QED BY <1>1, <1>2, CitedReady DEF Fits
(* The loop is entered with a .bbl that fits, or with an .aux graph that   *)
(* could not be read completely.                                           *)
LEMMA EnterLoopCites ==
    ASSUME Citing, CiteBase', pc \in {"refresh", "refreshTool"}, UNCHANGED bib,
           NEW r, EnterLoop(r), CiteFields(r), OutSigned(r.man), ~r.prior, r.passes = 0,
           r.done => r.cites # UnknownCites, DoneIsOurs(r), r.complete => Fits'
    PROVE  Citing'
<1> DEFINE q == [r EXCEPT !.trivial = aux.state = "none"]
<1>1. Goto("pass", q)
  BY DEF EnterLoop
<1>2. /\ CiteFields(q) /\ q.man = r.man /\ q.prior = r.prior /\ q.passes = r.passes
      /\ q.done = r.done /\ q.cites = r.cites /\ q.complete = r.complete
  BY DEF CiteFields
<1> HIDE DEF q
<1>3. DoneIsOurs(q)
  BY <1>2 DEF DoneIsOurs
<1> QED BY <1>1, <1>2, <1>3, CitingGoesOn

(* The refresh uses the .bbl that is there only with the right signature.  *)
LEMMA RefreshCites ==
    ASSUME NoBibs = {}, Citing, CiteBase', Refresh
    PROVE  Citing'
<1> DEFINE present == IF bbl = NoBbl /\ srcBbl # NoBbl THEN srcBbl ELSE bbl
           sig == Signature(aux)
           man == IF Adopts(aux)
                  THEN [run.man EXCEPT !.sig = sig, !.out = srcBbl]
                  ELSE run.man
           now == IF Adopts(aux) THEN srcBbl ELSE present
           known == [run EXCEPT !.man = man, !.cites = AuxCites(aux),
                                !.done = Adopts(aux), !.sig = sig]
           none == [run EXCEPT !.man = NoTool(run.man)]
<1>1. /\ pc = "refresh" /\ UNCHANGED <<bib, bcf>>
      /\ \/ (run.prior \/ sig = NoSig) /\ EnterLoop(none)
         \/ sig # NoSig /\ Matches(man, now) /\ man.sig = sig /\ bbl' = now /\ EnterLoop(known)
         \/ /\ ~run.prior /\ sig # NoSig /\ ~(Matches(man, now) /\ man.sig = sig)
            /\ Goto("refreshTool", known) /\ UNCHANGED aux
  BY DEF Refresh, sources, files
<1>2. CiteFields(run) /\ ~run.prior /\ run.passes = 0 /\ OutSigned(run.man) /\ CiteBase
      /\ (run.complete => AuxComplete(aux))
  BY <1>1 DEF Citing, CiteShape, Trusts
<1>3. /\ {"sig", "out", "unfinished"} \subseteq DOMAIN man /\ OutSigned(man)
      /\ Adopts(aux) => man.sig = sig /\ man.out = srcBbl /\ sig # NoSig /\ srcBbl.by = "source"
  <2>1. CASE Adopts(aux)
    <3>1. /\ {"sig", "out", "unfinished"} \subseteq DOMAIN man
          /\ man.sig = sig /\ man.out = srcBbl
      BY <1>2, <2>1 DEF CiteFields
    <3>2. sig # NoSig /\ srcBbl.by = "source" /\ sig = <<srcBbl.cites, srcBbl.bib>>
      BY <1>2, <2>1, AdoptedSigned
    <3> QED BY <3>1, <3>2 DEF OutSigned
  <2>2. CASE ~Adopts(aux)
    BY <1>2, <2>2 DEF CiteFields
  <2> QED BY <2>1, <2>2
<1>4. AuxCites(aux) # UnknownCites
  BY <1>2, AuxCitesKnown
<1>5. TrivialAux.state = "trivial"
  BY DEF TrivialAux, NoAux
<1>6. CASE sig = NoSig /\ EnterLoop(none)
  <2>1. /\ CiteFields(none) /\ none.man.out = NoBbl /\ none.prior = run.prior
        /\ none.passes = run.passes /\ none.complete = run.complete
        /\ none.done = run.done /\ none.cites = run.cites
    BY <1>2 DEF CiteFields, NoTool
  <2> HIDE DEF none
  <2>2. OutSigned(none.man) /\ DoneIsOurs(none)
    BY <2>1 DEF OutSigned, DoneIsOurs
  <2>3. aux' \in {aux, TrivialAux}
    BY <1>6 DEF EnterLoop
  <2>4. run.complete => Fits'
    BY <1>2, <1>5, <1>6, <2>3, CitedReady DEF Fits
  <2>5. run.done => run.cites # UnknownCites
    BY DEF Citing, DoneKnown
  <2> QED BY <1>1, <1>2, <1>6, <2>1, <2>2, <2>4, <2>5, EnterLoopCites
<1>7. /\ CiteFields(known) /\ known.man = man /\ known.prior = run.prior
      /\ known.passes = run.passes /\ known.cites = AuxCites(aux) /\ known.sig = sig
      /\ known.done = Adopts(aux)
  <2> HIDE DEF man, sig
  <2> QED BY <1>2, <1>3 DEF CiteFields
<1> HIDE DEF known
<1>8. DoneIsOurs(known)
  BY <1>3, <1>7 DEF DoneIsOurs
<1>9. CASE sig # NoSig /\ Matches(man, now) /\ man.sig = sig /\ bbl' = now /\ EnterLoop(known)
  <2>1. aux' \in {aux, TrivialAux}
    BY <1>9 DEF EnterLoop
  <2>2. Fits'
    <3> HIDE DEF man, now
    <3> QED BY <1>1, <1>2, <1>3, <1>5, <1>9, <2>1, CurrentFits DEF Fits
  <2> QED BY <1>1, <1>2, <1>3, <1>4, <1>7, <1>8, <1>9, <2>2, EnterLoopCites
<1>10. CASE sig # NoSig /\ Goto("refreshTool", known) /\ UNCHANGED aux
  <2>1. Signature(aux)' = sig /\ AuxCites(aux)' = AuxCites(aux)
    BY <1>1, <1>10 DEF Signature, Ready, UsesBiber, AuxCites, AuxComplete, ToolCites
  <2> QED BY <1>1, <1>2, <1>3, <1>4, <1>7, <1>8, <1>10, <2>1, CitingGoesOn
<1> QED BY <1>1, <1>2, <1>6, <1>9, <1>10

(* With a database that can be read the tool succeeds.                     *)
LEMMA ToolCanRead ==
    ASSUME NoBibs = {}, CiteBase
    PROVE  ToolSucceeds
BY DEF CiteBase, TInv, SourcesTyped, ToolSucceeds

(* The tool of the refresh.                                                *)
LEMMA RefreshToolCites ==
    ASSUME NoBibs = {}, Citing, CiteBase', RefreshTool
    PROVE  Citing'
<1>1. /\ pc = "refreshTool" /\ bib' = bib
      /\ bbl' = ToolBbl(ToolCites(aux), bib) /\ EnterLoop(Produced)
  BY ToolCanRead DEF RefreshTool, Citing, sources, files
<1>2. aux' \in {aux, TrivialAux}
  BY <1>1 DEF EnterLoop
<1>3. Fits'
  BY <1>1, <1>2, ProducedFits DEF Citing
<1>4. ~run.prior /\ run.passes = 0
  BY <1>1 DEF Citing, Trusts
<1> QED BY <1>1, <1>3, <1>4, ProducedCites, EnterLoopCites

(* After a pass a further one follows the tool.                            *)
LEMMA ToolRunCites ==
    ASSUME NoBibs = {}, Citing, CiteBase', Tool
    PROVE  Citing'
<1>1. /\ pc = "tool" /\ bib' = bib /\ aux' = aux
      /\ bbl' = ToolBbl(ToolCites(aux), bib) /\ Goto("pass", Produced)
  BY ToolCanRead DEF Tool, Citing, sources, files
<1>2. Fits'
  BY <1>1, ProducedFits DEF Citing
<1>3. ~run.prior /\ ~run.man.unfinished
  BY <1>1 DEF Citing, Trusts, CiteBase, TInv, DInv, DownAfterPass, AfterPass
<1> QED BY <1>1, <1>2, <1>3, ProducedCites, CitingGoesOn

(* A pass starts with the .bbl that the loop has left.                     *)
LEMMA BeginPassCites ==
    ASSUME Citing, CiteBase', BeginPass
    PROVE  Citing'
<1> DEFINE man == [run.man EXCEPT !.unfinished = TRUE]
<1>1. /\ pc = "pass" /\ pc' = "engine" /\ UNCHANGED <<aux, bbl, bib, report>>
      /\ run' = [run EXCEPT !.passes = run.passes + 1, !.man = man,
                            !.before = <<aux, bcf, bbl, ind>>]
      /\ disk' = IF run.man.unfinished THEN disk ELSE man
  BY DEF BeginPass, Pass, sources, files
<1>2. /\ {"sig", "out", "unfinished"} \subseteq DOMAIN man
      /\ man.sig = run.man.sig /\ man.out = run.man.out
  BY DEF Citing, CiteShape, CiteFields
<1> HIDE DEF man
<1>3. /\ CiteFields(run') /\ run'.man = man /\ run'.prior = run.prior
      /\ run'.complete = run.complete /\ run'.done = run.done /\ run'.cites = run.cites
  BY <1>1, <1>2 DEF Citing, CiteShape, CiteFields
<1>4. OutSigned(man)
  BY <1>2 DEF Citing, OutSigned
<1>5. CiteShape' /\ OutSigned(disk)' /\ OutSigned(run.man)'
  BY <1>1, <1>2, <1>3, <1>4 DEF Citing, CiteShape, OutSigned
<1>6. Trusts' /\ SigCurrent'
  BY <1>1, <1>3 DEF Citing, Trusts, SigCurrent
<1>7. DoneKnown'
  BY <1>1, <1>2, <1>3 DEF Citing, DoneKnown, DoneIsOurs
<1>8. BblFits'
  BY <1>1, <1>3, SameFits DEF Citing, BblFits, CiteBase, OfDocument, ReportsAtEnd, Ended
<1> QED BY <1>5, <1>6, <1>7, <1>8 DEF Citing

(* A hit ends the loop only if the .aux graph is complete, and so with a   *)
(* .bbl that fits; a pass and the index have nothing to do with it.        *)
LEMMA PassCites ==
    ASSUME Citing, CiteBase', CacheHit \/ EngineStart \/ EngineFinish \/ IndexTools
    PROVE  Citing'
<1>1. CiteFields(run)
  BY DEF Citing, CiteShape
<1>2. CASE CacheHit
  <2> DEFINE finished == [run EXCEPT !.man.unfinished = FALSE, !.wrote = TRUE, !.failed = FALSE]
             hit == [finished EXCEPT !.hit = TRUE]
  <2>1. /\ pc = "engine" /\ UNCHANGED <<aux, bbl, bib>>
        /\ (run.complete /\ Goto("publish", hit)) \/ Goto("index", finished)
    BY <1>2 DEF CacheHit, sources, files
  <2>2. SameCites(finished)
    BY <1>1 DEF SameCites, CiteFields
  <2> HIDE DEF finished
  <2>3. SameCites(hit)
    BY <2>2 DEF SameCites, CiteFields
  <2> HIDE DEF hit
  <2>4. run.complete => Fits'
    BY <2>1, SameFits DEF Citing, BblFits
  <2> QED BY <2>1, <2>2, <2>3, <2>4, CitingStays
<1>3. CASE EngineStart
  <2> DEFINE r == [run EXCEPT !.reads = Reads(doc, aux, bbl, ind)]
  <2>1. pc = "engine" /\ bib' = bib /\ Goto("running", r)
    BY <1>3 DEF EngineStart, sources, files
  <2>2. SameCites(r)
    BY <1>1 DEF SameCites, CiteFields
  <2> HIDE DEF r
  <2> QED BY <2>1, <2>2, CitingStays
<1>4. CASE EngineFinish
  <2> DEFINE r == [run EXCEPT !.man.unfinished = FALSE, !.failed = FALSE, !.wrote = @ \/ WrotePdf]
  <2>1. pc = "running" /\ bib' = bib /\ Goto("index", r)
    BY <1>4 DEF EngineFinish, PassFinished, sources, files
  <2>2. SameCites(r)
    BY <1>1 DEF SameCites, CiteFields
  <2> HIDE DEF r
  <2> QED BY <2>1, <2>2, CitingStays
<1>5. CASE IndexTools
  <2>1. pc = "index" /\ bib' = bib /\ (Goto("decide", run) \/ Goto("makeindex", run))
    BY <1>5 DEF IndexTools, sources, files
  <2>2. SameCites(run)
    BY <1>1 DEF SameCites
  <2> QED BY <2>1, <2>2, CitingStays
<1> QED BY <1>2, <1>3, <1>4, <1>5

(* Nor has makeindex; when it fails, the manifest says all about the .bbl. *)
LEMMA MakeindexCites ==
    ASSUME Citing, CiteBase', Makeindex
    PROVE  Citing'
<1> DEFINE r == [run EXCEPT !.man.idx = aux]
           m == [run.man EXCEPT !.idx = NoAux]
<1>1. /\ pc = "makeindex" /\ bib' = bib /\ CiteFields(run)
      /\ Goto("decide", r) \/ Return("failed", m)
  BY DEF Makeindex, files, Citing, CiteShape
<1>2. SameCites(r)
  BY <1>1 DEF SameCites, CiteFields
<1>3. /\ {"sig", "out", "unfinished"} \subseteq DOMAIN m
      /\ m.sig = run.man.sig /\ m.out = run.man.out /\ m.unfinished = run.man.unfinished
  BY <1>1 DEF CiteFields
<1> HIDE DEF r, m
<1>4. OutSigned(m) /\ ~m.unfinished
  BY <1>1, <1>3 DEF Citing, OutSigned, CiteBase, TInv, DInv, DownAfterPass, AfterPass
<1> QED BY <1>1, <1>2, <1>3, <1>4, CitingStays, CitingReturns
(* The loop goes on without the tool only if the manifest names the .bbl   *)
(* with the signature of this moment; if there can be none, because the    *)
(* .aux graph cannot be read completely, only if this build has run the    *)
(* tool for the same citations.                                            *)
LEMMA DecideCites ==
    ASSUME NoBibs = {}, Citing, CiteBase', Decide
    PROVE  Citing'
<1> DEFINE sig == Signature(aux)
           man == IF Adopts(aux)
                  THEN [run.man EXCEPT !.sig = sig, !.out = srcBbl]
                  ELSE run.man
           kept == IF Ready(aux) THEN man ELSE NoTool(man)
           now == IF Adopts(aux) THEN srcBbl ELSE bbl
           done == run.done \/ Adopts(aux)
           changed == run.before # <<aux, bcf, now, ind>>
           next == [run EXCEPT !.man = kept, !.cites = AuxCites(aux), !.done = done,
                               !.sig = sig, !.changed = changed]
           current == Ready(aux) => /\ run.cites \in {UnknownCites, AuxCites(aux)}
                                    /\ man.sig = sig /\ Matches(man, now)
                                    /\ AuxComplete(aux) \/ done
<1>1. /\ pc = "decide" /\ UNCHANGED <<bib, bcf, aux>>
      /\ \/ Goto("tool", next)
         \/ /\ Goto("pass", next) \/ Goto("publish", next)
            /\ current /\ bbl' = now
  BY DEF Decide, Settle, sources, files
<1>2. CiteFields(run) /\ ~run.prior /\ OutSigned(run.man) /\ CiteBase /\ ~run.man.unfinished
  BY <1>1 DEF Citing, CiteShape, Trusts, CiteBase, TInv, DInv, DownAfterPass, AfterPass
<1>3. /\ {"sig", "out", "unfinished"} \subseteq DOMAIN man /\ OutSigned(man)
      /\ ~man.unfinished /\ (Adopts(aux) => man.sig = sig /\ sig # NoSig)
      /\ (~Adopts(aux) => man = run.man)
  <2>1. CASE Adopts(aux)
    <3>1. /\ {"sig", "out", "unfinished"} \subseteq DOMAIN man
          /\ man.sig = sig /\ man.out = srcBbl /\ man.unfinished = run.man.unfinished
      BY <1>2, <2>1 DEF CiteFields
    <3>2. sig # NoSig /\ srcBbl.by = "source" /\ sig = <<srcBbl.cites, srcBbl.bib>>
      BY <1>2, <2>1, AdoptedSigned
    <3> QED BY <1>2, <2>1, <3>1, <3>2 DEF OutSigned
  <2>2. CASE ~Adopts(aux)
    BY <1>2, <2>2 DEF CiteFields
  <2> QED BY <2>1, <2>2
<1> HIDE DEF man
<1>4. /\ {"sig", "out", "unfinished"} \subseteq DOMAIN kept /\ OutSigned(kept) /\ ~kept.unfinished
      /\ Ready(aux) \/ kept.out = NoBbl
  <2>1. CASE Ready(aux)
    BY <1>3, <2>1
  <2>2. CASE ~Ready(aux)
    <3>1. kept = [man EXCEPT !.sig = NoSig, !.out = NoBbl]
      BY <2>2 DEF NoTool
    <3>2. {"sig", "out", "unfinished"} \subseteq DOMAIN kept /\ ~kept.unfinished /\ kept.out = NoBbl
      BY <1>3, <3>1
    <3> QED BY <3>2 DEF OutSigned
  <2> QED BY <2>1, <2>2
<1>5. Ready(aux) => kept = man
  OBVIOUS
<1> HIDE DEF kept, changed
<1>6. /\ CiteFields(next) /\ next.man = kept /\ next.prior = run.prior
      /\ next.cites = AuxCites(aux) /\ next.sig = sig /\ next.done = done
  <2> HIDE DEF sig, done
  <2> QED BY <1>2, <1>4 DEF CiteFields
<1> HIDE DEF next
<1>7. AuxCites(aux) # UnknownCites
  BY <1>2, AuxCitesKnown
<1>8. Signature(aux)' = sig /\ AuxCites(aux)' = AuxCites(aux)
  BY <1>1 DEF Signature, Ready, UsesBiber, AuxCites, AuxComplete, ToolCites
<1>9. CASE Goto("tool", next)
  BY <1>1, <1>2, <1>4, <1>6, <1>7, <1>8, <1>9, CitingGoesOn
<1>10. CASE /\ Goto("pass", next) \/ Goto("publish", next)
            /\ current /\ bbl' = now
  <2>1. ASSUME Ready(aux), done, ~Adopts(aux), man.sig = NoSig, man.out # NoBbl
        PROVE  man.out = ToolBbl(AuxCites(aux), bib)
    <3>1. man = run.man /\ run.done
      BY <1>3, <2>1
    <3>2. run.man.out = ToolBbl(run.cites, bib) /\ run.cites # UnknownCites
      BY <1>1, <2>1, <3>1 DEF Citing, DoneKnown, DoneIsOurs
    <3> QED BY <1>10, <2>1, <3>1, <3>2
  <2>2. DoneIsOurs(next)
    BY <1>3, <1>4, <1>5, <1>6, <2>1 DEF DoneIsOurs
  <2>3. Fits'
    <3> SUFFICES ASSUME aux.state = "full", Cites[aux.doc] # NoCites
                 PROVE  now.by \in {"tool", "source"} /\ now.cites = Cites[aux.doc] /\ now.bib = bib
      BY <1>1, <1>10 DEF Fits
    <3>1. Ready(aux)
      BY <1>2, CitedReady
    <3>2. man.sig = sig /\ Matches(man, now) /\ (AuxComplete(aux) \/ done)
      BY <1>10, <3>1
    <3>3. man.out # NoBbl
      BY <3>2 DEF Matches, NoBbl
    <3>4. sig # NoSig \/ AuxComplete(aux) \/ man.out = ToolBbl(AuxCites(aux), bib)
      BY <1>3, <2>1, <3>1, <3>2, <3>3
    <3> HIDE DEF now, done
    <3> QED BY <1>2, <1>3, <3>2, <3>4, CurrentFits
  <2> QED BY <1>1, <1>2, <1>4, <1>6, <1>7, <1>10, <2>2, <2>3, CitingGoesOn
<1> QED BY <1>1, <1>9, <1>10

(* The end of a build leaves the .bbl, and saves the manifest.             *)
LEMMA PublicationCites ==
    ASSUME Citing, CiteBase', NotConverged \/ NoOutput \/ PublishSynctex \/ PublishPdf \/ Save
    PROVE  Citing'
<1> DEFINE sync == [run EXCEPT !.man.sync = staged]
           pdf == [run EXCEPT !.man.pdf = staged]
<1>1. UNCHANGED <<aux, bbl, bib>> /\ CiteFields(run) /\ OutSigned(run.man)
  BY DEF NotConverged, NoOutput, PublishSynctex, PublishPdf, Save, sources, files, Citing, CiteShape
<1>2. CASE NotConverged \/ NoOutput \/ Save
  <2>1. \E status : Return(status, run.man) /\ (status = "ok" => pc = "save")
    BY <1>2 DEF NotConverged, NoOutput, Save
  <2>2. ~run.man.unfinished
    <3>1. CASE NotConverged
      <4>1. pc = "pass" /\ run.passes > 0
        BY <3>1, DriverAssumption DEF NotConverged
      <4> QED BY <4>1 DEF Citing, Trusts
    <3>2. CASE NoOutput \/ Save
      BY <3>2 DEF NoOutput, Save, Citing, CiteBase, TInv, DInv, DownAfterPass, AfterPass
    <3> QED BY <1>2, <3>1, <3>2
  <2>3. pc = "save" => Fits'
    BY <1>1, SameFits DEF Citing, BblFits
  <2> QED BY <1>1, <2>1, <2>2, <2>3, CitingReturns DEF CiteFields
<1>3. CASE PublishSynctex \/ PublishPdf
  <2>1. /\ pc \in {"publish", "publishPdf"}
        /\ \E r \in {run, sync, pdf}, place \in {"publishPdf", "save"} : Goto(place, r)
    BY <1>3 DEF PublishSynctex, PublishPdf
  <2>2. SameCites(run) /\ SameCites(sync) /\ SameCites(pdf)
    BY <1>1 DEF SameCites, CiteFields
  <2> HIDE DEF sync, pdf
  <2>3. Fits'
    BY <1>1, <2>1, SameFits DEF Citing, BblFits
  <2> QED BY <1>1, <2>1, <2>2, <2>3, CitingStays
<1> QED BY <1>2, <1>3

(* The database is edited between builds only, and then nothing is claimed *)
(* until the next one.                                                     *)
LEMMA OutsideCites ==
    ASSUME "bib" \notin MidBuild, Citing, CiteBase',
           EditDoc \/ EditBib \/ PutBbl \/ MinutePasses \/ UNCHANGED vars
    PROVE  Citing'
<1>1. UNCHANGED <<aux, bcf, bbl, disk, pc, run, report>>
  BY DEF EditDoc, EditBib, PutBbl, MinutePasses, Edit, vars
<1>2. CiteShape' /\ OutSigned(disk)' /\ OutSigned(run.man)' /\ Trusts'
  BY <1>1 DEF Citing, CiteShape, OutSigned, Trusts, AuxComplete
<1>3. (pc = "idle" /\ moved') \/ (bib' = bib /\ (moved' \/ moved' = moved))
  BY DEF EditDoc, EditBib, PutBbl, MinutePasses, Edit, May, vars, sources, files
<1>4. CASE pc = "idle" /\ moved'
  <2>1. ~run.done
    BY <1>4 DEF Citing, CiteBase, TInv, RunTyped, Fresh
  <2>2. SigCurrent' /\ DoneKnown' /\ BblFits'
    BY <1>1, <1>4, <2>1 DEF SigCurrent, DoneKnown, DoneIsOurs, BblFits, Ended
  <2> QED BY <1>2, <2>2 DEF Citing
<1>5. CASE bib' = bib /\ (moved' \/ moved' = moved)
  <2>1. Signature(aux)' = Signature(aux) /\ AuxCites(aux)' = AuxCites(aux)
    BY <1>1, <1>5 DEF Signature, Ready, UsesBiber, AuxCites, AuxComplete, ToolCites
  <2>2. SigCurrent' /\ DoneKnown'
    BY <1>1, <1>5, <2>1 DEF Citing, SigCurrent, DoneKnown, DoneIsOurs
  <2>3. BblFits'
    BY <1>1, <1>5, SameFits DEF Citing, BblFits, Ended
  <2> QED BY <1>2, <2>2, <2>3 DEF Citing
<1> QED BY <1>3, <1>4, <1>5

(* Citing is an invariant if BibTeX and Biber can read every database, the *)
(* database is edited between builds only, no pass fails, and no build is  *)
(* killed or cannot go on.                                                 *)
THEOREM CitingHolds ==
    ASSUME NoBibs = {}, "bib" \notin MidBuild, Faults \subseteq {"index"}
    PROVE  Spec => []Citing
<1>1. Citing /\ [Next]_vars => Citing'
  <2> SUFFICES ASSUME Citing, [Next]_vars PROVE Citing'
    OBVIOUS
  <2>1. CiteBase'
    BY CiteBaseStep DEF Citing
  <2>2. /\ ~Kill /\ ~EngineErrors /\ ~EngineStops /\ ~EngineMissing
        /\ ~PublishFails("publish") /\ ~PublishFails("publishPdf")
    BY DEF Kill, EngineErrors, EngineStops, EngineMissing, PublishFails
  <2> QED
    BY <2>1, <2>2, StartCites, RefreshCites, RefreshToolCites, BeginPassCites, PassCites,
       MakeindexCites, DecideCites, ToolRunCites, PublicationCites, OutsideCites
    DEF Next, Driver
<1> QED BY <1>1, CitingInit, PTL DEF Spec

(* A build that reports OK has a bibliography of its citations, from the   *)
(* database that is there: for all documents, with BibTeX or Biber, with   *)
(* .aux graphs that cannot be read completely, with a .bbl of the          *)
(* project's own, after any edits between builds and of the document       *)
(* during them, and for any limit on passes.  The hypotheses are needed:   *)
(* with a failure that leaves the mark on disk, the next build trusts its  *)
(* result cache and looks at no database.                                  *)
THEOREM OkCitesHolds ==
    ASSUME NoBibs = {}, "bib" \notin MidBuild, Faults \subseteq {"index"}
    PROVE  Spec => []OkCites
<1>1. Citing => OkCites
  <2> SUFFICES ASSUME Citing, Ended, Cites[doc] # NoCites
               PROVE  bbl.by \in {"tool", "source"} /\ bbl.cites = Cites[doc] /\ bbl.bib = bib
    BY DEF OkCites
  <2>1. doc \notin OnePageDocs
    BY DriverAssumption
  <2>2. aux.state = "full" /\ aux.doc = doc
    BY <2>1 DEF Citing, CiteBase, OfDocument, AuxOfDoc, Ended
  <2> QED BY <2>2 DEF Citing, BblFits, Fits
<1> QED BY <1>1, CitingHolds, PTL

-----------------------------------------------------------------------------
(* The published PDF.  A hit of the result cache leaves the PDF alone, so   *)
(* that it must be the record's.  It is, because a pass that is recorded    *)
(* has left nothing to do for any tool, and is published.                   *)

\* What the bibliography tool would look for, with the .aux a and the .bcf c
Wanted(a, c) == IF AuxCites(a) = NoCites /\ c # NoBcf THEN c.cites ELSE AuxCites(a)

\* The signature that goes with it, for a readable database
SigOf(a, c) ==
    IF Wanted(a, c) # NoCites /\ (AuxCites(a) = NoCites \/ AuxComplete(a))
    THEN <<Wanted(a, c), bib>> ELSE NoSig

\* The project's .bbl would be taken for the .aux a
Adoptable(a) == AuxCites(a) # NoCites /\ AuxComplete(a) /\ srcNew /\ srcBbl.cites = AuxCites(a)

\* The bibliography for a and c is there: a pass that reproduces a needs no tool
Settled(a, c) ==
    Wanted(a, c) # NoCites =>
        /\ run.man.out = bbl /\ bbl.by # "none"
        /\ run.man.sig = SigOf(a, c)
        /\ run.cites \in {UnknownCites, AuxCites(a)}
        /\ run.done \/ AuxComplete(a)
        /\ Adoptable(a) /\ a.bbl = bbl => bbl = srcBbl

\* ... which holds before every pass, unless the .aux files cannot be read
SettledBefore ==
    /\ pc \in {"pass", "engine"} /\ (run.complete \/ AuxComplete(aux)) => Settled(aux, bcf)
    /\ pc = "running" /\ (run.complete \/ AuxComplete(run.before[1])) =>
         Settled(run.before[1], run.before[2])

\* What a build remembers of the files before its last pass
BeforePass ==
    /\ pc = "engine" => run.before = <<aux, bcf, bbl, ind>>
    /\ pc = "running" =>
         LET a == run.before[1]  c == run.before[2] IN
         /\ run.before = <<a, c, bbl, ind>> /\ run.reads = Reads(doc, a, bbl, ind)
         /\ doc \notin BiberDocs => bcf = c
         /\ a.state = "full" /\ a.doc \in BiberDocs => c = [state |-> "full", cites |-> Cites[a.doc]]
         /\ a.state = "full" /\ a.doc \in IndexDocs => ind = ToolInd(a)

\* What the pass has made of them
PassMade ==
    pc \in {"index", "makeindex", "decide", "tool"} =>
        /\ aux = NewAux(doc, run.before[1], run.before[3], run.before[4])
        /\ pc # "tool" => run.before[3] = bbl
        /\ doc \notin EmptyDocs =>
             run.wrote /\ staged = Typeset(doc, run.before[1], run.before[3], run.before[4])

\* The citations that the .aux of the document has after a pass
DocCites == IF doc \in BiberDocs THEN NoCites ELSE Cites[doc]
BiberCites == {Cites[d] : d \in BiberDocs}

\* Where the citations of the first pass differ from those known, so does its .bbl
CitesOfRead ==
    pc \in {"pass", "engine", "running", "index", "makeindex", "decide"} =>
        \/ run.cites \in {UnknownCites, DocCites}
        \/ bbl.cites \in {run.cites} \cup BiberCites

\* A tool is run although the project has a .bbl only if it is not the one that was read
NotAdopted ==
    /\ pc = "refreshTool" => ~Adoptable(aux)
    /\ pc = "tool" /\ Adoptable(aux) => aux.bbl # ToolBbl(AuxCites(aux), bib)

ControlFiles ==
    /\ bcf = [state |-> bcf.state, cites |-> bcf.cites]
    /\ bcf.cites \in {NoCites} \cup BiberCites

BuildFields ==
    /\ {"man", "before", "wrote", "hit", "complete", "cites", "done", "failed", "reads"} \subseteq DOMAIN run
    /\ {"sig", "out", "idx", "pdf"} \subseteq DOMAIN run.man
    /\ run.hit => pc \in {"publish", "publishPdf", "save"}
    /\ pc # "idle" => ~moved
    /\ pc = "refresh" => run.cites = UnknownCites
    /\ ~run.failed

RecordInputs ==
    record # NoRecord =>
        /\ record.in.doc \in Docs \ EmptyDocs
        /\ Inert(record.in.doc) => record.in = Reads(record.in.doc, NoAux, NoBbl, NoInd)
        /\ ~Inert(record.in.doc) => record.in.labels = record.aux

\* The record is of the staged PDF, if the last pass has changed nothing
RecordStaged ==
    /\ pc \in {"index", "makeindex", "decide"} /\ run.before[1] = aux
         /\ record # NoRecord /\ doc \notin EmptyDocs => record.pdf = staged
    /\ pc \in {"publish", "publishPdf"} /\ run.wrote /\ record # NoRecord /\ ~Inert(doc) =>
         record.pdf = staged

\* No tool has anything to do, and the build is about to be stable
Quiet ==
    /\ run.wrote /\ run.before = <<aux, bcf, bbl, ind>>
    /\ Settled(aux, bcf)
    /\ aux.state = "full" /\ aux.doc \in IndexDocs => IndexIsCurrent

\* The record is one that a hit of this or the next build may be about
MayHit ==
    /\ record # NoRecord
    /\ record.in.doc \notin PartialDocs \/ (pc # "idle" /\ run.complete)
    /\ Inert(record.in.doc) \/ (staged = record.pdf /\ aux = record.aux)

\* Its PDF is the visible one, or about to be published
RecordShown ==
    MayHit =>
        \/ visible.pdf \in {NoPdf, record.pdf}
        \/ pc \in {"index", "decide"} /\ Quiet
        \/ pc \in {"publish", "publishPdf"} /\ run.wrote

HitShown == pc \in {"publish", "publishPdf"} /\ run.hit => visible.pdf \in {NoPdf, staged}

PdfCurrent ==
    /\ pc \in {"publishPdf", "save"} => run.wrote
    /\ pc = "publishPdf" => staged = Typeset(doc, aux, bbl, ind)
    /\ pc = "save" => visible.pdf = Typeset(doc, aux, bbl, ind)
    /\ OkIsCurrent

Showing ==
    /\ SettledBefore /\ BeforePass /\ PassMade /\ CitesOfRead /\ NotAdopted
    /\ ControlFiles /\ BuildFields /\ RecordInputs
    /\ RecordStaged /\ RecordShown /\ HitShown /\ PdfCurrent

(* At most one version of the document uses no auxiliary file.              *)
PlainOnce ==
    \A d, e \in Docs \ EmptyDocs : Inert(d) /\ Inert(e) => d = e /\ d \notin PartialDocs

Undisturbed == Faults = {} /\ MidBuild = {} /\ NoBibs = {} /\ PlainOnce

\* What has been proved before
Known == Converging /\ Published /\ Indexing /\ Citing

(* What the tool looks for, and its signature, in terms of the two files.   *)
LEMMA WantedIs ==
    ASSUME NoBibs = {}, Citing
    PROVE  /\ ToolCites(aux) = Wanted(aux, bcf)
           /\ Ready(aux) <=> Wanted(aux, bcf) # NoCites
           /\ Signature(aux) = SigOf(aux, bcf)
           /\ Adopts(aux) <=> Adoptable(aux)
<1>1. bib # "absent"
  BY DriverAssumption DEF Citing, CiteBase, TInv, SourcesTyped
<1>2. (bcf.state = "full" <=> bcf.cites # NoCites)
  BY DEF Citing, CiteBase, TInv, AuxTyped
<1>3. ToolCites(aux) = Wanted(aux, bcf)
  BY DEF ToolCites, Wanted, UsesBiber
<1>4. Ready(aux) <=> Wanted(aux, bcf) # NoCites
  BY <1>1, <1>2 DEF Ready, Wanted, UsesBiber
<1>5. UsesBiber(aux) => AuxCites(aux) = NoCites
  BY DEF UsesBiber
<1>6. Wanted(aux, bcf) # NoCites /\ AuxCites(aux) = NoCites => UsesBiber(aux)
  BY DEF UsesBiber, Wanted
<1>7. Signature(aux) = SigOf(aux, bcf)
  BY <1>3, <1>4, <1>5, <1>6 DEF Signature, SigOf
<1>8. <<Wanted(aux, bcf), bib>> # NoSig \/ Wanted(aux, bcf) = NoCites
  BY DEF NoSig
<1>9. ~UsesBiber(aux) /\ Signature(aux) # NoSig <=> AuxCites(aux) # NoCites /\ AuxComplete(aux)
  <2>1. AuxCites(aux) # NoCites => Wanted(aux, bcf) = AuxCites(aux) /\ ~UsesBiber(aux)
    BY DEF Wanted, UsesBiber
  <2> QED BY <1>6, <1>7, <1>8, <2>1 DEF SigOf, NoSig
<1>10. Adopts(aux) <=> Adoptable(aux)
  BY <1>9 DEF Adopts, Adoptable
<1> QED BY <1>3, <1>4, <1>7, <1>10

(* The steps that an undisturbed build does not take.                       *)
LEMMA NoDisturbance ==
    ASSUME Undisturbed
    PROVE  /\ ~Kill /\ ~EngineErrors /\ ~EngineStops /\ ~EngineMissing
           /\ ~PublishFails("publish") /\ ~PublishFails("publishPdf")
BY DEF Undisturbed, Kill, EngineErrors, EngineStops, EngineMissing, PublishFails

(* The local variables that the argument is about are there.                *)
LEMMA FieldsKnown ==
    ASSUME Known
    PROVE  /\ {"man", "prior", "passes", "complete", "cites", "done", "sig", "reads", "before",
               "changed", "hit", "wrote"} \subseteq DOMAIN run
           /\ {"sig", "out", "unfinished", "idx", "pdf", "sync"} \subseteq DOMAIN run.man
BY DEF Known, Citing, CiteShape, CiteFields, Indexing, IndexShape, IndexFields, Published,
   PublishFields, Converging, LocalFields

LEMMA FieldsKnownNext ==
    ASSUME Known'
    PROVE  /\ {"man", "prior", "passes", "complete", "cites", "done", "sig", "reads", "before",
               "changed", "hit", "wrote"} \subseteq DOMAIN run'
           /\ {"sig", "out", "unfinished", "idx", "pdf", "sync"} \subseteq DOMAIN run'.man
BY DEF Known, Citing, CiteShape, CiteFields, Indexing, IndexShape, IndexFields, Published,
   PublishFields, Converging, LocalFields

(* A report of success is of a build that has ended.                        *)
LEMMA NotEnded == ASSUME Known', pc' # "idle" PROVE ~Ended'
BY DEF Known, Indexing, OfDocument, ReportsAtEnd, Ended

(* At first nothing is staged and nothing published.                        *)
LEMMA ShowingInit == Init => Showing
<1> SUFFICES ASSUME Init PROVE Showing
  OBVIOUS
<1>1. pc = "idle" /\ report = "none" /\ record = NoRecord /\ run = Fresh /\ bcf = NoBcf
  BY DEF Init
<1>2. SettledBefore /\ BeforePass /\ PassMade /\ CitesOfRead /\ NotAdopted
  BY <1>1 DEF SettledBefore, BeforePass, PassMade, CitesOfRead, NotAdopted
<1>3. ControlFiles /\ BuildFields
  BY <1>1 DEF ControlFiles, BuildFields, NoBcf, Fresh, NewManifest
<1>4. RecordInputs /\ RecordStaged /\ RecordShown /\ HitShown /\ PdfCurrent
  BY <1>1 DEF RecordInputs, RecordStaged, RecordShown, MayHit, HitShown, PdfCurrent, OkIsCurrent, Ended
<1> QED BY <1>2, <1>3, <1>4 DEF Showing

(* While the record, the staged PDF and the visible one stay, so does       *)
(* RecordShown, but where it speaks of an end that is near.                 *)
LEMMA RecordShownStays ==
    ASSUME RecordShown, pc \notin {"index", "decide", "publish", "publishPdf"},
           UNCHANGED <<record, visible>>, MayHit' => MayHit
    PROVE  RecordShown'
BY DEF RecordShown

\* build is started between edits
LEMMA StartShows ==
    ASSUME Undisturbed, Known, Known', Showing, Start
    PROVE  Showing'
<1>1. /\ pc = "idle" /\ pc' = "refresh" /\ moved' = FALSE
      /\ UNCHANGED <<doc, bib, aux, bcf, bbl, ind, staged, record, visible>>
      /\ run' = [Fresh EXCEPT !.prior = disk.unfinished, !.complete = AuxComplete(aux),
                              !.man = [disk EXCEPT !.unfinished = TRUE]]
  BY DEF Start, Begin, files
<1>2. /\ run'.complete = AuxComplete(aux) /\ run'.hit = FALSE /\ run'.failed = FALSE
      /\ "failed" \in DOMAIN run' /\ run'.cites = UnknownCites
  BY <1>1 DEF Fresh
<1>3. SettledBefore' /\ BeforePass' /\ PassMade' /\ CitesOfRead' /\ NotAdopted'
  BY <1>1 DEF SettledBefore, BeforePass, PassMade, CitesOfRead, NotAdopted
<1>4. ControlFiles' /\ BuildFields' /\ RecordInputs'
  BY <1>1, <1>2, FieldsKnownNext DEF Showing, ControlFiles, BuildFields, RecordInputs
<1>5. MayHit' => MayHit
  <2> SUFFICES ASSUME MayHit', record.in.doc \in PartialDocs, ~Inert(record.in.doc) PROVE FALSE
    BY <1>1 DEF MayHit, Showing, RecordInputs, Undisturbed, PlainOnce
  <2>1. aux = record.aux /\ AuxComplete(aux) /\ record # NoRecord
    BY <1>1, <1>2 DEF MayHit
  <2>2. record.aux = AuxOf(record.in, record.aux)
    BY <2>1 DEF Known, Converging, RecordIsStable
  <2>3. record.in.doc \notin OnePageDocs
    BY DriverAssumption DEF Inert
  <2> QED BY <2>1, <2>2, <2>3 DEF AuxOf, AuxComplete
<1>6. RecordStaged' /\ RecordShown' /\ HitShown'
  BY <1>1, <1>5, RecordShownStays DEF Showing, RecordStaged, HitShown
<1>7. PdfCurrent'
  BY <1>1, NotEnded DEF PdfCurrent, OkIsCurrent
<1> QED BY <1>3, <1>4, <1>6, <1>7 DEF Showing

\* Nothing to be published is left behind
Shown == MayHit => visible.pdf \in {NoPdf, record.pdf}

(* A record's .aux is no trivial one, unless its document is inert.         *)
LEMMA RecordAuxFull ==
    ASSUME Known, record # NoRecord, ~Inert(record.in.doc)
    PROVE  /\ record.aux.state = "full" /\ record.aux.doc = record.in.doc
           /\ record.aux = AuxOf(record.in, record.aux)
<1>1. record.aux = AuxOf(record.in, record.aux)
  BY DEF Known, Converging, RecordIsStable
<1>2. record.in.doc \notin OnePageDocs
  BY DriverAssumption DEF Inert
<1> QED BY <1>1, <1>2 DEF AuxOf

\* The .aux files that the engine finds: the trivial ones, if there are none
EnsuredAux == aux' = IF aux.state = "none" THEN TrivialAux ELSE aux

(* The loop is entered, or goes round.                                      *)
LEMMA LoopShows ==
    ASSUME Known, Known', Showing, Shown, pc # "idle", pc' = "pass", EnsuredAux,
           UNCHANGED <<doc, moved, bcf, staged, record, visible>>,
           run'.complete = run.complete, ~run'.hit, ~run'.failed, "failed" \in DOMAIN run',
           (run.complete \/ AuxComplete(aux')) => Settled(aux, bcf)',
           run'.cites \in {UnknownCites, DocCites} \/ bbl'.cites \in {run'.cites} \cup BiberCites
    PROVE  Showing'
<1>1. SettledBefore'
  BY DEF SettledBefore
<1>2. BeforePass' /\ PassMade' /\ NotAdopted' /\ RecordStaged' /\ HitShown'
  BY DEF BeforePass, PassMade, NotAdopted, RecordStaged, HitShown
<1>3. CitesOfRead'
  BY DEF CitesOfRead, DocCites
<1>4. ControlFiles' /\ RecordInputs'
  BY DEF Showing, ControlFiles, RecordInputs
<1>5. BuildFields'
  BY FieldsKnownNext DEF Showing, BuildFields
<1>6. PdfCurrent'
  BY NotEnded DEF PdfCurrent, OkIsCurrent
<1>7. MayHit' => MayHit
  <2> SUFFICES ASSUME MayHit', ~Inert(record.in.doc) PROVE aux = record.aux
    BY DEF MayHit
  <2>1. aux' = record.aux /\ record # NoRecord
    BY DEF MayHit
  <2>2. record.aux.state = "full"
    BY <2>1, RecordAuxFull
  <2> QED BY <2>1, <2>2 DEF EnsuredAux, TrivialAux, NoAux
<1>8. RecordShown'
  BY <1>7 DEF Shown, RecordShown
<1> QED BY <1>1, <1>2, <1>3, <1>4, <1>5, <1>6, <1>8 DEF Showing

\* The trivial .aux files cite as little as none
LEMMA EnsuredSame ==
    ASSUME EnsuredAux
    PROVE  /\ AuxCites(aux') = AuxCites(aux)
           /\ AuxComplete(aux') <=> AuxComplete(aux)
           /\ AuxCites(aux) # NoCites => aux' = aux
BY DEF EnsuredAux, AuxCites, AuxComplete, TrivialAux, NoAux

(* The bibliography for the present files, as a manifest m names it.        *)
LEMMA SettledNext ==
    ASSUME EnsuredAux, UNCHANGED <<bcf, bib, srcNew, srcBbl>>,
           Wanted(aux, bcf) # NoCites =>
               /\ run'.man.out = bbl' /\ bbl'.by # "none"
               /\ run'.man.sig = SigOf(aux, bcf)
               /\ run'.cites \in {UnknownCites, AuxCites(aux)}
               /\ run'.done \/ AuxComplete(aux)
               /\ Adoptable(aux) /\ aux.bbl = bbl' => bbl' = srcBbl
    PROVE  Settled(aux, bcf)'
<1>1. Wanted(aux', bcf) = Wanted(aux, bcf)
  BY EnsuredSame DEF Wanted
<1>2. Wanted(aux, bcf)' = Wanted(aux, bcf)
  BY <1>1 DEF Wanted, AuxCites
<1>3. AuxCites(aux)' = AuxCites(aux) /\ (AuxComplete(aux)' <=> AuxComplete(aux))
  BY EnsuredSame DEF AuxCites, AuxComplete
<1>4. SigOf(aux, bcf)' = SigOf(aux, bcf)
  BY <1>2, <1>3 DEF SigOf
<1>5. Adoptable(aux)' => Adoptable(aux) /\ aux' = aux
  BY <1>3, EnsuredSame DEF Adoptable
<1> QED BY <1>2, <1>3, <1>4, <1>5 DEF Settled

\* What a .bcf names is cited with Biber
LEMMA WantedCites ==
    ASSUME ControlFiles
    PROVE  Wanted(aux, bcf) \in {AuxCites(aux)} \cup BiberCites \cup {NoCites}
BY DEF Wanted, ControlFiles

(* The refresh, and the tool if it needs one.                               *)
LEMMA RefreshShows ==
    ASSUME Undisturbed, Known, Known', Showing, Refresh
    PROVE  Showing'
<1> DEFINE present == IF bbl = NoBbl /\ srcBbl # NoBbl THEN srcBbl ELSE bbl
           sig == Signature(aux)
           man == IF Adopts(aux)
                  THEN [run.man EXCEPT !.sig = sig, !.out = srcBbl]
                  ELSE run.man
           now == IF Adopts(aux) THEN srcBbl ELSE present
           known == [run EXCEPT !.man = man, !.cites = AuxCites(aux),
                                !.done = Adopts(aux), !.sig = sig]
           none == [run EXCEPT !.man = NoTool(run.man)]
<1>1. /\ pc = "refresh"
      /\ UNCHANGED <<doc, bib, moved, srcNew, srcBbl, bcf, staged, record, visible>>
      /\ \/ (run.prior \/ sig = NoSig) /\ EnterLoop(none)
         \/ sig # NoSig /\ Matches(man, now) /\ man.sig = sig /\ bbl' = now /\ EnterLoop(known)
         \/ /\ ~run.prior /\ sig # NoSig /\ ~(Matches(man, now) /\ man.sig = sig)
            /\ Goto("refreshTool", known) /\ UNCHANGED aux
  BY DEF Refresh, sources, files
<1>2. /\ ~run.hit /\ ~run.failed /\ "failed" \in DOMAIN run /\ ~run.prior
      /\ (run.complete => AuxComplete(aux))
  BY <1>1 DEF Showing, BuildFields, Known, Citing, Trusts
<1>3. Shown
  BY <1>1 DEF Showing, RecordShown, Shown
<1>4. /\ ToolCites(aux) = Wanted(aux, bcf) /\ (Ready(aux) <=> Wanted(aux, bcf) # NoCites)
      /\ sig = SigOf(aux, bcf) /\ (Adopts(aux) <=> Adoptable(aux))
  BY WantedIs DEF Undisturbed, Known
<1>5. AuxComplete(aux) /\ sig = NoSig => Wanted(aux, bcf) = NoCites
  BY <1>4 DEF SigOf, NoSig
<1>6. /\ {"sig", "out"} \subseteq DOMAIN man /\ OutSigned(man)
      /\ Adopts(aux) => man.sig = sig /\ man.out = srcBbl /\ srcBbl.by # "none"
  <2>1. {"sig", "out"} \subseteq DOMAIN man /\ (Adopts(aux) => man.sig = sig /\ man.out = srcBbl)
    BY FieldsKnown
  <2>2. Adopts(aux) => srcBbl.by = "source" /\ sig = <<srcBbl.cites, srcBbl.bib>>
    BY AdoptedSigned DEF Known, Citing
  <2> HIDE DEF sig
  <2> QED BY <2>1, <2>2 DEF OutSigned, Known, Citing
<1> HIDE DEF man, sig
<1>7. /\ known.man = man /\ known.complete = run.complete /\ known.cites = AuxCites(aux)
      /\ known.done = Adopts(aux) /\ ~known.hit /\ ~known.failed /\ "failed" \in DOMAIN known
      /\ "trivial" \in DOMAIN known => "trivial" \in DOMAIN run
  BY <1>2, FieldsKnown
<1>8. /\ none.complete = run.complete /\ none.cites = run.cites /\ ~none.hit
      /\ ~none.failed /\ "failed" \in DOMAIN none
  BY <1>2, FieldsKnown
<1> HIDE DEF known, none
<1>9. CASE sig = NoSig /\ EnterLoop(none)
  <2>1. /\ pc' = "pass" /\ EnsuredAux /\ run'.complete = run.complete /\ run'.cites = run.cites
        /\ ~run'.hit /\ ~run'.failed /\ "failed" \in DOMAIN run'
    BY <1>8, <1>9 DEF EnterLoop, EnsuredAux, Goto
  <2>2. (run.complete \/ AuxComplete(aux')) => Settled(aux, bcf)'
    BY <1>1, <1>2, <1>5, <1>9, <2>1, EnsuredSame, SettledNext
  <2>3. run.cites = UnknownCites
    BY <1>1 DEF Showing, BuildFields
  <2> QED BY <1>1, <1>3, <2>1, <2>2, <2>3, LoopShows
<1>10. CASE /\ sig # NoSig /\ Matches(man, now) /\ man.sig = sig /\ bbl' = now /\ EnterLoop(known)
  <2>1. /\ pc' = "pass" /\ EnsuredAux /\ run'.complete = run.complete /\ run'.man = man
        /\ run'.cites = AuxCites(aux) /\ run'.done = Adopts(aux)
        /\ ~run'.hit /\ ~run'.failed /\ "failed" \in DOMAIN run'
    BY <1>7, <1>10 DEF EnterLoop, EnsuredAux, Goto
  <2>2. man.out = bbl' /\ bbl'.by # "none"
    BY <1>10 DEF Matches
  <2>3. (run.complete \/ AuxComplete(aux')) => Settled(aux, bcf)'
    BY <1>1, <1>2, <1>4, <1>6, <1>10, <2>1, <2>2, EnsuredSame, SettledNext
  <2>4. bbl'.cites = Wanted(aux, bcf)
    <3>1. sig = <<Wanted(aux, bcf), bib>>
      BY <1>4, <1>10 DEF SigOf
    <3>2. man.out # NoBbl
      BY <2>2 DEF NoBbl
    <3> QED BY <1>6, <1>10, <2>2, <3>1, <3>2 DEF OutSigned
  <2>5. Wanted(aux, bcf) # NoCites
    BY <1>4, <1>10 DEF SigOf
  <2>6. bbl'.cites \in {run'.cites} \cup BiberCites
    BY <2>1, <2>4, <2>5, WantedCites DEF Showing
  <2> QED BY <1>1, <1>3, <2>1, <2>3, <2>6, LoopShows
<1>11. CASE /\ ~(Matches(man, now) /\ man.sig = sig) /\ Goto("refreshTool", known) /\ UNCHANGED aux
  <2>1. pc' = "refreshTool" /\ run' = known
    BY <1>11 DEF Goto
  <2>2. ~Adopts(aux)
    BY <1>6, <1>11 DEF Matches
  <2>3. ~Adoptable(aux)'
    BY <1>1, <1>4, <1>11, <2>2 DEF Adoptable
  <2>4. SettledBefore' /\ BeforePass' /\ PassMade' /\ CitesOfRead' /\ NotAdopted'
    BY <2>1, <2>3 DEF SettledBefore, BeforePass, PassMade, CitesOfRead, NotAdopted
  <2>5. ControlFiles' /\ BuildFields' /\ RecordInputs'
    BY <1>1, <1>7, <2>1, FieldsKnownNext DEF Showing, ControlFiles, BuildFields, RecordInputs
  <2>6. MayHit' => MayHit
    BY <1>1, <1>7, <1>11, <2>1 DEF MayHit
  <2>7. RecordStaged' /\ RecordShown' /\ HitShown' /\ PdfCurrent'
    BY <1>1, <2>1, <2>6, RecordShownStays, NotEnded
    DEF Showing, RecordStaged, HitShown, PdfCurrent, OkIsCurrent
  <2> QED BY <2>4, <2>5, <2>7 DEF Showing
<1> QED BY <1>1, <1>2, <1>9, <1>10, <1>11

(* The tool of the refresh.                                                 *)
LEMMA RefreshToolShows ==
    ASSUME Undisturbed, Known, Known', Showing, RefreshTool
    PROVE  Showing'
<1>1. /\ ToolCites(aux) = Wanted(aux, bcf) /\ Signature(aux) = SigOf(aux, bcf)
      /\ ToolSucceeds
  BY WantedIs, ToolCanRead DEF Undisturbed, Known, Citing
<1>2. /\ pc = "refreshTool" /\ bbl' = ToolBbl(Wanted(aux, bcf), bib) /\ EnterLoop(Produced)
      /\ UNCHANGED <<doc, bib, moved, srcNew, srcBbl, bcf, staged, record, visible>>
  BY <1>1 DEF RefreshTool, sources, files
<1>3. run.sig = SigOf(aux, bcf) /\ run.cites = AuxCites(aux) /\ Wanted(aux, bcf) # NoCites
  BY <1>1, <1>2 DEF Known, Citing, SigCurrent, CiteBase, TInv, ToolsHaveInput
<1>4. ~run.hit /\ ~run.failed /\ "failed" \in DOMAIN run /\ ~Adoptable(aux) /\ Shown
  BY <1>2 DEF Showing, BuildFields, NotAdopted, RecordShown, Shown
<1>5. /\ Produced.complete = run.complete /\ Produced.cites = run.cites /\ Produced.done
      /\ Produced.man.sig = run.sig /\ Produced.man.out = bbl'
      /\ ~Produced.hit /\ ~Produced.failed /\ "failed" \in DOMAIN Produced
  BY <1>1, <1>2, <1>4, FieldsKnown DEF Produced
<1>6. /\ pc' = "pass" /\ EnsuredAux /\ run'.complete = run.complete /\ run'.cites = AuxCites(aux)
      /\ run'.done /\ run'.man.sig = SigOf(aux, bcf) /\ run'.man.out = bbl'
      /\ ~run'.hit /\ ~run'.failed /\ "failed" \in DOMAIN run'
  BY <1>2, <1>3, <1>5 DEF EnterLoop, EnsuredAux, Goto
<1>7. bbl'.by # "none" /\ bbl'.cites = Wanted(aux, bcf)
  BY <1>2 DEF ToolBbl
<1>8. Settled(aux, bcf)'
  BY <1>2, <1>4, <1>6, <1>7, SettledNext
<1>9. bbl'.cites \in {run'.cites} \cup BiberCites
  BY <1>3, <1>6, <1>7, WantedCites DEF Showing
<1> QED BY <1>2, <1>4, <1>6, <1>8, <1>9, LoopShows

(* A build returns, with the visible PDF as it is.                          *)
LEMMA EndShows ==
    ASSUME Known, Showing, Shown, pc' = "idle", run' = Fresh,
           UNCHANGED <<doc, aux, bcf, bbl, ind, staged, record, visible>>,
           Ended' => visible.pdf = Typeset(doc, aux, bbl, ind)
    PROVE  Showing'
<1>1. /\ {"man", "before", "wrote", "hit", "complete", "cites", "done", "failed", "reads"} \subseteq DOMAIN Fresh
      /\ {"sig", "out", "idx", "pdf"} \subseteq DOMAIN Fresh.man
      /\ ~Fresh.hit /\ ~Fresh.failed
  BY DEF Fresh, NewManifest
<1>2. SettledBefore' /\ BeforePass' /\ PassMade' /\ CitesOfRead' /\ NotAdopted'
  BY DEF SettledBefore, BeforePass, PassMade, CitesOfRead, NotAdopted
<1>3. ControlFiles' /\ BuildFields' /\ RecordInputs'
  BY <1>1 DEF Showing, ControlFiles, BuildFields, RecordInputs
<1>4. MayHit' => MayHit
  BY DEF MayHit
<1>5. RecordStaged' /\ RecordShown' /\ HitShown' /\ PdfCurrent'
  BY <1>4 DEF Shown, RecordStaged, RecordShown, HitShown, PdfCurrent, OkIsCurrent
<1> QED BY <1>2, <1>3, <1>5 DEF Showing

(* A pass begins, or there are no more.                                     *)
LEMMA BeginPassShows ==
    ASSUME Undisturbed, Known, Known', Showing, BeginPass \/ NotConverged
    PROVE  Showing'
<1>1. Shown /\ pc = "pass"
  BY DEF Showing, RecordShown, Shown, BeginPass, NotConverged
<1>2. CASE NotConverged
  BY <1>1, <1>2, EndShows DEF NotConverged, Return, Ended, sources, files
<1>3. CASE BeginPass
  <2>1. /\ pc' = "engine"
        /\ UNCHANGED <<doc, bib, moved, srcNew, srcBbl, aux, bcf, bbl, ind, staged, record, visible>>
        /\ run' = [run EXCEPT !.passes = run.passes + 1,
                              !.man = [run.man EXCEPT !.unfinished = TRUE],
                              !.before = <<aux, bcf, bbl, ind>>]
    BY <1>3 DEF BeginPass, Pass, sources, files
  <2>2. /\ run'.before = <<aux, bcf, bbl, ind>> /\ run'.complete = run.complete
        /\ run'.cites = run.cites /\ run'.done = run.done /\ run'.hit = run.hit
        /\ run'.man.sig = run.man.sig /\ run'.man.out = run.man.out
        /\ run'.failed = run.failed /\ DOMAIN run' = DOMAIN run
    BY <2>1, FieldsKnown
  <2>3. SettledBefore'
    BY <1>1, <2>1, <2>2
    DEF Showing, SettledBefore, Settled, Wanted, SigOf, AuxCites, AuxComplete, Adoptable
  <2>4. BeforePass' /\ PassMade' /\ NotAdopted' /\ RecordStaged' /\ HitShown'
    BY <2>1, <2>2 DEF BeforePass, PassMade, NotAdopted, RecordStaged, HitShown
  <2>5. CitesOfRead' /\ ControlFiles' /\ RecordInputs'
    BY <1>1, <2>1, <2>2 DEF Showing, CitesOfRead, DocCites, ControlFiles, RecordInputs
  <2>6. BuildFields'
    BY <1>1, <2>1, <2>2, FieldsKnownNext DEF Showing, BuildFields
  <2>7. MayHit' => MayHit
    BY <1>1, <2>1, <2>2 DEF MayHit
  <2>8. RecordShown' /\ PdfCurrent'
    BY <1>1, <2>1, <2>7, RecordShownStays, NotEnded DEF Showing, PdfCurrent, OkIsCurrent
  <2> QED BY <2>3, <2>4, <2>5, <2>6, <2>8 DEF Showing
<1> QED BY <1>2, <1>3

(* The result cache answers: the build has converged if it could read the   *)
(* .aux files, and otherwise the pass has changed nothing.                  *)
LEMMA CacheHitShows ==
    ASSUME Undisturbed, Known, Known', Showing, CacheHit
    PROVE  Showing'
<1> DEFINE finished == [run EXCEPT !.man.unfinished = FALSE, !.wrote = TRUE, !.failed = FALSE]
<1>1. /\ pc = "engine" /\ Hit
      /\ UNCHANGED <<doc, bib, moved, srcNew, srcBbl, aux, bcf, bbl, ind, staged, record, visible>>
      /\ \/ run.complete /\ Goto("publish", [finished EXCEPT !.hit = TRUE])
         \/ ~run.complete /\ Goto("index", finished)
  BY DEF CacheHit, sources, files
<1>2. Shown /\ ~run.hit /\ ~run.failed /\ "failed" \in DOMAIN run
  BY <1>1 DEF Showing, RecordShown, Shown, BuildFields
<1>3. /\ finished.before = run.before /\ finished.complete = run.complete
      /\ finished.cites = run.cites /\ finished.hit = FALSE /\ finished.wrote = TRUE
      /\ finished.failed = FALSE /\ DOMAIN finished = DOMAIN run
  BY <1>2, FieldsKnown
<1> HIDE DEF finished
<1>4. /\ record # NoRecord /\ record.pdf = staged /\ record.aux = aux
      /\ record.in = Reads(doc, aux, bbl, ind)
  BY <1>1 DEF Hit
<1>5. run.before = <<aux, bcf, bbl, ind>>
  BY <1>1 DEF Showing, BeforePass
<1>6. doc \notin EmptyDocs /\ aux = NewAux(doc, aux, bbl, ind) /\ staged = Typeset(doc, aux, bbl, ind)
  BY <1>4 DEF Known, Converging, RecordIsStable, AuxOf, NewAux, Typeset, Reads
<1>7. CASE run.complete /\ Goto("publish", [finished EXCEPT !.hit = TRUE])
  <2>1. /\ pc' = "publish" /\ run'.before = run.before /\ run'.complete = run.complete
        /\ run'.hit /\ run'.wrote /\ ~run'.failed /\ DOMAIN run' = DOMAIN run
    <3>1. pc' = "publish" /\ run' = [finished EXCEPT !.hit = TRUE]
      BY <1>7 DEF Goto
    <3>2. "hit" \in DOMAIN finished /\ DOMAIN run' = DOMAIN finished
      BY <1>3, <3>1, FieldsKnown
    <3>3. /\ run'.hit = TRUE /\ run'.before = finished.before /\ run'.wrote = finished.wrote
          /\ run'.complete = finished.complete /\ run'.failed = finished.failed
      BY <3>1, <3>2
    <3> QED BY <1>3, <3>1, <3>2, <3>3
  <2>2. SettledBefore' /\ BeforePass' /\ PassMade' /\ CitesOfRead' /\ NotAdopted'
    BY <2>1 DEF SettledBefore, BeforePass, PassMade, CitesOfRead, NotAdopted
  <2>3. ControlFiles' /\ BuildFields' /\ RecordInputs'
    BY <1>1, <1>2, <2>1, FieldsKnownNext DEF Showing, ControlFiles, BuildFields, RecordInputs
  <2>4. MayHit
    BY <1>1, <1>4, <1>7 DEF MayHit
  <2>5. RecordStaged' /\ RecordShown' /\ HitShown'
    BY <1>1, <1>2, <1>4, <2>1, <2>4 DEF Shown, RecordStaged, RecordShown, HitShown
  <2>6. PdfCurrent'
    BY <2>1, NotEnded DEF PdfCurrent, OkIsCurrent
  <2> QED BY <2>2, <2>3, <2>5, <2>6 DEF Showing
<1>8. CASE ~run.complete /\ Goto("index", finished)
  <2>1. pc' = "index" /\ run' = finished
    BY <1>8 DEF Goto
  <2>2. SettledBefore' /\ BeforePass' /\ NotAdopted' /\ HitShown'
    BY <2>1 DEF SettledBefore, BeforePass, NotAdopted, HitShown
  <2>3. CitesOfRead' /\ ControlFiles' /\ RecordInputs'
    BY <1>1, <1>3, <2>1 DEF Showing, CitesOfRead, DocCites, ControlFiles, RecordInputs
  <2>4. BuildFields'
    BY <1>1, <1>2, <1>3, <2>1, FieldsKnownNext DEF Showing, BuildFields
  <2>5. PassMade'
    BY <1>1, <1>3, <1>5, <1>6, <2>1 DEF PassMade, NewAux, Typeset, Reads
  <2>6. MayHit' => MayHit
    BY <1>1, <1>3, <2>1 DEF MayHit
  <2>7. RecordStaged' /\ RecordShown'
    BY <1>1, <1>2, <1>4, <2>1, <2>6 DEF Shown, RecordStaged, RecordShown
  <2>8. PdfCurrent'
    BY <2>1, NotEnded DEF PdfCurrent, OkIsCurrent
  <2> QED BY <2>2, <2>3, <2>4, <2>5, <2>7, <2>8 DEF Showing
<1> QED BY <1>1, <1>7, <1>8

(* The engine starts to rewrite the auxiliary files.                        *)
LEMMA EngineStartShows ==
    ASSUME Undisturbed, Known, Known', Showing, EngineStart
    PROVE  Showing'
<1>1. /\ pc = "engine" /\ pc' = "running" /\ aux' = CutAux(doc) /\ bcf' = BrokenBcf(doc)
      /\ run' = [run EXCEPT !.reads = Reads(doc, aux, bbl, ind)]
      /\ UNCHANGED <<doc, bib, moved, srcNew, srcBbl, bbl, ind, staged, record, visible>>
  BY DEF EngineStart, Goto, sources, files
<1>2. Shown /\ run.before = <<aux, bcf, bbl, ind>>
  BY <1>1 DEF Showing, RecordShown, Shown, BeforePass
<1>3. /\ run'.before = run.before /\ run'.complete = run.complete /\ run'.man = run.man
      /\ run'.cites = run.cites /\ run'.done = run.done /\ run'.hit = run.hit
      /\ run'.failed = run.failed /\ DOMAIN run' = DOMAIN run
      /\ run'.reads = Reads(doc, aux, bbl, ind)
  BY <1>1, FieldsKnown
<1>4. SettledBefore'
  <2>1. run.complete \/ AuxComplete(aux) => Settled(aux, bcf)
    BY <1>1 DEF Showing, SettledBefore
  <2>2. run'.before[1] = aux /\ run'.before[2] = bcf
    BY <1>2, <1>3
  <2>3. Settled(aux, bcf) => Settled(run.before[1], run.before[2])'
    BY <1>1, <1>3, <2>2 DEF Settled, Wanted, SigOf, AuxCites, AuxComplete, Adoptable
  <2>4. AuxComplete(run.before[1])' => AuxComplete(aux)
    BY <2>2 DEF AuxComplete
  <2> QED BY <1>1, <1>3, <2>1, <2>3, <2>4 DEF SettledBefore
<1>5. BeforePass'
  <2>1. doc \notin BiberDocs => bcf' = bcf
    BY <1>1 DEF BrokenBcf
  <2>2. aux.state = "full" /\ aux.doc \in BiberDocs => bcf = [state |-> "full", cites |-> Cites[aux.doc]]
    BY DEF Known, Citing, CiteBase, AuxSaysCites, Showing, ControlFiles
  <2>3. aux.state = "full" /\ aux.doc \in IndexDocs => ind = ToolInd(aux)
    BY <1>1 DEF Known, Indexing, AuxIndexed
  <2> QED BY <1>1, <1>2, <1>3, <2>1, <2>2, <2>3 DEF BeforePass, Reads, ToolInd
<1>6. PassMade' /\ NotAdopted' /\ RecordStaged' /\ HitShown'
  BY <1>1 DEF PassMade, NotAdopted, RecordStaged, HitShown
<1>7. CitesOfRead' /\ RecordInputs'
  BY <1>1, <1>3 DEF Showing, CitesOfRead, DocCites, RecordInputs
<1>8. ControlFiles'
  BY <1>1 DEF Showing, ControlFiles, BrokenBcf, CutBcf
<1>9. BuildFields'
  BY <1>1, <1>3, FieldsKnownNext DEF Showing, BuildFields
<1>10. MayHit' => MayHit
  <2>1. record # NoRecord /\ ~Inert(record.in.doc) => aux' # record.aux
    BY <1>1, RecordAuxFull DEF CutAux, NoAux
  <2> QED BY <1>1, <1>3, <2>1 DEF MayHit
<1>11. RecordShown' /\ PdfCurrent'
  BY <1>1, <1>10, RecordShownStays, NotEnded DEF Showing, PdfCurrent, OkIsCurrent
<1> QED BY <1>4, <1>5, <1>6, <1>7, <1>8, <1>9, <1>11 DEF Showing

(* The engine ends.  A pass that is recorded has read what it has written,  *)
(* so that all tools have done their work for it; one that is not does not  *)
(* leave the files of an older record.                                      *)
LEMMA EngineFinishShows ==
    ASSUME Undisturbed, Known, Known', Showing, EngineFinish
    PROVE  Showing'
<1> DEFINE a == run.before[1]
           c == run.before[2]
           new == NewAux(doc, a, bbl, ind)
           pdf == Typeset(doc, a, bbl, ind)
           recorded == doc \notin EmptyDocs /\ new = a
<1>1. /\ pc = "running" /\ ~run.hit /\ ~run.failed /\ "failed" \in DOMAIN run /\ ~moved /\ Shown
  BY DEF EngineFinish, Showing, BuildFields, RecordShown, Shown
<1>2. /\ run.before = <<a, c, bbl, ind>> /\ run.reads = Reads(doc, a, bbl, ind)
      /\ (doc \notin BiberDocs => bcf = c)
      /\ (a.state = "full" /\ a.doc \in BiberDocs => c = [state |-> "full", cites |-> Cites[a.doc]])
      /\ (a.state = "full" /\ a.doc \in IndexDocs => ind = ToolInd(a))
  BY <1>1 DEF Showing, BeforePass
<1>3. run.reads.doc = doc
  BY <1>2 DEF Reads
<1>4. /\ pc' = "index" /\ aux' = new /\ bcf' = NewBcf(doc)
      /\ staged' = IF doc \in EmptyDocs THEN staged ELSE pdf
      /\ record' = IF recorded THEN [in |-> run.reads, aux |-> new, pdf |-> pdf] ELSE record
      /\ run' = [run EXCEPT !.man.unfinished = FALSE, !.failed = FALSE, !.wrote = @ \/ doc \notin EmptyDocs]
      /\ UNCHANGED <<doc, bib, moved, srcNew, srcBbl, bbl, ind, visible>>
  BY <1>2, <1>3 DEF EngineFinish, EngineWrites, PassFinished, WrotePdf, Goto, sources, files
<1>5. /\ run'.before = run.before /\ run'.complete = run.complete
      /\ run'.cites = run.cites /\ run'.done = run.done /\ run'.hit = run.hit
      /\ run'.failed = FALSE /\ (doc \notin EmptyDocs => run'.wrote) /\ DOMAIN run' = DOMAIN run
      /\ run'.man.sig = run.man.sig /\ run'.man.out = run.man.out /\ run'.man.idx = run.man.idx
  BY <1>1, <1>4, FieldsKnown
<1>6. run'.before[1] = a /\ run'.before[2] = c /\ run'.before[3] = bbl /\ run'.before[4] = ind
  BY <1>2, <1>5
<1>7. SettledBefore' /\ BeforePass' /\ NotAdopted' /\ HitShown'
  BY <1>4 DEF SettledBefore, BeforePass, NotAdopted, HitShown
<1>8. CitesOfRead'
  BY <1>1, <1>4, <1>5 DEF Showing, CitesOfRead, DocCites
<1>9. ControlFiles'
  BY <1>4 DEF Showing, ControlFiles, NewBcf, BiberCites
<1>10. BuildFields'
  BY <1>1, <1>4, <1>5, FieldsKnownNext DEF Showing, BuildFields
<1>11. PassMade'
  <2>1. doc \notin EmptyDocs => run'.wrote /\ staged' = pdf
    BY <1>4, <1>5
  <2> QED BY <1>4, <1>6, <2>1 DEF PassMade
<1>12. recorded => record'.in = Reads(doc, a, bbl, ind) /\ record'.aux = a /\ record'.pdf = staged'
  BY <1>2, <1>4
<1>13. RecordInputs'
  <2>1. CASE recorded
    <3>1. doc \in Docs \ EmptyDocs
      BY <2>1 DEF Known, Citing, CiteBase, TInv, SourcesTyped
    <3>2. Inert(doc) => Reads(doc, a, bbl, ind) = Reads(doc, NoAux, NoBbl, NoInd)
      BY DEF Reads, Inert
    <3>3. ~Inert(doc) => Reads(doc, a, bbl, ind).labels = a
      BY DEF Reads
    <3>4. Reads(doc, a, bbl, ind).doc = doc
      BY DEF Reads
    <3> HIDE DEF a
    <3> QED BY <1>12, <2>1, <3>1, <3>2, <3>3, <3>4 DEF RecordInputs
  <2>2. CASE ~recorded
    BY <1>4, <2>2 DEF Showing, RecordInputs
  <2> QED BY <2>1, <2>2
<1>14. RecordStaged'
  <2> SUFFICES ASSUME a = new, doc \notin EmptyDocs PROVE record'.pdf = staged'
    BY <1>4, <1>6 DEF RecordStaged
  <2> QED BY <1>12
<1>15. RecordShown'
  <2> SUFFICES ASSUME MayHit' PROVE visible.pdf \in {NoPdf, record'.pdf} \/ Quiet'
    BY <1>4 DEF RecordShown
  <2>1. CASE recorded
    <3>1. aux' = a
      BY <1>4, <2>1
    <3>2. bcf' = c
      BY <1>2, <1>4, <2>1, DriverAssumption DEF NewAux, NewBcf
    <3>3. run'.before = <<aux, bcf, bbl, ind>>'
      BY <1>2, <1>4, <1>5, <3>1, <3>2
    <3>4. doc \notin PartialDocs \/ run.complete
      BY <1>4, <1>5, <1>12, <2>1 DEF MayHit, Reads
    <3>5. run.complete \/ AuxComplete(a)
      BY <2>1, <3>4 DEF NewAux, AuxComplete, TrivialAux, NoAux
    <3>6. Settled(a, c)
      BY <1>1, <3>5 DEF Showing, SettledBefore
    <3>7. Settled(aux, bcf)'
      BY <1>4, <1>5, <3>1, <3>2, <3>6
      DEF Settled, Wanted, SigOf, AuxCites, AuxComplete, Adoptable
    <3>8. aux'.state = "full" /\ aux'.doc \in IndexDocs => IndexIsCurrent'
      <4> SUFFICES ASSUME aux'.state = "full", aux'.doc \in IndexDocs PROVE IndexIsCurrent'
        OBVIOUS
      <4>1. ind = ToolInd(a)
        BY <1>2, <3>1
      <4>2. ind # NoInd
        BY <4>1 DEF ToolInd, NoInd
      <4>3. ind = ToolInd(run.man.idx)
        BY <1>1, <4>2 DEF Known, Indexing, IndexKnown
      <4> QED BY <1>4, <1>5, <3>1, <4>1, <4>2, <4>3 DEF IndexIsCurrent, ToolInd
    <3> QED BY <1>5, <2>1, <3>3, <3>7, <3>8 DEF Quiet
  <2>2. CASE ~recorded
    <3>1. record' = record /\ record # NoRecord
      BY <1>4, <2>2 DEF MayHit
    <3>2. CASE Inert(record.in.doc)
      BY <1>1, <1>4, <1>5, <3>1, <3>2 DEF MayHit, Shown
    <3>3. CASE ~Inert(record.in.doc)
      <4>1. new = record.aux /\ staged' = record.pdf
        BY <1>4, <3>1, <3>3 DEF MayHit
      <4>2. record.aux.state = "full" /\ record.aux.doc = record.in.doc
        BY <3>1, <3>3, RecordAuxFull
      <4>3. doc = record.in.doc
        BY <4>1, <4>2 DEF NewAux, TrivialAux, NoAux
      <4>4. doc \notin EmptyDocs
        BY <3>1, <4>3 DEF Showing, RecordInputs
      <4>5. pdf = record.in
        BY <1>4, <3>1, <4>1, <4>4 DEF Known, Converging, RecordIsStable
      <4>6. pdf.labels = a
        BY <3>3, <4>3 DEF Typeset, Reads
      <4>7. record.in.labels = record.aux
        BY <3>1, <3>3 DEF Showing, RecordInputs
      <4> QED BY <2>2, <4>1, <4>4, <4>5, <4>6, <4>7
    <3> QED BY <3>2, <3>3
  <2> QED BY <2>1, <2>2
<1>16. PdfCurrent'
  BY <1>4, NotEnded DEF PdfCurrent, OkIsCurrent
<1> QED BY <1>7, <1>8, <1>9, <1>10, <1>11, <1>13, <1>14, <1>15, <1>16 DEF Showing

(* makeindex is not run on quiet files, and otherwise writes its .ind.      *)
LEMMA IndexShows ==
    ASSUME Undisturbed, Known, Known', Showing, IndexTools \/ Makeindex
    PROVE  Showing'
<1>1. /\ pc \in {"index", "makeindex"} /\ pc' \in {"makeindex", "decide"}
      /\ UNCHANGED <<doc, bib, moved, srcNew, srcBbl, aux, bcf, bbl, staged, record, visible>>
      /\ run' \in {run, [run EXCEPT !.man.idx = aux]}
  BY DEF IndexTools, Makeindex, Goto, Undisturbed, sources, files
<1>2. /\ run'.before = run.before /\ run'.complete = run.complete /\ run'.wrote = run.wrote
      /\ run'.cites = run.cites /\ run'.done = run.done /\ run'.hit = run.hit
      /\ run'.failed = run.failed /\ DOMAIN run' = DOMAIN run
      /\ run'.man.sig = run.man.sig /\ run'.man.out = run.man.out
  <2>1. CASE run' = run
    BY <2>1
  <2>2. CASE run' = [run EXCEPT !.man.idx = aux]
    BY <2>2, FieldsKnown DEF Showing, BuildFields
  <2> QED BY <1>1, <2>1, <2>2
<1>3. SettledBefore' /\ BeforePass' /\ NotAdopted' /\ HitShown'
  BY <1>1 DEF SettledBefore, BeforePass, NotAdopted, HitShown
<1>4. PassMade' /\ CitesOfRead' /\ ControlFiles' /\ RecordInputs' /\ RecordStaged'
  BY <1>1, <1>2 DEF Showing, PassMade, CitesOfRead, DocCites, ControlFiles, RecordInputs, RecordStaged
<1>5. BuildFields'
  BY <1>1, <1>2, FieldsKnownNext DEF Showing, BuildFields
<1>6. RecordShown'
  <2>1. MayHit' => MayHit
    BY <1>1, <1>2 DEF MayHit
  <2>2. CASE IndexTools /\ Quiet
    <3>1. pc' = "decide" /\ run' = run /\ ind' = ind
      BY <2>2 DEF IndexTools, Quiet, Goto
    <3>2. Quiet'
      BY <1>1, <2>2, <3>1
      DEF Quiet, Settled, Wanted, SigOf, AuxCites, AuxComplete, Adoptable, IndexIsCurrent
    <3> QED BY <3>1, <3>2 DEF RecordShown
  <2>3. CASE Makeindex \/ ~Quiet
    <3>1. Shown
      BY <1>1, <2>3 DEF Showing, RecordShown, Shown, Makeindex
    <3> QED BY <1>1, <2>1, <3>1 DEF Shown, RecordShown
  <2> QED BY <2>2, <2>3
<1>7. PdfCurrent'
  BY <1>1, NotEnded DEF PdfCurrent, OkIsCurrent
<1> QED BY <1>3, <1>4, <1>5, <1>6, <1>7 DEF Showing

\* What Decide makes of the files: the names of its own LET
DecidedBbl == IF Adopts(aux) THEN srcBbl ELSE bbl
DecidedMan ==
    IF Adopts(aux) THEN [run.man EXCEPT !.sig = Signature(aux), !.out = srcBbl] ELSE run.man
Cited == IF aux.state = "full" THEN Cites[aux.doc] ELSE NoCites
Needed ==
    Ready(aux) /\ \/ Cited # NoCites /\ run.before[3] = NoBbl
                  \/ DecidedBbl = NoBbl
                  \/ run.cites \notin {UnknownCites, AuxCites(aux)}
                  \/ /\ UsesBiber(aux) /\ run.before[3].cites # Cited /\ Cited # NoCites
                     /\ ~(run.done \/ Adopts(aux))
                  \/ DecidedMan.sig # Signature(aux)
                  \/ ~Matches(DecidedMan, DecidedBbl)
                  \/ ~AuxComplete(aux) /\ ~(run.done \/ Adopts(aux))
Changed == run.before # <<aux, bcf, DecidedBbl, ind>>

(* Decide, in these names.                                                  *)
LEMMA DecideDoes ==
    ASSUME Decide
    PROVE  /\ pc = "decide"
           /\ UNCHANGED <<sources, aux, bcf, ind, staged, record, visible>>
           /\ \E trivially \in BOOLEAN :
                /\ trivially => AuxInert(aux)
                /\ LET next == [run EXCEPT !.man = IF Ready(aux) THEN DecidedMan ELSE NoTool(DecidedMan),
                                    !.cites = AuxCites(aux), !.done = run.done \/ Adopts(aux),
                                    !.sig = Signature(aux), !.changed = Changed]
                   IN  \/ Needed /\ bbl' = NoBbl /\ Goto("tool", next)
                       \/ ~Needed /\ bbl' = DecidedBbl /\ Settle(next, ~Changed \/ trivially)
BY DEF Decide, DecidedBbl, DecidedMan, Cited, Needed, Changed

(* What the .aux of the document says after a pass.                         *)
LEMMA AuxMade ==
    ASSUME Known, Showing, pc \in {"index", "makeindex", "decide", "tool"}
    PROVE  /\ aux.state \in {"trivial", "full"} /\ AuxCites(aux) = DocCites
           /\ aux.state = "full" => aux.doc = doc
           /\ AuxCites(aux) # NoCites => aux.bbl = run.before[3]
           /\ AuxInert(aux) => Inert(doc)
<1>1. aux = NewAux(doc, run.before[1], run.before[3], run.before[4])
  BY DEF Showing, PassMade
<1>2. doc \in Docs
  BY DEF Known, Citing, CiteBase, TInv, SourcesTyped
<1>3. CASE doc \in OnePageDocs
  <2>1. aux = TrivialAux /\ Inert(doc) /\ Cites[doc] = NoCites
    BY <1>1, <1>2, <1>3, DriverAssumption DEF NewAux, Inert
  <2> QED BY <2>1 DEF TrivialAux, NoAux, AuxCites, DocCites
<1>4. CASE doc \notin OnePageDocs
  <2>1. /\ aux.state = "full" /\ aux.doc = doc
        /\ aux.bbl = IF Cites[doc] = NoCites THEN NoBbl ELSE run.before[3]
    BY <1>1, <1>4 DEF NewAux, Reads
  <2> QED BY <2>1 DEF AuxCites, DocCites, AuxInert
<1> QED BY <1>3, <1>4

(* A settled bibliography needs no tool after the pass.                     *)
LEMMA SettledEnds ==
    ASSUME Undisturbed, Known, Showing, pc = "decide",
           Wanted(aux, bcf) # NoCites =>
               /\ run.man.out = bbl /\ bbl.by # "none" /\ run.man.sig = SigOf(aux, bcf)
               /\ run.cites \in {UnknownCites, AuxCites(aux)}
               /\ run.done \/ AuxComplete(aux)
    PROVE  ~Needed
<1> SUFFICES ASSUME Ready(aux) PROVE ~Needed
  BY DEF Needed
<1>1. /\ ToolCites(aux) = Wanted(aux, bcf) /\ Wanted(aux, bcf) # NoCites
      /\ Signature(aux) = SigOf(aux, bcf)
  BY WantedIs DEF Undisturbed, Known
<1>2. /\ run.man.out = bbl /\ bbl.by # "none" /\ run.man.sig = Signature(aux)
      /\ run.cites \in {UnknownCites, AuxCites(aux)}
      /\ run.done \/ AuxComplete(aux)
  BY <1>1
<1>3. Adopts(aux) => srcBbl.by = "source" /\ srcBbl # NoBbl
  BY AdoptedSigned DEF Known, Citing, NoBbl
<1>4. bbl # NoBbl /\ run.before[3] = bbl
  BY <1>2 DEF NoBbl, Showing, PassMade
<1>5. DecidedBbl # NoBbl
  BY <1>3, <1>4 DEF DecidedBbl
<1>6. DecidedMan.sig = Signature(aux) /\ Matches(DecidedMan, DecidedBbl)
  BY <1>2, <1>3, FieldsKnown DEF DecidedMan, DecidedBbl, Matches
<1>7. UsesBiber(aux) /\ Cited # NoCites => bbl.cites = Cited
  <2> SUFFICES ASSUME UsesBiber(aux), Cited # NoCites PROVE bbl.cites = Cited
    OBVIOUS
  <2>1. aux.state = "full" /\ Cited = Cites[aux.doc] /\ AuxCites(aux) = NoCites
    BY DEF Cited, UsesBiber
  <2>2. aux.doc \in BiberDocs
    BY <2>1 DEF AuxCites
  <2>3. bcf.cites = Cites[aux.doc] /\ bcf.state = "full"
    BY <2>1, <2>2 DEF Known, Citing, CiteBase, AuxSaysCites
  <2>4. Signature(aux) = <<Cites[aux.doc], bib>> /\ Signature(aux) # NoSig
    BY <2>1, <2>3 DEF Signature, ToolCites, NoSig
  <2>5. run.man.sig = <<bbl.cites, bbl.bib>>
    BY <1>2, <1>4, <2>4 DEF Known, Citing, OutSigned
  <2> QED BY <1>2, <2>1, <2>4, <2>5
<1> QED BY <1>2, <1>4, <1>5, <1>6, <1>7 DEF Needed

(* Nothing is left to do for quiet files.                                   *)
LEMMA QuietEnds ==
    ASSUME Undisturbed, Known, Showing, Quiet, pc = "decide"
    PROVE  ~Needed /\ ~Changed
<1>1. Adopts(aux) <=> Adoptable(aux)
  BY WantedIs DEF Undisturbed, Known
<1>2. run.before = <<aux, bcf, bbl, ind>> /\ run.before[3] = bbl /\ Settled(aux, bcf)
  BY DEF Quiet
<1>3. Adopts(aux) => bbl = srcBbl
  <2> SUFFICES ASSUME Adopts(aux) PROVE bbl = srcBbl
    OBVIOUS
  <2>1. AuxCites(aux) # NoCites /\ Adoptable(aux)
    BY <1>1 DEF Adoptable
  <2>2. aux.bbl = bbl
    BY <1>2, <2>1, AuxMade
  <2>3. Wanted(aux, bcf) # NoCites
    BY <2>1 DEF Wanted
  <2> QED BY <1>2, <2>1, <2>2, <2>3 DEF Settled
<1>4. DecidedBbl = bbl
  BY <1>3 DEF DecidedBbl
<1>5. ~Changed
  BY <1>2, <1>4 DEF Changed
<1>6. ~Needed
  BY <1>2, SettledEnds DEF Settled
<1> QED BY <1>5, <1>6

(* If no tool is needed and another pass follows, the bibliography is there *)
(* for it.                                                                  *)
LEMMA DecideSettles ==
    ASSUME Undisturbed, Known, Showing, Decide, pc' = "pass"
    PROVE  /\ ~Needed /\ Changed /\ bbl' = DecidedBbl
           /\ Settled(aux, bcf)' /\ (Adoptable(aux)' => bbl' = srcBbl)
<1> DEFINE next == [run EXCEPT !.man = IF Ready(aux) THEN DecidedMan ELSE NoTool(DecidedMan),
                               !.cites = AuxCites(aux), !.done = run.done \/ Adopts(aux),
                               !.sig = Signature(aux), !.changed = Changed]
<1>1. /\ pc = "decide" /\ ~Needed /\ Changed /\ bbl' = DecidedBbl /\ run' = next
      /\ UNCHANGED <<doc, bib, srcNew, srcBbl, aux, bcf>>
  BY DecideDoes DEF Settle, Goto, sources, files
<1>2. /\ ToolCites(aux) = Wanted(aux, bcf) /\ (Ready(aux) <=> Wanted(aux, bcf) # NoCites)
      /\ Signature(aux) = SigOf(aux, bcf) /\ (Adopts(aux) <=> Adoptable(aux))
  BY WantedIs DEF Undisturbed, Known
<1>3. /\ next.cites = AuxCites(aux) /\ next.done = (run.done \/ Adopts(aux))
      /\ next.man = (IF Ready(aux) THEN DecidedMan ELSE NoTool(DecidedMan))
  BY FieldsKnown
<1> HIDE DEF next
<1>4. EnsuredAux
  <2>1. aux.state # "none"
    BY <1>1, AuxMade
  <2> QED BY <1>1, <2>1 DEF EnsuredAux
<1>5. Adoptable(aux) => bbl' = srcBbl
  BY <1>1, <1>2 DEF DecidedBbl
<1>6. Settled(aux, bcf)'
  <2> SUFFICES ASSUME Wanted(aux, bcf) # NoCites
               PROVE  /\ run'.man.out = bbl' /\ bbl'.by # "none"
                      /\ run'.man.sig = SigOf(aux, bcf)
                      /\ run'.cites \in {UnknownCites, AuxCites(aux)}
                      /\ run'.done \/ AuxComplete(aux)
                      /\ Adoptable(aux) /\ aux.bbl = bbl' => bbl' = srcBbl
    BY <1>1, <1>4, SettledNext
  <2>1. Ready(aux) /\ run'.man = DecidedMan
    BY <1>1, <1>2, <1>3
  <2>2. /\ DecidedMan.sig = Signature(aux) /\ Matches(DecidedMan, DecidedBbl)
        /\ AuxComplete(aux) \/ run.done \/ Adopts(aux)
    BY <1>1, <2>1 DEF Needed
  <2> QED BY <1>1, <1>2, <1>3, <1>5, <2>1, <2>2 DEF Matches
<1>7. Adoptable(aux)' => Adoptable(aux)
  BY <1>1 DEF Adoptable, AuxCites, AuxComplete
<1> QED BY <1>1, <1>5, <1>6, <1>7

(* After a pass: the tool, another pass, or the publication.                *)
LEMMA DecideShows ==
    ASSUME Undisturbed, Known, Known', Showing, Decide
    PROVE  Showing'
<1> DEFINE next == [run EXCEPT !.man = IF Ready(aux) THEN DecidedMan ELSE NoTool(DecidedMan),
                               !.cites = AuxCites(aux), !.done = run.done \/ Adopts(aux),
                               !.sig = Signature(aux), !.changed = Changed]
<1>1. /\ pc = "decide"
      /\ UNCHANGED <<doc, bib, moved, srcNew, srcBbl, aux, bcf, ind, staged, record, visible>>
      /\ \/ Needed /\ bbl' = NoBbl /\ Goto("tool", next)
         \/ ~Needed /\ Changed /\ bbl' = DecidedBbl /\ Goto("pass", next)
         \/ ~Needed /\ (~Changed \/ AuxInert(aux)) /\ bbl' = DecidedBbl /\ Goto("publish", next)
  BY DecideDoes DEF Settle, sources, files
<1>2. ~run.hit /\ ~run.failed /\ "failed" \in DOMAIN run
  BY <1>1 DEF Showing, BuildFields
<1>3. /\ ToolCites(aux) = Wanted(aux, bcf) /\ (Ready(aux) <=> Wanted(aux, bcf) # NoCites)
      /\ Signature(aux) = SigOf(aux, bcf) /\ (Adopts(aux) <=> Adoptable(aux))
  BY WantedIs DEF Undisturbed, Known
<1>4. /\ next.before = run.before /\ next.complete = run.complete /\ next.wrote = run.wrote
      /\ next.cites = AuxCites(aux) /\ next.done = (run.done \/ Adopts(aux))
      /\ next.man = (IF Ready(aux) THEN DecidedMan ELSE NoTool(DecidedMan))
      /\ next.hit = run.hit /\ next.failed = run.failed /\ DOMAIN next = DOMAIN run
  BY <1>2, FieldsKnown
<1> HIDE DEF next
<1>5. AuxCites(aux) = DocCites /\ aux.state # "none" /\ (AuxInert(aux) => Inert(doc))
  BY <1>1, AuxMade
<1>6. Needed \/ Changed => Shown
  BY <1>1, QuietEnds DEF Showing, RecordShown, Shown
<1>7. PassMade /\ RecordStaged /\ ControlFiles /\ BuildFields /\ RecordInputs /\ CitesOfRead
  BY DEF Showing
<1>8. CASE Needed /\ bbl' = NoBbl /\ Goto("tool", next)
  <2>1. pc' = "tool" /\ run' = next
    BY <1>8 DEF Goto
  <2>2. SettledBefore' /\ BeforePass' /\ CitesOfRead' /\ RecordStaged' /\ HitShown'
    BY <2>1 DEF SettledBefore, BeforePass, CitesOfRead, RecordStaged, HitShown
  <2>3. NotAdopted'
    <3> SUFFICES ASSUME Adoptable(aux)' PROVE aux.bbl # ToolBbl(AuxCites(aux), bib)
      BY <1>1, <2>1 DEF NotAdopted, AuxCites
    <3>1. Adoptable(aux) /\ AuxCites(aux) # NoCites /\ AuxComplete(aux) /\ Adopts(aux)
      BY <1>1, <1>3 DEF Adoptable, AuxCites, AuxComplete
    <3>2. ~UsesBiber(aux) /\ srcBbl # NoBbl /\ srcBbl.by # "none"
      BY <3>1, AdoptedSigned DEF Known, Citing, UsesBiber, NoBbl
    <3>3. DecidedMan.sig = Signature(aux) /\ DecidedBbl = srcBbl /\ Matches(DecidedMan, DecidedBbl)
      BY <3>1, <3>2, FieldsKnown DEF DecidedMan, DecidedBbl, Matches
    <3>4. run.before[3] = NoBbl \/ run.cites \notin {UnknownCites, AuxCites(aux)}
      BY <1>8, <3>1, <3>2, <3>3 DEF Needed
    <3>5. aux.bbl = run.before[3] /\ run.before[3] = bbl
      BY <1>1, <1>7, <3>1, AuxMade DEF PassMade
    <3>6. CASE bbl = NoBbl
      BY <3>5, <3>6 DEF NoBbl, ToolBbl
    <3>7. CASE run.cites \notin {UnknownCites, AuxCites(aux)}
      <4>1. bbl.cites \in {run.cites} \cup BiberCites
        BY <1>1, <1>5, <1>7, <3>7 DEF CitesOfRead
      <4>2. DocCites \notin BiberCites
        <5>1. doc \in Docs \ BiberDocs /\ DocCites = Cites[doc]
          BY <1>5, <3>1 DEF DocCites, Known, Citing, CiteBase, TInv, SourcesTyped
        <5> QED BY <5>1, DriverAssumption DEF BiberCites
      <4>3. bbl.cites # AuxCites(aux)
        BY <1>5, <3>7, <4>1, <4>2
      <4> QED BY <3>5, <4>3 DEF ToolBbl
    <3> QED BY <3>4, <3>5, <3>6, <3>7
  <2>4. PassMade'
    BY <1>1, <1>4, <1>7, <2>1 DEF PassMade
  <2>5. ControlFiles' /\ BuildFields' /\ RecordInputs'
    BY <1>1, <1>2, <1>4, <1>7, <2>1, FieldsKnownNext DEF ControlFiles, BuildFields, RecordInputs
  <2>6. MayHit' => MayHit
    BY <1>1, <1>4, <2>1 DEF MayHit
  <2>7. RecordShown'
    BY <1>1, <1>6, <1>8, <2>1, <2>6 DEF RecordShown, Shown
  <2>8. PdfCurrent'
    BY <2>1, NotEnded DEF PdfCurrent, OkIsCurrent
  <2> QED BY <2>2, <2>3, <2>4, <2>5, <2>7, <2>8 DEF Showing
<1>9. CASE ~Needed /\ Changed /\ bbl' = DecidedBbl /\ Goto("pass", next)
  <2>1. pc' = "pass" /\ run' = next
    BY <1>9 DEF Goto
  <2>2. EnsuredAux
    BY <1>1, <1>5 DEF EnsuredAux
  <2>3. Settled(aux, bcf)'
    BY <2>1, DecideSettles
  <2> QED BY <1>1, <1>2, <1>4, <1>5, <1>6, <1>9, <2>1, <2>2, <2>3, LoopShows
<1>10. CASE /\ ~Needed /\ (~Changed \/ AuxInert(aux)) /\ bbl' = DecidedBbl
            /\ Goto("publish", next)
  <2>1. pc' = "publish" /\ run' = next
    BY <1>10 DEF Goto
  <2>2. SettledBefore' /\ BeforePass' /\ CitesOfRead' /\ PassMade' /\ NotAdopted' /\ HitShown'
    BY <1>2, <1>4, <2>1 DEF SettledBefore, BeforePass, CitesOfRead, PassMade, NotAdopted, HitShown
  <2>3. ControlFiles' /\ BuildFields' /\ RecordInputs'
    BY <1>1, <1>2, <1>4, <1>7, <2>1, FieldsKnownNext DEF ControlFiles, BuildFields, RecordInputs
  <2>4. RecordStaged'
    <3> SUFFICES ASSUME record # NoRecord, ~Inert(doc) PROVE record.pdf = staged
      BY <1>1, <2>1 DEF RecordStaged
    <3>1. run.before[1] = aux
      BY <1>5, <1>10 DEF Changed
    <3>2. doc \notin EmptyDocs
      BY DriverAssumption DEF Inert
    <3> QED BY <1>1, <1>7, <3>1, <3>2 DEF RecordStaged
  <2>5. RecordShown'
    <3>1. MayHit' => MayHit
      BY <1>1, <1>4, <2>1 DEF MayHit
    <3>2. run'.wrote = run.wrote
      BY <1>4, <2>1
    <3> QED BY <1>1, <2>1, <3>1, <3>2 DEF Showing, RecordShown, Quiet
  <2>6. PdfCurrent'
    BY <2>1, NotEnded DEF PdfCurrent, OkIsCurrent
  <2> QED BY <2>2, <2>3, <2>4, <2>5, <2>6 DEF Showing
<1> QED BY <1>1, <1>8, <1>9, <1>10

(* The bibliography that the tool has made after a pass is there for the    *)
(* next one.                                                                *)
LEMMA ToolSettles ==
    ASSUME Undisturbed, Known, Showing, Tool
    PROVE  /\ pc = "tool" /\ pc' = "pass" /\ run' = Produced
           /\ bbl' = ToolBbl(Wanted(aux, bcf), bib) /\ run.cites = AuxCites(aux)
           /\ UNCHANGED <<doc, bib, moved, srcNew, srcBbl, aux, bcf, ind, staged, record, visible>>
           /\ Settled(aux, bcf)'
<1>1. /\ ToolCites(aux) = Wanted(aux, bcf) /\ Signature(aux) = SigOf(aux, bcf)
      /\ ToolSucceeds
  BY WantedIs, ToolCanRead DEF Undisturbed, Known, Citing
<1>2. /\ pc = "tool" /\ bbl' = ToolBbl(Wanted(aux, bcf), bib)
      /\ pc' = "pass" /\ run' = Produced
      /\ UNCHANGED <<doc, bib, moved, srcNew, srcBbl, aux, bcf, ind, staged, record, visible>>
  BY <1>1 DEF Tool, Goto, sources, files
<1>3. run.sig = SigOf(aux, bcf) /\ run.cites = AuxCites(aux)
  BY <1>1, <1>2 DEF Known, Citing, SigCurrent
<1>4. Adoptable(aux) => aux.bbl # ToolBbl(AuxCites(aux), bib)
  BY <1>2 DEF Showing, NotAdopted
<1>5. /\ Produced.cites = run.cites /\ Produced.done
      /\ Produced.man.sig = run.sig /\ Produced.man.out = bbl'
  BY <1>1, <1>2, FieldsKnown DEF Produced
<1>6. EnsuredAux
  <2>1. aux.state # "none"
    BY <1>2, AuxMade
  <2> QED BY <1>2, <2>1 DEF EnsuredAux
<1>7. bbl'.by # "none" /\ (Adoptable(aux) => aux.bbl # bbl')
  BY <1>2, <1>4 DEF ToolBbl, Adoptable, Wanted
<1>8. Settled(aux, bcf)'
  BY <1>2, <1>3, <1>5, <1>6, <1>7, SettledNext
<1> QED BY <1>2, <1>3, <1>8

(* The tool after a pass, and then another pass.                            *)
LEMMA ToolShows ==
    ASSUME Undisturbed, Known, Known', Showing, Tool
    PROVE  Showing'
<1>1. /\ pc = "tool" /\ pc' = "pass" /\ run' = Produced /\ run.cites = AuxCites(aux)
      /\ UNCHANGED <<doc, bib, moved, srcNew, srcBbl, aux, bcf, staged, record, visible>>
      /\ Settled(aux, bcf)'
  BY ToolSettles
<1>2. ~run.hit /\ ~run.failed /\ "failed" \in DOMAIN run /\ Shown
  BY <1>1 DEF Showing, BuildFields, RecordShown, Shown
<1>3. /\ Produced.complete = run.complete /\ Produced.cites = run.cites
      /\ ~Produced.hit /\ ~Produced.failed /\ "failed" \in DOMAIN Produced
  BY <1>2, FieldsKnown DEF Produced
<1>4. AuxCites(aux) = DocCites /\ aux.state # "none"
  BY <1>1, AuxMade
<1>5. EnsuredAux
  BY <1>1, <1>4 DEF EnsuredAux
<1> QED BY <1>1, <1>2, <1>3, <1>4, <1>5, LoopShows

(* The SyncTeX data are published.                                          *)
LEMMA PublishSynctexShows ==
    ASSUME Undisturbed, Known, Known', Showing, PublishSynctex
    PROVE  Showing'
<1>1. /\ pc = "publish" /\ pc' = "publishPdf" /\ run.wrote
      /\ UNCHANGED <<doc, bib, moved, srcNew, srcBbl, aux, bcf, bbl, ind, staged, record>>
      /\ visible' \in {visible, [visible EXCEPT !.sync = staged]}
      /\ run' \in {run, [run EXCEPT !.man.sync = staged]}
  BY DEF PublishSynctex, Goto, sources, files
<1>2. visible'.pdf = visible.pdf
  BY <1>1 DEF Known, Published
<1>3. /\ run'.complete = run.complete /\ run'.wrote = run.wrote /\ run'.hit = run.hit
      /\ run'.failed = run.failed /\ DOMAIN run' = DOMAIN run
  <2>1. CASE run' = run
    BY <2>1
  <2>2. CASE run' = [run EXCEPT !.man.sync = staged]
    BY <2>2, FieldsKnown DEF Showing, BuildFields
  <2> QED BY <1>1, <2>1, <2>2
<1>4. SettledBefore' /\ BeforePass' /\ PassMade' /\ CitesOfRead' /\ NotAdopted'
  BY <1>1 DEF SettledBefore, BeforePass, PassMade, CitesOfRead, NotAdopted
<1>5. ControlFiles' /\ BuildFields' /\ RecordInputs'
  BY <1>1, <1>3, FieldsKnownNext DEF Showing, ControlFiles, BuildFields, RecordInputs
<1>6. RecordStaged' /\ RecordShown' /\ HitShown'
  BY <1>1, <1>2, <1>3 DEF Showing, RecordStaged, RecordShown, HitShown
<1>7. staged = Typeset(doc, aux, bbl, ind)
  BY <1>1 DEF Known, Converging, ConvergedIsStable, Showing, BuildFields
<1>8. PdfCurrent'
  BY <1>1, <1>3, <1>7, NotEnded DEF PdfCurrent, OkIsCurrent, Typeset, Reads
<1> QED BY <1>4, <1>5, <1>6, <1>8 DEF Showing

(* The PDF is published, or after a hit is the staged one already.          *)
LEMMA PublishedIsStaged ==
    ASSUME Known, Showing, PublishPdf
    PROVE  visible'.pdf = staged
<1> DEFINE publish == Unpublished(visible.pdf, run.man.pdf)
<1>1. pc = "publishPdf" /\ visible' = IF publish THEN [visible EXCEPT !.pdf = staged] ELSE visible
  BY DEF PublishPdf
<1>2. CASE publish
  BY <1>1, <1>2 DEF Known, Published
<1>3. CASE ~publish
  <2>1. run.hit /\ run.man.pdf # NoPdf /\ (visible.pdf = staged \/ visible.pdf = run.man.pdf)
    BY <1>3 DEF Unpublished
  <2>2. visible.pdf = run.man.pdf
    BY <1>1 DEF Known, Published
  <2>3. visible.pdf \in {NoPdf, staged}
    BY <1>1, <2>1 DEF Showing, HitShown
  <2> QED BY <1>1, <1>3, <2>1, <2>2, <2>3
<1> QED BY <1>2, <1>3

(* The PDF is published.                                                   *)
LEMMA PublishPdfShows ==
    ASSUME Undisturbed, Known, Known', Showing, PublishPdf
    PROVE  Showing'
<1> DEFINE publish == Unpublished(visible.pdf, run.man.pdf)
<1>1. /\ pc = "publishPdf" /\ pc' = "save"
      /\ visible' = IF publish THEN [visible EXCEPT !.pdf = staged] ELSE visible
      /\ run' = IF publish THEN [run EXCEPT !.man.pdf = staged] ELSE run
      /\ UNCHANGED <<doc, bib, moved, srcNew, srcBbl, aux, bcf, bbl, ind, staged, record>>
  BY DEF PublishPdf, Goto, sources, files
<1>2. run.wrote /\ staged = Typeset(doc, aux, bbl, ind) /\ ~moved
  BY <1>1 DEF Showing, PdfCurrent, BuildFields
<1>3. visible'.pdf = staged
  BY PublishedIsStaged
<1>4. /\ run'.complete = run.complete /\ run'.wrote = run.wrote /\ run'.hit = run.hit
      /\ run'.failed = run.failed /\ DOMAIN run' = DOMAIN run
  <2>1. CASE run' = run
    BY <2>1
  <2>2. CASE run' = [run EXCEPT !.man.pdf = staged]
    BY <2>2, FieldsKnown DEF Showing, BuildFields
  <2> QED BY <1>1, <2>1, <2>2
<1>5. SettledBefore' /\ BeforePass' /\ PassMade' /\ CitesOfRead' /\ NotAdopted'
  BY <1>1 DEF SettledBefore, BeforePass, PassMade, CitesOfRead, NotAdopted
<1>6. ControlFiles' /\ BuildFields' /\ RecordInputs'
  BY <1>1, <1>4, FieldsKnownNext DEF Showing, ControlFiles, BuildFields, RecordInputs
<1>7. RecordStaged' /\ HitShown'
  BY <1>1 DEF RecordStaged, HitShown
<1>8. RecordShown'
  <2> SUFFICES ASSUME MayHit' PROVE staged = record.pdf
    BY <1>1, <1>3 DEF RecordShown
  <2>1. record # NoRecord /\ (Inert(record.in.doc) \/ staged = record.pdf)
    BY <1>1 DEF MayHit
  <2>2. CASE Inert(record.in.doc) /\ ~Inert(doc)
    BY <1>1, <1>2, <2>1, <2>2 DEF Showing, RecordStaged
  <2>3. CASE Inert(record.in.doc) /\ Inert(doc)
    <3>1. /\ record.in.doc \in Docs \ EmptyDocs /\ record.pdf = record.in
          /\ record.in = Reads(record.in.doc, NoAux, NoBbl, NoInd)
      BY <2>1, <2>3 DEF Showing, RecordInputs, Known, Converging, RecordIsStable
    <3>2. doc \in Docs \ EmptyDocs
      BY <1>2 DEF Known, Converging, WroteWhatItHas, Citing, CiteBase, TInv, SourcesTyped
    <3>3. record.in.doc = doc
      BY <2>3, <3>1, <3>2 DEF Undisturbed, PlainOnce
    <3> QED BY <1>2, <2>3, <3>1, <3>3 DEF Typeset, Reads, Inert
  <2> QED BY <2>1, <2>2, <2>3
<1>9. PdfCurrent'
  BY <1>1, <1>2, <1>3, <1>4, NotEnded DEF PdfCurrent, OkIsCurrent, Typeset, Reads
<1> QED BY <1>5, <1>6, <1>7, <1>8, <1>9 DEF Showing

(* A build ends.                                                            *)
LEMMA EndsShow ==
    ASSUME Undisturbed, Known, Known', Showing, NoOutput \/ Save
    PROVE  Showing'
<1>1. Shown
  BY DEF Showing, RecordShown, Shown, NoOutput, Save
<1>2. CASE NoOutput
  BY <1>1, <1>2, EndShows DEF NoOutput, Return, Ended, sources, files
<1>3. CASE Save
  <2>1. visible.pdf = Typeset(doc, aux, bbl, ind)
    BY <1>3 DEF Save, Showing, PdfCurrent
  <2> QED BY <1>1, <1>3, <2>1, EndShows DEF Save, Return, sources, files
<1> QED BY <1>2, <1>3

(* The user edits between builds; the record may be forgotten at any time.  *)
LEMMA OutsideShows ==
    ASSUME Undisturbed, Known, Known', Showing,
           EditDoc \/ EditBib \/ PutBbl \/ MinutePasses \/ UNCHANGED vars
    PROVE  Showing'
<1>1. CASE EditDoc \/ EditBib \/ PutBbl
  <2>1. /\ pc = "idle" /\ pc' = pc /\ moved' = TRUE
        /\ UNCHANGED <<aux, bcf, bbl, ind, staged, record, visible, run>>
    BY <1>1 DEF EditDoc, EditBib, PutBbl, Edit, May, Undisturbed
  <2>2. SettledBefore' /\ BeforePass' /\ PassMade' /\ CitesOfRead' /\ NotAdopted'
    BY <2>1 DEF SettledBefore, BeforePass, PassMade, CitesOfRead, NotAdopted
  <2>3. ControlFiles' /\ BuildFields' /\ RecordInputs'
    BY <2>1 DEF Showing, ControlFiles, BuildFields, RecordInputs
  <2>4. MayHit' => MayHit
    BY <2>1 DEF MayHit
  <2>5. RecordStaged' /\ RecordShown' /\ HitShown' /\ PdfCurrent'
    BY <2>1, <2>4, RecordShownStays
    DEF Showing, RecordStaged, HitShown, PdfCurrent, OkIsCurrent, Ended
  <2> QED BY <2>2, <2>3, <2>5 DEF Showing
<1>2. CASE MinutePasses \/ UNCHANGED vars
  <2>1. /\ record' \in {record, NoRecord}
        /\ UNCHANGED <<doc, bib, srcBbl, srcNew, moved, aux, bcf, bbl, ind, staged, visible,
                       pc, run, report>>
    BY <1>2 DEF MinutePasses, vars, sources, files
  <2>2. SettledBefore'
    BY <2>1
    DEF Showing, SettledBefore, Settled, Wanted, SigOf, AuxCites, AuxComplete, Adoptable
  <2>9. BeforePass' /\ PassMade'
    BY <2>1 DEF Showing, BeforePass, PassMade
  <2>10. CitesOfRead'
    BY <2>1 DEF Showing, CitesOfRead, DocCites
  <2>11. NotAdopted'
    BY <2>1 DEF Showing, NotAdopted, AuxCites, AuxComplete, Adoptable
  <2>3. ControlFiles' /\ BuildFields' /\ RecordInputs' /\ HitShown'
    BY <2>1 DEF Showing, ControlFiles, BuildFields, RecordInputs, HitShown
  <2>4. PdfCurrent'
    BY <2>1 DEF Showing, PdfCurrent, OkIsCurrent, Ended
  <2>5. RecordStaged'
    BY <2>1 DEF Showing, RecordStaged
  <2>6. MayHit' => record' = record /\ MayHit
    BY <2>1 DEF MayHit
  <2>7. Quiet => Quiet'
    BY <2>1 DEF Quiet, Settled, Wanted, SigOf, AuxCites, AuxComplete, Adoptable, IndexIsCurrent
  <2>8. RecordShown'
    BY <2>1, <2>6, <2>7 DEF Showing, RecordShown
  <2> QED BY <2>2, <2>3, <2>4, <2>5, <2>8, <2>9, <2>10, <2>11 DEF Showing
<1> QED BY <1>1, <1>2

(* Both hold of every undisturbed build.                                    *)
LEMMA KnownHolds ==
    ASSUME Undisturbed
    PROVE  Spec => []Known
<1>1. Spec => []Indexing
  BY IndexingHolds DEF Undisturbed
<1>2. Spec => []Citing
  BY CitingHolds DEF Undisturbed
<1>3. Converging /\ [Next]_vars => Converging'
  BY ConvergingStep DEF Undisturbed
<1>4. Published /\ [Next]_vars => Published'
  <2> SUFFICES ASSUME Published, [Next]_vars PROVE Published'
    OBVIOUS
  <2> QED
    BY NoDisturbance, StartPublished, RefreshPublished, PassPublished, EngineEndPublished,
       AfterPassPublished, PublishSynctexPublished, PublishPdfPublished, EndPublished,
       OutsidePublished
    DEF Next, Driver
<1>5. Indexing /\ Citing /\ Converging /\ Published => Known
  BY DEF Known
<1> QED BY <1>1, <1>2, <1>3, <1>4, <1>5, ConvergingInit, PublishedInit, PTL DEF Spec

LEMMA ShowingStep ==
    ASSUME Undisturbed, Known, Known', Showing, [Next]_vars
    PROVE  Showing'
BY NoDisturbance, StartShows, RefreshShows, RefreshToolShows, BeginPassShows,
   CacheHitShows, EngineStartShows, EngineFinishShows, IndexShows, DecideShows, ToolShows,
   PublishSynctexShows, PublishPdfShows, EndsShow, OutsideShows
DEF Next, Driver

LEMMA ShowingHolds ==
    ASSUME Undisturbed
    PROVE  Spec => [](Known /\ Showing)
<1>1. Known /\ Known' /\ Showing /\ [Next]_vars => Showing'
  BY ShowingStep
<1> QED BY <1>1, KnownHolds, ShowingInit, PTL DEF Spec

(* If no step of the build fails, the sources are edited between builds     *)
(* only, and BibTeX can read the databases, the visible PDF of a build that *)
(* reports OK is what a pass over the sources and auxiliary files would     *)
(* make again: for all documents, bibliographies and indexes, and any limit *)
(* on passes.  The last hypothesis is that at most one version uses no      *)
(* auxiliary file: README, section 7, has what happens with two of them.    *)
THEOREM OkIsCurrentHolds ==
    ASSUME Faults = {}, MidBuild = {}, NoBibs = {},
           \A d, e \in Docs \ EmptyDocs : Inert(d) /\ Inert(e) => d = e /\ d \notin PartialDocs
    PROVE  Spec => []OkIsCurrent
<1>1. Spec => [](Known /\ Showing)
  BY ShowingHolds DEF Undisturbed, PlainOnce
<1>2. Showing => OkIsCurrent
  BY DEF Showing, PdfCurrent
<1> QED BY <1>1, <1>2, PTL

-----------------------------------------------------------------------------
(* The build and its promise.  A document that settles takes at most four   *)
(* passes: after the first its .aux files are its own and the bibliography  *)
(* and the index are made for them, after the second they know of the       *)
(* index and no .bbl of the project is still to be adopted, after the third *)
(* they know of the .bbl, and the fourth finds nothing to change.           *)

\* The .aux a was written by a pass over the document
AuxMadeFor(a) ==
    IF doc \in OnePageDocs THEN a = TrivialAux
    ELSE /\ a = [state |-> "full", doc |-> doc, bbl |-> a.bbl, ind |-> a.ind, flip |-> a.flip]
         /\ Cites[doc] = NoCites => a.bbl = NoBbl
         /\ a.ind \in BOOLEAN /\ (doc \notin IndexDocs => ~a.ind)
         /\ a.flip \in BOOLEAN /\ (doc \notin UnstableDocs => ~a.flip)

\* What n passes have done for the .aux a, the .bcf c and the .ind i
NearEnd(a, c, i, n) ==
    /\ n >= 1 => AuxMadeFor(a) /\ Settled(a, c) /\ (doc \in IndexDocs => i = ToolInd(a))
    /\ n >= 2 => (doc \in IndexDocs => a.ind) /\ (Adoptable(a) => bbl = srcBbl)
    /\ n >= 3 => Cites[doc] = NoCites \/ a.bbl = bbl

\* The files that the next pass reads, or that the last one has read
NearBefore ==
    /\ pc = "pass" => NearEnd(aux, bcf, ind, run.passes)
    /\ pc = "engine" => NearEnd(aux, bcf, ind, run.passes - 1)
    /\ pc \in {"running", "index", "makeindex", "decide"} =>
         NearEnd(run.before[1], run.before[2], run.before[4], run.passes - 1)

\* What the last pass and makeindex leave alone
KeptFiles ==
    /\ pc \in {"index", "makeindex", "decide"} =>
         /\ run.before = <<run.before[1], run.before[2], run.before[3], run.before[4]>>
         /\ run.passes >= 2 => bcf = run.before[2]
         /\ doc \notin IndexDocs => ind = run.before[4]
    /\ pc = "makeindex" => doc \in IndexDocs

\* The tool runs after the first pass only, a fourth is the last
FewPasses ==
    /\ pc = "tool" => run.passes = 1
    /\ pc = "pass" => run.passes <= 3 \/ doc \in UnstableDocs
    /\ pc = "publish" => run.wrote \/ doc \in EmptyDocs

\* Bibliographies are of two kinds
BblsMade ==
    /\ bbl = [by |-> bbl.by, cites |-> bbl.cites, bib |-> bbl.bib]
    /\ srcBbl = [by |-> srcBbl.by, cites |-> srcBbl.cites, bib |-> srcBbl.bib]
    /\ ~ProjectBbl => bbl.by # "source"

\* The visible SyncTeX data are of the visible PDF, but while they are replaced
SyncShown ==
    /\ pc \notin {"publishPdf", "save"} => visible.sync = visible.pdf /\ disk.sync = disk.pdf
    /\ pc \in {"publishPdf", "save"} => run.man.sync = visible.sync
    /\ pc = "publishPdf" => visible.sync = staged
    /\ pc = "save" => visible.sync = visible.pdf

Closing == NearBefore /\ KeptFiles /\ FewPasses /\ BblsMade /\ SyncShown

(* At first there are no files.                                             *)
LEMMA ClosingInit == Init => Closing
<1> SUFFICES ASSUME Init PROVE Closing
  OBVIOUS
<1>1. pc = "idle" /\ bbl = NoBbl /\ srcBbl = NoBbl /\ disk = NewManifest
      /\ visible = [pdf |-> NoPdf, sync |-> NoPdf]
  BY DEF Init
<1>2. NearBefore /\ KeptFiles /\ FewPasses
  BY <1>1 DEF NearBefore, KeptFiles, FewPasses
<1>3. BblsMade /\ SyncShown
  BY <1>1 DEF BblsMade, SyncShown, NoBbl, NewManifest
<1> QED BY <1>2, <1>3 DEF Closing

(* The bibliographies.                                                      *)
LEMMA BblsMadeStep ==
    ASSUME Undisturbed, Known, Known', BblsMade, [Next]_vars
    PROVE  BblsMade'
<1>1. SourcesKnown /\ (Adopts(aux) => srcBbl.by = "source")
  BY AdoptedSigned DEF Known, Converging, Citing
<1>2. ~ProjectBbl => srcBbl = NoBbl /\ ~Adopts(aux)
  BY <1>1 DEF SourcesKnown, NoBbl
<1>3. CASE PutBbl
  <2>1. ProjectBbl /\ bbl' = bbl /\ srcBbl' = ProjectBblFor(Cites[doc], bib)
    BY <1>3 DEF PutBbl, Edit
  <2> QED BY <2>1 DEF BblsMade, ProjectBblFor
<1>4. CASE /\ srcBbl' = srcBbl
           /\ bbl' \in {bbl, srcBbl, NoBbl, ToolBbl(ToolCites(aux), bib)}
           /\ ~ProjectBbl => bbl' \in {bbl, NoBbl, ToolBbl(ToolCites(aux), bib)}
  BY <1>4 DEF BblsMade, NoBbl, ToolBbl
<1>5. CASE Refresh
  <2>1. UNCHANGED srcBbl /\ bbl' \in {bbl, srcBbl, NoBbl}
    BY <1>5 DEF Refresh, sources, files
  <2>2. ~ProjectBbl => bbl' \in {bbl, NoBbl}
    BY <1>2, <2>1
  <2> QED BY <1>4, <2>1, <2>2
<1>6. CASE Decide
  <2>1. UNCHANGED srcBbl /\ bbl' \in {DecidedBbl, NoBbl}
    BY <1>6, DecideDoes DEF sources, files
  <2>2. DecidedBbl \in {bbl, srcBbl} /\ (~ProjectBbl => DecidedBbl = bbl)
    BY <1>2 DEF DecidedBbl
  <2> QED BY <1>4, <2>1, <2>2
<1>7. CASE RefreshTool \/ Tool
  <2>1. ToolSucceeds
    BY ToolCanRead DEF Undisturbed, Known, Citing
  <2> QED BY <1>4, <1>7, <2>1 DEF RefreshTool, Tool, sources, files
<1>8. CASE ~PutBbl /\ ~Refresh /\ ~Decide /\ ~RefreshTool /\ ~Tool
  <2>1. UNCHANGED <<bbl, srcBbl>>
    BY <1>8, NoDisturbance DEF Next, Driver, Start, Begin, BeginPass, Pass, NotConverged, CacheHit,
       EngineStart, EngineFinish, IndexTools, Makeindex, NoOutput, PublishSynctex, PublishPdf, Save,
       EditDoc, EditBib, MinutePasses, Edit, vars, sources, files
  <2> QED BY <1>4, <2>1
<1> QED BY <1>3, <1>5, <1>6, <1>7, <1>8

(* The SyncTeX data are of the staged PDF when its publication comes, be it *)
(* that they are left alone after a hit.                                    *)
LEMMA SyncIsStaged ==
    ASSUME Known, Showing, SyncShown, PublishSynctex
    PROVE  visible'.sync = staged /\ run'.man.sync = staged
<1> DEFINE publish == Unpublished(visible.sync, run.man.sync)
<1>1. /\ pc = "publish" /\ visible' = IF publish THEN [visible EXCEPT !.sync = staged] ELSE visible
      /\ run' = IF publish THEN [run EXCEPT !.man.sync = staged] ELSE run
  BY DEF PublishSynctex, Goto
<1>2. CASE publish
  <2>1. "sync" \in DOMAIN visible
    BY DEF Known, Published
  <2> QED BY <1>1, <1>2, <2>1, FieldsKnown
<1>3. CASE ~publish
  <2>1. run.hit /\ run.man.sync # NoPdf
    BY <1>3 DEF Unpublished
  <2>2. run.man.sync = disk.sync /\ visible.pdf = disk.pdf /\ SyncTexKnown(disk)
    BY <1>1 DEF Known, Published
  <2>3. visible.sync = visible.pdf /\ disk.sync = disk.pdf
    BY <1>1 DEF SyncShown
  <2>4. visible.pdf \in {NoPdf, staged}
    BY <1>1, <2>1 DEF Showing, HitShown
  <2> HIDE DEF publish
  <2> QED BY <1>1, <1>3, <2>1, <2>2, <2>3, <2>4
<1> QED BY <1>2, <1>3

(* Neither is shown alone, but while a build publishes.                     *)
LEMMA SyncShownStep ==
    ASSUME Undisturbed, Known, Known', Showing, Showing', SyncShown, [Next]_vars
    PROVE  SyncShown'
<1>1. CASE PublishSynctex
  <2>1. pc' = "publishPdf" /\ staged' = staged
    BY <1>1 DEF PublishSynctex, Goto
  <2> QED BY <1>1, <2>1, SyncIsStaged DEF SyncShown
<1>2. CASE PublishPdf
  <2>1. /\ pc = "publishPdf" /\ pc' = "save"
        /\ visible' \in {visible, [visible EXCEPT !.pdf = staged]}
        /\ run' \in {run, [run EXCEPT !.man.pdf = staged]}
    BY <1>2 DEF PublishPdf, Goto
  <2>2. visible'.sync = visible.sync /\ visible'.pdf = staged
    BY <1>2, <2>1, PublishedIsStaged DEF Known, Published
  <2>3. run'.man.sync = run.man.sync
    BY <2>1, FieldsKnown
  <2> QED BY <2>1, <2>2, <2>3 DEF SyncShown
<1>3. CASE Save
  <2>1. pc = "save" /\ pc' = "idle" /\ disk' = run.man /\ visible' = visible
    BY <1>3 DEF Save, Return
  <2>2. visible.pdf = run.man.pdf
    BY <2>1 DEF Known, Published
  <2> QED BY <2>1, <2>2 DEF SyncShown
<1>4. CASE ~PublishSynctex /\ ~PublishPdf /\ ~Save
  <2>1. CASE pc \in {"publishPdf", "save"}
    <3>1. UNCHANGED <<pc, run, disk, visible, staged>>
      BY <1>4, <2>1, NoDisturbance DEF Undisturbed, Next, Driver, Start, Begin, Refresh, RefreshTool,
         BeginPass, NotConverged, CacheHit, EngineStart, EngineFinish, IndexTools, Makeindex, Decide,
         Tool, NoOutput, EditDoc, EditBib, PutBbl, May, MinutePasses, Edit, vars
    <3> QED BY <3>1 DEF SyncShown
  <2>2. CASE pc \notin {"publishPdf", "save"}
    <3>1. /\ pc' \notin {"publishPdf", "save"} /\ UNCHANGED visible
          /\ \/ disk' \in {disk, [disk EXCEPT !.unfinished = TRUE]}
             \/ pc # "idle" /\ disk' \in {run.man, [run.man EXCEPT !.unfinished = TRUE]}
      <4>1. CASE Refresh \/ RefreshTool \/ Decide \/ Tool
        <5>1. ToolSucceeds
          BY ToolCanRead DEF Undisturbed, Known, Citing
        <5> QED BY <4>1, <5>1 DEF Refresh, RefreshTool, EnterLoop, Decide, Tool, Settle, Goto
      <4>2. CASE ~(Refresh \/ RefreshTool \/ Decide \/ Tool)
        BY <1>4, <2>2, <4>2, NoDisturbance DEF Undisturbed, Next, Driver, Start, Begin,
           BeginPass, Pass, NotConverged, CacheHit, EngineStart, EngineFinish, PassFinished, IndexTools,
           Makeindex, NoOutput, EditDoc, EditBib, PutBbl, MinutePasses, Edit, Goto, Return, vars
      <4> QED BY <4>1, <4>2
    <3>2. pc # "idle" => run.man.pdf = disk.pdf /\ run.man.sync = disk.sync
      BY <2>2 DEF Known, Published
    <3>3. {"pdf", "sync"} \subseteq DOMAIN disk /\ {"pdf", "sync"} \subseteq DOMAIN run.man
      BY DEF Known, Published, PublishFields
    <3>4. disk'.pdf = disk.pdf /\ disk'.sync = disk.sync
      BY <3>1, <3>2, <3>3
    <3> QED BY <2>2, <3>1, <3>4 DEF SyncShown
  <2> QED BY <2>1, <2>2
<1> QED BY <1>1, <1>2, <1>3, <1>4

(* When the loop has ended, the staged PDF is one that belongs to the       *)
(* sources: its .aux files, .bbl and .ind can only be theirs.               *)
LEMMA StagedBelongs ==
    ASSUME Undisturbed, Known, Showing, BblsMade, pc = "publish", run.wrote
    PROVE  staged \in FinishedFor(doc, bib)
<1>1. ~moved /\ doc \in Docs \ EmptyDocs
  BY DEF Showing, BuildFields, Known, Converging, WroteWhatItHas, Citing, CiteBase, TInv, SourcesTyped
<1>2. staged = Typeset(doc, aux, bbl, ind) /\ aux = NewAux(doc, aux, bbl, ind)
  BY <1>1 DEF Known, Converging, ConvergedIsStable
<1>3. doc \notin UnstableDocs
  <2> SUFFICES ASSUME doc \in UnstableDocs PROVE FALSE
    OBVIOUS
  <2>1. doc \notin OnePageDocs
    BY DriverAssumption
  <2>2. aux.flip = (doc \in UnstableDocs /\ ~aux.flip)
    BY <1>2, <2>1 DEF NewAux
  <2> QED BY <2>2
<1>4. doc \in OnePageDocs => Cites[doc] = NoCites /\ doc \notin IndexDocs
  BY DriverAssumption
<1>5. doc \in IndexDocs => ind = ToolInd(aux)
  <2> SUFFICES ASSUME doc \in IndexDocs PROVE ind = ToolInd(aux)
    OBVIOUS
  <2>1. aux.state = "full" /\ aux.doc = doc
    BY <1>2, <1>4 DEF NewAux
  <2> QED BY <2>1 DEF Known, Indexing, AuxIndexed
<1>6. aux = FinishedAux(doc, bbl)
  <2>1. CASE doc \in OnePageDocs
    BY <1>2, <2>1 DEF NewAux, FinishedAux
  <2>2. CASE doc \notin OnePageDocs
    <3>1. Reads(doc, aux, bbl, ind).bbl = IF Cites[doc] = NoCites THEN NoBbl ELSE bbl
      BY DEF Reads
    <3>2. (Reads(doc, aux, bbl, ind).ind.by # "none") = (doc \in IndexDocs)
      BY <1>5 DEF Reads, ToolInd, NoInd
    <3>3. (doc \in UnstableDocs /\ ~aux.flip) = FALSE
      BY <1>3
    <3> QED BY <1>2, <2>2, <3>1, <3>2, <3>3 DEF NewAux, FinishedAux
  <2> QED BY <2>1, <2>2
<1>7. staged = FinishedPdf(doc, bbl)
  BY <1>2, <1>5, <1>6 DEF FinishedPdf, Typeset, Reads
<1>8. CASE Cites[doc] = NoCites
  <2>1. FinishedAux(doc, ToolBbl(Cites[doc], bib)) = FinishedAux(doc, bbl)
    BY <1>8 DEF FinishedAux
  <2>2. FinishedPdf(doc, ToolBbl(Cites[doc], bib)) = FinishedPdf(doc, bbl)
    BY <1>8, <2>1 DEF FinishedPdf, Typeset, Reads
  <2> QED BY <1>1, <1>3, <1>7, <2>2 DEF FinishedFor
<1>9. CASE Cites[doc] # NoCites
  <2>1. aux.state = "full" /\ aux.doc = doc
    BY <1>2, <1>4, <1>9 DEF NewAux
  <2>2. bbl.by \in {"tool", "source"} /\ bbl.cites = Cites[doc] /\ bbl.bib = bib
    BY <1>9, <2>1 DEF Known, Citing, BblFits, Fits
  <2>3. \/ bbl = ToolBbl(Cites[doc], bib)
        \/ ProjectBbl /\ bbl = ProjectBblFor(Cites[doc], bib)
    BY <2>2, DriverAssumption DEF BblsMade, ToolBbl, ProjectBblFor
  <2> QED BY <1>1, <1>3, <1>7, <2>3 DEF FinishedFor
<1> QED BY <1>8, <1>9

\* What the passes have done, apart from the publication
Nearing == NearBefore /\ KeptFiles /\ FewPasses

(* Before the first pass and after the loop Nearing says nothing.           *)
LEMMA NearElsewhere ==
    ASSUME \/ pc' \in {"idle", "refresh", "refreshTool", "publishPdf", "save"}
           \/ pc' = "pass" /\ run'.passes = 0
           \/ pc' = "publish" /\ run'.wrote
    PROVE  Nearing'
<1>1. 0 <= 3 /\ ~(0 >= 1) /\ ~(0 >= 2) /\ ~(0 >= 3)
  OBVIOUS
<1> QED BY <1>1 DEF Nearing, NearBefore, NearEnd, KeptFiles, FewPasses

(* The loop is entered with no pass made.                                   *)
LEMMA RefreshNears ==
    ASSUME Undisturbed, Known, Refresh \/ RefreshTool
    PROVE  Nearing'
<1>1. run.passes = 0
  BY DEF Refresh, RefreshTool, Known, Citing, Trusts
<1>2. ToolSucceeds
  BY ToolCanRead DEF Undisturbed, Known, Citing
<1>3. \A r : r.passes = 0 /\ "passes" \in DOMAIN r /\ EnterLoop(r) => pc' = "pass" /\ run'.passes = 0
  BY DEF EnterLoop, Goto
<1>4. CASE Refresh
  <2> DEFINE sig == Signature(aux)
             man == IF Adopts(aux)
                    THEN [run.man EXCEPT !.sig = sig, !.out = srcBbl]
                    ELSE run.man
             known == [run EXCEPT !.man = man, !.cites = AuxCites(aux),
                                  !.done = Adopts(aux), !.sig = sig]
             none == [run EXCEPT !.man = NoTool(run.man)]
  <2>1. EnterLoop(none) \/ EnterLoop(known) \/ pc' = "refreshTool"
    BY <1>4 DEF Refresh, Goto
  <2>2. /\ known.passes = 0 /\ "passes" \in DOMAIN known
        /\ none.passes = 0 /\ "passes" \in DOMAIN none
    BY <1>1, FieldsKnown
  <2> HIDE DEF known, none
  <2> QED BY <1>3, <2>1, <2>2, NearElsewhere
<1>5. CASE RefreshTool
  <2>1. Produced.passes = 0 /\ "passes" \in DOMAIN Produced
    BY <1>1, FieldsKnown DEF Produced
  <2>2. EnterLoop(Produced)
    BY <1>2, <1>5 DEF RefreshTool
  <2> QED BY <1>3, <2>1, <2>2, NearElsewhere
<1> QED BY <1>4, <1>5

(* A pass begins with the files that the last one has left.                 *)
LEMMA BeginPassNears ==
    ASSUME Known, Nearing, BeginPass
    PROVE  Nearing'
<1>1. /\ pc = "pass" /\ pc' = "engine"
      /\ UNCHANGED <<doc, bib, srcNew, srcBbl, aux, bcf, bbl, ind>>
      /\ run' = [run EXCEPT !.passes = run.passes + 1,
                            !.man = [run.man EXCEPT !.unfinished = TRUE],
                            !.before = <<aux, bcf, bbl, ind>>]
  BY DEF BeginPass, Pass, sources, files
<1>2. /\ run'.passes = run.passes + 1 /\ run'.cites = run.cites /\ run'.done = run.done
      /\ run'.man.sig = run.man.sig /\ run'.man.out = run.man.out
  BY <1>1, FieldsKnown
<1>3. run'.passes - 1 = run.passes
  BY <1>2 DEF Known, Citing, CiteBase, TInv, RunTyped
<1>4. NearEnd(aux, bcf, ind, run.passes)
  BY <1>1 DEF Nearing, NearBefore
<1>5. NearEnd(aux, bcf, ind, run.passes - 1)'
  BY <1>1, <1>2, <1>3, <1>4
  DEF NearEnd, AuxMadeFor, Settled, Wanted, SigOf, AuxCites, AuxComplete, Adoptable, ToolInd
<1> QED BY <1>1, <1>5 DEF Nearing, NearBefore, KeptFiles, FewPasses

(* The result cache answers: the loop ends, or nothing has changed.         *)
LEMMA CacheHitNears ==
    ASSUME Known, Showing, Nearing, CacheHit
    PROVE  Nearing'
<1> DEFINE finished == [run EXCEPT !.man.unfinished = FALSE, !.wrote = TRUE, !.failed = FALSE]
<1>1. /\ pc = "engine"
      /\ UNCHANGED <<doc, bib, srcNew, srcBbl, aux, bcf, bbl, ind>>
      /\ \/ Goto("publish", [finished EXCEPT !.hit = TRUE])
         \/ Goto("index", finished)
  BY DEF CacheHit, sources, files
<1>2. /\ finished.before = run.before /\ finished.passes = run.passes /\ finished.wrote = TRUE
      /\ finished.cites = run.cites /\ finished.done = run.done
      /\ finished.man.sig = run.man.sig /\ finished.man.out = run.man.out
      /\ DOMAIN finished = DOMAIN run
  BY FieldsKnown
<1> HIDE DEF finished
<1>3. CASE Goto("publish", [finished EXCEPT !.hit = TRUE])
  <2>1. pc' = "publish" /\ run'.wrote
    BY <1>2, <1>3, FieldsKnown DEF Goto
  <2> QED BY <2>1, NearElsewhere
<1>4. CASE Goto("index", finished)
  <2>1. pc' = "index" /\ run' = finished
    BY <1>4 DEF Goto
  <2>2. run.before = <<aux, bcf, bbl, ind>> /\ NearEnd(aux, bcf, ind, run.passes - 1)
    BY <1>1 DEF Showing, BeforePass, Nearing, NearBefore
  <2>3. run'.before[1] = aux /\ run'.before[2] = bcf /\ run'.before[3] = bbl /\ run'.before[4] = ind
    BY <1>2, <2>1, <2>2
  <2>4. NearEnd(run.before[1], run.before[2], run.before[4], run.passes - 1)'
    BY <1>1, <1>2, <2>1, <2>2, <2>3
    DEF NearEnd, AuxMadeFor, Settled, Wanted, SigOf, AuxCites, AuxComplete, Adoptable, ToolInd
  <2>5. KeptFiles'
    BY <1>1, <1>2, <2>1, <2>2, <2>3 DEF KeptFiles
  <2> QED BY <2>1, <2>4, <2>5 DEF Nearing, NearBefore, FewPasses
<1> QED BY <1>1, <1>3, <1>4

(* The engine starts, and remembers what it reads.                          *)
LEMMA EngineStartNears ==
    ASSUME Known, Showing, Nearing, EngineStart
    PROVE  Nearing'
<1>1. /\ pc = "engine" /\ pc' = "running" /\ UNCHANGED <<doc, bib, srcNew, srcBbl, bbl, ind>>
      /\ run' = [run EXCEPT !.reads = Reads(doc, aux, bbl, ind)]
  BY DEF EngineStart, Goto, sources, files
<1>2. /\ run'.before = run.before /\ run'.passes = run.passes /\ run'.cites = run.cites
      /\ run'.done = run.done /\ run'.man = run.man
  BY <1>1, FieldsKnown
<1>3. run.before = <<aux, bcf, bbl, ind>> /\ NearEnd(aux, bcf, ind, run.passes - 1)
  BY <1>1 DEF Showing, BeforePass, Nearing, NearBefore
<1>4. run'.before[1] = aux /\ run'.before[2] = bcf /\ run'.before[4] = ind
  BY <1>2, <1>3
<1>5. NearEnd(run.before[1], run.before[2], run.before[4], run.passes - 1)'
  BY <1>1, <1>2, <1>3, <1>4
  DEF NearEnd, AuxMadeFor, Settled, Wanted, SigOf, AuxCites, AuxComplete, Adoptable, ToolInd
<1> QED BY <1>1, <1>5 DEF Nearing, NearBefore, KeptFiles, FewPasses

(* What a pass over the document writes is the document's.                  *)
LEMMA MadeForDoc ==
    ASSUME NEW a, NEW b, NEW i, NEW new, new = NewAux(doc, a, b, i)
    PROVE  /\ AuxMadeFor(new)
           /\ doc \in IndexDocs /\ doc \notin OnePageDocs /\ i.by # "none" => new.ind
           /\ Cites[doc] # NoCites /\ doc \notin OnePageDocs => new.bbl = b
<1>1. CASE doc \in OnePageDocs
  BY <1>1 DEF NewAux, AuxMadeFor
<1>2. CASE doc \notin OnePageDocs
  <2> DEFINE indexed == Reads(doc, a, b, i).ind.by # "none"
             flips == doc \in UnstableDocs /\ ~a.flip
  <2>1. /\ new = [state |-> "full", doc |-> doc, bbl |-> new.bbl, ind |-> new.ind, flip |-> new.flip]
        /\ new.bbl = Reads(doc, a, b, i).bbl /\ new.ind = indexed /\ new.flip = flips
    BY <1>2 DEF NewAux
  <2>2. indexed <=> doc \in IndexDocs /\ i.by # "none"
    BY DEF Reads, NoInd
  <2>3. indexed \in BOOLEAN /\ flips \in BOOLEAN /\ (flips => doc \in UnstableDocs)
    OBVIOUS
  <2>4. Reads(doc, a, b, i).bbl = IF Cites[doc] = NoCites THEN NoBbl ELSE b
    BY DEF Reads
  <2> HIDE DEF indexed, flips
  <2>5. new.ind \in BOOLEAN /\ (doc \notin IndexDocs => ~new.ind)
    BY <2>1, <2>2, <2>3
  <2>6. new.flip \in BOOLEAN /\ (doc \notin UnstableDocs => ~new.flip)
    BY <2>1, <2>3
  <2>7. doc \in IndexDocs /\ i.by # "none" => new.ind
    BY <2>1, <2>2
  <2>8. AuxMadeFor(new)
    BY <1>2, <2>1, <2>4, <2>5, <2>6 DEF AuxMadeFor
  <2> QED BY <2>1, <2>4, <2>7, <2>8
<1> QED BY <1>1, <1>2

(* A pass over the files of the document that have all they need changes    *)
(* nothing.                                                                 *)
LEMMA RemadeSame ==
    ASSUME NEW a, NEW b, AuxMadeFor(a), doc \notin UnstableDocs,
           doc \in IndexDocs => a.ind, Cites[doc] = NoCites \/ a.bbl = b,
           NEW i, doc \in IndexDocs => i.by # "none"
    PROVE  NewAux(doc, a, b, i) = a
<1> DEFINE new == NewAux(doc, a, b, i)
<1>1. CASE doc \in OnePageDocs
  BY <1>1 DEF NewAux, AuxMadeFor
<1>2. CASE doc \notin OnePageDocs
  <2>1. a = [state |-> "full", doc |-> doc, bbl |-> a.bbl, ind |-> a.ind, flip |-> a.flip]
    BY <1>2 DEF AuxMadeFor
  <2>2. Reads(doc, a, b, i).bbl = a.bbl
    BY <1>2 DEF AuxMadeFor, Reads
  <2>3. (Reads(doc, a, b, i).ind.by # "none") = a.ind
    BY <1>2 DEF AuxMadeFor, Reads, NoInd
  <2>4. (doc \in UnstableDocs /\ ~a.flip) = a.flip
    BY <1>2 DEF AuxMadeFor
  <2> QED BY <1>2, <2>1, <2>2, <2>3, <2>4 DEF NewAux
<1> QED BY <1>1, <1>2

(* All .aux files of the document cite alike.                               *)
LEMMA MadeCites ==
    ASSUME NEW a, AuxMadeFor(a), doc \in Docs
    PROVE  /\ AuxCites(a) = DocCites
           /\ doc \notin OnePageDocs => (AuxComplete(a) <=> doc \notin PartialDocs)
           /\ doc \in OnePageDocs => AuxComplete(a)
<1>1. CASE doc \in OnePageDocs
  <2>1. a = TrivialAux /\ Cites[doc] = NoCites
    BY <1>1, DriverAssumption DEF AuxMadeFor
  <2> QED BY <1>1, <2>1 DEF TrivialAux, NoAux, AuxCites, AuxComplete, DocCites
<1>2. CASE doc \notin OnePageDocs
  <2>1. a.state = "full" /\ a.doc = doc
    BY <1>2 DEF AuxMadeFor
  <2> QED BY <1>2, <2>1 DEF AuxCites, AuxComplete, DocCites
<1> QED BY <1>1, <1>2

(* What has been done for the last pass, in a step that keeps its inputs.   *)
LEMMA NearKept ==
    ASSUME UNCHANGED <<doc, bib, srcNew, srcBbl, bbl>>,
           run'.before = run.before, run'.passes = run.passes, run'.cites = run.cites,
           run'.done = run.done, run'.man.sig = run.man.sig, run'.man.out = run.man.out,
           NearEnd(run.before[1], run.before[2], run.before[4], run.passes - 1)
    PROVE  NearEnd(run.before[1], run.before[2], run.before[4], run.passes - 1)'
<1>1. AuxMadeFor(run.before[1])' <=> AuxMadeFor(run.before[1])
  BY DEF AuxMadeFor
<1>2. Wanted(run.before[1], run.before[2])' = Wanted(run.before[1], run.before[2])
  BY DEF Wanted, AuxCites
<1>3. /\ AuxCites(run.before[1])' = AuxCites(run.before[1])
      /\ AuxComplete(run.before[1])' <=> AuxComplete(run.before[1])
  BY DEF AuxCites, AuxComplete
<1>4. SigOf(run.before[1], run.before[2])' = SigOf(run.before[1], run.before[2])
  BY <1>2, <1>3 DEF SigOf
<1>5. Adoptable(run.before[1])' <=> Adoptable(run.before[1])
  BY <1>3 DEF Adoptable
<1>6. Settled(run.before[1], run.before[2])' <=> Settled(run.before[1], run.before[2])
  BY <1>2, <1>3, <1>4, <1>5 DEF Settled
<1> QED BY <1>1, <1>5, <1>6 DEF NearEnd, ToolInd

(* The engine ends: from the second pass on the .bcf is the same again.     *)
LEMMA EngineFinishNears ==
    ASSUME Known, Showing, Nearing, EngineFinish
    PROVE  Nearing'
<1>1. pc = "running" /\ ~moved
  BY DEF EngineFinish, Showing, BuildFields
<1>2. /\ run.before = <<run.before[1], run.before[2], bbl, ind>>
      /\ run.reads = Reads(doc, run.before[1], bbl, ind)
      /\ (doc \notin BiberDocs => bcf = run.before[2])
      /\ run.before[1].state = "full" /\ run.before[1].doc \in BiberDocs =>
           run.before[2] = [state |-> "full", cites |-> Cites[run.before[1].doc]]
  BY <1>1 DEF Showing, BeforePass
<1>3. run.reads.doc = doc /\ run.before[3] = bbl /\ run.before[4] = ind
  BY <1>2 DEF Reads
<1>4. /\ pc' = "index" /\ bcf' = NewBcf(doc) /\ UNCHANGED <<doc, bib, srcNew, srcBbl, bbl, ind>>
      /\ run' = [run EXCEPT !.man.unfinished = FALSE, !.failed = FALSE,
                            !.wrote = @ \/ doc \notin EmptyDocs]
  BY <1>3 DEF EngineFinish, EngineWrites, PassFinished, WrotePdf, Goto, sources, files
<1>5. /\ run'.before = run.before /\ run'.passes = run.passes /\ run'.cites = run.cites
      /\ run'.done = run.done /\ run'.man.sig = run.man.sig /\ run'.man.out = run.man.out
  <2>1. {"man", "passes", "cites", "done", "before"} \subseteq DOMAIN run /\ "unfinished" \in DOMAIN run.man
    BY FieldsKnown
  <2>2. run'.man = [run.man EXCEPT !.unfinished = FALSE]
    BY <1>4, <2>1
  <2>3. run'.man.sig = run.man.sig /\ run'.man.out = run.man.out
    BY <2>2, FieldsKnown
  <2> QED BY <1>4, <2>1, <2>3
<1>6. NearEnd(run.before[1], run.before[2], run.before[4], run.passes - 1)
  BY <1>1 DEF Nearing, NearBefore
<1>7. NearEnd(run.before[1], run.before[2], run.before[4], run.passes - 1)'
  BY <1>4, <1>5, <1>6, NearKept
<1>8. run.passes >= 2 => bcf' = run.before[2]
  <2> SUFFICES ASSUME run.passes >= 2, doc \in BiberDocs PROVE bcf' = run.before[2]
    BY <1>2, <1>4 DEF NewBcf
  <2>1. run.passes - 1 >= 1
    BY DEF Known, Citing, CiteBase, TInv, RunTyped
  <2>2. AuxMadeFor(run.before[1])
    BY <1>6, <2>1 DEF NearEnd
  <2>3. doc \notin OnePageDocs
    BY DriverAssumption
  <2>4. run.before[1].state = "full" /\ run.before[1].doc = doc
    BY <2>2, <2>3 DEF AuxMadeFor
  <2> QED BY <1>2, <1>4, <2>4 DEF NewBcf
<1>9. KeptFiles'
  BY <1>2, <1>3, <1>4, <1>5, <1>8 DEF KeptFiles
<1> QED BY <1>4, <1>7, <1>9 DEF Nearing, NearBefore, FewPasses

(* makeindex changes the index of a document that has one.                  *)
LEMMA IndexNears ==
    ASSUME Undisturbed, Known, Showing, Nearing, IndexTools \/ Makeindex
    PROVE  Nearing'
<1>1. /\ pc \in {"index", "makeindex"} /\ pc' \in {"makeindex", "decide"}
      /\ UNCHANGED <<doc, bib, srcNew, srcBbl, aux, bcf, bbl>>
      /\ run' \in {run, [run EXCEPT !.man.idx = aux]}
  BY DEF IndexTools, Makeindex, Goto, Undisturbed, sources, files
<1>2. /\ run'.before = run.before /\ run'.passes = run.passes /\ run'.cites = run.cites
      /\ run'.done = run.done /\ run'.man.sig = run.man.sig /\ run'.man.out = run.man.out
  <2>1. CASE run' = run
    BY <2>1
  <2>2. CASE run' = [run EXCEPT !.man.idx = aux]
    BY <2>2, FieldsKnown
  <2> QED BY <1>1, <2>1, <2>2
<1>3. NearEnd(run.before[1], run.before[2], run.before[4], run.passes - 1)
  BY <1>1 DEF Nearing, NearBefore
<1>4. NearEnd(run.before[1], run.before[2], run.before[4], run.passes - 1)'
  BY <1>1, <1>2, <1>3, NearKept
<1>5. doc \in IndexDocs \/ (ind' = ind /\ pc' = "decide")
  <2>1. aux.state = "full" => aux.doc = doc
    BY <1>1, AuxMade
  <2>2. CASE Makeindex
    BY <2>2 DEF Makeindex, Nearing, KeptFiles
  <2>3. CASE IndexTools
    BY <2>1, <2>3 DEF IndexTools, Goto
  <2> QED BY <2>2, <2>3
<1>6. KeptFiles'
  BY <1>1, <1>2, <1>5 DEF Nearing, KeptFiles
<1> QED BY <1>1, <1>4, <1>6 DEF Nearing, NearBefore, FewPasses

(* From the second pass on the bibliography that the pass has read is       *)
(* still there for the .aux files that it has written.                      *)
LEMMA NoToolAgain ==
    ASSUME Undisturbed, Known, Showing, Nearing, pc = "decide", run.passes >= 2
    PROVE  /\ AuxMadeFor(run.before[1]) /\ AuxMadeFor(aux)
           /\ doc \in IndexDocs => run.before[4] = ToolInd(run.before[1])
           /\ Adoptable(aux) <=> Adoptable(run.before[1])
           /\ ~Needed
<1> DEFINE a == run.before[1]
           c == run.before[2]
<1>1. run.passes - 1 >= 1 /\ doc \in Docs
  BY DEF Known, Citing, CiteBase, TInv, RunTyped, SourcesTyped
<1>2. AuxMadeFor(a) /\ Settled(a, c) /\ (doc \in IndexDocs => run.before[4] = ToolInd(a)) /\ bcf = c
  BY <1>1 DEF Nearing, NearBefore, NearEnd, KeptFiles
<1>3. AuxMadeFor(aux)
  BY MadeForDoc DEF Showing, PassMade
<1>4. AuxCites(aux) = AuxCites(a) /\ (AuxComplete(aux) <=> AuxComplete(a))
  BY <1>1, <1>2, <1>3, MadeCites
<1> HIDE DEF a, c
<1>5. Adoptable(aux) <=> Adoptable(a)
  BY <1>4 DEF Adoptable
<1>6. Wanted(aux, bcf) = Wanted(a, c) /\ SigOf(aux, bcf) = SigOf(a, c)
  BY <1>2, <1>4 DEF Wanted, SigOf
<1>7. ~Needed
  BY <1>2, <1>4, <1>6, SettledEnds DEF Settled
<1> QED BY <1>2, <1>3, <1>5, <1>7 DEF a

(* The fourth pass over a document that settles changes nothing.            *)
LEMMA FourthIsLast ==
    ASSUME Undisturbed, Known, Showing, Nearing, pc = "decide", run.passes >= 4,
           doc \notin UnstableDocs
    PROVE  ~Changed
<1> DEFINE a == run.before[1]
           i == run.before[4]
<1>1. run.passes - 1 >= 3 /\ run.passes - 1 >= 2 /\ run.passes >= 2
  BY DEF Known, Citing, CiteBase, TInv, RunTyped
<1>2. /\ AuxMadeFor(a) /\ (doc \in IndexDocs => i = ToolInd(a))
      /\ Adoptable(aux) <=> Adoptable(a)
  BY <1>1, NoToolAgain
<1>3. /\ doc \in IndexDocs => a.ind
      /\ Adoptable(a) => bbl = srcBbl
      /\ Cites[doc] = NoCites \/ a.bbl = bbl
  BY <1>1 DEF Nearing, NearBefore, NearEnd
<1>4. /\ run.before = <<a, bcf, run.before[3], i>> /\ run.before[3] = bbl
      /\ doc \notin IndexDocs => ind = i
      /\ aux = NewAux(doc, a, bbl, i)
  BY <1>1 DEF Nearing, KeptFiles, Showing, PassMade
<1> HIDE DEF a, i
<1>5. aux = a
  BY <1>2, <1>3, <1>4, RemadeSame DEF ToolInd
<1>6. ind = i
  <2> SUFFICES ASSUME doc \in IndexDocs PROVE ind = i
    BY <1>4
  <2>1. doc \notin OnePageDocs
    BY DriverAssumption
  <2>2. aux.state = "full" /\ aux.doc = doc
    BY <1>2, <1>5, <2>1 DEF AuxMadeFor
  <2>3. ind = ToolInd(aux)
    BY <2>2 DEF Known, Indexing, AuxIndexed
  <2> QED BY <1>2, <1>5, <2>3
<1>7. Adopts(aux) => bbl = srcBbl
  <2>1. Adopts(aux) <=> Adoptable(aux)
    BY WantedIs DEF Undisturbed, Known
  <2> QED BY <1>2, <1>3, <2>1
<1>8. DecidedBbl = bbl
  BY <1>7 DEF DecidedBbl
<1> QED BY <1>4, <1>5, <1>6, <1>8 DEF Changed

(* Every further pass finds more of its files as the last one left them.    *)
LEMMA DecideNears ==
    ASSUME Undisturbed, Known, Known', Showing, Nearing, Decide
    PROVE  Nearing'
<1> DEFINE i == run.before[4]
<1>1. /\ pc = "decide" /\ pc' \in {"tool", "pass", "publish"} /\ (pc' = "tool" => Needed)
      /\ UNCHANGED <<doc, bib, moved, srcNew, srcBbl, aux, bcf, ind>>
      /\ run'.passes = run.passes /\ run'.wrote = run.wrote
  <2> DEFINE next == [run EXCEPT !.man = IF Ready(aux) THEN DecidedMan ELSE NoTool(DecidedMan),
                                 !.cites = AuxCites(aux), !.done = run.done \/ Adopts(aux),
                                 !.sig = Signature(aux), !.changed = Changed]
  <2>1. /\ pc = "decide" /\ UNCHANGED <<doc, bib, moved, srcNew, srcBbl, aux, bcf, ind>>
        /\ pc' \in {"tool", "pass", "publish"} /\ (pc' = "tool" => Needed) /\ run' = next
    BY DecideDoes DEF Settle, Goto, sources, files
  <2>2. next.passes = run.passes /\ next.wrote = run.wrote
    BY FieldsKnown
  <2> HIDE DEF next
  <2> QED BY <2>1, <2>2
<1>2. run.passes \in Nat /\ run.passes > 0
  BY <1>1 DEF Known, Citing, CiteBase, TInv, RunTyped, AfterPass
<1>3. aux = NewAux(doc, run.before[1], bbl, i) /\ (doc \in EmptyDocs \/ run.wrote)
  BY <1>1 DEF Showing, PassMade
<1>4. CASE pc' = "tool"
  <2>1. run.passes = 1
    BY <1>1, <1>2, <1>4, NoToolAgain
  <2> QED BY <1>1, <1>4, <2>1 DEF Nearing, NearBefore, KeptFiles, FewPasses
<1>5. CASE pc' = "publish"
  BY <1>1, <1>3, <1>5 DEF Nearing, NearBefore, KeptFiles, FewPasses
<1>6. CASE pc' = "pass"
  <2>1. /\ ~Needed /\ Changed /\ bbl' = DecidedBbl
        /\ Settled(aux, bcf)' /\ (Adoptable(aux)' => bbl' = srcBbl)
    BY <1>6, DecideSettles
  <2>2. AuxMadeFor(aux)'
    <3>1. AuxMadeFor(aux)
      BY <1>3, MadeForDoc
    <3> QED BY <1>1, <3>1 DEF AuxMadeFor
  <2>3. doc \in IndexDocs => aux.state = "full" /\ aux.doc = doc /\ ind = ToolInd(aux)
    <3> SUFFICES ASSUME doc \in IndexDocs
                 PROVE  aux.state = "full" /\ aux.doc = doc /\ ind = ToolInd(aux)
      OBVIOUS
    <3>1. doc \notin OnePageDocs
      BY DriverAssumption
    <3>2. aux.state = "full" /\ aux.doc = doc
      BY <1>1, <2>2, <3>1 DEF AuxMadeFor
    <3> QED BY <1>1, <3>2 DEF Known, Indexing, AuxIndexed
  <2>4. run.passes >= 2 /\ doc \in IndexDocs => aux.ind
    <3> SUFFICES ASSUME run.passes >= 2, doc \in IndexDocs PROVE aux.ind
      OBVIOUS
    <3>1. i.by # "none"
      BY <1>1, NoToolAgain DEF ToolInd
    <3>2. doc \notin OnePageDocs
      BY DriverAssumption
    <3> HIDE DEF i
    <3> QED BY <1>3, <3>1, <3>2, MadeForDoc
  <2>5. run.passes >= 3 => Cites[doc] = NoCites \/ aux.bbl = bbl'
    <3> SUFFICES ASSUME run.passes >= 3, Cites[doc] # NoCites PROVE aux.bbl = bbl'
      OBVIOUS
    <3>1. doc \notin OnePageDocs
      BY DriverAssumption
    <3>2. aux.bbl = bbl
      BY <1>3, <3>1, MadeForDoc
    <3>3. run.passes - 1 >= 2 /\ run.passes >= 2
      BY <1>2
    <3>4. Adoptable(aux) => bbl = srcBbl
      BY <1>1, <3>3, NoToolAgain DEF Nearing, NearBefore, NearEnd
    <3>5. Adopts(aux) => bbl = srcBbl
      BY <3>4, WantedIs DEF Undisturbed, Known
    <3> QED BY <2>1, <3>2, <3>5 DEF DecidedBbl
  <2>6. run.passes <= 3 \/ doc \in UnstableDocs
    BY <1>1, <1>2, <2>1, FourthIsLast
  <2>7. NearEnd(aux, bcf, ind, run.passes)'
    <3>1. /\ (doc \in IndexDocs)' => ind' = ToolInd(aux)'
          /\ run'.passes >= 2 => ((doc \in IndexDocs)' => aux'.ind)
          /\ run'.passes >= 3 => Cites[doc]' = NoCites \/ aux'.bbl = bbl'
      BY <1>1, <2>3, <2>4, <2>5 DEF ToolInd
    <3>2. Adoptable(aux)' => bbl' = srcBbl'
      BY <1>1, <2>1
    <3> QED BY <2>1, <2>2, <3>1, <3>2 DEF NearEnd
  <2> QED BY <1>1, <1>6, <2>6, <2>7 DEF Nearing, NearBefore, KeptFiles, FewPasses
<1> QED BY <1>1, <1>4, <1>5, <1>6

(* The tool after the first pass makes what the second reads.               *)
LEMMA ToolNears ==
    ASSUME Undisturbed, Known, Showing, Nearing, Tool
    PROVE  Nearing'
<1>1. /\ pc = "tool" /\ pc' = "pass" /\ run' = Produced /\ Settled(aux, bcf)'
      /\ UNCHANGED <<doc, aux, ind>>
  BY ToolSettles
<1>2. run.passes = 1
  BY <1>1 DEF Nearing, FewPasses
<1>3. run'.passes = 1
  BY <1>1, <1>2, FieldsKnown DEF Produced
<1>4. AuxMadeFor(aux)
  BY <1>1, MadeForDoc DEF Showing, PassMade
<1>5. doc \in IndexDocs => ind = ToolInd(aux)
  <2> SUFFICES ASSUME doc \in IndexDocs PROVE ind = ToolInd(aux)
    OBVIOUS
  <2>1. doc \notin OnePageDocs
    BY DriverAssumption
  <2>2. aux.state = "full" /\ aux.doc = doc
    BY <1>4, <2>1 DEF AuxMadeFor
  <2> QED BY <1>1, <2>2 DEF Known, Indexing, AuxIndexed
<1>6. AuxMadeFor(aux)' /\ (doc \in IndexDocs => ind = ToolInd(aux))'
  BY <1>1, <1>4, <1>5 DEF AuxMadeFor, ToolInd
<1>7. NearEnd(aux, bcf, ind, run.passes)'
  BY <1>1, <1>3, <1>6 DEF NearEnd
<1> QED BY <1>1, <1>3, <1>7 DEF Nearing, NearBefore, KeptFiles, FewPasses

(* A step that leaves the build and its files alone.                        *)
LEMMA NearStays ==
    ASSUME Nearing, UNCHANGED <<doc, bib, srcBbl, srcNew, aux, bcf, bbl, ind, pc, run>>
    PROVE  Nearing'
<1>1. NearEnd(aux, bcf, ind, run.passes) <=> NearEnd(aux, bcf, ind, run.passes)'
  BY DEF NearEnd, AuxMadeFor, Settled, Wanted, SigOf, AuxCites, AuxComplete, Adoptable, ToolInd
<1>2. NearEnd(aux, bcf, ind, run.passes - 1) <=> NearEnd(aux, bcf, ind, run.passes - 1)'
  BY DEF NearEnd, AuxMadeFor, Settled, Wanted, SigOf, AuxCites, AuxComplete, Adoptable, ToolInd
<1>3. NearEnd(run.before[1], run.before[2], run.before[4], run.passes - 1)
        <=> NearEnd(run.before[1], run.before[2], run.before[4], run.passes - 1)'
  BY DEF NearEnd, AuxMadeFor, Settled, Wanted, SigOf, AuxCites, AuxComplete, Adoptable, ToolInd
<1> QED BY <1>1, <1>2, <1>3 DEF Nearing, NearBefore, KeptFiles, FewPasses

(* Closing is inductive.                                                    *)
LEMMA ClosingStep ==
    ASSUME Undisturbed, Known, Known', Showing, Showing', Closing, [Next]_vars
    PROVE  Closing'
<1>1. Nearing
  BY DEF Closing, Nearing
<1>2. BblsMade' /\ SyncShown'
  BY BblsMadeStep, SyncShownStep DEF Closing
<1>3. Nearing'
  <2>1. CASE Start \/ NotConverged \/ NoOutput \/ PublishSynctex \/ PublishPdf \/ Save
    <3>1. pc' \in {"refresh", "idle", "publishPdf", "save"}
      BY <2>1 DEF Start, Begin, NotConverged, NoOutput, PublishSynctex, PublishPdf, Save, Return, Goto
    <3> QED BY <3>1, NearElsewhere
  <2>2. CASE EditDoc \/ EditBib \/ PutBbl
    <3>1. pc' = "idle"
      BY <2>2 DEF EditDoc, EditBib, PutBbl, May, Edit, Undisturbed
    <3> QED BY <3>1, NearElsewhere
  <2>3. CASE MinutePasses \/ UNCHANGED vars
    BY <1>1, <2>3, NearStays DEF MinutePasses, vars, sources, files
  <2> QED
    BY <1>1, <2>1, <2>2, <2>3, NoDisturbance, RefreshNears, BeginPassNears, CacheHitNears,
       EngineStartNears, EngineFinishNears, IndexNears, DecideNears, ToolNears
    DEF Next, Driver
<1> QED BY <1>2, <1>3 DEF Closing, Nearing

LEMMA ClosingHolds ==
    ASSUME Undisturbed
    PROVE  Spec => [](Known /\ Showing /\ Closing)
<1>1. Known /\ Known' /\ Showing /\ Showing' /\ Closing /\ [Next]_vars => Closing'
  BY ClosingStep
<1> QED BY <1>1, ShowingHolds, ClosingInit, PTL DEF Spec

\* The states of the sources, and what belongs to each
JobSources == Docs \X (Bibs \cup NoBibs)
JobFinished == [s \in JobSources |-> FinishedFor(s[1], s[2])]

LEMMA SourcesAre ==
    ASSUME Known
    PROVE  <<doc, bib>> \in JobSources /\ JobFinished[<<doc, bib>>] = FinishedFor(doc, bib)
BY DEF Known, Citing, CiteBase, TInv, SourcesTyped, JobSources, JobFinished

(* Between publications the build keeps to itself.                          *)
LEMMA WorkingStutters ==
    ASSUME Undisturbed, Known,
           \/ Refresh \/ RefreshTool \/ BeginPass \/ CacheHit \/ EngineStart \/ EngineFinish
           \/ IndexTools \/ Makeindex \/ Decide \/ Tool
    PROVE  UNCHANGED <<doc, bib, visible, report>> /\ Stage = "working" /\ Stage' = "working"
<1>1. ToolSucceeds
  BY ToolCanRead DEF Undisturbed, Known, Citing
<1>2. /\ UNCHANGED <<doc, bib, visible, report>>
      /\ pc \notin {"idle", "publishPdf", "save"} /\ pc' \notin {"idle", "publishPdf", "save"}
  BY <1>1, NoDisturbance DEF Undisturbed, Refresh, RefreshTool, EnterLoop, BeginPass, Pass, CacheHit,
     EngineStart, EngineFinish, PassFinished, IndexTools, Makeindex, Decide, Tool, Settle, Goto,
     sources, files
<1> QED BY <1>2 DEF Stage

(* Each step of the driver is a step of the job, or none.                   *)
LEMMA JobStep ==
    ASSUME Undisturbed, MaxPasses >= 4, Known, Known', Showing, Closing, [Next]_vars
    PROVE  [Job!BuildNext]_(Job!buildVars)
<1>1. <<doc, bib>> \in JobSources /\ JobFinished[<<doc, bib>>] = FinishedFor(doc, bib)
  BY SourcesAre
<1>2. CASE Start
  BY <1>2 DEF Start, Begin, files, Stage, Job!BuildNext, Job!Begin
<1>3. CASE NotConverged
  <2>1. ~(MaxPasses <= 3)
    BY DriverAssumption
  <2>2. doc \in UnstableDocs
    BY <1>3, <2>1 DEF NotConverged, Closing, FewPasses
  <2>3. FinishedFor(doc, bib) = {}
    BY <2>2 DEF FinishedFor
  <2>4. /\ UNCHANGED <<doc, bib, visible>> /\ report' = "failed"
        /\ Stage = "working" /\ Stage' = "idle"
    BY <1>3 DEF NotConverged, Return, sources, files, Stage
  <2> QED BY <1>1, <2>3, <2>4 DEF Job!BuildNext, Job!Fail, JobSources, JobFinished
<1>4. CASE NoOutput
  <2>1. doc \in EmptyDocs
    BY <1>4 DEF NoOutput, Closing, FewPasses
  <2>2. FinishedFor(doc, bib) = {}
    BY <2>1 DEF FinishedFor
  <2>3. /\ UNCHANGED <<doc, bib, visible>> /\ report' = "failed"
        /\ Stage = "working" /\ Stage' = "idle"
    BY <1>4 DEF NoOutput, Return, sources, files, Stage
  <2> QED BY <1>1, <2>2, <2>3 DEF Job!BuildNext, Job!Fail, JobSources, JobFinished
<1>5. CASE PublishSynctex
  <2>1. pc = "publish" /\ run.wrote
    BY <1>5 DEF PublishSynctex
  <2>2. /\ UNCHANGED <<doc, bib, report>> /\ Stage = "working" /\ Stage' = "half"
        /\ visible' \in {visible, [visible EXCEPT !.sync = staged]}
    BY <1>5 DEF PublishSynctex, Goto, sources, files, Stage
  <2>3. visible'.pdf = visible.pdf
    BY <2>2 DEF Known, Published
  <2>4. visible'.sync = staged
    BY <1>5, SyncIsStaged DEF Closing
  <2>5. staged \in FinishedFor(doc, bib)
    BY <2>1, StagedBelongs DEF Closing
  <2> QED BY <1>1, <2>2, <2>3, <2>4, <2>5 DEF Job!BuildNext, Job!ShowSync, JobSources, JobFinished
<1>6. CASE PublishPdf
  <2>1. /\ pc = "publishPdf" /\ UNCHANGED <<doc, bib, report>> /\ Stage = "half" /\ Stage' = "shown"
        /\ visible' \in {visible, [visible EXCEPT !.pdf = staged]}
    BY <1>6 DEF PublishPdf, Goto, sources, files, Stage
  <2>2. visible'.sync = visible.sync
    BY <2>1 DEF Known, Published
  <2>3. visible'.pdf = visible.sync
    BY <1>6, <2>1, PublishedIsStaged DEF Closing, SyncShown
  <2> QED BY <2>1, <2>2, <2>3 DEF Job!BuildNext, Job!ShowPdf
<1>7. CASE Save
  <2>1. ~run.failed
    BY DEF Showing, BuildFields
  <2>2. /\ UNCHANGED <<doc, bib, visible>> /\ report' = "ok" /\ Stage = "shown" /\ Stage' = "idle"
    BY <1>7, <2>1 DEF Save, Return, sources, files, Stage
  <2> QED BY <2>2 DEF Job!BuildNext, Job!Succeed
<1>8. CASE EditDoc \/ EditBib
  <2>1. pc = "idle" /\ UNCHANGED <<visible, report, pc>>
    BY <1>8 DEF EditDoc, EditBib, May, Edit, Undisturbed
  <2>2. Stage = "idle" /\ Stage' = Stage
    BY <2>1 DEF Stage
  <2>3. <<doc, bib>>' \in JobSources
    BY DEF Known, Citing, CiteBase, TInv, SourcesTyped, JobSources
  <2> QED BY <2>1, <2>2, <2>3 DEF Job!BuildNext, Job!EditSources, JobSources
<1>9. CASE PutBbl \/ MinutePasses \/ UNCHANGED vars
  BY <1>9 DEF PutBbl, MinutePasses, Edit, vars, sources, files, Stage, Job!buildVars
<1>10. CASE \/ Refresh \/ RefreshTool \/ BeginPass \/ CacheHit \/ EngineStart \/ EngineFinish
            \/ IndexTools \/ Makeindex \/ Decide \/ Tool
  BY <1>10, WorkingStutters DEF Job!buildVars
<1> QED
  BY <1>2, <1>3, <1>4, <1>5, <1>6, <1>7, <1>8, <1>9, <1>10, NoDisturbance DEF Next, Driver

(* If no step of the build fails, the sources are edited between builds     *)
(* only, and BibTeX can read the databases, texmk keeps the promise of      *)
(* JobBuild: whatever was built and edited before, a build shows a PDF that *)
(* belongs to the present sources, the SyncTeX data first, and it fails     *)
(* only for a document that never settles or has no pages.  MAX_PASSES is 5 *)
(* in the code; four are enough.  The last hypothesis is that of            *)
(* OkIsCurrentHolds.                                                        *)
THEOREM ImplementsJobBuildHolds ==
    ASSUME Faults = {}, MidBuild = {}, NoBibs = {}, MaxPasses >= 4,
           \A d, e \in Docs \ EmptyDocs : Inert(d) /\ Inert(e) => d = e /\ d \notin PartialDocs
    PROVE  Spec => ImplementsJobBuild
<1>1. Undisturbed
  BY DEF Undisturbed, PlainOnce
<1>2. Init => Job!BuildInit
  BY DEF Init, Stage, Job!BuildInit
<1>3. Known /\ Known' /\ Showing /\ Closing /\ [Next]_vars => [Job!BuildNext]_(Job!buildVars)
  BY <1>1, JobStep
<1>4. Spec => [](Known /\ Showing /\ Closing)
  BY <1>1, ClosingHolds
<1> QED BY <1>2, <1>3, <1>4, PTL DEF Spec, ImplementsJobBuild, Job!BuildSpec

-----------------------------------------------------------------------------
(* How long a build may be.                                                 *)

\* How far the places of a pass are from the end of the build, if it is the last pass
PlacesLeft ==
    CASE pc = "refresh" -> 12 [] pc = "refreshTool" -> 11 [] pc = "engine" -> 10
      [] pc = "running" -> 9 [] pc = "index" -> 8 [] pc = "makeindex" -> 7 [] pc = "decide" -> 6
      [] pc = "tool" -> 5 [] pc = "pass" -> 4 [] pc = "publish" -> 3 [] pc = "publishPdf" -> 2
      [] pc = "save" -> 1

\* At most so many steps are left to the build
StepsLeft == IF pc = "idle" THEN 0 ELSE 7 * (MaxPasses - run.passes) + PlacesLeft

MostSteps == 7 * MaxPasses + 12

(* The driver's places are known, and so are its passes.                    *)
LEMMA StepsKnown ==
    ASSUME TInv
    PROVE  /\ StepsLeft \in 0..MostSteps /\ (StepsLeft = 0 <=> pc = "idle")
           /\ run.passes \in 0..MaxPasses /\ MaxPasses \in Nat /\ "passes" \in DOMAIN run
<1>1. run.passes \in 0..MaxPasses /\ MaxPasses \in Nat /\ "passes" \in DOMAIN run
  BY DriverAssumption DEF TInv, RunTyped, CountFields
<1>2. pc # "idle" => PlacesLeft \in 1..12
  BY DEF TInv, RunTyped, AfterPass, PlacesLeft
<1>3. \A n \in 0..MaxPasses, k \in 1..12 : 7 * (MaxPasses - n) + k \in 1..(7 * MaxPasses + 12)
  BY <1>1
<1> QED BY <1>1, <1>2, <1>3 DEF StepsLeft, MostSteps

(* A step to a later place, in the same pass or to the end.                 *)
LEMMA FewerSteps ==
    ASSUME TInv, TInv', pc # "idle",
           pc' = "idle" \/ (run'.passes = run.passes /\ PlacesLeft' < PlacesLeft)
    PROVE  StepsLeft' < StepsLeft
<1>1. /\ StepsLeft \in Nat /\ StepsLeft > 0
  BY StepsKnown DEF MostSteps
<1>2. CASE pc' = "idle"
  BY <1>1, <1>2 DEF StepsLeft
<1>3. CASE pc' # "idle" /\ run'.passes = run.passes /\ PlacesLeft' < PlacesLeft
  <2>1. PlacesLeft \in Nat /\ PlacesLeft' \in Nat
    BY <1>3 DEF TInv, RunTyped, AfterPass, PlacesLeft
  <2>2. run.passes \in Nat /\ MaxPasses \in Nat
    BY StepsKnown
  <2> HIDE DEF PlacesLeft
  <2> QED BY <1>3, <2>1, <2>2 DEF StepsLeft
<1> QED BY <1>2, <1>3

\* The places of a step, and the count of the passes
Moves(from, to) == pc = from /\ pc' \in to /\ (pc' = "idle" \/ run'.passes = run.passes)

(* All steps of the driver but the beginning of a pass.                     *)
LEMMA DriverMoves ==
    ASSUME TInv, Driver, ~BeginPass
    PROVE  \/ Moves("refresh", {"refreshTool", "pass"}) \/ Moves("refreshTool", {"pass", "idle"})
           \/ Moves("pass", {"idle"})
           \/ Moves("engine", {"running", "index", "publish", "idle"})
           \/ Moves("running", {"index", "idle"}) \/ Moves("index", {"makeindex", "decide"})
           \/ Moves("makeindex", {"decide", "idle"}) \/ Moves("decide", {"tool", "pass", "publish"})
           \/ Moves("tool", {"pass", "publish", "idle"}) \/ Moves("publish", {"publishPdf", "idle"})
           \/ Moves("publishPdf", {"save", "idle"}) \/ Moves("save", {"idle"})
<1>1. "passes" \in DOMAIN run
  BY StepsKnown
<1>2. CASE Refresh \/ RefreshTool
  <2>1. \A r : EnterLoop(r) => pc' = "pass" /\ run' = [r EXCEPT !.trivial = aux.state = "none"]
    BY DEF EnterLoop, Goto
  <2>2. \A r : "passes" \in DOMAIN r =>
          [r EXCEPT !.trivial = aux.state = "none"].passes = r.passes
    OBVIOUS
  <2>3. CASE Refresh
    <3> DEFINE man == IF Adopts(aux)
                      THEN [run.man EXCEPT !.sig = Signature(aux), !.out = srcBbl]
                      ELSE run.man
               known == [run EXCEPT !.man = man, !.cites = AuxCites(aux),
                                    !.done = Adopts(aux), !.sig = Signature(aux)]
               none == [run EXCEPT !.man = NoTool(run.man)]
    <3>1. pc = "refresh" /\ (EnterLoop(none) \/ EnterLoop(known) \/ Goto("refreshTool", known))
      BY <2>3 DEF Refresh
    <3>2. /\ none.passes = run.passes /\ "passes" \in DOMAIN none
          /\ known.passes = run.passes /\ "passes" \in DOMAIN known
      BY <1>1
    <3> HIDE DEF none, known
    <3> QED BY <2>1, <2>2, <3>1, <3>2 DEF Goto, Moves
  <2>4. CASE RefreshTool
    <3> DEFINE done == [run EXCEPT !.done = TRUE]
    <3>1. pc = "refreshTool" /\ (EnterLoop(Produced) \/ EnterLoop(done) \/ pc' = "idle")
      BY <2>4 DEF RefreshTool, Return
    <3>2. /\ Produced.passes = run.passes /\ "passes" \in DOMAIN Produced
          /\ done.passes = run.passes /\ "passes" \in DOMAIN done
      BY <1>1 DEF Produced
    <3> HIDE DEF done
    <3> QED BY <2>1, <2>2, <3>1, <3>2 DEF Moves
  <2> QED BY <1>2, <2>3, <2>4
<1>3. CASE \/ NotConverged \/ EngineMissing \/ EngineStops \/ NoOutput \/ Save
           \/ PublishFails("publish") \/ PublishFails("publishPdf")
  BY <1>3 DEF NotConverged, EngineMissing, EngineStops, NoOutput, Save, PublishFails, Abandon, Return,
     Moves
<1>4. CASE CacheHit \/ EngineStart
  <2> DEFINE finished == [run EXCEPT !.man.unfinished = FALSE, !.wrote = TRUE, !.failed = FALSE]
  <2>1. /\ pc = "engine"
        /\ \/ Goto("publish", [finished EXCEPT !.hit = TRUE])
           \/ Goto("index", finished)
           \/ Goto("running", [run EXCEPT !.reads = Reads(doc, aux, bbl, ind)])
    BY <1>4 DEF CacheHit, EngineStart
  <2>2. finished.passes = run.passes /\ [finished EXCEPT !.hit = TRUE].passes = run.passes
    BY <1>1
  <2>3. [run EXCEPT !.reads = Reads(doc, aux, bbl, ind)].passes = run.passes
    BY <1>1
  <2> HIDE DEF finished
  <2> QED BY <2>1, <2>2, <2>3 DEF Goto, Moves
<1>5. CASE EngineFinish \/ EngineErrors
  <2>1. pc = "running" /\ (pc' = "idle" \/ \E errors \in BOOLEAN : PassFinished(errors))
    BY <1>5 DEF EngineFinish, EngineErrors, Return
  <2>2. \A errors \in BOOLEAN : PassFinished(errors) => pc' = "index" /\ run'.passes = run.passes
    BY <1>1 DEF PassFinished, Goto
  <2> QED BY <2>1, <2>2 DEF Moves
<1>6. CASE IndexTools \/ Makeindex
  BY <1>1, <1>6 DEF IndexTools, Makeindex, Goto, Return, Moves
<1>7. CASE Decide
  <2> DEFINE next == [run EXCEPT !.man = IF Ready(aux) THEN DecidedMan ELSE NoTool(DecidedMan),
                                 !.cites = AuxCites(aux), !.done = run.done \/ Adopts(aux),
                                 !.sig = Signature(aux), !.changed = Changed]
  <2>1. pc = "decide" /\ pc' \in {"tool", "pass", "publish"} /\ run' = next
    BY <1>7, DecideDoes DEF Settle, Goto
  <2>2. next.passes = run.passes
    BY <1>1
  <2> HIDE DEF next
  <2> QED BY <2>1, <2>2 DEF Moves
<1>8. CASE Tool
  <2> DEFINE done == [run EXCEPT !.done = TRUE]
  <2>1. pc = "tool" /\ (pc' = "idle" \/ (pc' \in {"pass", "publish"} /\ run' \in {Produced, done}))
    BY <1>8 DEF Tool, Settle, Goto, Return
  <2>2. Produced.passes = run.passes /\ done.passes = run.passes
    BY <1>1 DEF Produced
  <2> HIDE DEF done
  <2> QED BY <2>1, <2>2 DEF Moves
<1>9. CASE PublishSynctex \/ PublishPdf
  <2>1. /\ run' \in {run, [run EXCEPT !.man.sync = staged], [run EXCEPT !.man.pdf = staged]}
        /\ \/ pc = "publish" /\ pc' = "publishPdf"
           \/ pc = "publishPdf" /\ pc' = "save"
    BY <1>9 DEF PublishSynctex, PublishPdf, Goto
  <2>2. run'.passes = run.passes
    BY <1>1, <2>1
  <2> QED BY <2>1, <2>2 DEF Moves
<1> QED BY <1>2, <1>3, <1>4, <1>5, <1>6, <1>7, <1>8, <1>9 DEF Driver

(* Whatever fails and whatever the user does, a build takes at most         *)
(* 7 * MAX_PASSES + 12 steps: each step of build, and a kill, leaves fewer, *)
(* and only the start of another build leaves more.  With the fairness of   *)
(* the driver this is why every build ends (BuildsEnd, for TLC).            *)
THEOREM BuildsAreShort ==
    Spec => [][/\ StepsLeft \in 0..MostSteps
               /\ Driver \/ Kill => StepsLeft' < StepsLeft
               /\ ~Start => StepsLeft' <= StepsLeft]_vars
<1>1. TInv /\ TInv' /\ (Driver \/ Kill) => StepsLeft' < StepsLeft
  <2> SUFFICES ASSUME TInv, TInv', Driver \/ Kill PROVE StepsLeft' < StepsLeft
    OBVIOUS
  <2>1. CASE Kill
    <3>1. pc # "idle" /\ pc' = "idle"
      BY <2>1 DEF Kill, Abandon, Return
    <3> QED BY <3>1, FewerSteps
  <2>2. CASE BeginPass
    <3>1. /\ pc = "pass" /\ pc' = "engine"
          /\ run' = [run EXCEPT !.passes = run.passes + 1, !.man = [run.man EXCEPT !.unfinished = TRUE],
                                !.before = <<aux, bcf, bbl, ind>>]
      BY <2>2 DEF BeginPass, Pass
    <3>2. "passes" \in DOMAIN run /\ run.passes \in Nat /\ MaxPasses \in Nat
      BY StepsKnown
    <3>3. run'.passes = run.passes + 1
      BY <3>1, <3>2
    <3>4. PlacesLeft = 4 /\ PlacesLeft' = 10
      BY <3>1 DEF PlacesLeft
    <3> QED BY <3>1, <3>2, <3>3, <3>4 DEF StepsLeft
  <2>3. CASE Driver /\ ~BeginPass
    <3>1. pc # "idle" /\ (pc' = "idle" \/ (run'.passes = run.passes /\ PlacesLeft' < PlacesLeft))
      BY <2>3, DriverMoves DEF Moves, PlacesLeft
    <3> QED BY <3>1, FewerSteps
  <2> QED BY <2>1, <2>2, <2>3
<1>2. TInv /\ TInv' /\ [Next]_vars /\ ~Start => StepsLeft' <= StepsLeft
  <2> SUFFICES ASSUME TInv, TInv', [Next]_vars, ~Start PROVE StepsLeft' <= StepsLeft
    OBVIOUS
  <2>1. StepsLeft \in Int /\ StepsLeft' \in Int
    <3>1. StepsLeft \in Int
      BY StepsKnown DEF MostSteps
    <3>2. pc' # "idle" => PlacesLeft' \in Int
      BY DEF TInv, RunTyped, AfterPass, PlacesLeft
    <3>3. run'.passes \in Int /\ MaxPasses \in Int
      BY DriverAssumption DEF TInv, RunTyped
    <3> QED BY <3>1, <3>2, <3>3 DEF StepsLeft
  <2>2. CASE Driver \/ Kill
    BY <1>1, <2>1, <2>2
  <2>3. CASE ~(Driver \/ Kill)
    <3>1. UNCHANGED <<pc, run>>
      BY <2>3 DEF Next, EditDoc, EditBib, PutBbl, MinutePasses, Edit, vars
    <3>2. PlacesLeft' = PlacesLeft
      BY <3>1 DEF PlacesLeft
    <3>3. StepsLeft' = StepsLeft
      BY <3>1, <3>2 DEF StepsLeft
    <3> QED BY <2>1, <3>3
  <2> QED BY <2>2, <2>3
<1>3. TInv => StepsLeft \in 0..MostSteps
  BY StepsKnown
<1> QED BY <1>1, <1>2, <1>3, TInvHolds, PTL DEF Spec
=============================================================================
