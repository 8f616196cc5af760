---------------------------- MODULE BuildDriver ----------------------------
(***************************************************************************)
(* One job of texmk, built again and again: the pass loop of build in      *)
(* crates/tex-cli/src/bin/texmk.rs, the bibliography and index tools it    *)
(* runs, the result cache of the engine (pdflatex.rs), the manifest it     *)
(* persists and the outputs it publishes.  The user edits the sources, the *)
(* process may be killed, and tools and publications may fail.             *)
(*                                                                         *)
(* The job lock is held from Start to the end of a build (JobCache), so    *)
(* there is one build at a time.                                           *)
(***************************************************************************)
EXTENDS Integers

CONSTANTS
    Docs,           \* the versions of the document
    Cites,          \* Cites[d]: the citations of d, or NoCites
    NoCites,
    IndexDocs,      \* the versions with an index
    UnstableDocs,   \* the versions whose auxiliary files never settle
    OnePageDocs,    \* inert versions that rewrite TRIVIAL_AUX unchanged
    BiberDocs,      \* the versions that cite with biblatex and Biber
    EmptyDocs,      \* inert versions without pages
    PartialDocs,    \* the versions whose .aux graph cannot be read completely
    Bibs,           \* the databases BibTeX can read
    NoBibs,         \* other states of the database: "bad", "absent"
    ProjectBbl,     \* whether the user may put a <job>.bbl in the project
    ForceMode,      \* -f: go on after TeX errors if there is a PDF
    Faults,         \* what may go wrong besides the sources
    MidBuild,       \* the sources the user may edit during a build
    MaxPasses,      \* MAX_PASSES
    MaxEvents       \* bound: edits, faults and minutes in a behaviour

ASSUME DriverAssumption ==
    /\ {NoCites, "none"} \cap Docs = {}
    /\ DOMAIN Cites = Docs
    /\ "unknown" \notin {NoCites} \cup {Cites[d] : d \in Docs}
    /\ \A d \in BiberDocs : Cites[d] # NoCites
    /\ \A d \in BiberDocs, e \in Docs \ BiberDocs : Cites[d] # Cites[e]
    /\ IndexDocs \cup UnstableDocs \cup BiberDocs \cup PartialDocs \subseteq Docs
    /\ OnePageDocs \cup EmptyDocs \subseteq
         {d \in Docs : Cites[d] = NoCites} \ (IndexDocs \cup UnstableDocs)
    /\ Bibs \cap {"bad", "absent", "none"} = {}
    /\ NoBibs \subseteq {"bad", "absent"}
    /\ {ProjectBbl, ForceMode} \subseteq BOOLEAN
    /\ Faults \subseteq {"kill", "engine", "errors", "index", "publish"}
    /\ MidBuild \subseteq {"doc", "bib"}
    /\ MaxPasses \in Nat \ {0}
    /\ MaxEvents \in Nat

NoDoc == "none"
NoBib == "none"

VARIABLES
    doc, bib, srcBbl,   \* the sources: document, database, project .bbl
    srcNew,             \* the project .bbl is not older than the database
    aux,                \* the files a pass rewrites: .aux, .idx, .toc
    bcf,                \* the control file for Biber that the last such pass left
    bbl, ind,           \* the outputs of the bibliography and index tools
    staged,             \* the PDF and SyncTeX data in the staging directory
    record,             \* the engine's result-cache record
    disk,               \* the manifest on disk
    visible,            \* the published PDF and SyncTeX data
    pc, run,            \* where the build is, and its local variables
    report,             \* what the last build that ended reported
    moved,              \* the sources were edited since the build started
    left                \* how many events may still happen

files == <<doc, bib, srcBbl, srcNew>>
sources == <<files, moved, left>>
vars == <<sources, aux, bcf, bbl, ind, staged, record, disk, visible, pc, run, report>>

-----------------------------------------------------------------------------
(* Contents of files *)

NoBbl == [by |-> "none", cites |-> NoCites, bib |-> NoBib]
PartBbl == [by |-> "part", cites |-> NoCites, bib |-> NoBib]
ToolBbl(c, b) == [by |-> "tool", cites |-> c, bib |-> b]
ProjectBblFor(c, b) == [by |-> "source", cites |-> c, bib |-> b]

NoAux == [state |-> "none", doc |-> NoDoc, bbl |-> NoBbl, ind |-> FALSE, flip |-> FALSE]
TrivialAux == [NoAux EXCEPT !.state = "trivial"]
CutAux(d) == [NoAux EXCEPT !.state = "cut", !.doc = d]

NoBcf == [state |-> "none", cites |-> NoCites]
CutBcf == [state |-> "cut", cites |-> NoCites]

NoInd == [by |-> "none", of |-> NoAux]
PartInd == [by |-> "part", of |-> NoAux]
ToolInd(a) == [by |-> "tool", of |-> a]

NoPdf == [doc |-> NoDoc, labels |-> NoAux, bbl |-> NoBbl, ind |-> NoInd]

NoRecord == [in |-> NoPdf, aux |-> NoAux, pdf |-> NoPdf]

Inert(d) == Cites[d] = NoCites /\ d \notin IndexDocs \cup UnstableDocs

(* What a pass reads besides the document: an inert document reads no      *)
(* label, one without citations no .bbl, one without an index no .ind.     *)
Reads(d, a, b, i) ==
    [doc |-> d,
     labels |-> IF Inert(d) THEN NoAux ELSE a,
     bbl |-> IF Cites[d] = NoCites THEN NoBbl ELSE b,
     ind |-> IF d \in IndexDocs THEN i ELSE NoInd]

(* The PDF of a pass shows exactly what it reads.                          *)
Typeset(d, a, b, i) == Reads(d, a, b, i)

(* What it writes: page numbers depend on the bibliography and on whether  *)
(* there is an index, in an unstable document on the page numbers read.    *)
NewAux(d, a, b, i) ==
    IF d \in OnePageDocs THEN TrivialAux
    ELSE [state |-> "full", doc |-> d,
          bbl |-> Reads(d, a, b, i).bbl,
          ind |-> Reads(d, a, b, i).ind.by # "none",
          flip |-> d \in UnstableDocs /\ ~a.flip]

(* With biblatex the citations are in the .bcf, otherwise in the .aux.  A  *)
(* .bcf stays when the document no longer uses biblatex, and is then still *)
(* taken for the document's, unless the .aux names a database itself.      *)
NewBcf(d) == IF d \in BiberDocs THEN [state |-> "full", cites |-> Cites[d]] ELSE bcf
BrokenBcf(d) == IF d \in BiberDocs THEN CutBcf ELSE bcf

AuxCites(a) ==
    IF a.state \in {"cut", "full"} /\ a.doc \notin BiberDocs THEN Cites[a.doc] ELSE NoCites
AuxComplete(a) == a.state \in {"cut", "full"} => a.doc \notin PartialDocs
UsesBiber(a) == AuxCites(a) = NoCites /\ bcf # NoBcf
AuxInert(a) == a.state = "trivial" \/ (a.state = "full" /\ Inert(a.doc))

NoSig == <<NoCites, NoBib>>

-----------------------------------------------------------------------------
(* The manifest and the local variables of build *)

NewManifest ==
    [unfinished |-> FALSE, sig |-> NoSig, out |-> NoBbl, idx |-> NoAux, pdf |-> NoPdf, sync |-> NoPdf]

UnknownCites == "unknown"

Fresh ==
    [prior |-> FALSE, man |-> NewManifest, passes |-> 0, complete |-> FALSE,
     trivial |-> FALSE, cites |-> UnknownCites, done |-> FALSE, sig |-> NoSig,
     before |-> <<NoAux, NoBcf, NoBbl, NoInd>>, reads |-> NoPdf, wrote |-> FALSE,
     hit |-> FALSE, failed |-> FALSE, changed |-> FALSE]

Init ==
    /\ doc \in Docs
    /\ bib \in Bibs \cup NoBibs
    /\ srcBbl = NoBbl
    /\ srcNew = FALSE
    /\ moved = FALSE
    /\ left = MaxEvents
    /\ aux = NoAux
    /\ bcf = NoBcf
    /\ bbl = NoBbl
    /\ ind = NoInd
    /\ staged = NoPdf
    /\ record = NoRecord
    /\ disk = NewManifest
    /\ visible = [pdf |-> NoPdf, sync |-> NoPdf]
    /\ pc = "idle"
    /\ run = Fresh
    /\ report = "none"

-----------------------------------------------------------------------------
(* Steps shared by the actions *)

(* Something that the environment does.                                    *)
Event == left > 0 /\ left' = left - 1

(* build returns after retain_requested has saved the manifest m.          *)
Return(status, m) ==
    /\ pc' = "idle"
    /\ run' = Fresh
    /\ report' = status
    /\ disk' = m

(* build returns without saving the manifest.                              *)
Abandon(status) == Return(status, disk)

Goto(place, r) ==
    /\ pc' = place
    /\ run' = r
    /\ UNCHANGED <<report, disk>>

NoTool(m) == [m EXCEPT !.sig = NoSig, !.out = NoBbl]

(* What the bibliography tool looks for.                                   *)
ToolCites(a) == IF UsesBiber(a) THEN bcf.cites ELSE AuxCites(a)

(* bibliography_dependencies_available, or a complete .bcf for Biber.      *)
Ready(a) ==
    IF UsesBiber(a) THEN bcf.state = "full" ELSE AuxCites(a) # NoCites /\ bib # "absent"

(* Mutant: the signature leaves the database out.                          *)
SignatureOfCites(a) == IF Ready(a) THEN <<ToolCites(a), NoBib>> ELSE NoSig

Signature(a) ==
    IF Ready(a) /\ (UsesBiber(a) \/ AuxComplete(a)) THEN <<ToolCites(a), bib>> ELSE NoSig

(* adopt_source_bibliography: the project's .bbl is not older than the     *)
(* database and covers the citations.                                      *)
Adopts(a) == ~UsesBiber(a) /\ Signature(a) # NoSig /\ srcNew /\ srcBbl.cites = AuxCites(a)

(* The .bbl is the one that the manifest says a tool wrote.                *)
Matches(m, b) == b.by # "none" /\ m.out = b

-----------------------------------------------------------------------------
(* Before the first pass *)

(* A new build: mark is what the manifest on disk says from now on, prior  *)
(* whether the last pass before this build is taken for unfinished.        *)
Begin(mark, prior) ==
    /\ pc = "idle"
    /\ pc' = "refresh"
    /\ disk' = [disk EXCEPT !.unfinished = mark]
    /\ run' = [Fresh EXCEPT !.prior = prior, !.complete = AuxComplete(aux),
                            !.man = [disk EXCEPT !.unfinished = TRUE]]
    /\ report' = "none"
    /\ moved' = FALSE
    /\ UNCHANGED <<files, left, aux, bcf, bbl, ind, staged, record, visible>>

(* Mutants: the mark is not saved; the old mark is not looked at.          *)
StartUnmarked == Begin(disk.unfinished, disk.unfinished)
StartTrusting == Begin(TRUE, FALSE)

(* build reads the manifest and marks the auxiliary files as unfinished    *)
(* before anything else can write them.                                    *)
Start == Begin(TRUE, disk.unfinished)

(* The pass loop is entered with an .aux, if need be the trivial one.      *)
EnterLoop(r) ==
    /\ aux' = IF aux.state = "none" THEN TrivialAux ELSE aux
    /\ Goto("pass", [r EXCEPT !.trivial = aux.state = "none"])

(* The initial refresh of the .bbl from the previous build's .aux, unless  *)
(* the pass that wrote it did not finish.                                  *)
Refresh ==
    LET present == IF bbl = NoBbl /\ srcBbl # NoBbl THEN srcBbl ELSE bbl
        sig == Signature(aux)
        man == IF Adopts(aux)
               THEN [run.man EXCEPT !.sig = sig, !.out = srcBbl]
               ELSE run.man
        now == IF Adopts(aux) THEN srcBbl ELSE present
        known == [run EXCEPT !.man = man, !.cites = AuxCites(aux),
                             !.done = Adopts(aux), !.sig = sig]
    IN  /\ pc = "refresh"
        /\ \/ /\ run.prior \/ sig = NoSig
              /\ bbl' = present
              /\ EnterLoop([run EXCEPT !.man = NoTool(run.man)])
           \/ /\ ~run.prior /\ sig # NoSig
              /\ Matches(man, now) /\ man.sig = sig
              /\ bbl' = now
              /\ EnterLoop(known)
           \/ /\ ~run.prior /\ sig # NoSig
              /\ ~(Matches(man, now) /\ man.sig = sig)
              /\ bbl' = NoBbl
              /\ Goto("refreshTool", known)
              /\ UNCHANGED aux
        /\ UNCHANGED <<sources, bcf, ind, staged, record, visible>>

(* run_bibtex or run_biber on aux, with the .bbl just removed: it succeeds *)
(* on a readable database; otherwise the project's .bbl stands in, or the  *)
(* build fails.                                                            *)
ToolSucceeds == bib \in Bibs

Produced == [run EXCEPT !.done = TRUE, !.man.sig = run.sig,
                        !.man.out = ToolBbl(ToolCites(aux), bib)]

RefreshTool ==
    /\ pc = "refreshTool"
    /\ \/ /\ ToolSucceeds
          /\ bbl' = ToolBbl(ToolCites(aux), bib)
          /\ EnterLoop(Produced)
       \/ /\ ~ToolSucceeds /\ srcBbl # NoBbl
          /\ bbl' = srcBbl
          /\ EnterLoop([run EXCEPT !.done = TRUE])
       \/ /\ ~ToolSucceeds /\ srcBbl = NoBbl
          /\ Return("failed", NoTool(run.man))
          /\ UNCHANGED <<aux, bbl>>
    /\ UNCHANGED <<sources, bcf, ind, staged, record, visible>>

-----------------------------------------------------------------------------
(* A pass *)

(* The persisted manifest is marked again, unless it still is, and the     *)
(* state of the auxiliary directory is recorded.                           *)
Pass(number) ==
    LET man == [run.man EXCEPT !.unfinished = TRUE]
    IN  /\ pc' = "engine"
        /\ run' = [run EXCEPT !.passes = number, !.man = man,
                              !.before = <<aux, bcf, bbl, ind>>]
        /\ disk' = IF run.man.unfinished THEN disk ELSE man
        /\ UNCHANGED <<sources, aux, bcf, bbl, ind, staged, record, visible, report>>

(* Mutants: one pass too many; the pass is not counted.                    *)
OneMorePass == pc = "pass" /\ run.passes <= MaxPasses /\ Pass(run.passes + 1)
UncountedPass == pc = "pass" /\ run.passes < MaxPasses /\ Pass(run.passes)

BeginPass == pc = "pass" /\ run.passes < MaxPasses /\ Pass(run.passes + 1)

(* Mutant: what the last pass made is published although it changed files. *)
PublishUnconverged ==
    /\ pc = "pass"
    /\ run.passes = MaxPasses
    /\ Goto("publish", run)
    /\ UNCHANGED <<sources, aux, bcf, bbl, ind, staged, record, visible>>

NotConverged ==
    /\ pc = "pass"
    /\ run.passes = MaxPasses
    /\ Return("failed", run.man)
    /\ UNCHANGED <<sources, aux, bcf, bbl, ind, staged, record, visible>>

(* check_depcache: the record's inputs and outputs are those on disk.      *)
Hit ==
    /\ record # NoRecord
    /\ staged = record.pdf
    /\ record.aux = aux
    /\ record.in = Reads(doc, aux, bbl, ind)

(* The engine returns at once.  With a complete .aux graph the build has   *)
(* converged.                                                              *)
CacheHit ==
    LET finished == [run EXCEPT !.man.unfinished = FALSE, !.wrote = TRUE, !.failed = FALSE]
    IN  /\ pc = "engine"
        /\ Hit
        /\ IF run.complete
           THEN Goto("publish", [finished EXCEPT !.hit = TRUE])
           ELSE Goto("index", finished)
        /\ UNCHANGED <<sources, aux, bcf, bbl, ind, staged, record, visible>>

(* The engine reads its inputs and starts to rewrite the auxiliary files.  *)
EngineStart ==
    /\ pc = "engine"
    /\ ~Hit
    /\ aux' = CutAux(doc)
    /\ bcf' = BrokenBcf(doc)
    /\ Goto("running", [run EXCEPT !.reads = Reads(doc, aux, bbl, ind)])
    /\ UNCHANGED <<sources, bbl, ind, staged, record, visible>>

(* run_tool cannot start the engine: build returns at once.                *)
EngineMissing ==
    /\ pc = "engine"
    /\ "engine" \in Faults
    /\ Event
    /\ Abandon("failed")
    /\ UNCHANGED <<files, moved, aux, bcf, bbl, ind, staged, record, visible>>

(* Mutant: write_depcache does not compare what the engine read with what  *)
(* is on disk when it writes the record.                                   *)
RecordsUnchecked(errors) ==
    LET start == run.before[1]
        new == NewAux(run.reads.doc, start, bbl, ind)
        pdf == Typeset(run.reads.doc, start, bbl, ind)
    IN  /\ aux' = new
        /\ bcf' = NewBcf(run.reads.doc)
        /\ staged' = pdf
        /\ record' = IF ~errors /\ new = start
                     THEN [in |-> Reads(doc, start, bbl, ind), aux |-> new, pdf |-> pdf]
                     ELSE record

(* The files that the engine leaves when it runs to the end; errors says   *)
(* whether TeX reported any.  The PDF is replaced atomically, if there is  *)
(* one.  write_depcache records a pass without errors whose auxiliary      *)
(* files did not change, if what it read is unchanged.                     *)
EngineWrites(errors) ==
    LET start == run.before[1]
        d == run.reads.doc
        new == NewAux(d, start, bbl, ind)
        pdf == Typeset(d, start, bbl, ind)
    IN  /\ aux' = new
        /\ bcf' = NewBcf(d)
        /\ staged' = IF d \in EmptyDocs THEN staged ELSE pdf
        /\ record' = IF ~errors /\ d \notin EmptyDocs /\ new = start /\ run.reads = Reads(doc, start, bbl, ind)
                     THEN [in |-> run.reads, aux |-> new, pdf |-> pdf]
                     ELSE record

WrotePdf == run.reads.doc \notin EmptyDocs

PassFinished(errors) ==
    Goto("index", [run EXCEPT !.man.unfinished = FALSE, !.failed = errors,
                              !.wrote = @ \/ WrotePdf])

EngineFinish ==
    /\ pc = "running"
    /\ EngineWrites(FALSE)
    /\ PassFinished(FALSE)
    /\ UNCHANGED <<sources, bbl, ind, visible>>

(* TeX errors, and a PDF nevertheless: accepted with -f only.              *)
EngineErrors ==
    /\ pc = "running"
    /\ "errors" \in Faults
    /\ Event
    /\ EngineWrites(TRUE)
    /\ IF ForceMode /\ WrotePdf
       THEN PassFinished(TRUE)
       ELSE Return("failed", run.man)
    /\ UNCHANGED <<files, moved, bbl, ind, visible>>

(* An emergency stop or the error limit: no PDF, auxiliary files cut short.*)
EngineStops ==
    /\ pc = "running"
    /\ "errors" \in Faults
    /\ Event
    /\ Return("failed", run.man)
    /\ UNCHANGED <<files, moved, aux, bcf, bbl, ind, staged, record, visible>>

-----------------------------------------------------------------------------
(* After a pass *)

(* run_index_tools: makeindex runs unless the .ind exists and the manifest *)
(* has the signature of this .idx.                                         *)
(* Mutant: any .ind will do.                                               *)
AnyIndex == ind # NoInd

IndexIsCurrent == ind # NoInd /\ run.man.idx = aux

IndexTools ==
    LET announced == aux.state = "full" /\ aux.doc \in IndexDocs
    IN  /\ pc = "index"
        /\ \/ /\ announced => IndexIsCurrent
              /\ Goto("decide", run)
              /\ UNCHANGED ind
           \/ /\ announced /\ ~IndexIsCurrent
              /\ ind' = NoInd
              /\ Goto("makeindex", run)
        /\ UNCHANGED <<sources, aux, bcf, bbl, staged, record, visible>>

Makeindex ==
    /\ pc = "makeindex"
    /\ \/ /\ ind' = ToolInd(aux)
          /\ Goto("decide", [run EXCEPT !.man.idx = aux])
          /\ UNCHANGED left
       \/ /\ "index" \in Faults
          /\ Event
          /\ ind' \in {NoInd, PartInd}
          /\ Return("failed", [run.man EXCEPT !.idx = NoAux])
    /\ UNCHANGED <<files, moved, aux, bcf, bbl, staged, record, visible>>

(* The loop ends when the pass changed nothing, or when a first pass that  *)
(* did not start from the trivial .aux wrote inert .aux files only.        *)
Settle(r, stable) == Goto(IF stable THEN "publish" ELSE "pass", r)

(* The part of the loop from read_aux_graph to need_bibtex: adopt the      *)
(* project's .bbl, compare snapshots, and decide whether the bibliography  *)
(* tool must run.  Its log names a missing .bbl if the pass found none.    *)
Decide ==
    LET cites == AuxCites(aux)
        ready == Ready(aux)
        sig == Signature(aux)
        man == IF Adopts(aux)
               THEN [run.man EXCEPT !.sig = sig, !.out = srcBbl]
               ELSE run.man
        now == IF Adopts(aux) THEN srcBbl ELSE bbl
        done == run.done \/ Adopts(aux)
        read == run.before[3]
        cited == IF aux.state = "full" THEN Cites[aux.doc] ELSE NoCites
        need == ready /\ \/ cited # NoCites /\ read = NoBbl
                         \/ now = NoBbl
                         \/ run.cites \notin {UnknownCites, cites}
                         \/ UsesBiber(aux) /\ read.cites # cited /\ cited # NoCites /\ ~done
                         \/ man.sig # sig
                         \/ ~Matches(man, now)
                         \/ ~AuxComplete(aux) /\ ~done
        changed == run.before # <<aux, bcf, now, ind>>
        trivially == /\ run.passes = 1 /\ ~run.trivial /\ ~need
                     /\ AuxInert(aux) /\ bcf = NoBcf /\ now = NoBbl /\ ind = NoInd
        next == [run EXCEPT !.man = IF ready THEN man ELSE NoTool(man),
                            !.cites = cites, !.done = done, !.sig = sig,
                            !.changed = changed]
    IN  /\ pc = "decide"
        /\ \/ /\ need
              /\ bbl' = NoBbl
              /\ Goto("tool", next)
           \/ /\ ~need
              /\ bbl' = now
              /\ Settle(next, ~changed \/ trivially)
        /\ UNCHANGED <<sources, aux, bcf, ind, staged, record, visible>>

(* Mutant: no further pass after a successful run.                         *)
ToolThenSettle ==
    /\ pc = "tool"
    /\ bbl' = ToolBbl(ToolCites(aux), bib)
    /\ Settle(Produced, ~run.changed)
    /\ UNCHANGED <<sources, aux, bcf, ind, staged, record, visible>>

(* The bibliography tool after a pass: another pass follows a success; a   *)
(* failure with a project .bbl goes on with the test for stability.        *)
Tool ==
    /\ pc = "tool"
    /\ \/ /\ ToolSucceeds
          /\ bbl' = ToolBbl(ToolCites(aux), bib)
          /\ Goto("pass", Produced)
       \/ /\ ~ToolSucceeds /\ srcBbl # NoBbl
          /\ bbl' = srcBbl
          /\ Settle([run EXCEPT !.done = TRUE], ~run.changed)
       \/ /\ ~ToolSucceeds /\ srcBbl = NoBbl
          /\ Return("failed", NoTool(run.man))
          /\ UNCHANGED bbl
    /\ UNCHANGED <<sources, aux, bcf, ind, staged, record, visible>>

-----------------------------------------------------------------------------
(* Publication *)

(* Mutant: such an output is left alone after any build.                   *)
AlwaysTrusted(shown, hash) == ~(hash # NoPdf /\ (shown = staged \/ shown = hash))

(* After a cache hit an output that still is what the manifest says is     *)
(* left alone; it also is when it is the staged file itself.               *)
Unpublished(shown, hash) ==
    ~(run.hit /\ hash # NoPdf /\ (shown = staged \/ shown = hash))

PublishFails(place) ==
    /\ pc = place
    /\ run.wrote
    /\ "publish" \in Faults
    /\ Event
    /\ Abandon("failed")
    /\ UNCHANGED <<files, moved, aux, bcf, bbl, ind, staged, record, visible>>

(* No pass of this build wrote a PDF.                                      *)
NoOutput ==
    /\ pc = "publish"
    /\ ~run.wrote
    /\ Return("failed", run.man)
    /\ UNCHANGED <<sources, aux, bcf, bbl, ind, staged, record, visible>>

(* Mutant: the PDF is published first, and then again.                     *)
PdfFirst ==
    /\ pc = "publish"
    /\ run.wrote
    /\ visible' = [visible EXCEPT !.pdf = staged]
    /\ Goto("publishPdf", run)
    /\ UNCHANGED <<sources, aux, bcf, bbl, ind, staged, record>>

PublishSynctex ==
    /\ pc = "publish"
    /\ run.wrote
    /\ LET publish == Unpublished(visible.sync, run.man.sync)
       IN  /\ visible' = IF publish THEN [visible EXCEPT !.sync = staged] ELSE visible
           /\ Goto("publishPdf", IF publish THEN [run EXCEPT !.man.sync = staged] ELSE run)
    /\ UNCHANGED <<sources, aux, bcf, bbl, ind, staged, record>>

PublishPdf ==
    /\ pc = "publishPdf"
    /\ LET publish == Unpublished(visible.pdf, run.man.pdf)
       IN  /\ visible' = IF publish THEN [visible EXCEPT !.pdf = staged] ELSE visible
           /\ Goto("save", IF publish THEN [run EXCEPT !.man.pdf = staged] ELSE run)
    /\ UNCHANGED <<sources, aux, bcf, bbl, ind, staged, record>>

Save ==
    /\ pc = "save"
    /\ Return(IF run.failed THEN "errors" ELSE "ok", run.man)
    /\ UNCHANGED <<sources, aux, bcf, bbl, ind, staged, record, visible>>

-----------------------------------------------------------------------------
(* The environment *)

(* The process is killed.  A running tool dies with it or still ends its   *)
(* work; one that dies leaves its output missing or cut short.             *)
Kill ==
    /\ "kill" \in Faults
    /\ Event
    /\ pc # "idle"
    /\ Abandon("killed")
    /\ \/ UNCHANGED <<aux, bcf, bbl, ind, staged, record>>
       \/ /\ pc = "running"
          /\ EngineWrites(FALSE)
          /\ UNCHANGED <<bbl, ind>>
       \/ /\ pc \in {"refreshTool", "tool"}
          /\ bbl' \in {PartBbl} \cup {ToolBbl(ToolCites(aux), b) : b \in Bibs \cap {bib}}
          /\ UNCHANGED <<aux, bcf, ind, staged, record>>
       \/ /\ pc = "makeindex"
          /\ ind' = PartInd
          /\ UNCHANGED <<aux, bcf, bbl, staged, record>>
    /\ UNCHANGED <<files, moved, visible>>

(* The user edits, undoes, adds or removes a source, or puts a new .bbl in *)
(* the project; one older than the database is not current.                *)
May(file) == pc = "idle" \/ file \in MidBuild

Edit ==
    /\ Event
    /\ moved' = TRUE
    /\ UNCHANGED <<aux, bcf, bbl, ind, staged, record, disk, visible, pc, run, report>>

EditDoc ==
    /\ May("doc")
    /\ doc' \in Docs \ {doc}
    /\ UNCHANGED <<bib, srcBbl, srcNew>>
    /\ Edit

EditBib ==
    /\ May("bib")
    /\ bib' \in (Bibs \cup NoBibs) \ {bib}
    /\ srcNew' = FALSE
    /\ UNCHANGED <<doc, srcBbl>>
    /\ Edit

PutBbl ==
    /\ ProjectBbl
    /\ pc = "idle"
    /\ Cites[doc] # NoCites
    /\ srcBbl' = ProjectBblFor(Cites[doc], bib)
    /\ srcNew' = TRUE
    /\ UNCHANGED <<doc, bib>>
    /\ Edit

(* The key of a record holds the minute, unless the date is forced: when   *)
(* it passes, the record is no longer found.                               *)
MinutePasses ==
    /\ pc # "running"
    /\ record # NoRecord
    /\ record' = NoRecord
    /\ Event
    /\ UNCHANGED <<files, moved, aux, bcf, bbl, ind, staged, disk, visible, pc, run, report>>

Driver ==
    \/ Refresh \/ RefreshTool
    \/ BeginPass \/ NotConverged
    \/ CacheHit \/ EngineStart \/ EngineMissing
    \/ EngineFinish \/ EngineErrors \/ EngineStops
    \/ IndexTools \/ Makeindex \/ Decide \/ Tool
    \/ NoOutput \/ PublishSynctex \/ PublishPdf \/ Save
    \/ PublishFails("publish") \/ PublishFails("publishPdf")

Next == Start \/ Driver \/ Kill \/ EditDoc \/ EditBib \/ PutBbl \/ MinutePasses

Spec == Init /\ [][Next]_vars

(* A build that runs goes on: build never waits for anything but its       *)
(* tools, and those end.                                                   *)
FairSpec == Spec /\ WF_vars(Driver)

-----------------------------------------------------------------------------
(* Properties *)

(* Every file has contents of its kind, the passes are counted up to       *)
(* MAX_PASSES, and nothing is left of a build that has ended.              *)
TypeOK ==
    /\ doc \in Docs
    /\ bib \in Bibs \cup NoBibs
    /\ srcBbl.by \in {"none", "source"}
    /\ srcNew => srcBbl # NoBbl
    /\ moved \in BOOLEAN
    /\ left \in 0..MaxEvents
    /\ aux.state \in {"none", "trivial", "cut", "full"}
    /\ aux.state \in {"none", "trivial"} <=> aux.doc = NoDoc
    /\ bcf.state \in {"none", "cut", "full"}
    /\ bcf.state = "full" <=> bcf.cites # NoCites
    /\ bbl.by \in {"none", "part", "source", "tool"}
    /\ bbl.by \in {"source", "tool"} <=> bbl.cites # NoCites
    /\ ind.by \in {"none", "part", "tool"}
    /\ ind.by = "tool" <=> ind.of # NoAux
    /\ report \in {"none", "ok", "errors", "failed", "killed"}
    /\ pc = "idle" <=> run = Fresh
    /\ run.passes \in 0..MaxPasses

(* An .aux, .bcf or .idx that a pass may have cut short is marked in the   *)
(* manifest on disk, so that no later build takes it for finished          *)
(* (build's unfinished_pass).                                              *)
TruncationMarked == aux.state = "cut" => disk.unfinished

(* BibTeX, Biber and makeindex never read a file that was cut short.       *)
ToolsReadFinishedFiles ==
    /\ pc \in {"refreshTool", "tool", "makeindex", "decide"} => aux.state # "cut"
    /\ pc \in {"refreshTool", "tool"} /\ UsesBiber(aux) => bcf.state = "full"

(* After a result-cache hit the staged PDF is what a pass over the files   *)
(* would produce, and a pass would not change the auxiliary files          *)
(* (check_depcache, write_depcache).                                       *)
HitIsFresh ==
    pc = "engine" /\ Hit =>
        /\ staged = Typeset(doc, aux, bbl, ind)
        /\ aux = NewAux(doc, aux, bbl, ind)

(* When the loop ends as converged, another pass would produce the staged  *)
(* PDF and the same auxiliary files again (is_stable in build).            *)
ConvergedIsStable ==
    pc = "publish" /\ run.wrote /\ ~moved =>
        /\ staged = Typeset(doc, aux, bbl, ind)
        /\ aux = NewAux(doc, aux, bbl, ind)

Ended == report = "ok" /\ ~moved

(* A build that reports OK has published the PDF that a pass over the      *)
(* sources and the auxiliary files would produce again.                    *)
OkIsCurrent ==
    Ended => visible.pdf = Typeset(doc, aux, bbl, ind)

(* ... with a bibliography for its citations from the current database or  *)
(* from the project's own .bbl, if there is a database to make one from.   *)
OkCites ==
    Ended /\ Cites[doc] # NoCites /\ bib # "absent" =>
        \/ bbl.by \in {"tool", "source"} /\ bbl.cites = Cites[doc] /\ bbl.bib = bib
        \/ bib = "bad" /\ bbl = srcBbl /\ srcBbl # NoBbl

(* ... and with the index of the pages it has.                             *)
OkIndexes ==
    Ended /\ doc \in IndexDocs => ind = ToolInd(aux)

(* A reader that reloads when the PDF changes finds SyncTeX data of the    *)
(* same pass (publication order in build).                                 *)
SynctexFirst == [][visible'.pdf # visible.pdf => visible'.sync = visible'.pdf]_vars

(* Every build ends (MAX_PASSES).                                          *)
BuildsEnd == pc # "idle" ~> pc = "idle"

(* The PDF that belongs to the document d with the .bbl b: its auxiliary   *)
(* files are those of the pass that reads them, and its index is theirs.   *)
FinishedAux(d, b) ==
    IF d \in OnePageDocs THEN TrivialAux
    ELSE [state |-> "full", doc |-> d, bbl |-> IF Cites[d] = NoCites THEN NoBbl ELSE b,
          ind |-> d \in IndexDocs, flip |-> FALSE]

FinishedPdf(d, b) == Typeset(d, FinishedAux(d, b), b, ToolInd(FinishedAux(d, b)))

(* The .bbl is made from the database by its tool, or is the project's     *)
(* own.  Nothing belongs to a document that never settles or has no pages. *)
FinishedFor(d, b) ==
    IF d \in UnstableDocs \cup EmptyDocs THEN {}
    ELSE {FinishedPdf(d, ToolBbl(Cites[d], b))} \cup
         (IF ProjectBbl THEN {FinishedPdf(d, ProjectBblFor(Cites[d], b))} ELSE {})

Stage ==
    CASE pc = "idle" -> "idle" [] pc = "publishPdf" -> "half" [] pc = "save" -> "shown"
      [] OTHER -> "working"

Job == INSTANCE JobBuild WITH
    Sources <- Docs \X (Bibs \cup NoBibs),
    Finished <- [s \in Docs \X (Bibs \cup NoBibs) |-> FinishedFor(s[1], s[2])],
    source <- <<doc, bib>>, pdf <- visible.pdf, sync <- visible.sync, stage <- Stage

(* A build shows what belongs to its sources, whatever builds and edits    *)
(* came before, and fails only if nothing does (build, if nothing goes     *)
(* wrong and the sources are edited between builds only).                  *)
ImplementsJobBuild == Job!BuildSpec
=============================================================================
