------------------------------ MODULE JobBuild ------------------------------
(***************************************************************************)
(* What texmk promises about a job, with no passes, tools, manifest or     *)
(* cache in it.  The user edits the sources between builds.  A build puts  *)
(* out what belongs to the sources, the SyncTeX data before the PDF, and   *)
(* reports OK only then; it fails only if nothing can belong to them, and  *)
(* then leaves alone what is there.  Earlier builds have no influence: an  *)
(* incremental build shows what a build from nothing would.                *)
(*                                                                         *)
(* BuildDriver is shown to implement this specification.                   *)
(***************************************************************************)
CONSTANTS
    Sources,        \* the states of the sources
    Finished,       \* Finished[s]: the PDFs that may be shown for s
    NoPdf           \* no PDF yet

VARIABLES
    source,         \* the sources
    pdf, sync,      \* the visible PDF, and the one that the SyncTeX data are of
    stage,          \* how far the build is
    report          \* what the last build that ended reported

buildVars == <<source, pdf, sync, stage, report>>

BuildInit ==
    /\ source \in Sources
    /\ pdf = NoPdf
    /\ sync = NoPdf
    /\ stage = "idle"
    /\ report = "none"

EditSources ==
    /\ stage = "idle"
    /\ source' \in Sources
    /\ UNCHANGED <<pdf, sync, stage, report>>

Begin ==
    /\ stage = "idle"
    /\ stage' = "working"
    /\ report' = "none"
    /\ UNCHANGED <<source, pdf, sync>>

ShowSync ==
    /\ stage = "working"
    /\ sync' \in Finished[source]
    /\ stage' = "half"
    /\ UNCHANGED <<source, pdf, report>>

ShowPdf ==
    /\ stage = "half"
    /\ pdf' = sync
    /\ stage' = "shown"
    /\ UNCHANGED <<source, sync, report>>

Succeed ==
    /\ stage = "shown"
    /\ stage' = "idle"
    /\ report' = "ok"
    /\ UNCHANGED <<source, pdf, sync>>

Fail ==
    /\ stage = "working"
    /\ Finished[source] = {}
    /\ stage' = "idle"
    /\ report' = "failed"
    /\ UNCHANGED <<source, pdf, sync>>

BuildNext == EditSources \/ Begin \/ ShowSync \/ ShowPdf \/ Succeed \/ Fail

BuildSpec == BuildInit /\ [][BuildNext]_buildVars
=============================================================================
