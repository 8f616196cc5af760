----------------------------- MODULE Ownership -----------------------------
(***************************************************************************)
(* What texmk owns and may therefore remove.  A build records in the job's *)
(* manifest, path by path, the hash of each file that it, the engine or a  *)
(* tool wrote: the auxiliary files, the copies exported beside the PDF,    *)
(* and the outputs themselves.  A later build or clean removes a recorded  *)
(* file only when it still has the recorded hash.  The user owns the same  *)
(* directories: he may have put a file at any of these paths before the    *)
(* first build, and creates, replaces and removes files afterwards.        *)
(*                                                                         *)
(* A file's content stands for its hash (two contents never collide), and  *)
(* says who wrote it.  JobCache models the lock under which all this runs. *)
(***************************************************************************)
EXTENDS Naturals

CONSTANTS
    Names,        \* the auxiliary files, the transcript and the .aux included
    Layouts,      \* where the auxiliary files live, see below
    HardLinks,    \* those whose output directory takes links to the cache's files
    Faults,       \* "kill", "save", "publish", "evict"
    MidBuild,     \* what the user does while a build runs: "create", "replace"
    MaxCommands,  \* bound on the builds and cleans
    MaxEvents     \* bound on the user's edits and the faults together

ASSUME NamesAssumption ==
    {"log", "aux"} \subseteq Names /\ Names \cap {"pdf", "synctex"} = {}
ASSUME LayoutsAssumption == Layouts \subseteq {"managed", "shared", "same"}
ASSUME BoundsAssumption == MaxCommands \in Nat /\ MaxEvents \in Nat

(* The private directory of the job's cache, an explicit directory, or an  *)
(* explicit directory that is the output directory too.                    *)
AllLayouts == {"managed", "shared", "same"}

Outputs == {"pdf", "synctex"}

(* Contents: by the user; by another TeX's engine, which is a transcript   *)
(* of the user's; and by the n-th command, number 0 being TRIVIAL_AUX.     *)
Nothing == <<"none", 0>>
Users == <<"user", 0>>
Foreign == <<"tex", 0>>
Made(n) == <<"made", n>>
Contents == {Nothing, Users, Foreign} \cup {Made(n) : n \in 0..MaxCommands}
IsMade(c) == c[1] = "made"
IsUsers(c) == c \in {Users, Foreign}

VARIABLES
    layout,    \* one of Layouts, fixed: another layout has another manifest
    aux,       \* Names -> content, the auxiliary directory
    out,       \* Names \cup Outputs -> content, the output directory
    saved,     \* the manifest on disk, as a set of at most one
    staged,    \* Outputs -> content, the engine's output in the job's directory
    linked,    \* the outputs that are hard links to the staged ones
    pc,        \* where the command is, "idle" when none runs
    opt,       \* its options
    manifest,  \* the copy of the manifest in its memory
    trusted,   \* trusted_owned: names whose recorded hash held at the start
    recorded,  \* recorded_outputs: names the engine or a tool reported
    made,      \* staged_*_written_this_run, and "hit" for child_cache_hit
    commands, edits, faults,
    origin,    \* history: whose the place of an output is: the user's, if he has had a
               \* file there since the job's manifest was made; what a clean leaves
               \* there is the user's from then on
    forgotten  \* history: a command ended without a record of what it wrote

files == <<aux, out, linked>>
build == <<opt, manifest, trusted, recorded, made>>
history == <<edits, faults, origin, forgotten>>
vars == <<layout, aux, out, linked, saved, staged, pc, opt, manifest, trusted, recorded,
          made, commands, edits, faults, origin, forgotten>>

Blank(S) == [x \in S |-> Nothing]

Manifests == [aux_files : [Names -> Contents], exports : [Names -> Contents],
              owned : [Outputs -> BOOLEAN], hash : [Outputs -> Contents]]

(* In the memory of no command.                                            *)
NoManifest ==
    [aux_files |-> Blank(Names), exports |-> Blank(Names),
     owned |-> [o \in Outputs |-> FALSE], hash |-> Blank(Outputs)]

(* The manifest of a job seen for the first time: an output is texmk's if  *)
(* there is none yet.                                                      *)
FreshManifest ==
    [aux_files |-> Blank(Names), exports |-> Blank(Names),
     owned |-> [o \in Outputs |-> out[o] = Nothing], hash |-> Blank(Outputs)]

(* -c, -C, or a build that keeps nothing, the transcript, or everything.   *)
Options == {"c", "C", "nothing", "logs", "all"}

(* The directories are empty; files that the user has there before the     *)
(* first build are his first edits.                                        *)
Init ==
    /\ layout \in Layouts
    /\ aux = Blank(Names)
    /\ out = Blank(Names \cup Outputs)
    /\ saved = {}
    /\ staged = Blank(Outputs)
    /\ linked = {}
    /\ pc = "idle"
    /\ opt = "nothing"
    /\ manifest = NoManifest
    /\ trusted = {} /\ recorded = {} /\ made = {}
    /\ commands = 0 /\ edits = 0 /\ faults = 0
    /\ origin = [o \in Outputs |-> "nobody"]
    /\ forgotten = FALSE
-----------------------------------------------------------------------------
(***************************************************************************)
(* A command starts: it reads the manifest under the job's lock.           *)
(***************************************************************************)
Fault(f) ==
    /\ f \in Faults
    /\ edits + faults < MaxEvents
    /\ faults' = faults + 1

Ended ==
    /\ pc' = "idle"
    /\ opt' = "nothing"
    /\ manifest' = NoManifest
    /\ trusted' = {} /\ recorded' = {} /\ made' = {}

Start(options) ==
    /\ pc = "idle"
    /\ commands < MaxCommands
    /\ commands' = commands + 1
    /\ opt' = options
    /\ manifest' \in (IF saved = {} THEN {FreshManifest} ELSE saved)
    /\ pc' = IF options \in {"c", "C"} THEN "clean" ELSE "prepare"
    /\ UNCHANGED <<layout, files, saved, staged, trusted, recorded, made, history>>

(* owned_file_matches: the file is there with the recorded hash.           *)
Matches(content, hash) == hash # Nothing /\ content = hash

Without(dir, S) == [x \in DOMAIN dir |-> IF x \in S THEN Nothing ELSE dir[x]]

(***************************************************************************)
(* -c and -C: remove what is recorded and unchanged, then the directory of *)
(* the job with its manifest.                                              *)
(***************************************************************************)
OwnedExports == {n \in Names : Matches(out[n], manifest.exports[n])}
OwnedAux == {n \in Names : Matches(aux[n], manifest.aux_files[n])}
OwnedOutputs ==
    {o \in Outputs : manifest.owned[o] /\ Matches(out[o], manifest.hash[o])}

clean_owned_artifacts ==
    /\ pc = "clean"
    /\ LET outputs == IF opt = "C" THEN OwnedOutputs ELSE {} IN
        /\ out' = Without(out, OwnedExports \cup outputs)
        /\ linked' = linked \ outputs
        /\ origin' = [o \in Outputs |-> IF o \in outputs \/ out[o] = Nothing THEN "nobody"
                                        ELSE "user"]
    /\ aux' = Without(aux, OwnedAux)
    /\ pc' = "cleaned"
    /\ UNCHANGED <<layout, saved, staged, build, commands, edits, faults, forgotten>>

(* The directory of the job goes, a managed auxiliary directory with it.   *)
JobDirGone ==
    /\ saved' = {}
    /\ staged' = Blank(Outputs)
    /\ linked' = {}
    /\ aux' = IF layout = "managed" THEN Blank(Names) ELSE aux

RemoveJobDir ==
    /\ pc = "cleaned"
    /\ JobDirGone
    /\ Ended
    /\ UNCHANGED <<layout, out, commands, history>>
-----------------------------------------------------------------------------
(***************************************************************************)
(* A build first drops from its records what is no longer as recorded, and *)
(* removes the exports that this build was not asked to keep.              *)
(***************************************************************************)
Kept(n) == opt = "all" \/ (opt = "logs" /\ n = "log")

Only(hashes, S) == [n \in Names |-> IF n \in S THEN hashes[n] ELSE Nothing]

(* Mutant: the exports of earlier builds are forgotten.                    *)
ExportsForgotten == {}
KeptExports == {n \in OwnedExports : Kept(n)}

prepare_owned_exports ==
    /\ pc = "prepare"
    /\ trusted' = OwnedAux
    /\ out' = Without(out, {n \in OwnedExports : ~Kept(n)})
    /\ manifest' = [manifest EXCEPT
            !.aux_files = Only(@, OwnedAux),
            !.exports = Only(@, KeptExports)]
    /\ pc' = "save"
    /\ UNCHANGED <<layout, aux, linked, saved, staged, opt, recorded, made, commands,
                   history>>

(* The manifest is saved before the first pass, and an .aux that is not    *)
(* there is started from TRIVIAL_AUX; nothing runs when it cannot be saved.*)
SavePrepared ==
    /\ pc = "save"
    /\ saved' = {manifest}
    /\ aux' = IF aux["aux"] = Nothing THEN [aux EXCEPT !["aux"] = Made(0)] ELSE aux
    /\ pc' = "pass"
    /\ UNCHANGED <<layout, out, linked, staged, build, commands, history>>

SaveFails ==
    /\ pc = "save"
    /\ Fault("save")
    /\ Ended
    /\ UNCHANGED <<layout, files, saved, staged, commands, edits, origin, forgotten>>
-----------------------------------------------------------------------------
(***************************************************************************)
(* The passes.  The engine overwrites what stands at its paths, and its    *)
(* -recorder file names what it wrote; a tool's output is recorded too.  A *)
(* pass that fails has written the transcript, the .aux as well, or it has *)
(* died before it wrote anything.                                          *)
(***************************************************************************)
Written(S) == [n \in Names |-> IF n \in S THEN Made(commands) ELSE aux[n]]

(* Mutant: the PDF is written in place.                                    *)
UnlinkedButPdf(S) == linked \ (S \ {"pdf"})
(* A staged output is replaced, never written in place.                    *)
Unlinked(S) == linked \ S

(* Whether there is SyncTeX output is for the options and the document.    *)
EnginePass ==
    /\ pc = "pass"
    /\ aux' = Written({"log", "aux"})
    /\ recorded' = recorded \cup {"log", "aux"}
    /\ \E S \in {{"pdf"}, Outputs} :
        /\ staged' = [o \in Outputs |-> IF o \in S THEN Made(commands) ELSE staged[o]]
        /\ linked' = Unlinked(S)
        /\ made' = made \cup S
    /\ pc' \in {"pass", "publish_synctex"}
    /\ UNCHANGED <<layout, out, saved, opt, manifest, trusted, commands, history>>

EngineFails ==
    /\ pc = "pass"
    /\ \E S \in {{}, {"log"}, {"log", "aux"}} :
        /\ aux' = Written(S)
        /\ recorded' = recorded \cup S
    /\ pc' = "retain"
    /\ UNCHANGED <<layout, out, linked, saved, staged, opt, manifest, trusted, made,
                   commands, history>>

(* A valid record of this very build in the engine's cache, which has the  *)
(* hashes of the staged outputs: nothing is written, and they are taken as *)
(* this run's.                                                             *)
CacheHit ==
    /\ pc = "pass"
    /\ IsMade(staged["pdf"]) /\ ~IsUsers(staged["synctex"])
    /\ made' = {o \in Outputs : staged[o] # Nothing} \cup {"hit"}
    /\ pc' = "publish_synctex"
    /\ UNCHANGED <<layout, files, saved, staged, opt, manifest, trusted, recorded,
                   commands, history>>

(* BibTeX, Biber or makeindex: its output is removed, then written by the  *)
(* tool, and recorded; when the tool fails the build does.                 *)
ToolRuns(n) ==
    /\ pc = "pass"
    /\ n \notin {"log", "aux"}
    /\ aux' = Written({n})
    /\ recorded' = recorded \cup {n}
    /\ UNCHANGED <<layout, out, linked, saved, staged, pc, opt, manifest, trusted, made,
                   commands, history>>

ToolFails(n) ==
    /\ pc = "pass"
    /\ n \notin {"log", "aux"}
    /\ aux' = [aux EXCEPT ![n] = Nothing]
    /\ pc' = "retain"
    /\ UNCHANGED <<layout, out, linked, saved, staged, opt, manifest, trusted, recorded,
                   made, commands, history>>
-----------------------------------------------------------------------------
(***************************************************************************)
(* Publication: SyncTeX first, then the PDF, then the manifest.  After a   *)
(* cache hit an output with the recorded hash, or linked to the staged one *)
(* and with any hash recorded, is left as it is.                           *)
(***************************************************************************)
Visible(o) ==
    /\ "hit" \in made
    /\ manifest.hash[o] # Nothing
    /\ o \in linked \/ Matches(out[o], manifest.hash[o])

Published(o) ==
    /\ out' = [out EXCEPT ![o] = IF Visible(o) THEN @ ELSE staged[o]]
    /\ manifest' = [manifest EXCEPT !.hash[o] = IF Visible(o) THEN @ ELSE staged[o]]
    /\ linked' = IF Visible(o) THEN linked
                 ELSE IF layout \in HardLinks THEN linked \cup {o} ELSE linked \ {o}
    /\ origin' = [origin EXCEPT ![o] = IF @ = "nobody" THEN "texmk" ELSE @]

(* Without SyncTeX output in this build the owned one of an earlier build  *)
(* is removed.                                                             *)
Withdrawn(o) ==
    LET owned == o \in OwnedOutputs IN
    /\ out' = [out EXCEPT ![o] = IF owned THEN Nothing ELSE @]
    /\ manifest' = [manifest EXCEPT !.hash[o] = Nothing]
    /\ linked' = IF owned THEN linked \ {o} ELSE linked
    /\ origin' = [origin EXCEPT ![o] = IF owned THEN "nobody" ELSE @]

PublishSynctex ==
    /\ pc = "publish_synctex"
    /\ IF "synctex" \in made THEN Published("synctex") ELSE Withdrawn("synctex")
    /\ pc' = "publish_pdf"
    /\ UNCHANGED <<layout, aux, saved, staged, opt, trusted, recorded, made,
                   commands, edits, faults, forgotten>>

PublishPdf ==
    /\ pc = "publish_pdf"
    /\ Published("pdf")
    /\ pc' = "save_published"
    /\ UNCHANGED <<layout, aux, saved, staged, opt, trusted, recorded, made,
                   commands, edits, faults, forgotten>>

(* A publication that fails ends the build at once: what the passes wrote  *)
(* is not recorded.                                                        *)
PublishFails ==
    /\ pc \in {"publish_synctex", "publish_pdf"}
    /\ Fault("publish")
    /\ forgotten' = TRUE
    /\ Ended
    /\ UNCHANGED <<layout, files, saved, staged, commands, edits, origin>>

(* A manifest that cannot be saved is a warning; after a cache hit with    *)
(* nothing to keep the build ends here.                                    *)
Skips == "hit" \in made /\ opt = "nothing"

(* TRIVIAL_AUX is texmk's own, and recorded only if the engine rewrites it *)
(* or the .aux that it stands for was recorded.                            *)
TrivialAuxLeft == aux["aux"] = Made(0) /\ "aux" \notin trusted \cup recorded

SavePublished ==
    /\ pc = "save_published"
    /\ \/ /\ saved' = {manifest}
          /\ forgotten' = (forgotten \/ (Skips /\ (recorded # {} \/ TrivialAuxLeft)))
          /\ UNCHANGED faults
       \/ /\ Fault("save")
          /\ forgotten' = (forgotten \/ Skips)
          /\ UNCHANGED saved
    /\ IF Skips THEN Ended
                ELSE pc' = "retain" /\ UNCHANGED build
    /\ UNCHANGED <<layout, files, staged, commands, edits, origin>>
-----------------------------------------------------------------------------
(***************************************************************************)
(* retain_requested, at the end of every other build: record the hashes of *)
(* the files that were owned before or were reported written, export what  *)
(* was asked for, save the manifest.                                       *)
(***************************************************************************)
(* Mutants: the whole directory is claimed, or only what was just written. *)
ClaimedByListing == {n \in Names : aux[n] # Nothing}
ClaimedIfWritten == {n \in Names : aux[n] # Nothing /\ n \in recorded}
Claimed == {n \in Names : aux[n] # Nothing /\ n \in trusted \cup recorded}

update_aux_ownership ==
    /\ pc = "retain"
    /\ manifest' = [manifest EXCEPT !.aux_files = Only(aux, Claimed)]
    /\ forgotten' = (forgotten \/ TrivialAuxLeft)
    /\ pc' = "export"
    /\ UNCHANGED <<layout, files, saved, staged, opt, trusted, recorded, made,
                   commands, edits, faults, origin>>

(* Everything in a managed directory may be exported.  A file of the       *)
(* user's is not overwritten, unless it is a TeX transcript.               *)
Generated ==
    {n \in Names : aux[n] # Nothing /\ (layout = "managed" \/ n \in trusted \cup recorded)}

MayOverwrite(n) ==
    \/ out[n] = Nothing
    \/ Matches(out[n], manifest.exports[n])
    \/ n = "log" /\ (out[n] = Foreign \/ IsMade(out[n]))

Exported ==
    IF layout = "same" THEN {}
    ELSE {n \in Generated : Kept(n) /\ MayOverwrite(n)}

export_artifacts ==
    /\ pc = "export"
    /\ out' = [x \in DOMAIN out |-> IF x \in Exported THEN aux[x] ELSE out[x]]
    /\ manifest' = [manifest EXCEPT !.exports =
            [n \in Names |-> IF n \in Exported THEN aux[n] ELSE @[n]]]
    /\ pc' = "save_retained"
    /\ UNCHANGED <<layout, aux, linked, saved, staged, opt, trusted, recorded, made,
                   commands, history>>

SaveRetained ==
    /\ pc = "save_retained"
    /\ \/ saved' = {manifest} /\ UNCHANGED <<faults, forgotten>>
       \/ Fault("save") /\ forgotten' = TRUE /\ UNCHANGED saved
    /\ Ended
    /\ UNCHANGED <<layout, files, staged, commands, edits, origin>>
-----------------------------------------------------------------------------
(* The command is killed; the collector removes the job of no command.     *)
Kill ==
    /\ Fault("kill")
    /\ pc # "idle"
    /\ forgotten' = TRUE
    /\ Ended
    /\ UNCHANGED <<layout, files, saved, staged, commands, edits, origin>>

Evict ==
    /\ Fault("evict")
    /\ pc = "idle"
    /\ saved # {}
    /\ JobDirGone
    /\ forgotten' = TRUE
    /\ UNCHANGED <<layout, out, pc, build, commands, edits, origin>>

(* The user creates a file, replaces or removes one.  A managed directory  *)
(* is not his.  While a command runs he may create files that it lays no   *)
(* claim to, or with "replace" do as he likes.                             *)
Allowed(old, claimed) ==
    \/ pc = "idle"
    \/ "replace" \in MidBuild
    \/ "create" \in MidBuild /\ old = Nothing /\ ~claimed

EditAux(n, c) ==
    /\ edits + faults < MaxEvents
    /\ layout # "managed"
    /\ Allowed(aux[n], n \in trusted \cup recorded) /\ aux[n] # c
    /\ aux' = [aux EXCEPT ![n] = c]
    /\ edits' = edits + 1
    /\ UNCHANGED <<layout, out, linked, saved, staged, pc, build, commands, faults, origin, forgotten>>

(* A file of the output directory is replaced by another or removed, or an *)
(* output is rewritten in place, which rewrites a staged file it links to. *)
EditOut(x, c) ==
    /\ edits + faults < MaxEvents
    /\ x \in Names => layout # "same"
    /\ Allowed(out[x], FALSE) /\ out[x] # c
    /\ out' = [out EXCEPT ![x] = c]
    /\ \/ linked' = linked \ {x} /\ UNCHANGED staged
       \/ x \in linked /\ c # Nothing /\ staged' = [staged EXCEPT ![x] = c] /\ UNCHANGED linked
    /\ origin' = [o \in Outputs |-> IF o # x THEN origin[o]
                                    ELSE IF c = Nothing /\ (origin[o] = "texmk" \/ saved = {})
                                         THEN "nobody" ELSE "user"]
    /\ edits' = edits + 1
    /\ UNCHANGED <<layout, aux, saved, pc, build, commands, faults, forgotten>>

Next ==
    \/ \E options \in Options : Start(options)
    \/ clean_owned_artifacts \/ RemoveJobDir
    \/ prepare_owned_exports \/ SavePrepared \/ SaveFails
    \/ EnginePass \/ EngineFails \/ CacheHit
    \/ \E n \in Names : ToolRuns(n) \/ ToolFails(n)
    \/ PublishSynctex \/ PublishPdf \/ PublishFails \/ SavePublished
    \/ update_aux_ownership \/ export_artifacts \/ SaveRetained
    \/ Kill \/ Evict
    \/ \E c \in {Nothing, Users} :
        \/ \E n \in Names : EditAux(n, c)
        \/ \E x \in Names \cup Outputs : EditOut(x, c)
    \/ EditOut("log", Foreign)

Spec == Init /\ [][Next]_vars
-----------------------------------------------------------------------------
(* Types, and a linked output is the staged file.                          *)
TypeOK ==
    /\ layout \in AllLayouts
    /\ aux \in [Names -> Contents]
    /\ out \in [Names \cup Outputs -> Contents]
    /\ saved \subseteq Manifests /\ \A m1, m2 \in saved : m1 = m2
    /\ staged \in [Outputs -> Contents]
    /\ linked \subseteq {o \in Outputs : out[o] = staged[o] /\ out[o] # Nothing}
    /\ pc \in {"idle", "clean", "cleaned", "prepare", "save", "pass", "publish_synctex",
              "publish_pdf", "save_published", "retain", "export", "save_retained"}
    /\ opt \in Options
    /\ manifest \in Manifests
    /\ trusted \subseteq Names /\ recorded \subseteq Names
    /\ made \subseteq Outputs \cup {"hit"}
    /\ commands \in 0..MaxCommands /\ edits \in 0..MaxEvents /\ faults \in 0..MaxEvents
    /\ origin \in [Outputs -> {"nobody", "user", "texmk"}]
    /\ forgotten \in BOOLEAN

(* No command removes or overwrites what the user wrote: not an auxiliary  *)
(* file outside the passes, in which the engine and the tools write their  *)
(* own paths; not a file where an export would go, a transcript of another *)
(* TeX excepted; and an output is replaced by a new one, never removed.    *)
(* Kills, lost manifests and edits between the commands change nothing in  *)
(* that.  (ARTIFACTS.md: modified outputs are preserved.)                  *)
UserFilesKept ==
    [][edits' = edits /\ pc # "pass" =>
        /\ \A n \in Names : IsUsers(aux[n]) => aux'[n] = aux[n]
        /\ \A n \in Names : out[n] = Users => out'[n] = out[n]
        /\ \A o \in Outputs : IsUsers(out[o]) => out'[o] # Nothing]_vars

(* Unless a command was cut short, lost its manifest or ended early, a     *)
(* clean leaves no auxiliary file and no export that a build made, over    *)
(* any sequence of builds with any of the options, and -C no unchanged     *)
(* output that texmk originally made (ARTIFACTS.md), as far as the user    *)
(* has had none there since the manifest was made and no clean left it.    *)
CleanIsComplete ==
    [][pc = "clean" /\ pc' = "cleaned" /\ ~forgotten =>
        /\ \A n \in Names : ~IsMade(aux'[n]) /\ ~IsMade(out'[n])
        /\ opt = "C" => \A o \in Outputs : IsMade(out[o]) /\ origin[o] = "texmk"
                                            => out'[o] = Nothing]_vars

(* A build that exports brings every export it was asked for up to date,   *)
(* unless a file of the user's is in the way: the export of an earlier     *)
(* build is recognised as texmk's own.                                     *)
ExportsCurrent ==
    pc = "save_retained" /\ layout # "same" /\ ~forgotten =>
        \A n \in Generated : Kept(n) => out[n] \in {aux[n], Users}

(* Why the user's files are kept.  No manifest, on disk or in memory, has  *)
(* the hash of a user's file; what a build lays claim to was not written   *)
(* by the user when it comes to record it, and nor was what it publishes.  *)
RecordsOwn(m) ==
    /\ \A n \in Names : ~IsUsers(m.aux_files[n]) /\ ~IsUsers(m.exports[n])
    /\ \A o \in Outputs : ~IsUsers(m.hash[o])

OwnershipInv ==
    /\ TypeOK
    /\ RecordsOwn(manifest) /\ \A m \in saved : RecordsOwn(m)
    /\ \A n \in trusted \cup recorded : ~IsUsers(aux[n])
    /\ \A o \in made \cap Outputs : IsMade(staged[o])
    /\ pc \in {"publish_synctex", "publish_pdf"} => "pdf" \in made
    /\ pc = "idle" => trusted = {} /\ recorded = {} /\ made = {}
    /\ layout = "managed" => \A n \in Names : ~IsUsers(aux[n])
=============================================================================
