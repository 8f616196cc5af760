-------------------------- MODULE OwnershipProofs --------------------------
(***************************************************************************)
(* No command removes or overwrites the user's files, cleans are complete  *)
(* and exports current, for every set of auxiliary files and every number  *)
(* of commands, edits and faults, as long as the user leaves alone what a  *)
(* running command lays claim to.                                          *)
(***************************************************************************)
EXTENDS Ownership, TLAPS

(* What the contents are: written by nobody, the user or a command.        *)
LEMMA ContentFacts ==
    /\ Nothing \in Contents /\ ~IsUsers(Nothing) /\ ~IsMade(Nothing)
    /\ Users \in Contents /\ Foreign \in Contents
    /\ IsUsers(Users) /\ IsUsers(Foreign)
    /\ Users # Nothing /\ Foreign # Nothing /\ Users # Foreign
    /\ \A n \in 0..MaxCommands : Made(n) \in Contents /\ IsMade(Made(n))
    /\ \A c \in Contents : IsMade(c) => ~IsUsers(c) /\ c # Nothing
  BY DEF Contents, Nothing, Users, Foreign, Made, IsMade, IsUsers

\* A manifest that is not there records nothing.
LEMMA NoManifestFacts == NoManifest \in Manifests /\ RecordsOwn(NoManifest)
  BY ContentFacts DEF NoManifest, Blank, Manifests, RecordsOwn

(* The end of a command leaves nothing in memory.                          *)
LEMMA EndedKeeps ==
    ASSUME TypeOK, Ended
    PROVE  /\ pc' = "idle" /\ opt' \in Options /\ manifest' \in Manifests
           /\ RecordsOwn(manifest')
           /\ trusted' = {} /\ recorded' = {} /\ made' = {}
  BY NoManifestFacts DEF Ended, Options

\* At first there is no manifest and no file of texmk.
LEMMA InitOwnership == Init => OwnershipInv
  <1> SUFFICES ASSUME Init PROVE OwnershipInv
    OBVIOUS
  <1>1. aux \in [Names -> Contents] /\ \A n \in Names : ~IsUsers(aux[n])
    BY ContentFacts DEF Init, Blank
  <1>2. /\ out \in [Names \cup Outputs -> Contents] /\ staged \in [Outputs -> Contents]
        /\ origin \in [Outputs -> {"nobody", "user", "texmk"}]
    BY ContentFacts DEF Init, Blank
  <1>a. saved = {} /\ linked = {} /\ trusted = {} /\ recorded = {} /\ made = {}
    BY DEF Init
  <1>b. layout \in AllLayouts /\ opt \in Options /\ manifest \in Manifests
    BY NoManifestFacts, LayoutsAssumption DEF Init, AllLayouts, Options
  <1>c. /\ commands \in 0..MaxCommands /\ edits \in 0..MaxEvents
        /\ faults \in 0..MaxEvents
    BY BoundsAssumption DEF Init
  <1>d. forgotten \in BOOLEAN
    BY DEF Init
  <1>3. TypeOK
    BY <1>1, <1>2, <1>a, <1>b, <1>c, <1>d DEF Init, TypeOK
  <1> QED
    BY <1>1, <1>3, NoManifestFacts DEF Init, OwnershipInv

\* Nor does a new manifest record anything.
LEMMA FreshManifestFacts == FreshManifest \in Manifests /\ RecordsOwn(FreshManifest)
  BY ContentFacts DEF FreshManifest, Blank, Manifests, RecordsOwn

(* A command starts with the manifest on disk or with a fresh one.         *)
LEMMA StartKeeps ==
    ASSUME OwnershipInv, NEW options \in Options, Start(options)
    PROVE  OwnershipInv'
  <1> USE BoundsAssumption DEF OwnershipInv
  <1>1. manifest' \in Manifests /\ RecordsOwn(manifest')
    BY FreshManifestFacts DEF Start, TypeOK
  <1>2. TypeOK'
    BY <1>1 DEF Start, TypeOK, files, history
  <1> QED
    BY <1>1, <1>2 DEF Start, RecordsOwn, files, history

\* A clean removes files, and records with them.
LEMMA CleanKeeps ==
    ASSUME OwnershipInv, clean_owned_artifacts
    PROVE  OwnershipInv'
  <1> USE DEF OwnershipInv
  <1>0. /\ aux' \in [Names -> Contents] /\ out' \in [Names \cup Outputs -> Contents]
        /\ origin' \in [Outputs -> {"nobody", "user", "texmk"}]
        /\ linked' \subseteq linked
    BY ContentFacts DEF clean_owned_artifacts, TypeOK, Without
  <1>a. \A o \in linked' : out'[o] = out[o]
    BY NamesAssumption
       DEF clean_owned_artifacts, TypeOK, Without, OwnedExports, OwnedOutputs, Outputs
  <1>1. TypeOK'
    BY <1>0, <1>a DEF clean_owned_artifacts, TypeOK, build
  <1>2. \A n \in Names : ~IsUsers(aux[n]) => ~IsUsers(aux'[n])
    BY ContentFacts DEF clean_owned_artifacts, TypeOK, Without
  <1> QED
    BY <1>1, <1>2 DEF clean_owned_artifacts, TypeOK, build, RecordsOwn

\* The removal of the job directory takes the manifest along.
LEMMA RemoveJobDirKeeps ==
    ASSUME OwnershipInv, RemoveJobDir
    PROVE  OwnershipInv'
  <1> USE DEF OwnershipInv
  <1>1. TypeOK'
    BY ContentFacts, EndedKeeps DEF RemoveJobDir, JobDirGone, TypeOK, Blank, history
  <1> QED
    BY <1>1, ContentFacts, EndedKeeps
       DEF RemoveJobDir, JobDirGone, TypeOK, Blank, RecordsOwn

\* A build begins: exports of former builds are removed, records dropped.
LEMMA PrepareKeeps ==
    ASSUME OwnershipInv, prepare_owned_exports
    PROVE  OwnershipInv'
  <1> USE DEF OwnershipInv
  <1>1. manifest' \in Manifests /\ RecordsOwn(manifest')
    BY ContentFacts DEF prepare_owned_exports, TypeOK, Manifests, Only, RecordsOwn
  <1>2. out' \in [Names \cup Outputs -> Contents]
    BY ContentFacts DEF prepare_owned_exports, TypeOK, Without
  <1>3. \A o \in linked : out'[o] = out[o]
    BY NamesAssumption DEF prepare_owned_exports, TypeOK, Without, OwnedExports, Outputs
  <1>4. TypeOK'
    BY <1>1, <1>2, <1>3
       DEF prepare_owned_exports, TypeOK, OwnedAux, Without, history
  <1>5. \A n \in trusted' : ~IsUsers(aux[n])
    BY DEF prepare_owned_exports, OwnedAux, Matches, RecordsOwn
  <1> QED
    BY <1>1, <1>4, <1>5 DEF prepare_owned_exports, TypeOK

(* The saved manifest is the one in memory.                                *)
LEMMA SavePreparedKeeps ==
    ASSUME OwnershipInv, SavePrepared
    PROVE  OwnershipInv'
  <1> USE DEF OwnershipInv
  <1>1. /\ aux' \in [Names -> Contents]
        /\ \A n \in Names : ~IsUsers(aux[n]) => ~IsUsers(aux'[n])
    BY ContentFacts, BoundsAssumption, NamesAssumption DEF SavePrepared, TypeOK
  <1>2. saved' = {manifest}
    BY DEF SavePrepared
  <1>3. TypeOK'
    BY <1>1, <1>2 DEF SavePrepared, TypeOK, build, history
  <1> QED
    BY <1>1, <1>2, <1>3 DEF SavePrepared, TypeOK, build

\* A manifest that cannot be written leaves the old one.
LEMMA SaveFailsKeeps ==
    ASSUME OwnershipInv, SaveFails
    PROVE  OwnershipInv'
  <1> USE DEF OwnershipInv
  <1>1. TypeOK'
    BY EndedKeeps, BoundsAssumption DEF SaveFails, Fault, TypeOK, files
  <1> QED
    BY <1>1, EndedKeeps DEF SaveFails, files

(* What a pass or a tool writes is not the user's.                         *)
LEMMA WrittenFacts ==
    ASSUME TypeOK, NEW S \in SUBSET Names
    PROVE  /\ Written(S) \in [Names -> Contents]
           /\ \A n \in S : ~IsUsers(Written(S)[n])
           /\ \A n \in Names : ~IsUsers(aux[n]) => ~IsUsers(Written(S)[n])
  BY ContentFacts DEF TypeOK, Written

\* A pass writes auxiliary files, which texmk may record.
LEMMA EnginePassKeeps ==
    ASSUME OwnershipInv, EnginePass
    PROVE  OwnershipInv'
  <1> USE DEF OwnershipInv
  <1>1. {"log", "aux"} \in SUBSET Names
    BY NamesAssumption
  <1>2. PICK S \in {{"pdf"}, Outputs} :
            /\ staged' = [o \in Outputs |-> IF o \in S THEN Made(commands) ELSE staged[o]]
            /\ linked' = Unlinked(S)
            /\ made' = made \cup S
    BY DEF EnginePass
  <1>3. /\ staged' \in [Outputs -> Contents]
        /\ \A o \in made' \cap Outputs : IsMade(staged'[o])
    BY <1>2, ContentFacts DEF TypeOK
  <1>4. "pdf" \in made' /\ made' \subseteq Outputs \cup {"hit"}
    BY <1>2 DEF TypeOK, Outputs
  <1>5. linked' \subseteq {o \in Outputs : out[o] = staged'[o] /\ out[o] # Nothing}
    BY <1>2 DEF TypeOK, Unlinked
  <1>6. TypeOK'
    BY <1>1, <1>3, <1>4, <1>5, WrittenFacts DEF EnginePass, TypeOK, history
  <1> QED
    BY <1>1, <1>3, <1>4, <1>6, WrittenFacts DEF EnginePass, TypeOK

\* An engine that fails ends the build.
LEMMA EngineFailsKeeps ==
    ASSUME OwnershipInv, EngineFails
    PROVE  OwnershipInv'
  <1> USE DEF OwnershipInv
  <1>1. PICK S \in SUBSET Names : aux' = Written(S) /\ recorded' = recorded \cup S
    BY NamesAssumption DEF EngineFails
  <1>2. TypeOK'
    BY <1>1, WrittenFacts DEF EngineFails, TypeOK, history
  <1> QED
    BY <1>1, <1>2, WrittenFacts DEF EngineFails, TypeOK

\* A hit restores what an engine wrote.
LEMMA CacheHitKeeps ==
    ASSUME OwnershipInv, CacheHit
    PROVE  OwnershipInv'
  <1> USE DEF OwnershipInv
  <1>1. \A o \in Outputs : staged[o] # Nothing => IsMade(staged[o])
    BY ContentFacts DEF CacheHit, Outputs, TypeOK, Contents, IsMade, IsUsers, Made
  <1>2. "pdf" \in made' /\ made' \subseteq Outputs \cup {"hit"} /\ "hit" \notin Outputs
    BY ContentFacts DEF CacheHit, Outputs, TypeOK
  <1>3. TypeOK'
    BY <1>2 DEF CacheHit, TypeOK, files, history
  <1> QED
    BY <1>1, <1>2, <1>3 DEF CacheHit, TypeOK, files

\* A tool writes its output, which texmk records.
LEMMA ToolRunsKeeps ==
    ASSUME OwnershipInv, NEW n \in Names, ToolRuns(n)
    PROVE  OwnershipInv'
  <1> USE DEF OwnershipInv
  <1>1. {n} \in SUBSET Names
    OBVIOUS
  <1>2. TypeOK'
    BY <1>1, WrittenFacts DEF ToolRuns, TypeOK, history
  <1> QED
    BY <1>1, <1>2, WrittenFacts DEF ToolRuns, TypeOK

\* A tool that fails has recorded nothing.
LEMMA ToolFailsKeeps ==
    ASSUME OwnershipInv, NEW n \in Names, ToolFails(n)
    PROVE  OwnershipInv'
  <1> USE DEF OwnershipInv
  <1>1. TypeOK'
    BY ContentFacts DEF ToolFails, TypeOK, history
  <1> QED
    BY <1>1, ContentFacts DEF ToolFails, TypeOK

(* A publication changes one output, to the staged one if that is new.     *)
LEMMA PublishedFacts ==
    ASSUME OwnershipInv, NEW o \in Outputs, IsMade(staged[o]), Published(o)
    PROVE  /\ out' \in [Names \cup Outputs -> Contents]
           /\ manifest' \in Manifests /\ RecordsOwn(manifest')
           /\ origin' \in [Outputs -> {"nobody", "user", "texmk"}]
           /\ linked' \subseteq {x \in Outputs : out'[x] = staged[x] /\ out'[x] # Nothing}
           /\ out'[o] \in {out[o], staged[o]}
           /\ \A x \in (Names \cup Outputs) \ {o} : out'[x] = out[x]
  <1> USE DEF OwnershipInv, Published
  <1>1. staged[o] \in Contents /\ staged[o] # Nothing /\ ~IsUsers(staged[o])
    BY ContentFacts DEF TypeOK
  <1>2. /\ out' \in [Names \cup Outputs -> Contents]
        /\ out'[o] \in {out[o], staged[o]}
        /\ \A x \in (Names \cup Outputs) \ {o} : out'[x] = out[x]
    BY <1>1 DEF TypeOK
  <1>3. manifest' \in Manifests /\ RecordsOwn(manifest')
    BY <1>1 DEF TypeOK, Manifests, RecordsOwn
  <1>4. origin' \in [Outputs -> {"nobody", "user", "texmk"}]
    BY DEF TypeOK
  <1>5. linked' \subseteq {x \in Outputs : out'[x] = staged[x] /\ out'[x] # Nothing}
    BY <1>1, <1>2 DEF TypeOK
  <1> QED
    BY <1>2, <1>3, <1>4, <1>5

(* A withdrawal removes the output only if its hash is recorded.           *)
LEMMA WithdrawnFacts ==
    ASSUME OwnershipInv, NEW o \in Outputs, Withdrawn(o)
    PROVE  /\ out' \in [Names \cup Outputs -> Contents]
           /\ manifest' \in Manifests /\ RecordsOwn(manifest')
           /\ origin' \in [Outputs -> {"nobody", "user", "texmk"}]
           /\ linked' \subseteq {x \in Outputs : out'[x] = staged[x] /\ out'[x] # Nothing}
           /\ IsUsers(out[o]) => out'[o] = out[o]
           /\ \A x \in (Names \cup Outputs) \ {o} : out'[x] = out[x]
  <1> USE DEF OwnershipInv, Withdrawn
  <1>1. /\ out' \in [Names \cup Outputs -> Contents]
        /\ \A x \in (Names \cup Outputs) \ {o} : out'[x] = out[x]
    BY ContentFacts DEF TypeOK
  <1>2. IsUsers(out[o]) => o \notin OwnedOutputs
    BY DEF OwnedOutputs, Matches, RecordsOwn
  <1>3. manifest' \in Manifests /\ RecordsOwn(manifest')
    BY ContentFacts DEF TypeOK, Manifests, RecordsOwn
  <1>4. origin' \in [Outputs -> {"nobody", "user", "texmk"}]
    BY DEF TypeOK
  <1>5. o \notin OwnedOutputs => out'[o] = out[o]
    BY DEF TypeOK
  <1>6. linked' \subseteq {x \in Outputs : out'[x] = staged[x] /\ out'[x] # Nothing}
    BY <1>1, <1>5 DEF TypeOK
  <1> QED
    BY <1>1, <1>2, <1>3, <1>4, <1>5, <1>6

\* The SyncTeX file is published where texmk may write.
LEMMA PublishSynctexKeeps ==
    ASSUME OwnershipInv, PublishSynctex
    PROVE  OwnershipInv'
  <1> USE DEF OwnershipInv
  <1>1. /\ out' \in [Names \cup Outputs -> Contents]
        /\ manifest' \in Manifests /\ RecordsOwn(manifest')
        /\ origin' \in [Outputs -> {"nobody", "user", "texmk"}]
        /\ linked' \subseteq {x \in Outputs : out'[x] = staged[x] /\ out'[x] # Nothing}
    BY PublishedFacts, WithdrawnFacts DEF PublishSynctex, Outputs
  <1>2. TypeOK'
    BY <1>1 DEF PublishSynctex, TypeOK
  <1> QED
    BY <1>1, <1>2 DEF PublishSynctex, TypeOK

\* So is the PDF.
LEMMA PublishPdfKeeps ==
    ASSUME OwnershipInv, PublishPdf
    PROVE  OwnershipInv'
  <1> USE DEF OwnershipInv
  <1>1. "pdf" \in Outputs /\ IsMade(staged["pdf"])
    BY DEF PublishPdf, Outputs
  <1>2. TypeOK'
    BY <1>1, PublishedFacts DEF PublishPdf, TypeOK
  <1> QED
    BY <1>1, <1>2, PublishedFacts DEF PublishPdf, TypeOK

\* A publication that fails writes nothing.
LEMMA PublishFailsKeeps ==
    ASSUME OwnershipInv, PublishFails
    PROVE  OwnershipInv'
  <1> USE DEF OwnershipInv
  <1>1. forgotten' \in BOOLEAN
    BY DEF PublishFails
  <1>2. faults' \in 0..MaxEvents
    BY BoundsAssumption DEF PublishFails, Fault, TypeOK
  <1>3. TypeOK'
    BY <1>1, <1>2, EndedKeeps DEF PublishFails, TypeOK, files
  <1> QED
    BY <1>3, EndedKeeps DEF PublishFails, files

\* The hashes of the outputs are saved: texmk made them.
LEMMA SavePublishedKeeps ==
    ASSUME OwnershipInv, SavePublished
    PROVE  OwnershipInv'
  <1> USE DEF OwnershipInv
  <1>1. forgotten' \in BOOLEAN
    BY DEF SavePublished, TypeOK
  <1>2. faults' \in 0..MaxEvents
    BY BoundsAssumption DEF SavePublished, Fault, TypeOK
  <1>3. saved' \in {saved, {manifest}}
    BY DEF SavePublished
  <1>4. CASE Skips
    <2>1. Ended
      BY <1>4 DEF SavePublished
    <2>2. TypeOK'
      BY <2>1, <1>1, <1>2, <1>3, EndedKeeps DEF SavePublished, TypeOK, files
    <2> QED
      BY <2>1, <2>2, <1>3, EndedKeeps DEF SavePublished, files
  <1>5. CASE ~Skips
    <2>1. pc' = "retain" /\ UNCHANGED build
      BY <1>5 DEF SavePublished
    <2>2. TypeOK'
      BY <2>1, <1>1, <1>2, <1>3 DEF SavePublished, TypeOK, files, build
    <2> QED
      BY <2>1, <2>2, <1>3 DEF SavePublished, files, build
  <1> QED
    BY <1>4, <1>5

\* Of the auxiliary files, those are recorded that a pass or a tool wrote.
LEMMA UpdateOwnershipKeeps ==
    ASSUME OwnershipInv, update_aux_ownership
    PROVE  OwnershipInv'
  <1> USE DEF OwnershipInv
  <1>1. manifest' \in Manifests /\ RecordsOwn(manifest')
    BY ContentFacts
       DEF update_aux_ownership, TypeOK, Only, Claimed, Manifests, RecordsOwn
  <1>2. forgotten' \in BOOLEAN
    BY DEF update_aux_ownership, TypeOK
  <1>3. TypeOK'
    BY <1>1, <1>2 DEF update_aux_ownership, TypeOK, files
  <1> QED
    BY <1>1, <1>3 DEF update_aux_ownership, TypeOK, files

(* An export is a copy of an auxiliary file that is not the user's.        *)
LEMMA ExportedFacts ==
    ASSUME OwnershipInv
    PROVE  /\ Exported \subseteq Names
           /\ \A n \in Exported : ~IsUsers(aux[n]) /\ out[n] # Users
  <1> USE DEF OwnershipInv
  <1>1. Exported \subseteq Generated /\ \A n \in Exported : MayOverwrite(n)
    BY DEF Exported
  <1>2. Generated \subseteq Names /\ \A n \in Generated : ~IsUsers(aux[n])
    BY DEF Generated
  <1>3. \A n \in Names : MayOverwrite(n) => out[n] # Users
    BY ContentFacts DEF MayOverwrite, Matches, RecordsOwn
  <1> QED
    BY <1>1, <1>2, <1>3

\* An export copies a file of texmk to a free place.
LEMMA ExportKeeps ==
    ASSUME OwnershipInv, export_artifacts
    PROVE  OwnershipInv'
  <1> USE DEF OwnershipInv
  <1>1. manifest' \in Manifests /\ RecordsOwn(manifest')
    BY ExportedFacts DEF export_artifacts, TypeOK, Manifests, RecordsOwn
  <1>2. /\ out' \in [Names \cup Outputs -> Contents]
        /\ \A o \in Outputs : out'[o] = out[o]
    BY ExportedFacts, NamesAssumption DEF export_artifacts, TypeOK, Outputs
  <1>3. TypeOK'
    BY <1>1, <1>2 DEF export_artifacts, TypeOK, history
  <1> QED
    BY <1>1, <1>3 DEF export_artifacts, TypeOK

\* The manifest of what was kept is saved.
LEMMA SaveRetainedKeeps ==
    ASSUME OwnershipInv, SaveRetained
    PROVE  OwnershipInv'
  <1> USE DEF OwnershipInv
  <1>1. forgotten' \in BOOLEAN
    BY DEF SaveRetained, TypeOK
  <1>2. faults' \in 0..MaxEvents
    BY BoundsAssumption DEF SaveRetained, Fault, TypeOK
  <1>3. saved' \in {saved, {manifest}}
    BY DEF SaveRetained
  <1>4. TypeOK'
    BY <1>1, <1>2, <1>3, EndedKeeps DEF SaveRetained, TypeOK, files
  <1> QED
    BY <1>4, <1>3, EndedKeeps DEF SaveRetained, files

\* A killed command leaves the manifest on disk.
LEMMA KillKeeps ==
    ASSUME OwnershipInv, Kill
    PROVE  OwnershipInv'
  <1> USE DEF OwnershipInv
  <1>1. forgotten' \in BOOLEAN
    BY DEF Kill
  <1>2. faults' \in 0..MaxEvents
    BY BoundsAssumption DEF Kill, Fault, TypeOK
  <1>3. TypeOK'
    BY <1>1, <1>2, EndedKeeps DEF Kill, TypeOK, files
  <1> QED
    BY <1>3, EndedKeeps DEF Kill, files

\* The collector removes the job directory.
LEMMA EvictKeeps ==
    ASSUME OwnershipInv, Evict
    PROVE  OwnershipInv'
  <1> USE DEF OwnershipInv
  <1>1. forgotten' \in BOOLEAN
    BY DEF Evict
  <1>2. faults' \in 0..MaxEvents
    BY BoundsAssumption DEF Evict, Fault, TypeOK
  <1>3. TypeOK'
    BY <1>1, <1>2, ContentFacts DEF Evict, JobDirGone, Blank, TypeOK, build
  <1> QED
    BY <1>3, ContentFacts DEF Evict, JobDirGone, Blank, build

(* The user creates files only where the command lays no claim.            *)
LEMMA EditAuxKeeps ==
    ASSUME OwnershipInv, MidBuild \subseteq {"create"}, NEW n \in Names,
           NEW c \in {Nothing, Users}, EditAux(n, c)
    PROVE  OwnershipInv'
  <1> USE DEF OwnershipInv
  <1>1. n \notin trusted \cup recorded
    BY DEF EditAux, Allowed
  <1>2. edits' \in 0..MaxEvents
    BY BoundsAssumption DEF EditAux, TypeOK
  <1>3. TypeOK'
    BY <1>2, ContentFacts DEF EditAux, TypeOK, build
  <1> QED
    BY <1>1, <1>3 DEF EditAux, TypeOK, build

\* The user creates or, between commands, replaces a file: no hash fits it.
LEMMA EditOutKeeps ==
    ASSUME OwnershipInv, MidBuild \subseteq {"create"}, NEW x \in Names \cup Outputs,
           NEW c \in {Nothing, Users, Foreign}, EditOut(x, c)
    PROVE  OwnershipInv'
  <1> USE DEF OwnershipInv
  <1>1. x \in linked => pc = "idle"
    BY DEF EditOut, Allowed, TypeOK
  <1>2. edits' \in 0..MaxEvents
    BY BoundsAssumption DEF EditOut, TypeOK
  <1>3. /\ out' \in [Names \cup Outputs -> Contents]
        /\ origin' \in [Outputs -> {"nobody", "user", "texmk"}]
        /\ staged' \in [Outputs -> Contents]
    BY ContentFacts DEF EditOut, TypeOK
  <1>4. linked' \subseteq {o \in Outputs : out'[o] = staged'[o] /\ out'[o] # Nothing}
    BY <1>3 DEF EditOut, TypeOK
  <1>5. TypeOK'
    BY <1>2, <1>3, <1>4 DEF EditOut, TypeOK, build
  <1>6. \A o \in made \cap Outputs : IsMade(staged'[o])
    BY <1>1 DEF EditOut, TypeOK
  <1> QED
    BY <1>5, <1>6 DEF EditOut, TypeOK, build

(* Every step keeps the invariant, for a user who leaves alone what the    *)
(* running command lays claim to.                                          *)
LEMMA NextKeeps ==
    ASSUME OwnershipInv, MidBuild \subseteq {"create"}, [Next]_vars
    PROVE  OwnershipInv'
  <1>1. CASE \E options \in Options : Start(options)
    BY <1>1, StartKeeps
  <1>2. CASE clean_owned_artifacts \/ RemoveJobDir
    BY <1>2, CleanKeeps, RemoveJobDirKeeps
  <1>3. CASE prepare_owned_exports \/ SavePrepared \/ SaveFails
    BY <1>3, PrepareKeeps, SavePreparedKeeps, SaveFailsKeeps
  <1>4. CASE EnginePass \/ EngineFails \/ CacheHit
    BY <1>4, EnginePassKeeps, EngineFailsKeeps, CacheHitKeeps
  <1>5. CASE \E n \in Names : ToolRuns(n) \/ ToolFails(n)
    BY <1>5, ToolRunsKeeps, ToolFailsKeeps
  <1>6. CASE PublishSynctex \/ PublishPdf \/ PublishFails \/ SavePublished
    BY <1>6, PublishSynctexKeeps, PublishPdfKeeps, PublishFailsKeeps, SavePublishedKeeps
  <1>7. CASE update_aux_ownership \/ export_artifacts \/ SaveRetained
    BY <1>7, UpdateOwnershipKeeps, ExportKeeps, SaveRetainedKeeps
  <1>8. CASE Kill \/ Evict
    BY <1>8, KillKeeps, EvictKeeps
  <1>9. CASE \E c \in {Nothing, Users} : \E n \in Names : EditAux(n, c)
    BY <1>9, EditAuxKeeps
  <1>10. CASE \/ \E c \in {Nothing, Users} : \E x \in Names \cup Outputs : EditOut(x, c)
              \/ EditOut("log", Foreign)
    BY <1>10, EditOutKeeps, NamesAssumption
  <1>11. CASE UNCHANGED vars
    BY <1>11 DEF vars, OwnershipInv, TypeOK, RecordsOwn, Manifests
  <1> QED
    BY <1>1, <1>2, <1>3, <1>4, <1>5, <1>6, <1>7, <1>8, <1>9, <1>10, <1>11 DEF Next

(* No manifest ever has the hash of a user's file, and the types hold.     *)
THEOREM OwnershipHolds == MidBuild \subseteq {"create"} /\ Spec => []OwnershipInv
  <1> SUFFICES ASSUME MidBuild \subseteq {"create"} PROVE Spec => []OwnershipInv
    OBVIOUS
  <1>1. OwnershipInv /\ [Next]_vars => OwnershipInv'
    BY NextKeeps
  <1> QED
    BY <1>1, InitOwnership, PTL DEF Spec

(* Manifests, directories and the build's own variables keep their types   *)
(* (ArtifactManifest and the locals of build and clean).                   *)
THEOREM OwnershipTypes == MidBuild \subseteq {"create"} /\ Spec => []TypeOK
  <1>1. OwnershipInv => TypeOK
    BY DEF OwnershipInv
  <1> QED
    BY <1>1, OwnershipHolds, PTL

(* What one step may do to the user's files.                               *)
Kept1 ==
    edits' = edits /\ pc # "pass" =>
        /\ \A n \in Names : IsUsers(aux[n]) => aux'[n] = aux[n]
        /\ \A n \in Names : out[n] = Users => out'[n] = out[n]
        /\ \A o \in Outputs : IsUsers(out[o]) => out'[o] # Nothing

\* With the invariant, no single step removes a file of the user.
LEMMA StepKeepsUserFiles ==
    ASSUME OwnershipInv, [Next]_vars
    PROVE  Kept1
  <1> USE DEF OwnershipInv
  <1>0. IsUsers(Users) /\ ~IsUsers(Nothing)
    BY ContentFacts
  <1>1. CASE UNCHANGED files
    BY <1>0, <1>1 DEF files, Kept1
  <1>2. CASE clean_owned_artifacts
    <2>1. \A n \in Names : IsUsers(aux[n]) => n \notin OwnedAux
      BY DEF OwnedAux, Matches, RecordsOwn
    <2>2. \A n \in Names : IsUsers(out[n]) => n \notin OwnedExports
      BY DEF OwnedExports, Matches, RecordsOwn
    <2>3. \A o \in Outputs : IsUsers(out[o]) => o \notin OwnedOutputs
      BY DEF OwnedOutputs, Matches, RecordsOwn
    <2>4. OwnedExports \cap Outputs = {} /\ OwnedOutputs \cap Names = {}
      BY NamesAssumption DEF OwnedExports, OwnedOutputs, Outputs
    <2> QED
      BY <1>0, <1>2, <2>1, <2>2, <2>3, <2>4
         DEF clean_owned_artifacts, Without, TypeOK, Kept1
  <1>3. CASE RemoveJobDir \/ Evict
    BY <1>0, <1>3 DEF RemoveJobDir, Evict, JobDirGone, Kept1
  <1>4. CASE prepare_owned_exports
    <2>1. \A n \in Names : IsUsers(out[n]) => n \notin OwnedExports
      BY DEF OwnedExports, Matches, RecordsOwn
    <2>2. OwnedExports \cap Outputs = {}
      BY NamesAssumption DEF OwnedExports, Outputs
    <2> QED
      BY <1>0, <1>4, <2>1, <2>2 DEF prepare_owned_exports, Without, TypeOK, Kept1
  <1>5. CASE SavePrepared
    BY <1>0, <1>5 DEF SavePrepared, TypeOK, Kept1
  <1>6. CASE EnginePass \/ EngineFails \/ \E n \in Names : ToolRuns(n) \/ ToolFails(n)
    BY <1>6 DEF EnginePass, EngineFails, ToolRuns, ToolFails, Kept1
  <1>7. CASE PublishSynctex
    <2>1. "synctex" \in Outputs /\ "synctex" \notin Names
      BY NamesAssumption DEF Outputs
    <2>2. CASE "synctex" \in made
      <3>1. staged["synctex"] # Nothing /\ IsMade(staged["synctex"]) /\ Published("synctex")
        BY <2>1, <2>2, <1>7, ContentFacts DEF PublishSynctex, TypeOK
      <3> QED
        BY <1>0, <1>7, <2>1, <3>1, PublishedFacts DEF PublishSynctex, Kept1
    <2>3. CASE "synctex" \notin made
      <3>1. Withdrawn("synctex")
        BY <2>3, <1>7 DEF PublishSynctex
      <3> QED
        BY <1>0, <1>7, <2>1, <3>1, WithdrawnFacts DEF PublishSynctex, Kept1
    <2> QED
      BY <2>2, <2>3
  <1>8. CASE PublishPdf
    <2>1. /\ "pdf" \in Outputs /\ "pdf" \notin Names
          /\ IsMade(staged["pdf"]) /\ staged["pdf"] # Nothing /\ Published("pdf")
      BY <1>8, NamesAssumption, ContentFacts DEF Outputs, PublishPdf, TypeOK
    <2> QED
      BY <1>0, <1>8, <2>1, PublishedFacts DEF PublishPdf, Kept1
  <1>9. CASE export_artifacts
    BY <1>0, <1>9, ExportedFacts, NamesAssumption
       DEF export_artifacts, TypeOK, Outputs, Kept1
  <1>10. CASE \E c \in {Nothing, Users} : \E n \in Names : EditAux(n, c)
    BY <1>10 DEF EditAux, TypeOK, Kept1
  <1>11. CASE \/ \E c \in {Nothing, Users} : \E x \in Names \cup Outputs : EditOut(x, c)
              \/ EditOut("log", Foreign)
    <2>1. edits' = edits + 1
      BY <1>11 DEF EditOut
    <2>2. edits' # edits
      BY <2>1, BoundsAssumption DEF TypeOK
    <2> QED
      BY <2>2 DEF Kept1
  <1>12. (\/ \E options \in Options : Start(options)
          \/ SaveFails \/ CacheHit \/ PublishFails \/ SavePublished
          \/ update_aux_ownership \/ SaveRetained \/ Kill
          \/ UNCHANGED vars) => UNCHANGED files
    BY DEF Start, SaveFails, CacheHit, PublishFails, SavePublished, update_aux_ownership,
           SaveRetained, Kill, vars, files
  <1> QED
    BY <1>1, <1>2, <1>3, <1>4, <1>5, <1>6, <1>7, <1>8, <1>9, <1>10, <1>11, <1>12 DEF Next

(* No command removes or overwrites what the user wrote, whatever is       *)
(* killed, evicted or fails, and whatever the user does between commands.  *)
THEOREM UserFilesAreKept == MidBuild \subseteq {"create"} /\ Spec => UserFilesKept
  <1>1. OwnershipInv /\ [Next]_vars => [Kept1]_vars
    BY StepKeepsUserFiles
  <1>2. MidBuild \subseteq {"create"} /\ Spec => [][Kept1]_vars
    BY <1>1, OwnershipHolds, PTL DEF Spec
  <1> QED
    BY <1>2 DEF UserFilesKept, Kept1
-----------------------------------------------------------------------------
(* Completeness.  What texmk has made and not forgotten is in the manifest *)
(* that the next command will read, or in the one that a running command   *)
(* is going to save.                                                       *)

ExportsIn(m) == \A n \in Names : IsMade(out[n]) => m.exports[n] = out[n]
AuxIn(m) == \A n \in Names : IsMade(aux[n]) => m.aux_files[n] = aux[n]
OutputsIn(m) ==
    \A o \in Outputs : /\ origin[o] # "user" => m.owned[o]
                       /\ IsMade(out[o]) /\ origin[o] = "texmk" => m.hash[o] = out[o]

\* The places at which the manifest on disk is as the last command left it
Before == {"idle", "clean", "prepare", "save"}

\* Nothing is there for a manifest to list
Vanished == pc = "cleaned" \/ (pc \in Before /\ saved = {})

ExportsListed ==
    ~forgotten =>
        /\ pc \notin {"idle", "cleaned"} => ExportsIn(manifest)
        /\ pc # "save_retained" => \A m \in saved : ExportsIn(m)
        /\ Vanished => \A n \in Names : ~IsMade(out[n])

\* During the passes: what was made is trusted or recorded, or the trivial .aux
AuxFollowed ==
    /\ \A n \in Names : IsMade(aux[n]) =>
         n \in trusted \cup recorded \/ (n = "aux" /\ aux[n] = Made(0))
    /\ \A n \in trusted \ recorded : aux[n] \in {manifest.aux_files[n], Nothing}

AuxListed ==
    ~forgotten =>
        /\ pc \in {"clean", "prepare", "export", "save_retained"} => AuxIn(manifest)
        /\ pc = "save" => /\ \A n \in Names : IsMade(aux[n]) => n \in trusted
                          /\ \A n \in trusted : Matches(aux[n], manifest.aux_files[n])
        /\ pc \in {"pass", "publish_synctex", "publish_pdf", "save_published", "retain"} => AuxFollowed
        /\ pc \in Before => \A m \in saved : AuxIn(m)
        /\ Vanished => \A n \in Names : ~IsMade(aux[n])

OutputsListed ==
    /\ \A o \in Outputs : origin[o] = "nobody" => out[o] = Nothing
    /\ ~forgotten =>
        /\ pc \notin {"idle", "cleaned"} => OutputsIn(manifest)
        /\ pc \in Before \cup {"pass", "publish_synctex"} => \A m \in saved : OutputsIn(m)
        /\ Vanished => \A o \in Outputs : origin[o] # "texmk"

\* Another TeX leaves a transcript and nothing else
ForeignIsLog == \A n \in Names : out[n] = Foreign => n = "log"

Complete == OwnershipInv /\ ExportsListed /\ AuxListed /\ OutputsListed /\ ForeignIsLog /\ ExportsCurrent

\* At first there is nothing to be listed.
LEMMA CompleteInit == Init => Complete
  <1> SUFFICES ASSUME Init PROVE Complete
    OBVIOUS
  <1>1. OwnershipInv
    BY InitOwnership
  <1>2. /\ \A n \in Names : aux[n] = Nothing /\ out[n] = Nothing
        /\ \A o \in Outputs : out[o] = Nothing /\ origin[o] = "nobody"
        /\ pc = "idle" /\ saved = {}
    BY DEF Init, Blank
  <1>3. ~IsMade(Nothing) /\ Nothing # Foreign
    BY ContentFacts
  <1>4. ExportsListed /\ AuxListed
    BY <1>2, <1>3 DEF ExportsListed, AuxListed
  <1>5. OutputsListed
    BY <1>2, <1>3 DEF OutputsListed
  <1> QED
    BY <1>1, <1>2, <1>3, <1>4, <1>5 DEF Complete, ForeignIsLog, ExportsCurrent

(* What was forgotten stays so.                                            *)
LEMMA ForgottenStays ==
    ASSUME [Next]_vars, ~forgotten', forgotten \in BOOLEAN
    PROVE  ~forgotten
  BY DEF Next, vars, Start, clean_owned_artifacts, RemoveJobDir, prepare_owned_exports,
     SavePrepared, SaveFails, EnginePass, EngineFails, CacheHit, ToolRuns, ToolFails,
     PublishSynctex, PublishPdf, PublishFails, SavePublished, update_aux_ownership,
     export_artifacts, SaveRetained, Kill, Evict, EditAux, EditOut, history

(* A publication leaves the exports and the auxiliary files alone.         *)
LEMMA PublicationFacts ==
    ASSUME OwnershipInv, PublishSynctex \/ PublishPdf
    PROVE  /\ \A n \in Names : out'[n] = out[n]
           /\ manifest'.exports = manifest.exports /\ manifest'.aux_files = manifest.aux_files
           /\ manifest'.owned = manifest.owned
  <1>1. Outputs \cap Names = {} /\ "pdf" \in Outputs /\ "synctex" \in Outputs
    BY NamesAssumption DEF Outputs
  <1>2. PICK o \in Outputs : Published(o) \/ Withdrawn(o)
    BY <1>1 DEF PublishSynctex, PublishPdf
  <1> QED
    BY <1>1, <1>2 DEF Published, Withdrawn, OwnershipInv, TypeOK, Manifests

(* An edit puts nothing there that texmk has made.                         *)
LEMMA EditOutFacts ==
    ASSUME OwnershipInv, NEW x \in Names \cup Outputs, NEW c \in {Nothing, Users, Foreign},
           EditOut(x, c)
    PROVE  /\ out'[x] = c /\ ~IsMade(c) /\ \A y \in (Names \cup Outputs) \ {x} : out'[y] = out[y]
           /\ UNCHANGED <<layout, aux, saved, pc, opt, manifest, trusted, recorded, made, forgotten>>
  BY ContentFacts DEF EditOut, OwnershipInv, TypeOK, build, IsMade, Users, Foreign, Nothing

\* Exports stay listed.
LEMMA ExportsStep ==
    ASSUME OwnershipInv, ExportsListed, [Next]_vars
    PROVE  ExportsListed'
  <1> SUFFICES ASSUME ~forgotten' PROVE ExportsListed'
    BY DEF ExportsListed
  <1>0. TypeOK /\ ~forgotten
    BY ForgottenStays DEF OwnershipInv, TypeOK
  <1>1. CASE \E options \in Options : Start(options)
    <2>1. /\ pc = "idle" /\ pc' \in {"clean", "prepare"} /\ UNCHANGED <<out, saved>>
          /\ manifest' \in (IF saved = {} THEN {FreshManifest} ELSE saved)
      BY <1>1 DEF Start, files
    <2> QED
      BY <1>0, <2>1 DEF ExportsListed, ExportsIn, Vanished, Before
  <1>2. CASE clean_owned_artifacts
    <2>1. \A n \in Names : ~IsMade(out'[n])
      <3> TAKE n \in Names
      <3>1. IsMade(out[n]) => n \in OwnedExports
        BY <1>0, <1>2, ContentFacts DEF clean_owned_artifacts, ExportsListed, ExportsIn, OwnedExports, Matches
      <3> QED
        BY <1>0, <1>2, <3>1, ContentFacts DEF clean_owned_artifacts, Without, TypeOK
    <2> QED
      BY <1>2, <2>1 DEF clean_owned_artifacts, ExportsListed, ExportsIn
  <1>3. CASE RemoveJobDir
    BY <1>0, <1>3 DEF RemoveJobDir, JobDirGone, Ended, ExportsListed, Vanished
  <1>4. CASE prepare_owned_exports
    <2>1. /\ pc = "prepare" /\ pc' = "save" /\ saved' = saved
          /\ \A n \in Names : out'[n] \in {out[n], Nothing}
          /\ \A n \in Names : n \in OwnedExports /\ ~Kept(n) => out'[n] = Nothing
          /\ \A n \in Names : n \in OwnedExports /\ Kept(n) => manifest'.exports[n] = manifest.exports[n]
      BY <1>0, <1>4 DEF prepare_owned_exports, Without, TypeOK, Manifests, Only, KeptExports
    <2>2. \A n \in Names : IsMade(out[n]) => n \in OwnedExports
      BY <1>0, <2>1, ContentFacts DEF ExportsListed, ExportsIn, OwnedExports, Matches
    <2>3. ~IsMade(Nothing)
      BY ContentFacts
    <2>4. ExportsIn(manifest)'
      BY <1>0, <2>1, <2>2, <2>3 DEF ExportsListed, ExportsIn
    <2> QED
      BY <1>0, <2>1, <2>3, <2>4 DEF ExportsListed, ExportsIn, Vanished, Before
  <1>5. CASE SavePrepared
    BY <1>0, <1>5 DEF SavePrepared, build, ExportsListed, ExportsIn, Vanished, Before
  <1>6. CASE SaveFails
    BY <1>0, <1>6 DEF SaveFails, Ended, files, ExportsListed, ExportsIn, Vanished, Before
  <1>7. CASE EnginePass \/ EngineFails \/ CacheHit \/ \E n \in Names : ToolRuns(n) \/ ToolFails(n)
    <2>1. /\ pc = "pass" /\ pc' \in {"pass", "publish_synctex", "retain"}
          /\ UNCHANGED <<out, saved, manifest>>
      BY <1>7 DEF EnginePass, EngineFails, CacheHit, ToolRuns, ToolFails, files
    <2> QED
      BY <1>0, <2>1 DEF ExportsListed, ExportsIn, Vanished, Before
  <1>8. CASE PublishSynctex \/ PublishPdf
    <2>1. /\ pc \in {"publish_synctex", "publish_pdf"} /\ pc' \in {"publish_pdf", "save_published"}
          /\ saved' = saved
      BY <1>8 DEF PublishSynctex, PublishPdf
    <2> QED
      BY <1>0, <1>8, <2>1, PublicationFacts DEF ExportsListed, ExportsIn, Vanished, Before
  <1>9. CASE PublishFails \/ Kill \/ Evict
    BY <1>9 DEF PublishFails, Kill, Evict
  <1>10. CASE SavePublished
    <2>1. /\ pc = "save_published" /\ out' = out /\ saved' \in {saved, {manifest}}
          /\ \/ pc' = "idle" /\ saved' = {manifest}
             \/ pc' = "retain" /\ manifest' = manifest
      BY <1>10 DEF SavePublished, Ended, files, build
    <2> QED
      BY <1>0, <2>1 DEF ExportsListed, ExportsIn, Vanished, Before
  <1>11. CASE update_aux_ownership
    <2>1. /\ pc = "retain" /\ pc' = "export" /\ UNCHANGED <<out, saved>>
          /\ manifest'.exports = manifest.exports
      BY <1>0, <1>11 DEF update_aux_ownership, files, TypeOK, Manifests
    <2> QED
      BY <1>0, <2>1 DEF ExportsListed, ExportsIn, Vanished, Before
  <1>12. CASE export_artifacts
    <2>1. /\ pc = "export" /\ pc' = "save_retained"
          /\ \A n \in Names : \/ out'[n] = out[n] /\ manifest'.exports[n] = manifest.exports[n]
                              \/ out'[n] = aux[n] /\ manifest'.exports[n] = aux[n]
      BY <1>0, <1>12 DEF export_artifacts, TypeOK, Manifests
    <2> QED
      BY <1>0, <2>1 DEF ExportsListed, ExportsIn, Vanished, Before
  <1>13. CASE SaveRetained
    <2>1. pc = "save_retained" /\ pc' = "idle" /\ out' = out /\ saved' = {manifest}
      BY <1>13 DEF SaveRetained, Ended, files
    <2> QED
      BY <1>0, <2>1 DEF ExportsListed, ExportsIn, Vanished, Before
  <1>14. CASE \E c \in {Nothing, Users} : \E n \in Names : EditAux(n, c)
    BY <1>0, <1>14 DEF EditAux, build, ExportsListed, ExportsIn, Vanished, Before
  <1>15. ASSUME NEW x \in Names \cup Outputs, NEW c \in {Nothing, Users, Foreign}, EditOut(x, c)
         PROVE  ExportsListed'
    <2>1. \A n \in Names : IsMade(out'[n]) => out'[n] = out[n]
      BY <1>15, EditOutFacts
    <2> QED
      BY <1>0, <1>15, <2>1, EditOutFacts DEF ExportsListed, ExportsIn, Vanished, Before
  <1>16. CASE UNCHANGED vars
    BY <1>0, <1>16 DEF vars, ExportsListed, ExportsIn, Vanished, Before
  <1> QED
    BY <1>1, <1>2, <1>3, <1>4, <1>5, <1>6, <1>7, <1>8, <1>9, <1>10, <1>11, <1>12, <1>13, <1>14,
       <1>15, <1>16, NamesAssumption DEF Next

(* During a command the user touches no file that it lays claim to.        *)
LEMMA EditAuxFacts ==
    ASSUME OwnershipInv, MidBuild \subseteq {"create"}, NEW n \in Names, NEW c \in {Nothing, Users},
           EditAux(n, c)
    PROVE  /\ aux'[n] = c /\ ~IsMade(c) /\ \A k \in Names \ {n} : aux'[k] = aux[k]
           /\ pc # "idle" => aux[n] = Nothing /\ n \notin trusted \cup recorded
           /\ layout # "managed"
           /\ UNCHANGED <<layout, out, saved, pc, opt, manifest, trusted, recorded, made, origin, forgotten>>
  BY ContentFacts
  DEF EditAux, Allowed, OwnershipInv, TypeOK, build, IsMade, Users, Nothing

\* So do auxiliary files, in the passes too.
LEMMA AuxStep ==
    ASSUME OwnershipInv, MidBuild \subseteq {"create"}, AuxListed, [Next]_vars
    PROVE  AuxListed'
  <1> SUFFICES ASSUME ~forgotten' PROVE AuxListed'
    BY DEF AuxListed
  <1>0. TypeOK /\ ~forgotten /\ ~IsMade(Nothing)
    BY ForgottenStays, ContentFacts DEF OwnershipInv, TypeOK
  <1>1. CASE \E options \in Options : Start(options)
    <2>1. /\ pc = "idle" /\ pc' \in {"clean", "prepare"} /\ UNCHANGED <<aux, saved>>
          /\ manifest' \in (IF saved = {} THEN {FreshManifest} ELSE saved)
      BY <1>1 DEF Start, files
    <2> QED
      BY <1>0, <2>1 DEF AuxListed, AuxIn, Vanished, Before
  <1>2. CASE clean_owned_artifacts
    <2>1. \A n \in Names : ~IsMade(aux'[n])
      <3> TAKE n \in Names
      <3>1. IsMade(aux[n]) => n \in OwnedAux
        BY <1>0, <1>2 DEF clean_owned_artifacts, AuxListed, AuxIn, OwnedAux, Matches
      <3> QED
        BY <1>0, <1>2, <3>1 DEF clean_owned_artifacts, Without, TypeOK
    <2> QED
      BY <1>2, <2>1 DEF clean_owned_artifacts, AuxListed, AuxIn, Before
  <1>3. CASE RemoveJobDir
    BY <1>0, <1>3 DEF RemoveJobDir, JobDirGone, Ended, AuxListed, Vanished, Blank
  <1>4. CASE prepare_owned_exports
    <2>1. /\ pc = "prepare" /\ pc' = "save" /\ UNCHANGED <<aux, saved>> /\ trusted' = OwnedAux
          /\ \A n \in OwnedAux : manifest'.aux_files[n] = manifest.aux_files[n]
      BY <1>0, <1>4 DEF prepare_owned_exports, TypeOK, Manifests, Only, OwnedAux
    <2>2. \A n \in Names : IsMade(aux[n]) => n \in OwnedAux
      BY <1>0, <2>1 DEF AuxListed, AuxIn, OwnedAux, Matches
    <2>3. \A n \in OwnedAux : Matches(aux[n], manifest.aux_files[n])
      BY DEF OwnedAux
    <2> QED
      BY <1>0, <2>1, <2>2, <2>3 DEF AuxListed, AuxIn, Vanished, Before, Matches
  <1>5. CASE SavePrepared
    <2>1. /\ pc = "save" /\ pc' = "pass" /\ UNCHANGED <<manifest, trusted, recorded>>
          /\ aux' = aux \/ (aux["aux"] = Nothing /\ aux' = [aux EXCEPT !["aux"] = Made(0)])
      BY <1>5 DEF SavePrepared, build
    <2>2. \A n \in Names : aux'[n] = aux[n] \/ (n = "aux" /\ aux[n] = Nothing /\ aux'[n] = Made(0))
      BY <1>0, <2>1 DEF TypeOK
    <2>3. AuxFollowed'
      BY <1>0, <2>1, <2>2 DEF AuxListed, AuxFollowed, Matches, TypeOK
    <2> QED
      BY <2>1, <2>3 DEF AuxListed, Vanished, Before
  <1>6. CASE SaveFails
    BY <1>0, <1>6 DEF SaveFails, Ended, files, AuxListed, AuxIn, Vanished, Before
  <1>7. CASE EnginePass \/ EngineFails \/ CacheHit \/ \E n \in Names : ToolRuns(n) \/ ToolFails(n)
    <2>1. /\ pc = "pass" /\ pc' \in {"pass", "publish_synctex", "retain"}
          /\ UNCHANGED <<trusted, manifest>>
      BY <1>7 DEF EnginePass, EngineFails, CacheHit, ToolRuns, ToolFails
    <2>2. /\ recorded \subseteq recorded'
          /\ \A n \in Names : aux'[n] = aux[n] \/ aux'[n] = Nothing \/ n \in recorded'
      <3>1. CASE EnginePass
        BY <3>1 DEF EnginePass, Written
      <3>2. CASE EngineFails
        BY <3>2 DEF EngineFails, Written
      <3>3. CASE CacheHit
        BY <3>3 DEF CacheHit, files
      <3>4. CASE \E n \in Names : ToolRuns(n)
        BY <3>4 DEF ToolRuns, Written
      <3>5. CASE \E n \in Names : ToolFails(n)
        BY <1>0, <3>5 DEF ToolFails, TypeOK
      <3> QED BY <1>7, <3>1, <3>2, <3>3, <3>4, <3>5
    <2>3. AuxFollowed'
      BY <1>0, <2>1, <2>2 DEF AuxListed, AuxFollowed, TypeOK
    <2> QED
      BY <2>1, <2>3 DEF AuxListed, Vanished, Before
  <1>8. CASE PublishSynctex \/ PublishPdf
    <2>1. /\ pc \in {"publish_synctex", "publish_pdf"} /\ pc' \in {"publish_pdf", "save_published"}
          /\ UNCHANGED <<aux, trusted, recorded>>
      BY <1>8 DEF PublishSynctex, PublishPdf
    <2> QED
      BY <1>0, <1>8, <2>1, PublicationFacts DEF AuxListed, AuxFollowed, Vanished, Before
  <1>9. CASE PublishFails \/ Kill \/ Evict
    BY <1>9 DEF PublishFails, Kill, Evict
  <1>10. CASE SavePublished
    <2>1. AuxFollowed
      BY <1>0, <1>10 DEF SavePublished, AuxListed
    <2>2. CASE Skips
      <3>1. /\ pc' = "idle" /\ aux' = aux /\ saved' = {manifest} /\ recorded = {} /\ ~TrivialAuxLeft
        BY <1>10, <2>2 DEF SavePublished, Ended, files
      <3>2. AuxIn(manifest)
        BY <1>0, <2>1, <3>1 DEF AuxFollowed, AuxIn, TrivialAuxLeft
      <3> QED
        BY <3>1, <3>2 DEF AuxListed, AuxIn, Vanished, Before
    <2>3. CASE ~Skips
      <3>1. pc' = "retain" /\ UNCHANGED <<aux, trusted, recorded, manifest>>
        BY <1>10, <2>3 DEF SavePublished, files, build
      <3> QED
        BY <2>1, <3>1 DEF AuxListed, AuxFollowed, Vanished, Before
    <2> QED BY <2>2, <2>3
  <1>11. CASE update_aux_ownership
    <2>1. /\ pc = "retain" /\ pc' = "export" /\ aux' = aux /\ ~TrivialAuxLeft
          /\ manifest'.aux_files = Only(aux, Claimed)
      BY <1>0, <1>11 DEF update_aux_ownership, files, TypeOK, Manifests
    <2>2. \A n \in Names : IsMade(aux[n]) => n \in Claimed
      BY <1>0, <2>1 DEF AuxListed, AuxFollowed, TrivialAuxLeft, Claimed
    <2>3. AuxIn(manifest)'
      BY <2>1, <2>2 DEF AuxIn, Only
    <2> QED
      BY <2>1, <2>3 DEF AuxListed, Vanished, Before
  <1>12. CASE export_artifacts
    <2>1. /\ pc = "export" /\ pc' = "save_retained" /\ aux' = aux
          /\ manifest'.aux_files = manifest.aux_files
      BY <1>0, <1>12 DEF export_artifacts, TypeOK, Manifests
    <2> QED
      BY <1>0, <2>1 DEF AuxListed, AuxIn, Vanished, Before
  <1>13. CASE SaveRetained
    <2>1. pc = "save_retained" /\ pc' = "idle" /\ aux' = aux /\ saved' = {manifest}
      BY <1>13 DEF SaveRetained, Ended, files
    <2> QED
      BY <1>0, <2>1 DEF AuxListed, AuxIn, Vanished, Before
  <1>14. ASSUME NEW n \in Names, NEW c \in {Nothing, Users}, EditAux(n, c)
         PROVE  AuxListed'
    <2>1. /\ \A k \in Names : IsMade(aux'[k]) => aux'[k] = aux[k]
          /\ pc # "idle" => \A k \in trusted : aux'[k] = aux[k]
          /\ UNCHANGED <<saved, pc, manifest, trusted, recorded>>
      BY <1>0, <1>14, EditAuxFacts DEF TypeOK
    <2> QED
      BY <1>0, <2>1 DEF AuxListed, AuxIn, AuxFollowed, Vanished, Before
  <1>15. ASSUME NEW x \in Names \cup Outputs, NEW c \in {Nothing, Users, Foreign}, EditOut(x, c)
         PROVE  AuxListed'
    BY <1>0, <1>15, EditOutFacts DEF AuxListed, AuxIn, AuxFollowed, Vanished, Before
  <1>16. CASE UNCHANGED vars
    BY <1>0, <1>16 DEF vars, AuxListed, AuxIn, AuxFollowed, Vanished, Before
  <1> QED
    BY <1>1, <1>2, <1>3, <1>4, <1>5, <1>6, <1>7, <1>8, <1>9, <1>10, <1>11, <1>12, <1>13, <1>14,
       <1>15, <1>16, NamesAssumption DEF Next

(* An output that is published or withdrawn.                               *)
LEMMA OutputPublished ==
    ASSUME OwnershipInv, \A o \in Outputs : origin[o] = "nobody" => out[o] = Nothing,
           OutputsIn(manifest), NEW o \in Outputs,
           (Published(o) /\ IsMade(staged[o])) \/ Withdrawn(o)
    PROVE  /\ \A x \in Outputs : origin'[x] = "nobody" => out'[x] = Nothing
           /\ OutputsIn(manifest)'
  <1>0. TypeOK /\ OutputsIn(manifest)
    BY DEF OwnershipInv
  <1>1. /\ \A x \in Outputs \ {o} : /\ out'[x] = out[x] /\ origin'[x] = origin[x]
                                    /\ manifest'.hash[x] = manifest.hash[x]
        /\ manifest'.owned = manifest.owned
    BY <1>0 DEF Published, Withdrawn, TypeOK, Manifests
  <1>2. CASE Published(o) /\ IsMade(staged[o])
    <2>1. /\ \/ out'[o] = staged[o] /\ manifest'.hash[o] = staged[o]
             \/ out'[o] = out[o] /\ manifest'.hash[o] = manifest.hash[o] /\ Visible(o)
          /\ origin'[o] = IF origin[o] = "nobody" THEN "texmk" ELSE origin[o]
      BY <1>0, <1>2 DEF Published, TypeOK, Manifests
    <2>2. Visible(o) => out[o] # Nothing
      BY <1>0 DEF Visible, Matches, TypeOK
    <2>3. origin'[o] # "nobody"
      BY <2>1
    <2> QED
      BY <1>0, <1>1, <2>1, <2>2, <2>3 DEF OutputsIn
  <1>3. CASE Withdrawn(o)
    <2>1. /\ o \in OwnedOutputs => out'[o] = Nothing /\ origin'[o] = "nobody"
          /\ o \notin OwnedOutputs => out'[o] = out[o] /\ origin'[o] = origin[o]
      BY <1>0, <1>3 DEF Withdrawn, TypeOK
    <2>2. IsMade(out[o]) /\ origin[o] = "texmk" => o \in OwnedOutputs
      BY <1>0, ContentFacts DEF OutputsIn, OwnedOutputs, Matches
    <2>3. o \in OwnedOutputs => manifest.owned[o]
      BY DEF OwnedOutputs
    <2>4. ~IsMade(Nothing)
      BY ContentFacts
    <2> QED
      BY <1>0, <1>1, <2>1, <2>2, <2>3, <2>4 DEF OutputsIn
  <1> QED
    BY <1>2, <1>3

\* And the PDF and the SyncTeX file.
LEMMA OutputsStep ==
    ASSUME OwnershipInv, MidBuild \subseteq {"create"}, OutputsListed, [Next]_vars
    PROVE  OutputsListed'
  <1>0. TypeOK /\ (~forgotten' => ~forgotten) /\ ~IsMade(Nothing)
    BY ForgottenStays, ContentFacts DEF OwnershipInv, TypeOK
  <1>1. CASE \E options \in Options : Start(options)
    <2>1. /\ pc = "idle" /\ pc' \in {"clean", "prepare"} /\ UNCHANGED <<out, saved, origin, forgotten>>
          /\ manifest' \in (IF saved = {} THEN {FreshManifest} ELSE saved)
      BY <1>1 DEF Start, files, history
    <2>2. \A o \in Outputs : FreshManifest.owned[o] = (out[o] = Nothing)
      BY DEF FreshManifest
    <2>3. \A o \in Outputs : origin[o] = "nobody" => out[o] = Nothing
      BY DEF OutputsListed
    <2> SUFFICES ASSUME ~forgotten'
                 PROVE  OutputsIn(manifest)' /\ (\A m \in saved : OutputsIn(m)')
                        /\ (saved = {} => \A o \in Outputs : origin[o] # "texmk")
      BY <2>1, <2>3 DEF OutputsListed, Vanished, Before
    <2>4. \A m \in saved : OutputsIn(m)
      BY <1>0, <2>1 DEF OutputsListed, Before
    <2>5. saved = {} => \A o \in Outputs : origin[o] # "texmk"
      BY <1>0, <2>1 DEF OutputsListed, Vanished, Before
    <2>6. \A m : OutputsIn(m) => OutputsIn(m)'
      BY <2>1 DEF OutputsIn
    <2>7. OutputsIn(manifest)'
      <3>1. CASE saved = {}
        <4>1. manifest' = FreshManifest
          BY <2>1, <3>1
        <4>2. \A o \in Outputs : origin[o] \in {"user", "nobody"}
          BY <1>0, <2>5, <3>1 DEF TypeOK
        <4> QED BY <2>1, <2>2, <2>3, <4>1, <4>2 DEF OutputsIn
      <3>2. CASE saved # {}
        <4>1. manifest' \in saved
          BY <2>1, <3>2
        <4> QED BY <2>1, <2>4, <4>1 DEF OutputsIn
      <3> QED BY <3>1, <3>2
    <2> QED BY <2>4, <2>5, <2>6, <2>7
  <1>2. CASE clean_owned_artifacts
    <2>1. \A o \in Outputs : origin'[o] # "texmk" /\ (origin'[o] = "nobody" => out'[o] = Nothing)
      BY <1>0, <1>2 DEF clean_owned_artifacts, Without, TypeOK
    <2> QED
      BY <1>2, <2>1 DEF clean_owned_artifacts, OutputsListed, OutputsIn, Vanished, Before
  <1>3. CASE RemoveJobDir
    BY <1>0, <1>3 DEF RemoveJobDir, JobDirGone, Ended, history, OutputsListed, Vanished
  <1>4. CASE prepare_owned_exports
    <2>1. /\ pc = "prepare" /\ pc' = "save" /\ UNCHANGED <<saved, origin, forgotten>>
          /\ \A o \in Outputs : out'[o] = out[o]
          /\ manifest'.hash = manifest.hash /\ manifest'.owned = manifest.owned
      BY <1>0, <1>4, NamesAssumption
      DEF prepare_owned_exports, Without, TypeOK, Manifests, OwnedExports, Outputs, history
    <2> QED
      BY <1>0, <2>1 DEF OutputsListed, OutputsIn, Vanished, Before
  <1>5. CASE SavePrepared
    BY <1>0, <1>5 DEF SavePrepared, build, history, OutputsListed, OutputsIn, Vanished, Before
  <1>6. CASE SaveFails
    BY <1>0, <1>6 DEF SaveFails, Ended, files, OutputsListed, OutputsIn, Vanished, Before
  <1>7. CASE EnginePass \/ EngineFails \/ CacheHit \/ \E n \in Names : ToolRuns(n) \/ ToolFails(n)
    <2>1. /\ pc = "pass" /\ pc' \in {"pass", "publish_synctex", "retain"}
          /\ UNCHANGED <<out, saved, manifest, origin, forgotten>>
      BY <1>7 DEF EnginePass, EngineFails, CacheHit, ToolRuns, ToolFails, files, history
    <2> QED
      BY <1>0, <2>1 DEF OutputsListed, OutputsIn, Vanished, Before
  <1>8. CASE PublishSynctex \/ PublishPdf
    <2>1. /\ pc \in {"publish_synctex", "publish_pdf"} /\ pc' \in {"publish_pdf", "save_published"}
          /\ forgotten' = forgotten
          /\ \E o \in Outputs : (Published(o) /\ IsMade(staged[o])) \/ Withdrawn(o)
      BY <1>8 DEF PublishSynctex, PublishPdf, OwnershipInv, Outputs
    <2>2. CASE forgotten
      <3>1. PICK o \in Outputs : (Published(o) /\ IsMade(staged[o])) \/ Withdrawn(o)
        BY <2>1
      <3>2. \A x \in Outputs \ {o} : out'[x] = out[x] /\ origin'[x] = origin[x]
        BY <1>0, <3>1 DEF Published, Withdrawn, TypeOK
      <3>3. origin'[o] = "nobody" => out'[o] = Nothing
        BY <1>0, <3>1 DEF Published, Withdrawn, TypeOK, OutputsListed
      <3> QED
        BY <2>1, <2>2, <3>2, <3>3 DEF OutputsListed
    <2>3. CASE ~forgotten
      <3>1. OutputsIn(manifest)
        BY <2>1, <2>3 DEF OutputsListed
      <3>2. (\A x \in Outputs : origin'[x] = "nobody" => out'[x] = Nothing) /\ OutputsIn(manifest)'
        BY <2>1, <3>1, OutputPublished DEF OutputsListed
      <3> QED
        BY <2>1, <3>2 DEF OutputsListed, Vanished, Before
    <2> QED BY <1>0, <2>2, <2>3 DEF TypeOK
  <1>9. CASE PublishFails \/ Kill \/ Evict
    <2>1. UNCHANGED <<out, origin>> /\ forgotten'
      BY <1>9 DEF PublishFails, Kill, Evict, files
    <2> QED
      BY <2>1 DEF OutputsListed
  <1>10. CASE SavePublished
    <2>1. /\ pc = "save_published" /\ UNCHANGED <<out, origin>>
          /\ \/ pc' = "idle" /\ (saved' = {manifest} \/ forgotten')
             \/ pc' = "retain" /\ manifest' = manifest
      BY <1>10 DEF SavePublished, Ended, files, build
    <2> QED
      BY <1>0, <2>1 DEF OutputsListed, OutputsIn, Vanished, Before
  <1>11. CASE update_aux_ownership \/ export_artifacts
    <2>1. /\ pc \in {"retain", "export"} /\ pc' \in {"export", "save_retained"} /\ origin' = origin
          /\ manifest'.hash = manifest.hash /\ manifest'.owned = manifest.owned
          /\ \A o \in Outputs : out'[o] = out[o]
      <3>1. Outputs \cap Exported = {}
        BY NamesAssumption DEF Exported, Generated, Outputs
      <3> QED
        BY <1>0, <1>11, <3>1 DEF update_aux_ownership, export_artifacts, files, history, TypeOK, Manifests
    <2> QED
      BY <1>0, <2>1 DEF OutputsListed, OutputsIn, Vanished, Before
  <1>12. CASE SaveRetained
    <2>1. /\ pc = "save_retained" /\ pc' = "idle" /\ UNCHANGED <<out, origin>>
          /\ saved' = {manifest} \/ forgotten'
      BY <1>12 DEF SaveRetained, Ended, files
    <2> QED
      BY <1>0, <2>1 DEF OutputsListed, OutputsIn, Vanished, Before
  <1>13. ASSUME NEW n \in Names, NEW c \in {Nothing, Users}, EditAux(n, c)
         PROVE  OutputsListed'
    BY <1>0, <1>13, EditAuxFacts DEF OutputsListed, OutputsIn, Vanished, Before
  <1>14. ASSUME NEW x \in Names \cup Outputs, NEW c \in {Nothing, Users, Foreign}, EditOut(x, c)
         PROVE  OutputsListed'
    <2>1. /\ \A o \in Outputs \ {x} : out'[o] = out[o] /\ origin'[o] = origin[o]
          /\ x \in Outputs => /\ ~IsMade(out'[x]) /\ origin'[x] \in {"nobody", "user"}
                              /\ origin'[x] = "nobody" => /\ origin[x] = "texmk" \/ saved = {}
                                                          /\ pc = "idle"
                                                          /\ out'[x] = Nothing
          /\ UNCHANGED <<saved, pc, manifest, forgotten>>
      <3>1. /\ out'[x] = c /\ ~IsMade(c)
            /\ \A y \in (Names \cup Outputs) \ {x} : out'[y] = out[y]
            /\ UNCHANGED <<saved, pc, manifest, forgotten>>
        BY <1>0, <1>14, EditOutFacts
      <3>2. \A o \in Outputs : origin'[o] = IF o # x THEN origin[o]
                                            ELSE IF c = Nothing /\ (origin[o] = "texmk" \/ saved = {})
                                                 THEN "nobody" ELSE "user"
        BY <1>14 DEF EditOut
      <3>3. c = Nothing => pc = "idle"
        BY <1>14 DEF EditOut, Allowed
      <3> QED
        BY <3>1, <3>2, <3>3
    <2> QED
      BY <1>0, <2>1 DEF OutputsListed, OutputsIn, Vanished, Before
  <1>15. CASE UNCHANGED vars
    BY <1>0, <1>15 DEF vars, OutputsListed, OutputsIn, Vanished, Before
  <1> QED
    BY <1>1, <1>2, <1>3, <1>4, <1>5, <1>6, <1>7, <1>8, <1>9, <1>10, <1>11, <1>12, <1>13, <1>14,
       <1>15, NamesAssumption DEF Next

\* A log is all that another TeX leaves.
LEMMA ForeignStep ==
    ASSUME OwnershipInv, ForeignIsLog, [Next]_vars
    PROVE  ForeignIsLog'
  <1>0. Nothing # Foreign /\ Users # Foreign /\ IsUsers(Foreign) /\ out \in [Names \cup Outputs -> Contents]
    BY ContentFacts DEF OwnershipInv, TypeOK
  <1>1. CASE UNCHANGED out
    BY <1>1 DEF ForeignIsLog
  <1>2. CASE clean_owned_artifacts \/ prepare_owned_exports
    <2>1. \A n \in Names : out'[n] \in {out[n], Nothing}
      BY <1>0, <1>2 DEF clean_owned_artifacts, prepare_owned_exports, Without
    <2> QED
      BY <1>0, <2>1 DEF ForeignIsLog
  <1>3. CASE PublishSynctex \/ PublishPdf
    BY <1>3, PublicationFacts DEF ForeignIsLog
  <1>4. CASE export_artifacts
    <2>1. \A n \in Names : out'[n] = out[n] \/ (n \in Exported /\ out'[n] = aux[n])
      BY <1>0, <1>4 DEF export_artifacts
    <2> QED
      BY <1>0, <2>1, ExportedFacts DEF ForeignIsLog
  <1>5. ASSUME NEW x \in Names \cup Outputs, NEW c \in {Nothing, Users}, EditOut(x, c)
        PROVE  ForeignIsLog'
    BY <1>0, <1>5, EditOutFacts DEF ForeignIsLog
  <1>6. CASE EditOut("log", Foreign)
    BY <1>6, EditOutFacts, NamesAssumption DEF ForeignIsLog
  <1>7. (\/ \E options \in Options : Start(options)
         \/ RemoveJobDir \/ SavePrepared \/ SaveFails \/ EnginePass \/ EngineFails \/ CacheHit
         \/ \E n \in Names : ToolRuns(n) \/ ToolFails(n)
         \/ PublishFails \/ SavePublished \/ update_aux_ownership \/ SaveRetained \/ Kill \/ Evict
         \/ \E c \in {Nothing, Users} : \E n \in Names : EditAux(n, c)
         \/ UNCHANGED vars) => UNCHANGED out
    BY DEF Start, RemoveJobDir, SavePrepared, SaveFails, EnginePass, EngineFails, CacheHit,
       ToolRuns, ToolFails, PublishFails, SavePublished, update_aux_ownership, SaveRetained, Kill,
       Evict, EditAux, vars, files
  <1> QED
    BY <1>1, <1>2, <1>3, <1>4, <1>5, <1>6, <1>7 DEF Next

(* What is not exported is a file of the user's: what texmk made is in the *)
(* manifest, and what another TeX made is a transcript.                    *)
LEMMA ExportedAll ==
    ASSUME Complete, ~forgotten, layout # "same", export_artifacts, NEW n \in Generated, Kept(n)
    PROVE  out'[n] \in {aux[n], Users}
  <1>0. /\ TypeOK /\ n \in Names /\ out[n] \in Contents /\ pc = "export"
    BY DEF Complete, OwnershipInv, TypeOK, Generated, export_artifacts
  <1>1. CASE n \in Exported
    BY <1>0, <1>1 DEF export_artifacts, TypeOK
  <1>2. CASE n \notin Exported
    <2>1. ~MayOverwrite(n)
      BY <1>2 DEF Exported
    <2>2. ~IsMade(out[n])
      BY <1>0, <2>1, ContentFacts DEF MayOverwrite, Matches, Complete, ExportsListed, ExportsIn
    <2>3. out[n] \notin {Nothing, Foreign}
      BY <1>0, <2>1 DEF MayOverwrite, Complete, ForeignIsLog
    <2>4. out[n] = Users
      BY <1>0, <2>2, <2>3, ContentFacts DEF Contents
    <2> QED
      BY <1>0, <1>2, <2>4 DEF export_artifacts, TypeOK
  <1> QED
    BY <1>1, <1>2

\* An export is current when export_artifacts has run.
LEMMA ExportsCurrentStep ==
    ASSUME Complete, MidBuild \subseteq {"create"}, [Next]_vars
    PROVE  ExportsCurrent'
  <1>0. OwnershipInv /\ ExportsCurrent /\ TypeOK
    BY DEF Complete, OwnershipInv
  <1> SUFFICES ASSUME pc' = "save_retained", layout' # "same", ~forgotten' PROVE ExportsCurrent'
    BY DEF ExportsCurrent
  <1>1. ~forgotten
    BY <1>0, ForgottenStays DEF TypeOK
  <1>2. CASE export_artifacts
    <2>1. UNCHANGED <<layout, aux, opt, trusted, recorded>>
      BY <1>2 DEF export_artifacts
    <2>2. \A n \in Generated : Kept(n) => out'[n] \in {aux[n], Users}
      BY <1>1, <1>2, <2>1, ExportedAll
    <2> QED
      BY <2>1, <2>2 DEF ExportsCurrent, Generated, Kept
  <1>3. ASSUME NEW n \in Names, NEW c \in {Nothing, Users}, EditAux(n, c)
        PROVE  ExportsCurrent'
    <2>1. /\ pc = "save_retained" /\ layout # "same" /\ n \notin trusted \cup recorded
          /\ layout # "managed" /\ UNCHANGED <<layout, out, opt, trusted, recorded>>
          /\ \A k \in Names \ {n} : aux'[k] = aux[k]
      BY <1>0, <1>3, EditAuxFacts
    <2> QED
      BY <1>0, <1>1, <2>1 DEF ExportsCurrent, Generated, Kept
  <1>4. ASSUME NEW x \in Names \cup Outputs, NEW c \in {Nothing, Users, Foreign}, EditOut(x, c)
        PROVE  ExportsCurrent'
    <2>1. /\ pc = "save_retained" /\ layout # "same"
          /\ UNCHANGED <<layout, aux, opt, trusted, recorded>>
          /\ \A k \in Names \ {x} : out'[k] = out[k]
      BY <1>0, <1>4, EditOutFacts
    <2>2. out[x] = Nothing
      BY <1>4, <2>1 DEF EditOut, Allowed
    <2>3. \A n \in Generated : Kept(n) => n \in Names /\ out[n] \in {aux[n], Users} /\ aux[n] # Nothing
      BY <1>0, <1>1, <2>1 DEF ExportsCurrent, Generated
    <2>4. \A n \in Generated : Kept(n) => n # x
      BY <2>2, <2>3, ContentFacts
    <2> QED
      BY <2>1, <2>3, <2>4 DEF ExportsCurrent, Generated, Kept
  <1>5. CASE UNCHANGED vars
    BY <1>0, <1>5 DEF vars, ExportsCurrent, Generated, Kept
  <1>6. ~(\/ \E options \in Options : Start(options)
          \/ clean_owned_artifacts \/ RemoveJobDir \/ prepare_owned_exports \/ SavePrepared \/ SaveFails
          \/ EnginePass \/ EngineFails \/ CacheHit \/ \E n \in Names : ToolRuns(n) \/ ToolFails(n)
          \/ PublishSynctex \/ PublishPdf \/ PublishFails \/ SavePublished
          \/ update_aux_ownership \/ SaveRetained \/ Kill \/ Evict)
    BY DEF Start, clean_owned_artifacts, RemoveJobDir, prepare_owned_exports, SavePrepared, SaveFails,
       EnginePass, EngineFails, CacheHit, ToolRuns, ToolFails, PublishSynctex, PublishPdf,
       PublishFails, SavePublished, update_aux_ownership, SaveRetained, Kill, Evict, Ended, build
  <1> QED
    BY <1>2, <1>3, <1>4, <1>5, <1>6, NamesAssumption DEF Next

\* Every step keeps what texmk has made listed.
LEMMA CompleteStep ==
    ASSUME Complete, MidBuild \subseteq {"create"}, [Next]_vars
    PROVE  Complete'
  BY NextKeeps, ExportsStep, AuxStep, OutputsStep, ForeignStep, ExportsCurrentStep DEF Complete

(* A build that was asked for exports leaves each of them as the auxiliary *)
(* file is, unless a file of the user's stands there (export_artifacts),   *)
(* for all names, layouts, sequences of builds and cleans, and faults that *)
(* do not make texmk forget what it wrote.                                 *)
THEOREM ExportsAreCurrent == MidBuild \subseteq {"create"} /\ Spec => []ExportsCurrent
  <1> SUFFICES ASSUME MidBuild \subseteq {"create"} PROVE Spec => []ExportsCurrent
    OBVIOUS
  <1>1. Complete /\ [Next]_vars => Complete'
    BY CompleteStep
  <1>2. Complete => ExportsCurrent
    BY DEF Complete
  <1> QED
    BY <1>1, <1>2, CompleteInit, PTL DEF Spec

(* What one step of a clean may leave.                                     *)
Cleaned1 ==
    pc = "clean" /\ pc' = "cleaned" /\ ~forgotten =>
        /\ \A n \in Names : ~IsMade(aux'[n]) /\ ~IsMade(out'[n])
        /\ opt = "C" => \A o \in Outputs : IsMade(out[o]) /\ origin[o] = "texmk"
                                            => out'[o] = Nothing

\* With the invariant, a single clean removes all of it.
LEMMA StepCleans ==
    ASSUME Complete, Complete', [Next]_vars
    PROVE  Cleaned1
  <1> SUFFICES ASSUME pc = "clean", pc' = "cleaned", ~forgotten PROVE Cleaned1
    BY DEF Cleaned1
  <1>1. clean_owned_artifacts
    BY DEF Next, vars, Start, RemoveJobDir, prepare_owned_exports, SavePrepared, SaveFails,
       EnginePass, EngineFails, CacheHit, ToolRuns, ToolFails, PublishSynctex, PublishPdf,
       PublishFails, SavePublished, update_aux_ownership, export_artifacts, SaveRetained, Kill,
       Evict, EditAux, EditOut, Ended
  <1>2. forgotten' = forgotten
    BY <1>1 DEF clean_owned_artifacts
  <1>3. \A n \in Names : ~IsMade(aux'[n]) /\ ~IsMade(out'[n])
    BY <1>2 DEF Complete, ExportsListed, AuxListed, Vanished
  <1>4. ASSUME opt = "C", NEW o \in Outputs, IsMade(out[o]), origin[o] = "texmk" PROVE out'[o] = Nothing
    <2>1. o \in OwnedOutputs
      BY <1>4, ContentFacts DEF Complete, OutputsListed, OutputsIn, OwnedOutputs, Matches
    <2> QED
      BY <1>1, <1>4, <2>1 DEF clean_owned_artifacts, Without, Complete, OwnershipInv, TypeOK
  <1> QED
    BY <1>3, <1>4 DEF Cleaned1

(* A clean leaves no auxiliary file and no export that a build made, and   *)
(* -C no unchanged output at a place that is texmk's, over all sequences   *)
(* of builds, cleans, edits and faults in which texmk was not made to      *)
(* forget (clean_owned_artifacts).                                         *)
THEOREM CleansAreComplete == MidBuild \subseteq {"create"} /\ Spec => CleanIsComplete
  <1> SUFFICES ASSUME MidBuild \subseteq {"create"} PROVE Spec => CleanIsComplete
    OBVIOUS
  <1>1. Complete /\ [Next]_vars => Complete'
    BY CompleteStep
  <1>2. Complete /\ Complete' /\ [Next]_vars => [Cleaned1]_vars
    BY StepCleans
  <1>3. Spec => [][Cleaned1]_vars
    BY <1>1, <1>2, CompleteInit, PTL DEF Spec
  <1> QED
    BY <1>3 DEF CleanIsComplete, Cleaned1
=============================================================================
