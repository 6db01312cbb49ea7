------------------------------- MODULE Assets -------------------------------
(***************************************************************************)
(* The start of the plugin: the catalog of the feedback rules, and one     *)
(* verification module with the check of its assets against manifest.tsv   *)
(* (src/index.ts:271-340, module-typescript/src/index.ts, Catalog.ts).     *)
(* Files are read one by one while the disk may change.                    *)
(***************************************************************************)
EXTENDS Integers, FiniteSets

CONSTANTS
  Kind,      \* asset file -> "patterns", "skills" or "guidance"
  Required,  \* kind -> the number of units of the shipped tree
  MaxEdits   \* changes of the disk (bound)

Files == DOMAIN Kind
Kinds == {"patterns", "skills", "guidance"}
PatternFiles == {f \in Files : Kind[f] = "patterns"}

ASSUME AssetsAssumption == Kind \in [Files -> Kinds] /\ MaxEdits \in Nat

\* What a file may hold: the shipped text, another of the same size, or
\* another size, which as a pattern does not parse; or there is no file.
FileContents == {"shipped", "replaced", "resized"}
OnDisk == FileContents \cup {"absent"}
Size(c) == IF c = "resized" THEN 2 ELSE 1
Hash(c) == c
Parses(c) == c # "resized"

StartPhases ==
  {"feedback", "import", "manifest", "rows", "inventory", "verdict", "patterns",
   "loaded", "failed", "dead"}

VARIABLES
  disk,       \* file -> what it holds
  manifest,   \* the rows of manifest.tsv, with the size and hash of the shipped text
  sound,      \* it is there, and has no bad cell and no duplicate
  startup,    \* where the start of the plugin is
  todo,       \* files still to read in this phase
  unlisted,   \* kinds whose directory was walked, with the files found
  mismatch,   \* some check of the manifest failed
  catalog,    \* files of the detectors of the module
  feedback,   \* files of the detectors of the feedback rules
  edits,      \* changes of the disk so far
  moved,      \* the disk changed after the manifest was read (history)
  hidden      \* a directory could not be read and counted as empty (history)

assetVars ==
  <<disk, manifest, sound, startup, todo, unlisted, mismatch, catalog, feedback, edits, moved, hidden>>

AssetsInit ==
  /\ disk \in [Files -> OnDisk]
  /\ manifest \in SUBSET Files
  /\ sound \in BOOLEAN
  /\ startup = "feedback"
  /\ todo = {f \in PatternFiles : disk[f] # "absent"}
  /\ unlisted = Kinds
  /\ mismatch = FALSE
  /\ catalog = {}
  /\ feedback = {}
  /\ edits = 0
  /\ moved = FALSE
  /\ hidden = FALSE

Drift ==
  /\ edits < MaxEdits
  /\ startup \notin {"loaded", "failed", "dead"}
  /\ \E f \in Files, c \in OnDisk : disk' = [disk EXCEPT ![f] = c]
  /\ edits' = edits + 1
  /\ moved' = (moved \/ startup \notin {"feedback", "import", "manifest"})
  /\ UNCHANGED <<manifest, sound, startup, todo, unlisted, mismatch, catalog, feedback, hidden>>

\* loadPatterns reads the files it listed in any order; one that is gone,
\* unreadable or malformed fails it whole, which leaves the feedback rules
\* with an empty catalog.
ReadFeedback ==
  /\ startup = "feedback"
  /\ \/ \E f \in todo :
          /\ disk[f] # "absent" /\ Parses(disk[f])
          /\ todo' = todo \ {f}
          /\ feedback' = feedback \cup {f}
          /\ startup' = startup
     \/ /\ feedback' = {}
        /\ startup' = "import"
        /\ UNCHANGED todo
     \/ /\ todo = {}
        /\ startup' = "import"
        /\ UNCHANGED <<todo, feedback>>
  /\ UNCHANGED <<disk, manifest, sound, unlisted, mismatch, catalog, edits, moved, hidden>>

\* An unknown module or one without a factory is recorded as a failure. An
\* import that rejects is a defect, which orElseSucceed does not take.
Import ==
  /\ startup = "import"
  /\ startup' \in {"manifest", "failed", "dead"}
  /\ UNCHANGED <<disk, manifest, sound, todo, unlisted, mismatch, catalog, feedback, edits, moved, hidden>>

ReadManifest ==
  /\ startup = "manifest"
  /\ \/ /\ ~sound
        /\ startup' = "failed"
        /\ UNCHANGED todo
     \/ /\ sound
        /\ startup' = "rows"
        /\ todo' = manifest
  /\ UNCHANGED <<disk, manifest, sound, unlisted, mismatch, catalog, feedback, edits, moved, hidden>>

\* A mutant: the size stands for the content.
SameSize(c) == c # "absent" /\ Size(c) = Size("shipped")

\* missing, size-drift, unreadable, content-drift
Matches(c) ==
  /\ c # "absent"
  /\ Size(c) = Size("shipped")
  /\ Hash(c) = Hash("shipped")

CheckRow ==
  /\ startup = "rows"
  /\ \/ \E f \in todo :
          /\ todo' = todo \ {f}
          /\ mismatch' \in {TRUE, mismatch \/ ~Matches(disk[f])}
          /\ startup' = startup
     \/ /\ todo = {}
        /\ startup' = "inventory"
        /\ UNCHANGED <<todo, mismatch>>
  /\ UNCHANGED <<disk, manifest, sound, unlisted, catalog, feedback, edits, moved, hidden>>

\* The directory of a kind is walked; one that cannot be read is empty.
WalkKind ==
  /\ startup = "inventory"
  /\ \E k \in unlisted :
       LET extra == {f \in Files : Kind[f] = k /\ disk[f] # "absent"} \ manifest IN
       /\ unlisted' = unlisted \ {k}
       /\ \/ mismatch' = (mismatch \/ extra # {}) /\ hidden' = hidden
          \/ mismatch' = mismatch /\ hidden' = TRUE
  /\ UNCHANGED <<disk, manifest, sound, startup, todo, catalog, feedback, edits, moved>>

CountsDiffer == \E k \in Kinds : Cardinality({f \in manifest : Kind[f] = k}) # Required[k]

VerifyAssets ==
  /\ startup = "inventory"
  /\ unlisted = {}
  /\ \/ /\ mismatch \/ CountsDiffer
        /\ startup' = "failed"
        /\ UNCHANGED todo
     \/ /\ ~mismatch /\ ~CountsDiffer
        /\ startup' = "patterns"
        /\ todo' = {f \in PatternFiles : disk[f] # "absent"}    \* readDirectory
  /\ UNCHANGED <<disk, manifest, sound, unlisted, mismatch, catalog, feedback, edits, moved, hidden>>

LoadPatterns ==
  /\ startup = "patterns"
  /\ \/ \E f \in todo :
          /\ disk[f] # "absent" /\ Parses(disk[f])
          /\ todo' = todo \ {f}
          /\ catalog' = catalog \cup {f}
          /\ startup' = startup
     \/ /\ catalog' = {}
        /\ startup' = "failed"
        /\ UNCHANGED todo
     \/ /\ todo = {}
        /\ startup' = "loaded"
        /\ UNCHANGED <<todo, catalog>>
  /\ UNCHANGED <<disk, manifest, sound, unlisted, mismatch, feedback, edits, moved, hidden>>

AssetsNext ==
  Drift \/ ReadFeedback \/ Import \/ ReadManifest \/ CheckRow \/ WalkKind
  \/ VerifyAssets \/ LoadPatterns

AssetsSpec == AssetsInit /\ [][AssetsNext]_assetVars

AssetsTypeOK ==
  /\ disk \in [Files -> OnDisk]
  /\ manifest \subseteq Files
  /\ startup \in StartPhases
  /\ todo \subseteq Files
  /\ unlisted \subseteq Kinds
  /\ {sound, mismatch, moved, hidden} \subseteq BOOLEAN
  /\ catalog \subseteq PatternFiles /\ feedback \subseteq PatternFiles
  /\ edits \in 0 .. MaxEdits

(* A module that was constructed has the assets of its manifest, byte for  *)
(* byte up to the fingerprint, no file beside them, the counts it requires *)
(* and a detector for every pattern, unless the disk changed under the     *)
(* checks or a directory was unreadable, which the walk takes for empty    *)
(* (module-typescript/src/index.ts:107-246, Catalog.ts:278-350).           *)
LoadedAssetsAreShipped ==
  startup = "loaded" /\ ~moved =>
    /\ \A f \in manifest : disk[f] = "shipped"
    /\ ~hidden => \A f \in Files \ manifest : disk[f] = "absent"
    /\ ~CountsDiffer
    /\ manifest \cap PatternFiles \subseteq catalog
    /\ ~hidden => catalog = manifest \cap PatternFiles
=============================================================================
