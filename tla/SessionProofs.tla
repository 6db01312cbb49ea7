--------------------------- MODULE SessionProofs ----------------------------
(***************************************************************************)
(* Proofs about the parts of the plugin that watch one session: the assets *)
(* it starts from, the verdict of a verification, the reviews of the critic, *)
(* and the hooks around the calls of a tool.                               *)
(***************************************************************************)
EXTENDS Assets, Verdict, Critic, Hooks, TLAPS, SequenceTheorems, FiniteSetTheorems

-----------------------------------------------------------------------------

(***************************************************************************)
(* The start (Assets): what was checked is what is loaded, as long as the  *)
(* disk has not moved since the manifest was read.                         *)
(***************************************************************************)

Starting == {"feedback", "import", "manifest"}
Listed == {f \in PatternFiles : disk[f] # "absent"}

\* No check of the manifest has failed so far.
Sustained ==
  startup \in {"patterns", "loaded"} \/ (startup = "inventory" /\ ~mismatch)

\* What is read as patterns was listed as patterns.
PatternsToRead == startup \in {"feedback", "patterns"} => todo \subseteq PatternFiles

\* Before the walk all kinds are to be listed and no detector is loaded.
Unwalked == startup \in Starting \cup {"rows"} => unlisted = Kinds /\ ~hidden /\ catalog = {}

KindsCounted == startup \in {"patterns", "loaded"} => unlisted = {} /\ ~CountsDiffer

\* The rows that were read hold what the manifest says.
RowsAgree ==
  ~moved =>
    /\ startup = "rows" /\ ~mismatch => \A f \in manifest \ todo : disk[f] = "shipped"
    /\ Sustained => \A f \in manifest : disk[f] = "shipped"

\* The kinds that were walked have no file beside it.
NothingBeside ==
  ~moved /\ ~hidden /\ Sustained =>
    \A f \in Files \ manifest : Kind[f] \in unlisted \/ disk[f] = "absent"

\* The patterns that are there are loaded or still to read.
CatalogIsWhole ==
  ~moved =>
    /\ startup = "patterns" => Listed = todo \cup catalog
    /\ startup = "loaded" => Listed = catalog

AssetsInv ==
  /\ AssetsTypeOK
  /\ startup = "inventory" => catalog = {}
  /\ PatternsToRead
  /\ Unwalked
  /\ KindsCounted
  /\ RowsAgree
  /\ NothingBeside
  /\ CatalogIsWhole


LEMMA AssetsStart == AssetsInit => AssetsInv
<1> SUFFICES ASSUME AssetsInit PROVE AssetsInv
  OBVIOUS
<1>1. {sound, mismatch, moved, hidden} \subseteq BOOLEAN
  BY DEF AssetsInit
<1>2. edits \in 0 .. MaxEdits
  BY AssetsAssumption DEF AssetsInit
<1>3. AssetsTypeOK
  BY <1>1, <1>2 DEF AssetsInit, AssetsTypeOK, StartPhases, PatternFiles
<1> QED BY <1>3
        DEF AssetsInit, AssetsInv, PatternsToRead, Unwalked, KindsCounted,
            RowsAgree, NothingBeside, CatalogIsWhole, Sustained, Starting

LEMMA AssetsStand ==
  ASSUME AssetsInv, UNCHANGED assetVars PROVE AssetsInv'
<1>1. AssetsTypeOK'
  BY DEF AssetsInv, assetVars, AssetsTypeOK
<1> QED BY <1>1
        DEF AssetsInv, assetVars, PatternsToRead, Unwalked, KindsCounted, RowsAgree, NothingBeside,
            CatalogIsWhole, Sustained, Listed, CountsDiffer

LEMMA DriftPreserves == ASSUME AssetsInv, Drift PROVE AssetsInv'
<1>1. AssetsTypeOK'
  <2>1. moved' \in BOOLEAN
    BY DEF Drift
  <2>2. edits' \in 0 .. MaxEdits
    BY AssetsAssumption DEF Drift, AssetsInv, AssetsTypeOK
  <2> QED BY <2>1, <2>2 DEF Drift, AssetsInv, AssetsTypeOK
<1>2. startup \in Starting \/ moved'
  BY DEF Drift, Starting
<1>3. /\ startup' = startup /\ startup # "loaded"
      /\ UNCHANGED <<unlisted, hidden, catalog, manifest, todo, mismatch>>
  BY DEF Drift
<1>4. moved' \/ startup' \in Starting
  BY <1>2, <1>3
<1>5. CountsDiffer' = CountsDiffer
  BY <1>3 DEF CountsDiffer
<1> QED BY <1>1, <1>3, <1>4, <1>5
        DEF AssetsInv, PatternsToRead, Unwalked, KindsCounted, RowsAgree, NothingBeside, CatalogIsWhole,
            Sustained, Starting

LEMMA ReadFeedbackPreserves == ASSUME AssetsInv, ReadFeedback PROVE AssetsInv'
<1>1. /\ startup' \in {"feedback", "import"} /\ startup = "feedback"
      /\ UNCHANGED <<disk, manifest, sound, unlisted, mismatch, catalog, edits, moved, hidden>>
      /\ todo' \subseteq todo
      /\ feedback' \subseteq feedback \cup todo
  BY DEF ReadFeedback
<1>2. todo \subseteq PatternFiles
  BY <1>1 DEF AssetsInv, PatternsToRead
<1>3. AssetsTypeOK'
  BY <1>1, <1>2 DEF AssetsInv, AssetsTypeOK, StartPhases
<1> QED BY <1>1, <1>2, <1>3
        DEF AssetsInv, PatternsToRead, Unwalked, KindsCounted, RowsAgree, NothingBeside, CatalogIsWhole,
            Sustained, Starting

LEMMA ImportPreserves == ASSUME AssetsInv, Import PROVE AssetsInv'
<1>1. AssetsTypeOK'
  BY DEF Import, AssetsInv, AssetsTypeOK, StartPhases
<1> QED BY <1>1
        DEF Import, AssetsInv, PatternsToRead, Unwalked, KindsCounted, RowsAgree, NothingBeside,
            CatalogIsWhole, Sustained, Starting

LEMMA ReadManifestPreserves == ASSUME AssetsInv, ReadManifest PROVE AssetsInv'
<1>1. AssetsTypeOK'
  BY DEF ReadManifest, AssetsInv, AssetsTypeOK, StartPhases
<1>2. /\ startup = "manifest"
      /\ startup' = "failed" \/ (startup' = "rows" /\ todo' = manifest)
      /\ UNCHANGED <<disk, manifest, unlisted, catalog, moved, hidden>>
  BY DEF ReadManifest
<1> QED BY <1>1, <1>2
        DEF AssetsInv, PatternsToRead, Unwalked, KindsCounted, RowsAgree, NothingBeside,
            CatalogIsWhole, Sustained, Starting

LEMMA CheckRowPreserves == ASSUME AssetsInv, CheckRow PROVE AssetsInv'
<1>1. /\ startup = "rows" /\ mismatch' \in BOOLEAN
      /\ startup' \in {"rows", "inventory"}
      /\ todo' \subseteq todo
      /\ UNCHANGED <<disk, manifest, sound, unlisted, catalog, feedback, edits, moved, hidden>>
  BY DEF CheckRow, AssetsInv, AssetsTypeOK
<1>2. AssetsTypeOK'
  BY <1>1 DEF AssetsInv, AssetsTypeOK, StartPhases
<1>3. RowsAgree'
  <2>1. CASE startup' = "rows"
    <3>1. PICK f \in todo : /\ todo' = todo \ {f}
                            /\ mismatch' \in {TRUE, mismatch \/ ~Matches(disk[f])}
      BY <1>1, <2>1 DEF CheckRow
    <3>2. ASSUME ~mismatch' PROVE ~mismatch /\ disk[f] = "shipped"
      BY <3>1, <3>2 DEF Matches, Hash
    <3> QED BY <1>1, <2>1, <3>1, <3>2 DEF AssetsInv, RowsAgree, Sustained
  <2>2. CASE startup' = "inventory"
    <3>1. todo = {} /\ mismatch' = mismatch
      BY <1>1, <2>2 DEF CheckRow
    <3> QED BY <1>1, <2>2, <3>1 DEF AssetsInv, RowsAgree, Sustained
  <2> QED BY <1>1, <2>1, <2>2
<1>4. NothingBeside'
  BY <1>1, AssetsAssumption
     DEF AssetsInv, Unwalked, NothingBeside, Sustained, Starting, AssetsTypeOK, Files
<1> QED BY <1>1, <1>2, <1>3, <1>4
        DEF AssetsInv, PatternsToRead, Unwalked, KindsCounted, CatalogIsWhole, Starting

LEMMA WalkKindPreserves == ASSUME AssetsInv, WalkKind PROVE AssetsInv'
<1> DEFINE Extra(k) == {f \in Files : Kind[f] = k /\ disk[f] # "absent"} \ manifest
<1> PICK k \in unlisted :
      /\ unlisted' = unlisted \ {k}
      /\ \/ mismatch' = (mismatch \/ Extra(k) # {}) /\ hidden' = hidden
         \/ mismatch' = mismatch /\ hidden' = TRUE
  BY DEF WalkKind
<1>1. /\ startup = "inventory" /\ startup' = startup
      /\ unlisted' = unlisted \ {k} /\ mismatch' \in BOOLEAN /\ hidden' \in BOOLEAN
      /\ UNCHANGED <<disk, manifest, sound, startup, todo, catalog, feedback, edits, moved>>
  BY DEF WalkKind, AssetsInv, AssetsTypeOK
<1>2. AssetsTypeOK'
  BY <1>1 DEF AssetsInv, AssetsTypeOK, StartPhases
<1>3. /\ ~mismatch' => ~mismatch
      /\ ~hidden' => ~hidden
      /\ ~mismatch' /\ ~hidden' =>
           \A f \in Files \ manifest : Kind[f] = k => disk[f] = "absent"
  <2>1. Extra(k) = {} => \A f \in Files \ manifest : Kind[f] = k => disk[f] = "absent"
    OBVIOUS
  <2> HIDE DEF Extra
  <2>2. CASE mismatch' = (mismatch \/ Extra(k) # {}) /\ hidden' = hidden
    BY <2>1, <2>2
  <2>3. CASE mismatch' = mismatch /\ hidden' = TRUE
    BY <2>3
  <2> QED BY <2>2, <2>3
<1>4. RowsAgree' /\ NothingBeside'
  BY <1>1, <1>3 DEF AssetsInv, RowsAgree, NothingBeside, Sustained
<1> QED BY <1>1, <1>2, <1>4
        DEF AssetsInv, PatternsToRead, Unwalked, KindsCounted, CatalogIsWhole, Starting

LEMMA VerifyAssetsPreserves == ASSUME AssetsInv, VerifyAssets PROVE AssetsInv'
<1>1. /\ startup = "inventory" /\ unlisted = {} /\ catalog = {}
      /\ UNCHANGED <<disk, manifest, sound, unlisted, mismatch, catalog, feedback, edits, moved, hidden>>
  BY DEF VerifyAssets, AssetsInv
<1>2. CountsDiffer' = CountsDiffer
  BY <1>1 DEF CountsDiffer
<1>3. CASE startup' = "failed" /\ todo' = todo
  <2>1. AssetsTypeOK'
    BY <1>1, <1>3 DEF AssetsInv, AssetsTypeOK, StartPhases
  <2> QED BY <1>1, <1>3, <2>1
          DEF AssetsInv, PatternsToRead, Unwalked, KindsCounted, RowsAgree, NothingBeside,
              CatalogIsWhole, Sustained, Starting
<1>4. CASE ~mismatch /\ ~CountsDiffer /\ startup' = "patterns" /\ todo' = Listed
  <2>1. Listed' = Listed /\ Listed \subseteq PatternFiles /\ PatternFiles \subseteq Files
    BY <1>1 DEF Listed, PatternFiles
  <2>2. AssetsTypeOK'
    BY <1>1, <1>4, <2>1 DEF AssetsInv, AssetsTypeOK, StartPhases
  <2> QED BY <1>1, <1>2, <1>4, <2>1, <2>2
          DEF AssetsInv, PatternsToRead, Unwalked, KindsCounted, RowsAgree, NothingBeside,
              CatalogIsWhole, Sustained, Starting
<1> QED BY <1>3, <1>4 DEF VerifyAssets, Listed

LEMMA LoadPatternsPreserves == ASSUME AssetsInv, LoadPatterns PROVE AssetsInv'
<1>1. /\ startup = "patterns" /\ startup' \in {"patterns", "failed", "loaded"}
      /\ UNCHANGED <<disk, manifest, sound, unlisted, mismatch, feedback, edits, moved, hidden>>
      /\ todo' \subseteq todo /\ catalog' \subseteq catalog \cup todo
      /\ startup' = "patterns" => todo' \cup catalog' = todo \cup catalog
      /\ startup' = "loaded" => todo' = {} /\ catalog' = catalog /\ todo = {}
  BY DEF LoadPatterns
<1>2. todo \subseteq PatternFiles /\ Listed' = Listed /\ CountsDiffer' = CountsDiffer
  BY <1>1 DEF AssetsInv, PatternsToRead, Listed, CountsDiffer
<1>3. AssetsTypeOK'
  BY <1>1, <1>2 DEF AssetsInv, AssetsTypeOK, StartPhases
<1>4. CatalogIsWhole'
  BY <1>1, <1>2 DEF AssetsInv, CatalogIsWhole
<1> QED BY <1>1, <1>2, <1>3, <1>4
        DEF AssetsInv, PatternsToRead, Unwalked, KindsCounted, RowsAgree, NothingBeside,
            Sustained, Starting

LEMMA AssetsInductive == ASSUME AssetsInv, [AssetsNext]_assetVars PROVE AssetsInv'
BY AssetsStand, DriftPreserves, ReadFeedbackPreserves, ImportPreserves, ReadManifestPreserves,
   CheckRowPreserves, WalkKindPreserves, VerifyAssetsPreserves, LoadPatternsPreserves
   DEF AssetsNext

LEMMA AssetsInvariant == AssetsSpec => []AssetsInv
<1> QED BY AssetsStart, AssetsInductive, PTL DEF AssetsSpec

(* The start reads a pattern only where it listed one, and the phases, the *)
(* catalogs and what is left to read are of their types for every tree of  *)
(* assets (src/index.ts:271-340, Catalog.ts:278-350).                      *)
THEOREM AssetsTypeCorrect == AssetsSpec => []AssetsTypeOK
<1>1. AssetsInv => AssetsTypeOK
  BY DEF AssetsInv
<1> QED BY <1>1, AssetsInvariant, PTL

(* Whatever the disk held and however it changed before the manifest was   *)
(* read, a module that was constructed has the assets of its manifest and  *)
(* no others that a walk could see, and a detector for each pattern        *)
(* (module-typescript/src/index.ts:107-246, Catalog.ts:278-350).           *)
THEOREM AssetsAreShipped == AssetsSpec => []LoadedAssetsAreShipped
<1>1. ASSUME AssetsInv, startup = "loaded", ~moved
      PROVE  LoadedAssetsAreShipped
  <2>1. /\ unlisted = {} /\ ~CountsDiffer /\ Sustained
        /\ \A f \in manifest : disk[f] = "shipped"
        /\ ~hidden => \A f \in Files \ manifest : disk[f] = "absent"
        /\ Listed = catalog
    BY <1>1 DEF AssetsInv, KindsCounted, RowsAgree, NothingBeside, CatalogIsWhole, Sustained
  <2>2. manifest \cap PatternFiles \subseteq Listed
    BY <2>1 DEF Listed
  <2>3. ~hidden => Listed \subseteq manifest \cap PatternFiles
    BY <2>1 DEF Listed, PatternFiles
  <2> QED BY <1>1, <2>1, <2>2, <2>3 DEF LoadedAssetsAreShipped
<1>2. AssetsInv => LoadedAssetsAreShipped
  BY <1>1 DEF LoadedAssetsAreShipped
<1> QED BY <1>2, AssetsInvariant, PTL

-----------------------------------------------------------------------------

(***************************************************************************)
(* The verdict of one verification (Verdict).                              *)
(***************************************************************************)

\* A checker runs only while the run waits for it, and one that passed ended
\* with 0 before its timeout.
ChecksFit ==
  \A m \in Modules :
    /\ process[m] \in {"running", "timed out"} => step = "checks" /\ result[m] = "none" /\ m \in Resolved
    /\ result[m] = "passed" => m \in clean /\ process[m] = "settled"
    /\ result[m] = "absent" => CheckOf[m] = "none"

\* What each stage of the run found is told by the next ones.
StagesFit ==
  /\ step = "start" => touched = {}
  /\ skills >= 0
  /\ step \in {"scan", "review", "done"} =>
       /\ \A m \in Resolved : result[m] # "none"
       /\ Resolved \cap Scanned # {} => env.reads \/ scan = "error"
  /\ broken # {} => scan = "error" /\ step \notin {"start", "checks"}
  /\ step \in {"scan", "review", "done"} =>
       \A m \in (Resolved \cap Scanned) \ unscanned :
         m \in broken \/ (env.reads => Readings(m) \subseteq mute \cup scanned)
  /\ step \in {"review", "done"} =>
       /\ unscanned = {}
       /\ semantic # "none"
       /\ env.required /\ ~env.reviewer => semantic = "error"

ReportFits ==
  /\ report = "none" <=> step # "done"
  /\ report # "none" => report = Overall

VerdictInv == VerdictTypeOK /\ ChecksFit /\ StagesFit /\ ReportFits

-----------------------------------------------------------------------------

LEMMA VerdictInitHolds == VerdictInit => VerdictInv
<1> SUFFICES ASSUME VerdictInit PROVE VerdictInv
  OBVIOUS
<1>1. VerdictTypeOK
  BY DEF VerdictInit, VerdictTypeOK, Processes, Sources
<1>2. ChecksFit /\ StagesFit /\ ReportFits
  BY DEF VerdictInit, ChecksFit, StagesFit, ReportFits
<1> QED BY <1>1, <1>2 DEF VerdictInv

\* While the checkers run, nothing has been scanned, reviewed or reported.
LEMMA CheckingKeeps ==
  ASSUME VerdictInv, step = "checks", step' = step,
         UNCHANGED <<request, scan, semantic, report, looks>>,
         VerdictTypeOK', ChecksFit'
  PROVE  VerdictInv'
BY DEF VerdictInv, StagesFit, ReportFits, request, looks

LEMMA BeginRunKeeps ==
  ASSUME VerdictInv, BeginRun
  PROVE  VerdictInv'
<1>1. VerdictTypeOK'
  <2>1. skills' \in Int /\ touched' \subseteq Sources /\ step' = "checks"
        /\ env' \in [reads : BOOLEAN, reviewer : BOOLEAN, required : BOOLEAN]
    BY DEF BeginRun
  <2> QED BY <2>1 DEF VerdictInv, VerdictTypeOK, BeginRun, looks
<1>2. \A m \in Modules : process[m] \notin {"running", "timed out"}
  BY DEF VerdictInv, ChecksFit, BeginRun
<1>3. ChecksFit' /\ ReportFits'
  BY <1>2 DEF VerdictInv, ChecksFit, ReportFits, BeginRun, looks
<1>4. StagesFit'
  BY VerdictAssumption DEF VerdictInv, StagesFit, BeginRun, looks
<1> QED BY <1>1, <1>3, <1>4 DEF VerdictInv

LEMMA CheckKeeps ==
  ASSUME VerdictInv, NEW m \in Modules, Check(m)
  PROVE  VerdictInv'
<1>1. VerdictTypeOK'
  BY DEF VerdictInv, VerdictTypeOK, Check, request, Processes, looks
<1>2. ChecksFit'
  BY DEF VerdictInv, VerdictTypeOK, ChecksFit, Check, request, Resolved
<1> QED BY <1>1, <1>2, CheckingKeeps DEF Check, request, looks

\* A checker that ends settles its verdict.
LEMMA SettleKeeps ==
  ASSUME VerdictInv, NEW m \in Modules, process[m] \in {"running", "timed out"},
         NEW exit \in {0, 1, NoExit}, NEW late \in BOOLEAN, Settle(m, exit, late),
         clean' = IF exit = 0 /\ ~late THEN clean \cup {m} ELSE clean
  PROVE  VerdictInv'
<1>1. step = "checks"
  BY DEF VerdictInv, ChecksFit
<1>2. /\ Classify(exit, late) \in {"passed", "failed", "error"}
      /\ Classify(exit, late) = "passed" => exit = 0 /\ ~late
  BY DEF Classify, NoExit
<1>3. VerdictTypeOK'
  <2>1. /\ process' \in [Modules -> Processes] /\ clean' \subseteq Modules
        /\ result' \in [Modules -> {"none", "absent", "passed", "failed", "error"}]
    BY <1>2 DEF VerdictInv, VerdictTypeOK, Settle, Processes
  <2> QED BY <2>1 DEF VerdictInv, VerdictTypeOK, Settle, request, looks
<1>4. ChecksFit'
  BY <1>1, <1>2 DEF VerdictInv, VerdictTypeOK, ChecksFit, Settle, request, Resolved
<1> QED BY <1>1, <1>3, <1>4, CheckingKeeps DEF Settle, request, looks

LEMMA TimerKeeps ==
  ASSUME VerdictInv, NEW m \in Modules, Timer(m)
  PROVE  VerdictInv'
<1>1. step = "checks"
  BY DEF VerdictInv, ChecksFit, Timer
<1>2. VerdictTypeOK'
  BY DEF VerdictInv, VerdictTypeOK, Timer, request, Processes, looks
<1>3. ChecksFit'
  BY DEF VerdictInv, VerdictTypeOK, ChecksFit, Timer, request, Resolved
<1> QED BY <1>1, <1>2, <1>3, CheckingKeeps DEF Timer, request, looks

LEMMA InterruptRunKeeps ==
  ASSUME VerdictInv, InterruptRun
  PROVE  VerdictInv'
<1>1. VerdictTypeOK'
  BY DEF VerdictInv, VerdictTypeOK, InterruptRun, request, Processes, looks
<1>2. ChecksFit'
  BY DEF VerdictInv, VerdictTypeOK, ChecksFit, InterruptRun, request, Resolved, Processes
<1>3. StagesFit' /\ ReportFits'
  BY DEF VerdictInv, StagesFit, ReportFits, InterruptRun, request, looks, Readings
<1> QED BY <1>1, <1>2, <1>3 DEF VerdictInv

LEMMA BeginScanKeeps ==
  ASSUME VerdictInv, BeginScan
  PROVE  VerdictInv'
<1>1. VerdictTypeOK'
  BY DEF VerdictInv, VerdictTypeOK, BeginScan, request, Resolved, looks
<1>2. ChecksFit'
  BY DEF VerdictInv, ChecksFit, BeginScan, request, Resolved
<1>3. Resolved \cap Scanned # {} => touched # {}
  BY DEF Resolved
<1>4. StagesFit' /\ ReportFits'
  BY <1>3 DEF VerdictInv, VerdictTypeOK, StagesFit, ReportFits, BeginScan, request, Resolved, looks, Readings
<1> QED BY <1>1, <1>2, <1>4 DEF VerdictInv

LEMMA ScanKeeps ==
  ASSUME VerdictInv, NEW m \in Modules, Scan(m)
  PROVE  VerdictInv'
<1>1. VerdictTypeOK'
  BY DEF VerdictInv, VerdictTypeOK, Scan, request, looks, Readings, Resolved, Sources
<1>2. ChecksFit'
  BY DEF VerdictInv, ChecksFit, Scan, request, Resolved
<1>3. StagesFit' /\ ReportFits'
  BY DEF VerdictInv, StagesFit, ReportFits, Scan, request, Resolved, looks, Readings
<1> QED BY <1>1, <1>2, <1>3 DEF VerdictInv

LEMMA ReviewKeeps ==
  ASSUME VerdictInv, Review
  PROVE  VerdictInv'
<1>1. VerdictTypeOK'
  BY DEF VerdictInv, VerdictTypeOK, Review, request, ReviewVerdicts, looks
<1>2. ChecksFit'
  BY DEF VerdictInv, ChecksFit, Review, request, Resolved
<1>3. StagesFit' /\ ReportFits'
  BY DEF VerdictInv, StagesFit, ReportFits, Review, request, Resolved, ReviewVerdicts, looks, Readings
<1> QED BY <1>1, <1>2, <1>3 DEF VerdictInv

LEMMA OverallStays ==
  ASSUME UNCHANGED <<request, process, result, scan, semantic>>
  PROVE  Overall' = Overall
BY DEF request, Overall, Erring, Failing, Verdicts, Evidence, CodeDetected, Checked, Resolved

LEMMA ReportKeeps ==
  ASSUME VerdictInv, Report
  PROVE  VerdictInv'
<1>1. Overall \in {"error", "failed", "passed"}
  BY DEF Overall
<1>2. VerdictTypeOK'
  BY <1>1 DEF VerdictInv, VerdictTypeOK, Report, request, looks
<1>3. ChecksFit'
  BY DEF VerdictInv, ChecksFit, Report, request, Resolved
<1>4. StagesFit'
  BY DEF VerdictInv, StagesFit, Report, request, Resolved, looks, Readings
<1>5. ReportFits'
  BY <1>1, OverallStays DEF VerdictInv, ReportFits, Report
<1> QED BY <1>2, <1>3, <1>4, <1>5 DEF VerdictInv

LEMMA VerdictStep == VerdictInv /\ [VerdictNext]_verdictVars => VerdictInv'
<1> SUFFICES ASSUME VerdictInv, [VerdictNext]_verdictVars PROVE VerdictInv'
  OBVIOUS
<1>1. CASE BeginRun
  BY <1>1, BeginRunKeeps
<1>2. CASE BeginScan
  BY <1>2, BeginScanKeeps
<1>3. CASE Review
  BY <1>3, ReviewKeeps
<1>4. CASE Report
  BY <1>4, ReportKeeps
<1>5. CASE InterruptRun
  BY <1>5, InterruptRunKeeps
<1>6. ASSUME NEW m \in Modules, Check(m) PROVE VerdictInv'
  BY <1>6, CheckKeeps
<1>7. ASSUME NEW m \in Modules, Close(m) PROVE VerdictInv'
  <2>1. PICK exit \in {0, 1} :
          Settle(m, exit, FALSE) /\ clean' = IF exit = 0 THEN clean \cup {m} ELSE clean
    BY <1>7 DEF Close
  <2> QED BY <1>7, <2>1, SettleKeeps DEF Close
<1>8. ASSUME NEW m \in Modules, ExecFails(m) PROVE VerdictInv'
  <2>1. NoExit # 0
    BY DEF NoExit
  <2> QED BY <1>8, <2>1, SettleKeeps DEF ExecFails
<1>9. ASSUME NEW m \in Modules, Timer(m) PROVE VerdictInv'
  BY <1>9, TimerKeeps
<1>10. ASSUME NEW m \in Modules, CloseLate(m) PROVE VerdictInv'
  <2>1. PICK exit \in {0, 1} : Settle(m, exit, TRUE) /\ clean' = clean
    BY <1>10 DEF CloseLate
  <2> QED BY <1>10, <2>1, SettleKeeps DEF CloseLate
<1>11. ASSUME NEW m \in Modules, Scan(m) PROVE VerdictInv'
  BY <1>11, ScanKeeps
<1>12. CASE UNCHANGED verdictVars
  <2>1. VerdictTypeOK' /\ ChecksFit'
    BY <1>12 DEF verdictVars, request, VerdictInv, VerdictTypeOK, ChecksFit, Resolved
  <2>2. StagesFit'
    BY <1>12 DEF verdictVars, request, VerdictInv, StagesFit, Resolved, looks, Readings
  <2>3. ReportFits'
    BY <1>12, OverallStays DEF verdictVars, VerdictInv, ReportFits, request
  <2> QED BY <2>1, <2>2, <2>3 DEF VerdictInv
<1> QED
  BY <1>1, <1>2, <1>3, <1>4, <1>5, <1>6, <1>7, <1>8, <1>9, <1>10, <1>11, <1>12
  DEF VerdictNext

LEMMA VerdictInvInductive == VerdictSpec => []VerdictInv
BY VerdictInitHolds, VerdictStep, PTL DEF VerdictSpec

\* A passed report: nothing erred, nothing failed, and something was checked.
LEMMA PassedIsClean ==
  ASSUME VerdictInv, report = "passed"
  PROVE  PassedMeansChecked
<1>1. ~Erring /\ ~Failing /\ step = "done"
  BY DEF VerdictInv, ReportFits, Overall
<1>2. \A m \in Checked : m \in clean /\ process[m] = "settled"
  <2> TAKE m \in Checked
  <2>1. m \in Modules /\ result[m] \in Verdicts /\ m \in Resolved
    BY DEF Checked, Resolved, Verdicts
  <2>2. result[m] \notin {"failed", "error", "none", "absent"}
    BY <1>1, <2>1 DEF Erring, Failing, VerdictInv, StagesFit, Checked
  <2>3. result[m] = "passed"
    BY <2>1, <2>2 DEF VerdictInv, VerdictTypeOK
  <2> QED BY <2>1, <2>3 DEF VerdictInv, ChecksFit
<1>3. \E m \in Resolved : m \in clean
  <2>1. Checked # {}
    BY <1>1 DEF Erring, Verdicts
  <2> QED BY <1>2, <2>1 DEF Checked
<1>4. \A m \in Resolved : m \in clean \/ CheckOf[m] = "none"
  BY <1>2 DEF Checked, VerdictInv, ChecksFit, Resolved
<1>5. /\ broken = {}
      /\ \A m \in Resolved \cap Scanned : env.reads /\ Readings(m) \subseteq mute \cup scanned
      /\ env.required => env.reviewer
      /\ semantic \notin {"failed", "error", "none"}
  BY <1>1 DEF Erring, Failing, VerdictInv, StagesFit
<1>6. (\E m \in Resolved : CheckOf[m] \in CodeChecks) => skills >= MinSkills
  <2> SUFFICES ASSUME NEW m \in Resolved, CheckOf[m] \in CodeChecks
               PROVE  skills >= MinSkills
    OBVIOUS
  <2>1. m \in Checked
    BY DEF Checked, VerdictInv, ChecksFit, CodeChecks, Resolved
  <2>2. CodeDetected
    BY <1>2, <2>1 DEF CodeDetected
  <2>3. skills \in Int /\ skills >= 0
    BY DEF VerdictInv, VerdictTypeOK, StagesFit
  <2> QED BY <1>1, <2>2, <2>3, VerdictAssumption DEF Failing, Evidence
<1> QED BY <1>3, <1>4, <1>5, <1>6 DEF PassedMeansChecked

(* Every reachable state of a verification run (Orchestrator.ts:86-311) is *)
(* well typed.                                                             *)
THEOREM VerdictTypeCorrect == VerdictSpec => []VerdictTypeOK
<1>1. VerdictInv => VerdictTypeOK
  BY DEF VerdictInv
<1> QED BY <1>1, VerdictInvInductive, PTL

(* A report says passed only when every checker that applies ended with 0  *)
(* in time, all was scanned and reviewed as required, nothing failed, and  *)
(* code comes with its skills (Report.ts:110-120), for any modules, kinds  *)
(* of checkers, files and order of exits and timers.                       *)
THEOREM PassedReportsAreChecked == VerdictSpec => []PassedMeansChecked
<1>1. VerdictInv => PassedMeansChecked
  BY PassedIsClean DEF PassedMeansChecked
<1> QED BY <1>1, VerdictInvInductive, PTL

-----------------------------------------------------------------------------

(***************************************************************************)
(* The reviews (Critic): the sink holds a run of texts of each session it  *)
(* has, up to the last one consumed; a child is registered exactly while   *)
(* it is prompted and awaited, and what runs on was given up.              *)
(***************************************************************************)

SinkRows == [session : Sessions, text : Seq(Events)]

\* The stream has the events of a session that are published and not yet
\* consumed, in order.
StreamFits ==
  /\ \A s \in Sessions : fed[s] <= said[s]
  /\ \A i \in 1 .. Len(stream) :
       fed[stream[i].session] < stream[i].text /\ stream[i].text <= said[stream[i].session]
  /\ \A i, j \in 1 .. Len(stream) :
       i < j /\ stream[i].session = stream[j].session => stream[i].text < stream[j].text
  /\ \A s \in Sessions : \A n \in 1 .. MaxTexts :
       fed[s] < n /\ n <= said[s] =>
         \E i \in 1 .. Len(stream) : stream[i] = [session |-> s, text |-> n]

\* A run of a session up to the event number last, from the first on unless
\* the session was pushed out.
RunTo(s, events, last, out) ==
  \E first \in 1 .. MaxTexts :
    /\ IsRun(s, events, first)
    /\ first = 1 \/ out
    /\ first + Len(events) - 1 = last

SinkFits ==
  /\ \A i \in 1 .. Len(sink) :
       RunTo(sink[i].session, sink[i].text, fed[sink[i].session], sink[i].session \in evicted)
  /\ \A s \in Sessions : Buffers(s) = {} => fed[s] = 0 \/ s \in evicted

GivenUp(r) == stage[r] \in {"failed", "done"} /\ answer[r] \in {"none", "error", "unavailable"}

\* One review: the child is registered exactly while it is prompted and
\* awaited, and what runs on was given up.
ReviewFits(r) ==
  /\ r \in origins <=> stage[r] \in {"prompt", "wait"}
  /\ child[r] = "generating" => stage[r] = "wait" \/ GivenUp(r)
  /\ stage[r] = "transcript" => child[r] = "ended"
  /\ answer[r] # "none" => stage[r] = "done"
  /\ r \in mutated => GivenUp(r)
  /\ stage[r] \in {"save", "completed"} \/ answer[r] = "decoded" =>
       HeardChild(r) /\ child[r] # "generating"
  /\ stage[r] = "completed" \/ answer[r] = "decoded" => r \in saved

\* What the journal has of a review was written when it ended.
JournalFits ==
  /\ \A e \in journal : stage[e.review] = "done" /\ (e.decoded => answer[e.review] = "decoded")
  /\ \A e, f \in journal : e.review = f.review => e = f

CriticInv ==
  /\ CriticTypeOK
  /\ StreamFits
  /\ SinkFits
  /\ \A r \in Reviews : ReviewFits(r)
  /\ JournalFits

LEMMA CriticStart == CriticInit => CriticInv
<1> SUFFICES ASSUME CriticInit PROVE CriticInv
  OBVIOUS
<1>1. CriticTypeOK
  BY CriticAssumption DEF CriticInit, CriticTypeOK, Stages, Answers
<1>2. stream = <<>> /\ sink = <<>> /\ Len(stream) = 0 /\ Len(sink) = 0
  BY DEF CriticInit
<1>3. StreamFits /\ SinkFits
  <2>1. said = [s \in Sessions |-> 0] /\ fed = [s \in Sessions |-> 0]
    BY DEF CriticInit
  <2>2. \A s \in Sessions : said[s] = 0 /\ fed[s] = 0
    BY <2>1
  <2>3. \A n \in 1 .. MaxTexts : ~(n <= 0)
    BY CriticAssumption
  <2> QED BY <1>2, <2>2, <2>3 DEF StreamFits, SinkFits
<1> QED BY <1>1, <1>3 DEF CriticInit, CriticInv, ReviewFits, JournalFits

\* What the stream and the sink hold depends on nothing else.
LEMMA StreamStands ==
  ASSUME StreamFits, SinkFits, UNCHANGED <<said, stream, sinkVars>>
  PROVE  StreamFits' /\ SinkFits'
BY DEF StreamFits, SinkFits, sinkVars, Buffers, RunTo

LEMMA CriticStands == ASSUME CriticInv, UNCHANGED criticVars PROVE CriticInv'
<1>1. CriticTypeOK'
  BY DEF CriticInv, criticVars, CriticTypeOK
<1>2. StreamFits' /\ SinkFits'
  BY StreamStands DEF CriticInv, criticVars, sinkVars
<1> QED BY <1>1, <1>2 DEF CriticInv, criticVars, ReviewFits, JournalFits, HeardChild, GivenUp

\* A review nothing happens to.
LEMMA ReviewStands ==
  ASSUME NEW q \in Reviews, ReviewFits(q),
         stage'[q] = stage[q], answer'[q] = answer[q], heard'[q] = heard[q],
         child'[q] = child[q] \/ child'[q] = "ended",
         said'[q] = said[q] \/ child[q] = "generating",
         q \in origins' <=> q \in origins, q \in saved => q \in saved',
         q \in evicted => q \in evicted', q \in hasty => q \in hasty',
         q \in mutated' => q \in mutated
  PROVE  ReviewFits(q)'
<1>1. ASSUME child[q] # "generating", HeardChild(q) PROVE HeardChild(q)'
  BY <1>1 DEF HeardChild
<1> QED BY <1>1 DEF ReviewFits, GivenUp

\* A step that neither ends a review nor journals anything.
LEMMA JournalStands ==
  ASSUME JournalFits, journal' = journal,
         \A q : stage[q] = "done" => stage'[q] = "done" /\ answer'[q] = answer[q]
  PROVE  JournalFits'
BY DEF JournalFits

\* The sink with an event more: each row is the one it was, with the event at
\* its end, or only the event.
LEMMA FilledRows ==
  ASSUME CriticTypeOK, NEW event \in Events
  PROVE  /\ Filled(event) \in Seq(SinkRows)
         /\ Len(Filled(event)) <= Len(sink) + 1
         /\ \A i \in 1 .. Len(Filled(event)) :
              \/ /\ i \in 1 .. Len(sink) /\ sink[i].session = event.session
                 /\ Filled(event)[i] = [session |-> event.session, text |-> Append(sink[i].text, event)]
              \/ /\ i \in 1 .. Len(sink) /\ sink[i].session # event.session
                 /\ Filled(event)[i] = sink[i]
              \/ /\ Buffers(event.session) = {}
                 /\ Filled(event)[i] = [session |-> event.session, text |-> <<event>>]
         /\ \A i \in 1 .. Len(sink) :
              i \in 1 .. Len(Filled(event)) /\ Filled(event)[i].session = sink[i].session
         /\ \E i \in 1 .. Len(Filled(event)) : Filled(event)[i].session = event.session
<1>1. sink \in Seq(SinkRows) /\ Len(sink) \in Nat
  BY DEF CriticTypeOK, SinkRows
<1>2. event.session \in Sessions
  BY DEF Events
<1>3. \A i \in 1 .. Len(sink) : i \in Buffers(event.session) <=> sink[i].session = event.session
  BY DEF Buffers
<1>4. CASE Buffers(event.session) # {}
  <2> DEFINE F(i) == IF i \in Buffers(event.session)
                     THEN [session |-> event.session, text |-> Append(sink[i].text, event)]
                     ELSE sink[i]
             grown == [i \in 1 .. Len(sink) |-> F(i)]
  <2>1. Filled(event) = grown
    BY <1>4 DEF Filled
  <2>2. ASSUME NEW i \in 1 .. Len(sink)
        PROVE  /\ F(i) \in SinkRows
               /\ F(i).session = sink[i].session
               /\ \/ /\ sink[i].session = event.session
                     /\ F(i) = [session |-> event.session, text |-> Append(sink[i].text, event)]
                  \/ sink[i].session # event.session /\ F(i) = sink[i]
    <3>1. sink[i] \in SinkRows
      BY <1>1, ElementOfSeq
    <3>2. sink[i].text \in Seq(Events)
      BY <3>1 DEF SinkRows
    <3>3. Append(sink[i].text, event) \in Seq(Events)
      BY <3>2, AppendProperties
    <3> QED BY <1>2, <1>3, <3>1, <3>3 DEF SinkRows
  <2>3. PICK k \in 1 .. Len(sink) : sink[k].session = event.session
    BY <1>3, <1>4 DEF Buffers
  <2> HIDE DEF F
  <2>4. grown \in Seq(SinkRows)
    BY <1>1, <2>2, IsASeq
  <2>5. Len(grown) = Len(sink)
    <3>1. DOMAIN grown = 1 .. Len(sink)
      OBVIOUS
    <3> QED BY <1>1, <2>4, <3>1, LenProperties
  <2>6. \A i \in 1 .. Len(sink) : grown[i] = F(i)
    OBVIOUS
  <2> HIDE DEF grown
  <2>7. /\ Filled(event) \in Seq(SinkRows) /\ Len(Filled(event)) = Len(sink)
        /\ \A i \in 1 .. Len(sink) : Filled(event)[i] = F(i)
    BY <2>1, <2>4, <2>5, <2>6
  <2>8. \A i \in 1 .. Len(sink) : Filled(event)[i].session = sink[i].session
    BY <2>2, <2>7
  <2>9. \E i \in 1 .. Len(sink) : Filled(event)[i].session = event.session
    BY <2>3, <2>8
  <2>10. Len(Filled(event)) <= Len(sink) + 1
    BY <1>1, <2>7
  <2>11. \A i \in 1 .. Len(sink) :
           \/ /\ sink[i].session = event.session
              /\ Filled(event)[i] = [session |-> event.session, text |-> Append(sink[i].text, event)]
           \/ sink[i].session # event.session /\ Filled(event)[i] = sink[i]
    BY <2>2, <2>7
  <2> QED BY <2>7, <2>8, <2>9, <2>10, <2>11
<1>5. CASE Buffers(event.session) = {}
  <2> DEFINE row == [session |-> event.session, text |-> <<event>>]
  <2>1. row \in SinkRows
    BY <1>2 DEF SinkRows
  <2>2. Filled(event) = Append(sink, row)
    BY <1>5 DEF Filled
  <2>3. row.session = event.session /\ row = [session |-> event.session, text |-> <<event>>]
    OBVIOUS
  <2> HIDE DEF row
  <2>4. /\ Append(sink, row) \in Seq(SinkRows) /\ Len(Append(sink, row)) = Len(sink) + 1
        /\ \A i \in 1 .. Len(sink) : Append(sink, row)[i] = sink[i]
        /\ Append(sink, row)[Len(sink) + 1] = row
    BY <1>1, <2>1, AppendProperties
  <2>5. \A i \in 1 .. Len(sink) + 1 : i \in 1 .. Len(sink) \/ i = Len(sink) + 1
    BY <1>1
  <2>6. /\ Len(sink) + 1 \in 1 .. Len(sink) + 1
        /\ \A i \in 1 .. Len(sink) : i \in 1 .. Len(sink) + 1
        /\ Len(sink) + 1 <= Len(sink) + 1
    BY <1>1
  <2>7. \A i \in 1 .. Len(sink) : sink[i].session # event.session
    BY <1>3, <1>5
  <2> DEFINE grown == Append(sink, row)
  <2> HIDE DEF grown
  <2>8. /\ grown \in Seq(SinkRows) /\ Len(grown) = Len(sink) + 1
        /\ \A i \in 1 .. Len(sink) : grown[i] = sink[i]
        /\ grown[Len(sink) + 1] = row /\ Filled(event) = grown
    BY <2>2, <2>4 DEF grown
  <2> QED BY <1>5, <2>3, <2>5, <2>6, <2>7, <2>8
<1> QED BY <1>4, <1>5

\* The event consumed is the next one of its session.
LEMMA HeadIsNext ==
  ASSUME CriticTypeOK, StreamFits, stream # <<>>
  PROVE  /\ Head(stream) \in Events
         /\ Head(stream).text = fed[Head(stream).session] + 1
<1> DEFINE e == Head(stream)
<1>1. stream \in Seq(Events) /\ Len(stream) \in Nat /\ 1 \in 1 .. Len(stream) /\ e = stream[1]
  BY EmptySeq DEF CriticTypeOK
<1>2. e \in Events
  BY <1>1, ElementOfSeq
<1> HIDE DEF e
<1>3. /\ e.session \in Sessions /\ e.text \in 1 .. MaxTexts
      /\ fed[e.session] \in 0 .. MaxTexts /\ said[e.session] \in 0 .. MaxTexts
  BY <1>2 DEF Events, CriticTypeOK
<1>4. fed[e.session] < e.text /\ e.text <= said[e.session]
  BY <1>1 DEF StreamFits
<1>5. ASSUME fed[e.session] + 1 < e.text PROVE FALSE
  <2> DEFINE n == fed[e.session] + 1
  <2>1. n \in 1 .. MaxTexts /\ fed[e.session] < n /\ n <= said[e.session]
    BY <1>3, <1>4, <1>5, CriticAssumption
  <2>2. PICK i \in 1 .. Len(stream) : stream[i] = [session |-> e.session, text |-> n]
    BY <1>3, <2>1 DEF StreamFits
  <2>3. stream[i].session = e.session /\ stream[i].text = n
    BY <2>2
  <2> HIDE DEF n
  <2>4. i = 1 \/ 1 < i
    BY <1>1
  <2>5. CASE i = 1
    BY <1>1, <1>3, <1>5, <2>3, <2>5 DEF n
  <2>6. CASE 1 < i
    <3>1. e.text < n
      BY <1>1, <2>3, <2>6 DEF StreamFits
    <3> QED BY <1>3, <1>5, <3>1 DEF n
  <2> QED BY <2>4, <2>5, <2>6
<1>6. e.text = fed[e.session] + 1
  BY <1>3, <1>4, <1>5, CriticAssumption
<1> QED BY <1>2, <1>6 DEF e

\* A run with the next event at its end.
LEMMA RunGrows ==
  ASSUME NEW s, NEW events \in Seq(Events), NEW last \in Nat, NEW out,
         RunTo(s, events, last, out), last + 1 \in 1 .. MaxTexts
  PROVE  RunTo(s, Append(events, [session |-> s, text |-> last + 1]), last + 1, out)
<1> DEFINE event == [session |-> s, text |-> last + 1]
<1>1. PICK first \in 1 .. MaxTexts :
        IsRun(s, events, first) /\ (first = 1 \/ out) /\ first + Len(events) - 1 = last
  BY DEF RunTo
<1>2. Len(events) \in Nat /\ first \in Nat
  BY <1>1
<1>3. /\ Append(events, event) # <<>> /\ Len(Append(events, event)) = Len(events) + 1
      /\ \A i \in 1 .. Len(events) : Append(events, event)[i] = events[i]
      /\ Append(events, event)[Len(events) + 1] = event
  BY <1>2
<1>4. event = [session |-> s, text |-> first + (Len(events) + 1) - 1]
  <2>1. first + (Len(events) + 1) - 1 = last + 1
    BY <1>1, <1>2
  <2> QED BY <2>1
<1> HIDE DEF event
<1>5. IsRun(s, Append(events, event), first)
  <2>1. ASSUME NEW i \in 1 .. Len(events) + 1
        PROVE  Append(events, event)[i] = [session |-> s, text |-> first + i - 1]
    <3>1. CASE i \in 1 .. Len(events)
      BY <1>1, <1>3, <3>1 DEF IsRun
    <3>2. CASE i \notin 1 .. Len(events)
      <4>1. i = Len(events) + 1
        BY <1>2, <3>2
      <4> QED BY <1>3, <1>4, <4>1
    <3> QED BY <3>1, <3>2
  <2> QED BY <1>3, <2>1 DEF IsRun
<1>6. first + Len(Append(events, event)) - 1 = last + 1
  BY <1>1, <1>2, <1>3
<1>7. RunTo(s, Append(events, event), last + 1, out)
  BY <1>1, <1>5, <1>6 DEF RunTo
<1> QED BY <1>7 DEF event

LEMMA RunBegins ==
  ASSUME NEW s, NEW last \in 1 .. MaxTexts, NEW out, last = 1 \/ out
  PROVE  RunTo(s, <<[session |-> s, text |-> last]>>, last, out)
<1> DEFINE event == [session |-> s, text |-> last]
<1>1. <<event>> # <<>> /\ Len(<<event>>) = 1 /\ <<event>>[1] = event
  OBVIOUS
<1>2. last + 1 - 1 = last
  BY CriticAssumption
<1>3. IsRun(s, <<event>>, last)
  <2>1. \A i \in 1 .. 1 : i = 1
    OBVIOUS
  <2> QED BY <1>1, <1>2, <2>1 DEF IsRun
<1> HIDE DEF event
<1>4. RunTo(s, <<event>>, last, out)
  BY <1>1, <1>2, <1>3 DEF RunTo
<1> QED BY <1>4 DEF event

\* Every row of the sink with an event more is a run up to what was consumed.
LEMMA FilledRuns ==
  ASSUME CriticTypeOK, StreamFits, SinkFits, stream # <<>>,
         fed' = [fed EXCEPT ![Head(stream).session] = @ + 1]
  PROVE  LET grown == Filled(Head(stream)) IN
         \A i \in 1 .. Len(grown) :
           RunTo(grown[i].session, grown[i].text, fed'[grown[i].session],
                 grown[i].session \in evicted)
<1> DEFINE e == Head(stream)
           grown == Filled(e)
           s == e.session
<1>1. e \in Events /\ e.text = fed[s] + 1 /\ s \in Sessions /\ e.text \in 1 .. MaxTexts
  BY HeadIsNext DEF Events
<1>2. e = [session |-> s, text |-> fed[s] + 1]
  BY <1>1 DEF Events
<1>3. /\ fed[s] \in Nat
      /\ fed'[s] = fed[s] + 1
      /\ \A q \in Sessions : q # s => fed'[q] = fed[q]
  BY <1>1 DEF CriticTypeOK
<1> SUFFICES ASSUME NEW i \in 1 .. Len(grown)
             PROVE  RunTo(grown[i].session, grown[i].text, fed'[grown[i].session],
                          grown[i].session \in evicted)
  OBVIOUS
<1> HIDE DEF e
<1>4. \/ /\ i \in 1 .. Len(sink) /\ sink[i].session = s
         /\ grown[i] = [session |-> s, text |-> Append(sink[i].text, e)]
      \/ /\ i \in 1 .. Len(sink) /\ sink[i].session # s
         /\ grown[i] = sink[i]
      \/ /\ Buffers(s) = {}
         /\ grown[i] = [session |-> s, text |-> <<e>>]
  BY <1>1, FilledRows
<1> HIDE DEF grown, s
<1>5. ASSUME i \in 1 .. Len(sink)
      PROVE  sink[i].session \in Sessions /\ sink[i].text \in Seq(Events)
  <2>1. sink \in Seq([session : Sessions, text : Seq(Events)])
    BY DEF CriticTypeOK
  <2>2. sink[i] \in [session : Sessions, text : Seq(Events)]
    BY <1>5, <2>1, ElementOfSeq
  <2> QED BY <2>2
<1>6. CASE /\ i \in 1 .. Len(sink) /\ sink[i].session = s
           /\ grown[i] = [session |-> s, text |-> Append(sink[i].text, e)]
  <2>1. RunTo(s, sink[i].text, fed[s], s \in evicted)
    BY <1>6 DEF SinkFits
  <2>2. RunTo(s, Append(sink[i].text, [session |-> s, text |-> fed[s] + 1]),
              fed[s] + 1, s \in evicted)
    BY <1>1, <1>3, <1>5, <1>6, <2>1, RunGrows
  <2>3. grown[i].session = s /\ grown[i].text = Append(sink[i].text, e)
    BY <1>6
  <2> QED BY <1>2, <1>3, <2>2, <2>3
<1>7. CASE /\ i \in 1 .. Len(sink) /\ sink[i].session # s
           /\ grown[i] = sink[i]
  BY <1>3, <1>5, <1>7 DEF SinkFits
<1>8. CASE Buffers(s) = {} /\ grown[i] = [session |-> s, text |-> <<e>>]
  <2>1. fed[s] + 1 = 1 \/ s \in evicted
    BY <1>1, <1>3, <1>8 DEF SinkFits
  <2>2. RunTo(s, <<[session |-> s, text |-> fed[s] + 1]>>, fed[s] + 1, s \in evicted)
    BY <1>1, <2>1, RunBegins
  <2>3. grown[i].session = s /\ grown[i].text = <<e>>
    BY <1>8
  <2> QED BY <1>2, <1>3, <2>2, <2>3
<1> QED BY <1>4, <1>6, <1>7, <1>8

\* What is pushed out is remembered.
LEMMA RunStays ==
  ASSUME NEW s, NEW events, NEW last, RunTo(s, events, last, s \in evicted),
         evicted \subseteq evicted'
  PROVE  RunTo(s, events, last, s \in evicted')
BY DEF RunTo

LEMMA BoundedKeeps ==
  ASSUME CriticTypeOK, StreamFits, SinkFits, stream # <<>>,
         fed' = [fed EXCEPT ![Head(stream).session] = @ + 1],
         Bounded(Filled(Head(stream)))
  PROVE  /\ sink' \in Seq(SinkRows) /\ Len(sink') <= MaxSessions
         /\ evicted \subseteq evicted' /\ evicted' \subseteq Sessions
         /\ SinkFits'
<1> DEFINE e == Head(stream)
           grown == Filled(e)
           s == e.session
<1>1. e \in Events /\ s \in Sessions /\ e.text = fed[s] + 1
  BY HeadIsNext DEF Events
<1>2. /\ grown \in Seq(SinkRows) /\ Len(grown) <= Len(sink) + 1
      /\ \A i \in 1 .. Len(sink) : i \in 1 .. Len(grown) /\ grown[i].session = sink[i].session
      /\ \E i \in 1 .. Len(grown) : grown[i].session = s
  BY <1>1, FilledRows
<1>3. \A i \in 1 .. Len(grown) :
        RunTo(grown[i].session, grown[i].text, fed'[grown[i].session],
              grown[i].session \in evicted)
  BY FilledRuns
<1>4. \A q \in Sessions : q # s => fed'[q] = fed[q]
  BY <1>1 DEF CriticTypeOK
<1>5. /\ evicted \subseteq Sessions /\ Len(sink) \in Nat /\ Len(sink) <= MaxSessions
      /\ MaxSessions \in Nat \ {0}
  BY CriticAssumption DEF CriticTypeOK
\* A session that has no row was never consumed or is the one pushed out.
<1>6. ASSUME NEW q \in Sessions, \A i \in 1 .. Len(grown) : grown[i].session # q
      PROVE  fed'[q] = 0 \/ q \in evicted
  <2>1. q # s /\ Buffers(q) = {}
    BY <1>2, <1>6 DEF Buffers
  <2> QED BY <1>4, <2>1 DEF SinkFits
<1>7. Bounded(grown)
  OBVIOUS
<1>8. Len(grown) \in Nat
  BY <1>2
<1> HIDE DEF grown, e, s
<1>9. CASE Len(grown) > MaxSessions
  <2>1. sink' = Tail(grown) /\ evicted' = evicted \cup {Head(grown).session}
    BY <1>7, <1>9 DEF Bounded
  <2>2. grown # <<>> /\ 1 \in 1 .. Len(grown) /\ Head(grown) = grown[1]
    BY <1>2, <1>5, <1>8, <1>9, EmptySeq
  <2>3. /\ Tail(grown) \in Seq(SinkRows) /\ Len(Tail(grown)) = Len(grown) - 1
        /\ \A i \in 1 .. Len(grown) - 1 : Tail(grown)[i] = grown[i + 1]
    BY <1>2, <2>2, HeadTailProperties
  <2>4. grown[1].session \in Sessions
    <3>1. grown[1] \in SinkRows
      BY <1>2, <2>2, ElementOfSeq
    <3> QED BY <3>1 DEF SinkRows
  <2>5. ASSUME NEW i \in 1 .. Len(sink')
        PROVE  RunTo(sink'[i].session, sink'[i].text, fed'[sink'[i].session],
                     sink'[i].session \in evicted')
    <3>1. i + 1 \in 1 .. Len(grown) /\ sink'[i] = grown[i + 1]
      BY <1>8, <2>1, <2>3, <2>5
    <3> QED BY <1>3, <2>1, <3>1, RunStays
  <2>6. ASSUME NEW q \in Sessions, Buffers(q)' = {}
        PROVE  fed'[q] = 0 \/ q \in evicted'
    <3>1. \A i \in 1 .. Len(sink') : sink'[i].session # q
      BY <2>6 DEF Buffers
    <3>2. ASSUME q # grown[1].session, NEW i \in 1 .. Len(grown) PROVE grown[i].session # q
      <4>1. CASE i = 1
        BY <3>2, <4>1
      <4>2. CASE i # 1
        <5>1. i - 1 \in 1 .. Len(sink') /\ sink'[i - 1] = grown[i]
          BY <1>8, <2>1, <2>3, <4>2
        <5> QED BY <3>1, <5>1
      <4> QED BY <4>1, <4>2
    <3>3. CASE q = grown[1].session
      BY <2>1, <2>2, <3>3
    <3>4. CASE q # grown[1].session
      BY <1>6, <2>1, <3>2, <3>4
    <3> QED BY <3>3, <3>4
  <2>7. Len(sink') <= MaxSessions
    BY <1>2, <1>5, <1>8, <2>1, <2>3
  <2>8. SinkFits'
    BY <2>5, <2>6 DEF SinkFits
  <2> QED BY <1>5, <2>1, <2>2, <2>3, <2>4, <2>7, <2>8
<1>10. CASE ~(Len(grown) > MaxSessions)
  <2>1. sink' = grown /\ evicted' = evicted
    BY <1>7, <1>10 DEF Bounded
  <2>2. ASSUME NEW q \in Sessions, Buffers(q)' = {}
        PROVE  fed'[q] = 0 \/ q \in evicted'
    BY <1>6, <2>1, <2>2 DEF Buffers
  <2>3. SinkFits'
    BY <1>3, <2>1, <2>2 DEF SinkFits
  <2> QED BY <1>2, <1>5, <1>8, <1>10, <2>1, <2>3
<1> QED BY <1>9, <1>10

\* Without its first event the stream has what is left to consume.
LEMMA StreamShrinks ==
  ASSUME CriticTypeOK, StreamFits, stream # <<>>, stream' = Tail(stream), said' = said,
         fed' = [fed EXCEPT ![Head(stream).session] = @ + 1]
  PROVE  StreamFits' /\ stream' \in Seq(Events) /\ fed' \in [Sessions -> 0 .. MaxTexts]
<1> DEFINE e == Head(stream)
           s == e.session
<1>0. /\ e \in Events /\ s \in Sessions /\ e.text = fed[s] + 1
      /\ e.text \in 1 .. MaxTexts
  BY HeadIsNext DEF Events
<1>1. /\ e \in Events /\ s \in Sessions /\ e.text = fed[s] + 1
      /\ e.text \in 1 .. MaxTexts /\ fed[s] \in Nat
  BY <1>0, CriticAssumption DEF CriticTypeOK
<1>2. /\ stream \in Seq(Events) /\ Len(stream) \in Nat /\ 1 \in 1 .. Len(stream)
      /\ e = stream[1]
  BY EmptySeq DEF CriticTypeOK
<1>3. /\ stream' \in Seq(Events) /\ Len(stream') = Len(stream) - 1
      /\ \A i \in 1 .. Len(stream) - 1 : stream'[i] = stream[i + 1]
  BY <1>2, HeadTailProperties DEF CriticTypeOK
<1>4. /\ fed'[s] = fed[s] + 1
      /\ \A q \in Sessions : q # s => fed'[q] = fed[q]
      /\ fed' \in [Sessions -> 0 .. MaxTexts]
  BY <1>1, CriticAssumption DEF CriticTypeOK
<1> HIDE DEF e, s
<1>5. \A i \in 1 .. Len(stream') : i \in Nat /\ i + 1 \in 1 .. Len(stream) /\ stream'[i] = stream[i + 1]
  BY <1>2, <1>3
<1>6. ASSUME NEW i \in 1 .. Len(stream)
      PROVE  stream[i].session \in Sessions /\ stream[i].text \in 1 .. MaxTexts
  <2>1. stream[i] \in Events
    BY <1>2, ElementOfSeq
  <2> QED BY <2>1 DEF Events
<1>7. ASSUME NEW i \in 1 .. Len(stream')
      PROVE  /\ fed'[stream'[i].session] < stream'[i].text
             /\ stream'[i].text <= said'[stream'[i].session]
  <2>1. /\ fed[stream[i + 1].session] < stream[i + 1].text
        /\ stream[i + 1].text <= said[stream[i + 1].session]
    BY <1>5 DEF StreamFits
  <2>2. ASSUME stream[i + 1].session = s PROVE fed'[s] < stream[i + 1].text
    <3>1. 1 < i + 1
      BY <1>2, <1>3
    <3>2. stream[1].text < stream[i + 1].text
      BY <1>2, <1>5, <2>2, <3>1 DEF StreamFits, s
    <3>3. stream[1].text = fed[s] + 1
      BY <1>1, <1>2
    <3> QED BY <1>4, <3>2, <3>3
  <2> QED BY <1>4, <1>5, <1>6, <2>1, <2>2
<1>8. ASSUME NEW i \in 1 .. Len(stream'), NEW j \in 1 .. Len(stream'),
             i < j, stream'[i].session = stream'[j].session
      PROVE  stream'[i].text < stream'[j].text
  <2>1. i + 1 < j + 1 /\ i + 1 \in 1 .. Len(stream) /\ j + 1 \in 1 .. Len(stream)
    BY <1>5, <1>8
  <2>2. stream'[i] = stream[i + 1] /\ stream'[j] = stream[j + 1]
    BY <1>5
  <2>3. stream[i + 1].session = stream[j + 1].session
    BY <1>8, <2>2
  <2>4. stream[i + 1].text < stream[j + 1].text
    BY <2>1, <2>3 DEF StreamFits
  <2> QED BY <2>2, <2>4
<1>9. ASSUME NEW q \in Sessions, NEW n \in 1 .. MaxTexts, fed'[q] < n, n <= said'[q]
      PROVE  \E i \in 1 .. Len(stream') : stream'[i] = [session |-> q, text |-> n]
  <2>1. fed[q] < n /\ (q = s => n # fed[s] + 1)
    <3>1. CASE q = s
      BY <1>1, <1>4, <1>9, <3>1, CriticAssumption
    <3>2. CASE q # s
      BY <1>4, <1>9, <3>2
    <3> QED BY <3>1, <3>2
  <2>2. PICK k \in 1 .. Len(stream) : stream[k] = [session |-> q, text |-> n]
    BY <1>9, <2>1 DEF StreamFits
  <2>3. stream[k].session = q /\ stream[k].text = n
    BY <2>2
  <2>4. k # 1
    BY <1>1, <1>2, <2>1, <2>3 DEF s
  <2>5. k - 1 \in 1 .. Len(stream') /\ (k - 1) + 1 = k
    BY <1>2, <1>3, <2>4
  <2> QED BY <1>5, <2>2, <2>5
<1>10. ASSUME NEW q \in Sessions PROVE fed'[q] <= said'[q]
  <2>1. CASE q = s
    <3>1. stream[1].text <= said[stream[1].session]
      BY <1>2 DEF StreamFits
    <3>2. fed'[s] <= said[s]
      BY <1>1, <1>2, <1>4, <3>1 DEF s
    <3> QED BY <2>1, <3>2
  <2>2. CASE q # s
    BY <1>4, <2>2 DEF StreamFits
  <2> QED BY <2>1, <2>2
<1> QED BY <1>3, <1>4, <1>7, <1>8, <1>9, <1>10 DEF StreamFits

LEMMA ConsumePreserves == ASSUME CriticInv, Consume PROVE CriticInv'
<1>1. /\ stream # <<>> /\ stream' = Tail(stream) /\ Bounded(Filled(Head(stream)))
      /\ fed' = [fed EXCEPT ![Head(stream).session] = @ + 1]
      /\ UNCHANGED <<stage, child, said, mutated, origins, results>>
  BY DEF Consume
<1>2. CriticTypeOK /\ StreamFits /\ SinkFits
  BY DEF CriticInv
<1>3. StreamFits' /\ stream' \in Seq(Events) /\ fed' \in [Sessions -> 0 .. MaxTexts]
  BY <1>1, <1>2, StreamShrinks
<1>4. /\ sink' \in Seq(SinkRows) /\ Len(sink') <= MaxSessions
      /\ evicted \subseteq evicted' /\ evicted' \subseteq Sessions
      /\ SinkFits'
  BY <1>1, <1>2, BoundedKeeps
<1>5. CriticTypeOK'
  BY <1>1, <1>2, <1>3, <1>4 DEF CriticTypeOK, results, SinkRows
<1>6. \A q \in Reviews : ReviewFits(q)'
  BY <1>1, <1>4, ReviewStands DEF CriticInv, results
<1>7. JournalFits'
  BY <1>1, JournalStands DEF CriticInv, results
<1> QED BY <1>3, <1>4, <1>5, <1>6, <1>7 DEF CriticInv

\* The host publishes a text: the next one of its session, at the end.
LEMMA PublishPreserves ==
  ASSUME CriticInv, NEW s \in Sessions, Publish(s) PROVE CriticInv'
<1> DEFINE event == [session |-> s, text |-> said[s] + 1]
<1>1. /\ s \in Reviews => child[s] = "generating"
      /\ said' = [said EXCEPT ![s] = @ + 1] /\ stream' = Append(stream, event)
      /\ UNCHANGED <<stage, child, sinkVars, mutated, origins, results>>
  BY DEF Publish
<1>2. CriticTypeOK /\ StreamFits /\ SinkFits
  BY DEF CriticInv
<1>3. /\ said[s] \in Nat /\ said[s] + 1 \in 1 .. MaxTexts
      /\ said' \in [Sessions -> 0 .. MaxTexts]
      /\ said'[s] = said[s] + 1 /\ \A q \in Sessions : q # s => said'[q] = said[q]
  BY <1>1, <1>2, CriticAssumption DEF Publish, CriticTypeOK
<1>4. event \in Events /\ event.session = s /\ event.text = said[s] + 1
  BY <1>3 DEF Events
<1> HIDE DEF event
<1>5. /\ stream \in Seq(Events) /\ stream' \in Seq(Events) /\ Len(stream) \in Nat
      /\ Len(stream') = Len(stream) + 1
      /\ \A i \in 1 .. Len(stream) : stream'[i] = stream[i]
      /\ stream'[Len(stream) + 1] = event
  BY <1>1, <1>2, <1>4, AppendProperties DEF CriticTypeOK
<1>6. /\ \A i \in 1 .. Len(stream') : i \in 1 .. Len(stream) \/ i = Len(stream) + 1
      /\ \A i \in 1 .. Len(stream) : i \in 1 .. Len(stream')
      /\ Len(stream) + 1 \in 1 .. Len(stream')
  BY <1>5
<1>7. fed' = fed /\ sink' = sink /\ evicted' = evicted
  BY <1>1 DEF sinkVars
<1>8. ASSUME NEW i \in 1 .. Len(stream)
      PROVE  /\ stream[i].session \in Sessions /\ stream[i].text \in Nat
             /\ said[stream[i].session] \in Nat
             /\ stream[i].text <= said[stream[i].session]
             /\ fed[stream[i].session] < stream[i].text
  <2>1. stream[i] \in Events
    BY <1>5, ElementOfSeq
  <2>2. stream[i].session \in Sessions /\ stream[i].text \in Nat
    BY <2>1, CriticAssumption DEF Events
  <2>3. said[stream[i].session] \in Nat
    BY <1>2, <2>2, CriticAssumption DEF CriticTypeOK
  <2> QED BY <1>2, <2>2, <2>3 DEF StreamFits
<1>9. ASSUME NEW i \in 1 .. Len(stream')
      PROVE  /\ fed'[stream'[i].session] < stream'[i].text
             /\ stream'[i].text <= said'[stream'[i].session]
  <2>1. CASE i \in 1 .. Len(stream)
    <3>1. /\ stream'[i] = stream[i]
          /\ stream[i].session \in Sessions
          /\ said[stream[i].session] \in Nat /\ stream[i].text \in Nat
          /\ stream[i].text <= said[stream[i].session]
          /\ fed[stream[i].session] < stream[i].text
      BY <1>5, <1>8, <2>1
    <3>2. stream[i].text <= said'[stream[i].session]
      <4>1. CASE stream[i].session = s
        BY <1>3, <3>1, <4>1
      <4>2. CASE stream[i].session # s
        BY <1>3, <3>1, <4>2
      <4> QED BY <4>1, <4>2
    <3> QED BY <1>7, <3>1, <3>2
  <2>2. CASE i = Len(stream) + 1
    <3>1. fed[s] \in 0 .. MaxTexts /\ fed[s] <= said[s]
      BY <1>2 DEF CriticTypeOK, StreamFits
    <3> QED BY <1>3, <1>4, <1>5, <1>7, <2>2, <3>1
  <2> QED BY <1>6, <2>1, <2>2
<1>10. ASSUME NEW i \in 1 .. Len(stream'), NEW j \in 1 .. Len(stream'),
              i < j, stream'[i].session = stream'[j].session
       PROVE  stream'[i].text < stream'[j].text
  <2>1. i \in 1 .. Len(stream) /\ stream'[i] = stream[i]
    BY <1>5, <1>10
  <2>2. CASE j \in 1 .. Len(stream)
    BY <1>2, <1>5, <1>10, <2>1, <2>2 DEF StreamFits
  <2>3. CASE j = Len(stream) + 1
    BY <1>3, <1>4, <1>5, <1>8, <1>10, <2>1, <2>3
  <2> QED BY <1>6, <2>2, <2>3
<1>11. ASSUME NEW q \in Sessions, NEW n \in 1 .. MaxTexts, fed'[q] < n, n <= said'[q]
       PROVE  \E i \in 1 .. Len(stream') : stream'[i] = [session |-> q, text |-> n]
  <2>1. CASE n <= said[q]
    <3>1. PICK i \in 1 .. Len(stream) : stream[i] = [session |-> q, text |-> n]
      BY <1>2, <1>7, <1>11, <2>1 DEF StreamFits
    <3> QED BY <1>5, <1>6, <3>1
  <2>2. CASE ~(n <= said[q])
    <3>1. q = s /\ n = said[s] + 1
      BY <1>3, <1>11, <2>2, CriticAssumption
    <3> QED BY <1>5, <1>6, <3>1 DEF event
  <2> QED BY <2>1, <2>2
<1>12. StreamFits'
  <2>1. ASSUME NEW q \in Sessions PROVE fed'[q] <= said'[q]
    <3>1. fed[q] <= said[q] /\ fed[q] \in 0 .. MaxTexts /\ said[q] \in 0 .. MaxTexts
      BY <1>2 DEF CriticTypeOK, StreamFits
    <3>2. said'[q] = said[q] \/ said'[q] = said[q] + 1
      BY <1>3
    <3> QED BY <1>7, <3>1, <3>2, CriticAssumption
  <2> QED BY <1>9, <1>10, <1>11, <2>1 DEF StreamFits
<1>13. SinkFits'
  BY <1>2, <1>7 DEF SinkFits, Buffers
<1>14. CriticTypeOK'
  BY <1>1, <1>2, <1>3, <1>5, <1>7 DEF CriticTypeOK, results
<1>15. \A q \in Reviews : ReviewFits(q)'
  <2> SUFFICES ASSUME NEW q \in Reviews PROVE ReviewFits(q)'
    OBVIOUS
  <2>1. q \in Sessions
    BY DEF Sessions
  <2> QED BY <1>1, <1>3, <1>7, <2>1, ReviewStands DEF CriticInv, results
<1>16. JournalFits'
  BY <1>1, JournalStands DEF CriticInv, results
<1> QED BY <1>12, <1>13, <1>14, <1>15, <1>16 DEF CriticInv

LEMMA ChildEndsPreserves ==
  ASSUME CriticInv, NEW r \in Reviews, ChildEnds(r) PROVE CriticInv'
<1>1. /\ child[r] = "generating" /\ child' = [child EXCEPT ![r] = "ended"]
      /\ UNCHANGED <<stage, said, stream, sinkVars, mutated, origins, results>>
  BY DEF ChildEnds
<1>2. CriticTypeOK'
  BY <1>1 DEF CriticInv, CriticTypeOK, results, sinkVars
<1>3. StreamFits' /\ SinkFits'
  BY <1>1, StreamStands DEF CriticInv
<1>4. \A q \in Reviews : child'[q] = child[q] \/ child'[q] = "ended"
  BY <1>1 DEF CriticInv, CriticTypeOK
<1>5. \A q \in Reviews : ReviewFits(q)'
  BY <1>1, <1>4, ReviewStands DEF CriticInv, results, sinkVars
<1>6. JournalFits'
  BY <1>1, JournalStands DEF CriticInv, results
<1> QED BY <1>2, <1>3, <1>5, <1>6 DEF CriticInv

LEMMA MutationPreserves ==
  ASSUME CriticInv, NEW r \in Reviews, ChildMutates(r) PROVE CriticInv'
<1>1. /\ child[r] = "generating" /\ r \notin origins /\ mutated' = mutated \cup {r}
      /\ UNCHANGED <<stage, child, said, stream, sinkVars, origins, results>>
  BY DEF ChildMutates
<1>2. CriticTypeOK'
  BY <1>1 DEF CriticInv, CriticTypeOK, results, sinkVars
<1>3. StreamFits' /\ SinkFits'
  BY <1>1, StreamStands DEF CriticInv
<1>4. \A q \in Reviews : ReviewFits(q)'
  <2>1. GivenUp(r)
    BY <1>1 DEF CriticInv, ReviewFits
  <2> QED BY <1>1, <2>1 DEF CriticInv, ReviewFits, HeardChild, GivenUp, results, sinkVars
<1>5. JournalFits'
  BY <1>1, JournalStands DEF CriticInv, results
<1> QED BY <1>2, <1>3, <1>4, <1>5 DEF CriticInv

\* A step of the call of review r.
LEMMA CallSteps ==
  ASSUME CriticInv, NEW r \in Reviews,
         UNCHANGED <<said, stream, sinkVars, mutated>>,
         stage' \in [Reviews -> Stages], answer' \in [Reviews -> Answers],
         child' \in [Reviews -> {"none", "ready", "generating", "ended"}],
         heard' \in [Reviews -> Seq(Events)],
         origins' \subseteq Reviews, saved \subseteq saved', saved' \subseteq Reviews,
         hasty \subseteq hasty', hasty' \subseteq Reviews,
         \A q \in Reviews \ {r} :
           /\ stage'[q] = stage[q] /\ answer'[q] = answer[q] /\ child'[q] = child[q]
           /\ heard'[q] = heard[q]
           /\ q \in origins' <=> q \in origins,
         stage[r] # "done", ReviewFits(r)',
         \/ journal' = journal
         \/ \E what \in {"review.failed", "review.completed"}, decoded \in BOOLEAN :
              /\ journal' = journal \cup {[review |-> r, kind |-> what, decoded |-> decoded]}
              /\ stage'[r] = "done" /\ (decoded => answer'[r] = "decoded")
  PROVE  CriticInv'
<1>1. CriticTypeOK'
  <2>1. journal' \subseteq
          [review : Reviews, kind : {"review.failed", "review.completed"}, decoded : BOOLEAN]
    BY DEF CriticInv, CriticTypeOK
  <2> QED BY <2>1 DEF CriticInv, CriticTypeOK, sinkVars
<1>2. \A q \in Reviews : ReviewFits(q)'
  BY ReviewStands DEF CriticInv, sinkVars
<1>3. \A e \in journal : e.review \in Reviews /\ e.review # r
  BY DEF CriticInv, CriticTypeOK, JournalFits
<1>4. \A e \in journal : /\ stage'[e.review] = "done"
                         /\ (e.decoded => answer'[e.review] = "decoded")
  BY <1>3 DEF CriticInv, JournalFits
<1>5. JournalFits'
  <2>1. CASE journal' = journal
    BY <1>4, <2>1 DEF CriticInv, JournalFits
  <2>2. CASE \E what \in {"review.failed", "review.completed"}, decoded \in BOOLEAN :
               /\ journal' = journal \cup {[review |-> r, kind |-> what, decoded |-> decoded]}
               /\ stage'[r] = "done" /\ (decoded => answer'[r] = "decoded")
    BY <1>3, <1>4, <2>2 DEF CriticInv, JournalFits
  <2> QED BY <2>1, <2>2
<1>6. StreamFits' /\ SinkFits'
  BY StreamStands DEF CriticInv
<1> QED BY <1>1, <1>2, <1>5, <1>6 DEF CriticInv

\* What the sink has of an ended child is a run of its texts, up to the last
\* one unless it is read early.
LEMMA TranscriptIsRun ==
  ASSUME CriticInv, NEW r \in Reviews, Transcript(r) # <<>>
  PROVE  /\ Transcript(r) \in Seq(Events)
         /\ RunTo(r, Transcript(r), fed[r], r \in evicted)
<1>1. Buffers(r) # {}
  BY DEF Transcript
<1>2. PICK i \in 1 .. Len(sink) : sink[i].session = r /\ Transcript(r) = sink[i].text
  BY <1>1 DEF Transcript, Buffers
<1>3. sink[i] \in SinkRows
  <2>1. sink \in Seq(SinkRows)
    BY DEF CriticInv, CriticTypeOK, SinkRows
  <2> QED BY <2>1, ElementOfSeq
<1>4. sink[i].text \in Seq(Events)
  BY <1>3 DEF SinkRows
<1>5. RunTo(r, sink[i].text, fed[r], r \in evicted)
  BY <1>2 DEF CriticInv, SinkFits
<1> QED BY <1>2, <1>4, <1>5

LEMMA ReadingHears ==
  ASSUME CriticInv, NEW r \in Reviews, ReadTranscript(r), Transcript(r) # <<>>,
         heard' = [heard EXCEPT ![r] = Transcript(r)]
  PROVE  HeardChild(r)'
<1>1. /\ Transcript(r) \in Seq(Events)
      /\ RunTo(r, Transcript(r), fed[r], r \in evicted)
  BY TranscriptIsRun
<1>2. heard'[r] = Transcript(r)
  BY DEF CriticInv, CriticTypeOK
<1>3. fed[r] = said[r] \/ r \in hasty'
  <2>1. r \in Sessions
    BY DEF Sessions
  <2>2. fed[r] <= said[r] /\ fed[r] \in 0 .. MaxTexts /\ said[r] \in 0 .. MaxTexts
    BY <2>1 DEF CriticInv, CriticTypeOK, StreamFits
  <2>3. fed[r] = said[r] \/ fed[r] < said[r]
    BY <2>2, CriticAssumption
  <2> QED BY <2>3 DEF ReadTranscript, Decode, Behind
<1>4. evicted' = evicted /\ said' = said
  BY DEF ReadTranscript, Decode, host, sinkVars
<1> QED BY <1>1, <1>2, <1>3, <1>4 DEF RunTo, HeardChild

LEMMA CallPreserves ==
  ASSUME CriticInv, NEW r \in Reviews,
         \/ RefuseReview(r) \/ Spawn(r) \/ Register(r) \/ Prompt(r) \/ Wait(r)
         \/ ReadTranscript(r) \/ SaveReport(r) \/ Conclude(r) \/ InterruptReview(r)
  PROVE  CriticInv'
<1> USE DEF CriticInv, CriticTypeOK
<1>0. ReviewFits(r)
  OBVIOUS
<1>1. CASE RefuseReview(r)
  <2>1. ReviewFits(r)'
    BY <1>0, <1>1 DEF RefuseReview, Ends, Goes, host, sinkVars, ReviewFits, HeardChild, GivenUp
  <2>2. \A q \in Reviews \ {r} :
          /\ stage'[q] = stage[q] /\ answer'[q] = answer[q] /\ child'[q] = child[q]
          /\ heard'[q] = heard[q]
          /\ q \in origins' <=> q \in origins
    BY <1>1 DEF RefuseReview, Ends, Goes, host
  <2>3. /\ stage' \in [Reviews -> Stages] /\ answer' \in [Reviews -> Answers]
        /\ child' \in [Reviews -> {"none", "ready", "generating", "ended"}]
        /\ heard' \in [Reviews -> Seq(Events)]
        /\ origins' \subseteq Reviews /\ saved \subseteq saved' /\ saved' \subseteq Reviews
        /\ hasty \subseteq hasty' /\ hasty' \subseteq Reviews
    BY <1>1 DEF RefuseReview, Ends, Goes, host, Stages, Answers
  <2>4. \/ journal' = journal
        \/ \E what \in {"review.failed", "review.completed"}, decoded \in BOOLEAN :
             /\ journal' = journal \cup {[review |-> r, kind |-> what, decoded |-> decoded]}
             /\ stage'[r] = "done" /\ (decoded => answer'[r] = "decoded")
    BY <1>1 DEF RefuseReview, Ends, Goes, host
  <2>5. UNCHANGED <<said, stream, sinkVars, mutated>> /\ stage[r] # "done"
    BY <1>1 DEF RefuseReview, Ends, Goes, host
  <2> HIDE DEF CriticInv, CriticTypeOK
  <2> QED BY <2>1, <2>2, <2>3, <2>4, <2>5, CallSteps
<1>2. CASE Spawn(r)
  <2>1. ReviewFits(r)'
    BY <1>0, <1>2 DEF Spawn, Goes, results, sinkVars, ReviewFits, HeardChild, GivenUp
  <2>2. \A q \in Reviews \ {r} :
          /\ stage'[q] = stage[q] /\ answer'[q] = answer[q] /\ child'[q] = child[q]
          /\ heard'[q] = heard[q]
          /\ q \in origins' <=> q \in origins
    BY <1>2 DEF Spawn, Goes, results
  <2>3. /\ stage' \in [Reviews -> Stages] /\ answer' \in [Reviews -> Answers]
        /\ child' \in [Reviews -> {"none", "ready", "generating", "ended"}]
        /\ heard' \in [Reviews -> Seq(Events)]
        /\ origins' \subseteq Reviews /\ saved \subseteq saved' /\ saved' \subseteq Reviews
        /\ hasty \subseteq hasty' /\ hasty' \subseteq Reviews
    BY <1>2 DEF Spawn, Goes, results, Stages, Answers
  <2>4. \/ journal' = journal
        \/ \E what \in {"review.failed", "review.completed"}, decoded \in BOOLEAN :
             /\ journal' = journal \cup {[review |-> r, kind |-> what, decoded |-> decoded]}
             /\ stage'[r] = "done" /\ (decoded => answer'[r] = "decoded")
    BY <1>2 DEF Spawn, Goes, results
  <2>5. UNCHANGED <<said, stream, sinkVars, mutated>> /\ stage[r] # "done"
    BY <1>2 DEF Spawn, Goes, results
  <2> HIDE DEF CriticInv, CriticTypeOK
  <2> QED BY <2>1, <2>2, <2>3, <2>4, <2>5, CallSteps
<1>3. CASE Register(r)
  <2>1. ReviewFits(r)'
    BY <1>0, <1>3 DEF Register, Goes, host, results, sinkVars, ReviewFits, HeardChild, GivenUp
  <2>2. \A q \in Reviews \ {r} :
          /\ stage'[q] = stage[q] /\ answer'[q] = answer[q] /\ child'[q] = child[q]
          /\ heard'[q] = heard[q]
          /\ q \in origins' <=> q \in origins
    BY <1>3 DEF Register, Goes, host, results
  <2>3. /\ stage' \in [Reviews -> Stages] /\ answer' \in [Reviews -> Answers]
        /\ child' \in [Reviews -> {"none", "ready", "generating", "ended"}]
        /\ heard' \in [Reviews -> Seq(Events)]
        /\ origins' \subseteq Reviews /\ saved \subseteq saved' /\ saved' \subseteq Reviews
        /\ hasty \subseteq hasty' /\ hasty' \subseteq Reviews
    BY <1>3 DEF Register, Goes, host, results, Stages, Answers
  <2>4. \/ journal' = journal
        \/ \E what \in {"review.failed", "review.completed"}, decoded \in BOOLEAN :
             /\ journal' = journal \cup {[review |-> r, kind |-> what, decoded |-> decoded]}
             /\ stage'[r] = "done" /\ (decoded => answer'[r] = "decoded")
    BY <1>3 DEF Register, Goes, host, results
  <2>5. UNCHANGED <<said, stream, sinkVars, mutated>> /\ stage[r] # "done"
    BY <1>3 DEF Register, Goes, host, results
  <2> HIDE DEF CriticInv, CriticTypeOK
  <2> QED BY <2>1, <2>2, <2>3, <2>4, <2>5, CallSteps
<1>4. CASE Prompt(r)
  <2>1. ReviewFits(r)'
    BY <1>0, <1>4 DEF Prompt, Goes, results, sinkVars, ReviewFits, HeardChild, GivenUp
  <2>2. \A q \in Reviews \ {r} :
          /\ stage'[q] = stage[q] /\ answer'[q] = answer[q] /\ child'[q] = child[q]
          /\ heard'[q] = heard[q]
          /\ q \in origins' <=> q \in origins
    BY <1>4 DEF Prompt, Goes, results
  <2>3. /\ stage' \in [Reviews -> Stages] /\ answer' \in [Reviews -> Answers]
        /\ child' \in [Reviews -> {"none", "ready", "generating", "ended"}]
        /\ heard' \in [Reviews -> Seq(Events)]
        /\ origins' \subseteq Reviews /\ saved \subseteq saved' /\ saved' \subseteq Reviews
        /\ hasty \subseteq hasty' /\ hasty' \subseteq Reviews
    BY <1>4 DEF Prompt, Goes, results, Stages, Answers
  <2>4. \/ journal' = journal
        \/ \E what \in {"review.failed", "review.completed"}, decoded \in BOOLEAN :
             /\ journal' = journal \cup {[review |-> r, kind |-> what, decoded |-> decoded]}
             /\ stage'[r] = "done" /\ (decoded => answer'[r] = "decoded")
    BY <1>4 DEF Prompt, Goes, results
  <2>5. UNCHANGED <<said, stream, sinkVars, mutated>> /\ stage[r] # "done"
    BY <1>4 DEF Prompt, Goes, results
  <2> HIDE DEF CriticInv, CriticTypeOK
  <2> QED BY <2>1, <2>2, <2>3, <2>4, <2>5, CallSteps
<1>5. CASE Wait(r)
  <2>1. ReviewFits(r)'
    BY <1>0, <1>5 DEF Wait, Goes, host, results, sinkVars, ReviewFits, HeardChild, GivenUp
  <2>2. \A q \in Reviews \ {r} :
          /\ stage'[q] = stage[q] /\ answer'[q] = answer[q] /\ child'[q] = child[q]
          /\ heard'[q] = heard[q]
          /\ q \in origins' <=> q \in origins
    BY <1>5 DEF Wait, Goes, host, results
  <2>3. /\ stage' \in [Reviews -> Stages] /\ answer' \in [Reviews -> Answers]
        /\ child' \in [Reviews -> {"none", "ready", "generating", "ended"}]
        /\ heard' \in [Reviews -> Seq(Events)]
        /\ origins' \subseteq Reviews /\ saved \subseteq saved' /\ saved' \subseteq Reviews
        /\ hasty \subseteq hasty' /\ hasty' \subseteq Reviews
    BY <1>5 DEF Wait, Goes, host, results, Stages, Answers
  <2>4. \/ journal' = journal
        \/ \E what \in {"review.failed", "review.completed"}, decoded \in BOOLEAN :
             /\ journal' = journal \cup {[review |-> r, kind |-> what, decoded |-> decoded]}
             /\ stage'[r] = "done" /\ (decoded => answer'[r] = "decoded")
    BY <1>5 DEF Wait, Goes, host, results
  <2>5. UNCHANGED <<said, stream, sinkVars, mutated>> /\ stage[r] # "done"
    BY <1>5 DEF Wait, Goes, host, results
  <2> HIDE DEF CriticInv, CriticTypeOK
  <2> QED BY <2>1, <2>2, <2>3, <2>4, <2>5, CallSteps
<1>6. CASE ReadTranscript(r)
  <2>0. /\ heard' = heard \/ (heard' = [heard EXCEPT ![r] = Transcript(r)] /\ Transcript(r) # <<>>)
        /\ stage'[r] = "save" => heard' = [heard EXCEPT ![r] = Transcript(r)] /\ Transcript(r) # <<>>
        /\ hasty \subseteq hasty' /\ hasty' \subseteq Reviews
    BY <1>6 DEF ReadTranscript, Decode, Goes, host
  <2>1. ReviewFits(r)'
    <3>1. stage'[r] = "save" => HeardChild(r)'
      BY <1>6, <2>0, ReadingHears
    <3> QED BY <1>0, <1>6, <3>1 DEF ReadTranscript, Decode, Goes, host, ReviewFits, GivenUp
  <2>2. \A q \in Reviews \ {r} :
          /\ stage'[q] = stage[q] /\ answer'[q] = answer[q] /\ child'[q] = child[q]
          /\ heard'[q] = heard[q]
          /\ q \in origins' <=> q \in origins
    BY <1>6, <2>0 DEF ReadTranscript, Decode, Goes, host
  <2>3. /\ stage' \in [Reviews -> Stages] /\ answer' \in [Reviews -> Answers]
        /\ child' \in [Reviews -> {"none", "ready", "generating", "ended"}]
        /\ heard' \in [Reviews -> Seq(Events)]
        /\ origins' \subseteq Reviews /\ saved \subseteq saved' /\ saved' \subseteq Reviews
        /\ hasty \subseteq hasty' /\ hasty' \subseteq Reviews
    <3>1. heard' \in [Reviews -> Seq(Events)]
      BY <2>0, TranscriptIsRun
    <3>2. stage' \in [Reviews -> Stages]
      BY <1>6 DEF ReadTranscript, Decode, Goes, Stages
    <3>3. UNCHANGED <<child, answer, origins, saved>>
      BY <1>6 DEF ReadTranscript, Decode, host
    <3> QED BY <2>0, <3>1, <3>2, <3>3
  <2>4. \/ journal' = journal
        \/ \E what \in {"review.failed", "review.completed"}, decoded \in BOOLEAN :
             /\ journal' = journal \cup {[review |-> r, kind |-> what, decoded |-> decoded]}
             /\ stage'[r] = "done" /\ (decoded => answer'[r] = "decoded")
    BY <1>6 DEF ReadTranscript, Decode, Goes, host
  <2>5. UNCHANGED <<said, stream, sinkVars, mutated>> /\ stage[r] # "done"
    BY <1>6 DEF ReadTranscript, Decode, Goes, host
  <2> HIDE DEF CriticInv, CriticTypeOK
  <2> QED BY <2>1, <2>2, <2>3, <2>4, <2>5, CallSteps
<1>7. CASE SaveReport(r)
  <2>1. ReviewFits(r)'
    BY <1>0, <1>7 DEF SaveReport, Ends, Goes, host, sinkVars, ReviewFits, HeardChild, GivenUp
  <2>2. \A q \in Reviews \ {r} :
          /\ stage'[q] = stage[q] /\ answer'[q] = answer[q] /\ child'[q] = child[q]
          /\ heard'[q] = heard[q]
          /\ q \in origins' <=> q \in origins
    BY <1>7 DEF SaveReport, Ends, Goes, host
  <2>3. /\ stage' \in [Reviews -> Stages] /\ answer' \in [Reviews -> Answers]
        /\ child' \in [Reviews -> {"none", "ready", "generating", "ended"}]
        /\ heard' \in [Reviews -> Seq(Events)]
        /\ origins' \subseteq Reviews /\ saved \subseteq saved' /\ saved' \subseteq Reviews
        /\ hasty \subseteq hasty' /\ hasty' \subseteq Reviews
    BY <1>7 DEF SaveReport, Ends, Goes, host, Stages, Answers
  <2>4. \/ journal' = journal
        \/ \E what \in {"review.failed", "review.completed"}, decoded \in BOOLEAN :
             /\ journal' = journal \cup {[review |-> r, kind |-> what, decoded |-> decoded]}
             /\ stage'[r] = "done" /\ (decoded => answer'[r] = "decoded")
    BY <1>7 DEF SaveReport, Ends, Goes, host
  <2>5. UNCHANGED <<said, stream, sinkVars, mutated>> /\ stage[r] # "done"
    BY <1>7 DEF SaveReport, Ends, Goes, host
  <2> HIDE DEF CriticInv, CriticTypeOK
  <2> QED BY <2>1, <2>2, <2>3, <2>4, <2>5, CallSteps
<1>8. CASE Conclude(r)
  <2>1. ReviewFits(r)'
    BY <1>0, <1>8 DEF Conclude, Journalled, Ends, Goes, host, sinkVars, ReviewFits, HeardChild, GivenUp
  <2>2. \A q \in Reviews \ {r} :
          /\ stage'[q] = stage[q] /\ answer'[q] = answer[q] /\ child'[q] = child[q]
          /\ heard'[q] = heard[q]
          /\ q \in origins' <=> q \in origins
    BY <1>8 DEF Conclude, Journalled, Ends, Goes, host
  <2>3. /\ stage' \in [Reviews -> Stages] /\ answer' \in [Reviews -> Answers]
        /\ child' \in [Reviews -> {"none", "ready", "generating", "ended"}]
        /\ heard' \in [Reviews -> Seq(Events)]
        /\ origins' \subseteq Reviews /\ saved \subseteq saved' /\ saved' \subseteq Reviews
        /\ hasty \subseteq hasty' /\ hasty' \subseteq Reviews
    BY <1>8 DEF Conclude, Journalled, Ends, Goes, host, Stages, Answers
  <2>4. \/ journal' = journal
        \/ \E what \in {"review.failed", "review.completed"}, decoded \in BOOLEAN :
             /\ journal' = journal \cup {[review |-> r, kind |-> what, decoded |-> decoded]}
             /\ stage'[r] = "done" /\ (decoded => answer'[r] = "decoded")
    BY <1>8 DEF Conclude, Journalled, Ends, Goes, host
  <2>5. UNCHANGED <<said, stream, sinkVars, mutated>> /\ stage[r] # "done"
    BY <1>8 DEF Conclude, Journalled, Ends, Goes, host
  <2> HIDE DEF CriticInv, CriticTypeOK
  <2> QED BY <2>1, <2>2, <2>3, <2>4, <2>5, CallSteps
<1>9. CASE InterruptReview(r)
  <2>1. ReviewFits(r)'
    BY <1>0, <1>9 DEF InterruptReview, Ends, Goes, host, sinkVars, ReviewFits, HeardChild, GivenUp
  <2>2. \A q \in Reviews \ {r} :
          /\ stage'[q] = stage[q] /\ answer'[q] = answer[q] /\ child'[q] = child[q]
          /\ heard'[q] = heard[q]
          /\ q \in origins' <=> q \in origins
    BY <1>9 DEF InterruptReview, Ends, Goes, host
  <2>3. /\ stage' \in [Reviews -> Stages] /\ answer' \in [Reviews -> Answers]
        /\ child' \in [Reviews -> {"none", "ready", "generating", "ended"}]
        /\ heard' \in [Reviews -> Seq(Events)]
        /\ origins' \subseteq Reviews /\ saved \subseteq saved' /\ saved' \subseteq Reviews
        /\ hasty \subseteq hasty' /\ hasty' \subseteq Reviews
    BY <1>9 DEF InterruptReview, Ends, Goes, host, Stages, Answers
  <2>4. \/ journal' = journal
        \/ \E what \in {"review.failed", "review.completed"}, decoded \in BOOLEAN :
             /\ journal' = journal \cup {[review |-> r, kind |-> what, decoded |-> decoded]}
             /\ stage'[r] = "done" /\ (decoded => answer'[r] = "decoded")
    BY <1>9 DEF InterruptReview, Ends, Goes, host
  <2>5. UNCHANGED <<said, stream, sinkVars, mutated>> /\ stage[r] # "done"
    BY <1>9 DEF InterruptReview, Ends, Goes, host
  <2> HIDE DEF CriticInv, CriticTypeOK
  <2> QED BY <2>1, <2>2, <2>3, <2>4, <2>5, CallSteps
<1> QED BY <1>1, <1>2, <1>3, <1>4, <1>5, <1>6, <1>7, <1>8, <1>9

LEMMA CriticInductive == ASSUME CriticInv, [CriticNext]_criticVars PROVE CriticInv'
BY CriticStands, ConsumePreserves, PublishPreserves, ChildEndsPreserves, MutationPreserves,
   CallPreserves
   DEF CriticNext

LEMMA CriticInvariant == CriticSpec => []CriticInv
<1> QED BY CriticStart, CriticInductive, PTL DEF CriticSpec

(* The sink never holds more sessions than its limit, and the calls, their *)
(* answers and the events are of their types for any number of reviews and *)
(* texts (src/index.ts:497-743, Events.ts:101-187).                        *)
THEOREM CriticTypeCorrect == CriticSpec => []CriticTypeOK
<1>1. CriticInv => CriticTypeOK
  BY DEF CriticInv
<1> QED BY <1>1, CriticInvariant, PTL

(* For any number of reviews, other sessions, texts and places in the      *)
(* sink: what is answered or journalled as decoded was decoded from texts  *)
(* of its own child alone, in order and without a gap, from the first one  *)
(* unless the sink pushed the child out, to the last one unless the        *)
(* consumer was behind; and a child that changes a file was given up       *)
(* before (index.ts:561-743, Events.ts:125-153, Critic.ts:111-193).        *)
THEOREM GenuineReviews == CriticSpec => []ReviewsAreGenuine
<1>1. ASSUME CriticInv, NEW r \in Reviews
      PROVE  Cardinality({e \in journal : e.review = r}) <= 1
  <2> DEFINE E == {e \in journal : e.review = r}
  <2>1. E = {} \/ \E e : E = {e}
    BY <1>1 DEF CriticInv, JournalFits
  <2> HIDE DEF E
  <2>2. Cardinality(E) <= 1
    BY <2>1, FS_EmptySet, FS_Singleton
  <2> QED BY <2>2 DEF E
<1>2. CriticInv => ReviewsAreGenuine
  BY <1>1 DEF CriticInv, CriticTypeOK, JournalFits, ReviewFits, GivenUp, ReviewsAreGenuine
<1> QED BY <1>2, CriticInvariant, PTL

-----------------------------------------------------------------------------

(***************************************************************************)
(* The hooks (Hooks): the state a call was judged by, and its snapshot.    *)
(***************************************************************************)

Busy == {"running", "ended", "failed"}
Asking == {"before", "before: cache", "gate", "after", "after: cache", "feedback",
           "context", "context: cache"}
\* The mode counts as off, and no hook under way can bring it back on.
Quiet ==
  /\ cachedMode \in {FALSE, Unset}
  /\ cachedMode = Unset => storedMode = FALSE
  /\ \A f \in Caching : at[f] # "set: cache" => loading[f] = FALSE

ModesAreHeld ==
  /\ \A f \in Caching : loading[f] \in BOOLEAN
  /\ \A f \in Fibers : at[f] \in {"set", "set: cache"} =>
       loading[f] \in BOOLEAN /\ cachedMode # Unset

ToldIsOff ==
  told = FALSE =>
    /\ storedMode = FALSE
    /\ Quiet
    /\ \A f \in Fibers : at[f] # "set: cache"

SilentIsQuiet ==
  \A c \in silent : at[c] \in Asking => Quiet /\ at[c] # "feedback"

ActedIsDone == \A c \in acted : at[c] = "done" /\ c \notin silent

ModeInv == ModesAreHeld /\ ToldIsOff /\ SilentIsQuiet /\ ActedIsDone
HooksInv == HooksTypeOK /\ ModeInv /\ SnapshotsAreOwn

LEMMA HooksInitHolds == HooksInit => HooksInv
<1> SUFFICES ASSUME HooksInit PROVE HooksInv
  OBVIOUS
<1>1. HooksTypeOK
  BY DEF HooksInit, HooksTypeOK, HookPoints, CallKinds, Agents, Texts
<1>2. Caching = {}
  BY DEF HooksInit, Caching
<1>3. ModeInv
  BY <1>2, UnsetAssumption DEF HooksInit, ModeInv, ModesAreHeld, ToldIsOff, SilentIsQuiet, ActedIsDone
<1>4. SnapshotsAreOwn
  BY UnsetAssumption DEF HooksInit, SnapshotsAreOwn
<1> QED BY <1>1, <1>3, <1>4 DEF HooksInv

-----------------------------------------------------------------------------
(* Steps that leave the snapshots alone *)

\* A call leaves the tool only by its after-hook.
LEMMA SnapshotsStand ==
  ASSUME HooksTypeOK, SnapshotsAreOwn, NEW f \in Fibers, NEW to,
         at' = [at EXCEPT ![f] = to], UNCHANGED <<snapshots, seen>>,
         at[f] \in Busy => to \in Busy
  PROVE  SnapshotsAreOwn'
BY DEF HooksTypeOK, SnapshotsAreOwn, Busy, snapshotKey, SnapshotByCall, Fibers

\* A fiber that only moves: it asks for nothing new, or the mode is quiet.
LEMMA ModeStands ==
  ASSUME HooksTypeOK, ModeInv, NEW f \in Fibers, NEW to,
         at' = [at EXCEPT ![f] = to], UNCHANGED modeVars,
         at[f] # "done", f \notin Caching,
         to \notin {"before: cache", "after: cache", "context: cache", "toggle: cache",
                    "set", "set: cache"},
         \/ silent' = silent /\ (to \in Asking => at[f] \in Asking)
         \/ f \in Calls /\ Begins(f),
         to = "feedback" => f \notin silent',
         \/ acted' = acted
         \/ acted' = acted \cup {f} /\ f \notin silent' /\ to = "done"
  PROVE  ModeInv'
<1>1. Caching' = Caching
  BY DEF HooksTypeOK, Caching
<1>2. \A g \in Caching : g # f /\ at'[g] = at[g]
  BY DEF HooksTypeOK, Caching
<1>3. Quiet' <=> Quiet
  BY <1>1, <1>2 DEF Quiet, modeVars
<1>4. ModesAreHeld' /\ ToldIsOff'
  BY <1>1, <1>2, <1>3 DEF HooksTypeOK, ModeInv, ModesAreHeld, ToldIsOff, modeVars
<1>5. SilentIsQuiet'
  BY <1>3 DEF HooksTypeOK, ModeInv, SilentIsQuiet, ToldIsOff, Begins, Fibers
<1>6. ActedIsDone'
  BY DEF HooksTypeOK, ModeInv, ActedIsDone, Begins, Fibers
<1> QED BY <1>4, <1>5, <1>6 DEF ModeInv

-----------------------------------------------------------------------------
(* Steps that learn the mode *)

\* A fiber that loads the mode while all is quiet loads FALSE.
LEMMA LoadingStands ==
  ASSUME HooksInv, NEW f \in Fibers, NEW from, NEW caching,
         LoadMode(f, from, caching),
         \/ /\ from \in {"before", "after", "context"} /\ f \in Calls
            /\ caching \in {"before: cache", "after: cache", "context: cache"}
         \/ from = "idle" /\ caching = "toggle: cache"
  PROVE  HooksInv'
<1> DEFINE v == loading'[f]
<1> USE UnsetAssumption
<1>t. HooksTypeOK /\ ModeInv /\ SnapshotsAreOwn
  BY DEF HooksInv
<1>1. /\ at[f] = from /\ at' = [at EXCEPT ![f] = caching]
      /\ cachedMode = Unset /\ cachedMode' = Unset
      /\ UNCHANGED <<storedMode, acted, kind, agent, file, snapshots, taken, seen>>
      /\ loading' = [loading EXCEPT ![f] = v]
      /\ v \in BOOLEAN
      /\ \/ told' = told /\ silent' = silent /\ (storedMode = FALSE => v = FALSE)
         \/ told' # FALSE /\ silent' = {} /\ told' \in BOOLEAN \cup {Unset}
  BY <1>t DEF LoadMode, Moves, callVars, HooksTypeOK, Fibers
<1>2. HooksTypeOK'
  BY <1>t, <1>1 DEF HooksTypeOK, HookPoints
<1>3. Caching' = Caching \cup {f} /\ f \notin Caching
  BY <1>t, <1>1 DEF HooksTypeOK, Caching, Asking
<1>4. Quiet /\ v = FALSE => Quiet'
  BY <1>t, <1>1, <1>3 DEF Quiet, HooksTypeOK, Caching
<1>5. Quiet => storedMode = FALSE
  BY <1>1 DEF Quiet
<1>6. ModesAreHeld'
  <2>1. \A g \in Caching' : loading'[g] \in BOOLEAN
    BY <1>t, <1>1, <1>3 DEF ModeInv, ModesAreHeld, HooksTypeOK, Caching
  <2>2. \A g \in Fibers : at'[g] \in {"set", "set: cache"} => at[g] \in {"set", "set: cache"}
    BY <1>t, <1>1 DEF HooksTypeOK
  <2>3. \A g \in Fibers : at[g] \notin {"set", "set: cache"}
    BY <1>t, <1>1 DEF ModeInv, ModesAreHeld
  <2> QED BY <2>1, <2>2, <2>3 DEF ModesAreHeld
<1>7. ToldIsOff'
  BY <1>t, <1>1, <1>4, <1>5 DEF ModeInv, ToldIsOff, HooksTypeOK
<1>8. SilentIsQuiet'
  BY <1>t, <1>1, <1>4, <1>5 DEF ModeInv, SilentIsQuiet, HooksTypeOK, Asking, Fibers
<1>9. ActedIsDone'
  BY <1>t, <1>1 DEF ModeInv, ActedIsDone, HooksTypeOK, Fibers, Asking
<1>10. SnapshotsAreOwn'
  BY <1>t, <1>1, SnapshotsStand DEF Busy, Asking
<1> QED BY <1>2, <1>6, <1>7, <1>8, <1>9, <1>10 DEF HooksInv, ModeInv

\* A call that knows the mode acts on it only when the mode is not quiet.
LEMMA KnowingStands ==
  ASSUME HooksInv, NEW c \in Calls, NEW on \in BOOLEAN, NEW to,
         NEW from \in {"before", "after", "context"}, NEW caching \in
           {"before: cache", "after: cache", "context: cache"},
         KnowsMode(c, on, from, caching), Goto(c, to), UNCHANGED <<silent, callVars>>,
         to \in {"done", "running", "gate", "feedback"}, to = "feedback" => on,
         \/ acted' = acted
         \/ acted' = acted \cup {c} /\ on /\ to = "done"
  PROVE  HooksInv'
<1> USE UnsetAssumption
<1>t. HooksTypeOK /\ ModeInv /\ SnapshotsAreOwn /\ c \in Fibers
  BY DEF HooksInv, Fibers
<1>1. /\ at' = [at EXCEPT ![c] = to] /\ at[c] \in {from, caching}
      /\ UNCHANGED <<storedMode, told, silent, kind, agent, file, snapshots, taken, seen>>
  BY DEF KnowsMode, Goto, callVars, modeVars
<1>2. HooksTypeOK'
  BY <1>t, <1>1 DEF HooksTypeOK, HookPoints, KnowsMode, modeVars
<1>3. SnapshotsAreOwn'
  BY <1>t, <1>1, SnapshotsStand DEF Busy
<1>4. c \in silent => ~on
  BY <1>t, <1>1 DEF KnowsMode, ModeInv, SilentIsQuiet, Asking, Quiet, Caching, HooksTypeOK
<1>5. CASE cachedMode # Unset /\ at[c] = from /\ on = cachedMode /\ UNCHANGED modeVars
  <2>1. c \notin Caching /\ at[c] \in Asking /\ at[c] # "done"
    BY <1>5 DEF Caching, Asking
  <2> QED BY <1>t, <1>1, <1>2, <1>3, <1>4, <1>5, <2>1, ModeStands DEF HooksInv
<1>6. CASE /\ at[c] = caching
           /\ on = loading[c]
           /\ cachedMode' = loading[c]
           /\ loading' = [loading EXCEPT ![c] = Unset]
  <2>1. Caching' = Caching \ {c} /\ c \in Caching
    BY <1>t, <1>1, <1>6 DEF HooksTypeOK, Caching
  <2>2. \A g \in Caching' : at'[g] = at[g] /\ loading'[g] = loading[g]
    BY <1>t, <1>1, <1>6, <2>1 DEF HooksTypeOK, Caching
  <2>3. Quiet => Quiet'
    BY <1>6, <1>1, <2>1, <2>2 DEF Quiet
  <2>4. ModesAreHeld'
    BY <1>t, <1>1, <1>6, <2>1, <2>2 DEF ModeInv, ModesAreHeld, HooksTypeOK
  <2>5. ToldIsOff'
    BY <1>t, <1>1, <2>3 DEF ModeInv, ToldIsOff, HooksTypeOK
  <2>6. SilentIsQuiet'
    BY <1>t, <1>1, <1>4, <2>3 DEF ModeInv, SilentIsQuiet, HooksTypeOK, Asking, Fibers
  <2>7. ActedIsDone'
    BY <1>t, <1>1, <1>4 DEF ModeInv, ActedIsDone, HooksTypeOK, Fibers
  <2> QED BY <1>2, <1>3, <2>4, <2>5, <2>6, <2>7 DEF HooksInv, ModeInv
<1> QED BY <1>5, <1>6 DEF KnowsMode

LEMMA CheckModeHolds ==
  ASSUME HooksInv, NEW c \in Calls, CheckMode(c)
  PROVE  HooksInv'
<1>1. CASE LoadMode(c, "before", "before: cache")
  BY <1>1, LoadingStands DEF Fibers
<1>2. CASE ~LoadMode(c, "before", "before: cache")
  <2>1. PICK on \in BOOLEAN :
          /\ KnowsMode(c, on, "before", "before: cache")
          /\ \/ /\ on /\ agent[c] = "strict" /\ kind[c] \in {"shell", "patch"}
                /\ Goto(c, "done")
                /\ Acts(c)
             \/ /\ kind[c] = "shell" => ~(on /\ agent[c] = "strict")
                /\ Goto(c, IF kind[c] = "shell" THEN "running" ELSE "gate")
                /\ acted' = acted
    BY <1>2 DEF CheckMode
  <2>2. UNCHANGED <<silent, callVars>>
    BY <1>2 DEF CheckMode
  <2>3. CASE on /\ Goto(c, "done") /\ Acts(c)
    BY <2>1, <2>2, <2>3, KnowingStands DEF Acts
  <2>4. CASE Goto(c, IF kind[c] = "shell" THEN "running" ELSE "gate") /\ acted' = acted
    <3>1. PICK to \in {"running", "gate"} : Goto(c, to)
      BY <2>4
    <3> QED BY <2>1, <2>2, <2>4, <3>1, KnowingStands
  <2> QED BY <2>1, <2>3, <2>4
<1> QED BY <1>1, <1>2

LEMMA CheckModeAfterHolds ==
  ASSUME HooksInv, NEW c \in Calls, CheckModeAfter(c)
  PROVE  HooksInv'
<1>1. CASE LoadMode(c, "after", "after: cache")
  BY <1>1, LoadingStands DEF Fibers
<1>2. CASE ~LoadMode(c, "after", "after: cache")
  <2>1. PICK on \in BOOLEAN :
          KnowsMode(c, on, "after", "after: cache") /\ Goto(c, IF on THEN "feedback" ELSE "done")
    BY <1>2 DEF CheckModeAfter
  <2>2. UNCHANGED <<acted, silent, callVars>>
    BY <1>2 DEF CheckModeAfter
  <2>3. PICK to \in {"feedback", "done"} : Goto(c, to) /\ (to = "feedback" => on)
    BY <2>1
  <2> QED BY <2>1, <2>2, <2>3, KnowingStands
<1> QED BY <1>1, <1>2

LEMMA GuideHolds ==
  ASSUME HooksInv, NEW c \in Calls, Guide(c)
  PROVE  HooksInv'
<1>1. CASE LoadMode(c, "context", "context: cache")
  BY <1>1, LoadingStands DEF Fibers
<1>2. CASE ~LoadMode(c, "context", "context: cache")
  <2>1. PICK on \in BOOLEAN :
          /\ KnowsMode(c, on, "context", "context: cache")
          /\ Goto(c, "done")
          /\ IF on /\ agent[c] # "opted out" THEN Acts(c) ELSE acted' = acted
    BY <1>2 DEF Guide
  <2>2. UNCHANGED <<silent, callVars>>
    BY <1>2 DEF Guide
  <2>3. acted' = acted \/ (acted' = acted \cup {c} /\ on)
    BY <2>1 DEF Acts
  <2> QED BY <2>1, <2>2, <2>3, KnowingStands
<1> QED BY <1>1, <1>2

-----------------------------------------------------------------------------
(* The toggle *)

LEMMA ToggleReadsHolds ==
  ASSUME HooksInv, NEW t \in Toggles, ToggleReads(t)
  PROVE  HooksInv'
<1> USE UnsetAssumption
<1>t. HooksTypeOK /\ ModeInv /\ SnapshotsAreOwn /\ t \in Fibers
  BY DEF HooksInv, Fibers
<1>1. CASE LoadMode(t, "idle", "toggle: cache")
  BY <1>t, <1>1, LoadingStands
<1>2. CASE ~LoadMode(t, "idle", "toggle: cache")
  <2>1. PICK desired \in BOOLEAN :
          /\ \/ cachedMode # Unset /\ at[t] = "idle" /\ cachedMode' = cachedMode
             \/ at[t] = "toggle: cache" /\ cachedMode' = loading[t]
          /\ Goto(t, "set")
          /\ loading' = [loading EXCEPT ![t] = desired]
          /\ UNCHANGED <<storedMode, told, acted, silent, callVars>>
    BY <1>2 DEF ToggleReads
  <2>2. /\ at' = [at EXCEPT ![t] = "set"]
        /\ UNCHANGED <<storedMode, told, acted, silent, kind, agent, file, snapshots, taken, seen>>
        /\ at[t] \notin Busy /\ at[t] # "done"
    BY <2>1 DEF Goto, callVars, Busy
  <2>3. cachedMode' \in BOOLEAN
    BY <1>t, <2>1 DEF HooksTypeOK, ModeInv, ModesAreHeld, Caching
  <2>4. HooksTypeOK'
    BY <1>t, <2>1, <2>2, <2>3 DEF HooksTypeOK, HookPoints
  <2>5. Caching' = Caching \ {t} /\ \A g \in Caching' : at'[g] = at[g] /\ loading'[g] = loading[g]
    BY <1>t, <2>1, <2>2 DEF HooksTypeOK, Caching
  <2>6. Quiet => Quiet'
    BY <1>t, <2>1, <2>2, <2>3, <2>5 DEF Quiet, Caching
  <2>7. ModesAreHeld'
    BY <1>t, <2>1, <2>2, <2>3, <2>5 DEF ModeInv, ModesAreHeld, HooksTypeOK
  <2>8. ToldIsOff'
    BY <1>t, <2>2, <2>6 DEF ModeInv, ToldIsOff, HooksTypeOK
  <2>9. SilentIsQuiet'
    BY <1>t, <2>2, <2>6 DEF ModeInv, SilentIsQuiet, HooksTypeOK, Asking, Fibers
  <2>10. ActedIsDone'
    BY <1>t, <2>2 DEF ModeInv, ActedIsDone, HooksTypeOK, Fibers
  <2>11. SnapshotsAreOwn'
    BY <1>t, <2>2, SnapshotsStand
  <2> QED BY <2>4, <2>7, <2>8, <2>9, <2>10, <2>11 DEF HooksInv, ModeInv
<1> QED BY <1>1, <1>2

LEMMA ToggleStoresHolds ==
  ASSUME HooksInv, NEW t \in Toggles, ToggleStores(t)
  PROVE  HooksInv'
<1> USE UnsetAssumption
<1>t. HooksTypeOK /\ ModeInv /\ SnapshotsAreOwn /\ t \in Fibers
  BY DEF HooksInv, Fibers
<1>1. /\ UNCHANGED <<cachedMode, acted, silent, kind, agent, file, snapshots, taken, seen>>
      /\ at[t] = "set" /\ loading[t] \in BOOLEAN /\ cachedMode \in BOOLEAN
  BY <1>t DEF ToggleStores, Moves, callVars, ModeInv, ModesAreHeld, HooksTypeOK
<1>2. CASE /\ at' = [at EXCEPT ![t] = "set: cache"]
           /\ storedMode' = loading[t]
           /\ loading' = loading
           /\ told' = Unset
  <2>1. HooksTypeOK'
    BY <1>t, <1>1, <1>2 DEF HooksTypeOK, HookPoints
  <2>2. Caching' = Caching \cup {t} /\ \A g \in Caching : g # t /\ at'[g] = at[g]
    BY <1>t, <1>1, <1>2 DEF HooksTypeOK, Caching
  <2>3. Quiet => Quiet'
    BY <1>t, <1>1, <1>2, <2>2 DEF Quiet, HooksTypeOK
  <2>4. ModesAreHeld'
    BY <1>t, <1>1, <1>2, <2>2 DEF ModeInv, ModesAreHeld, HooksTypeOK
  <2>5. ToldIsOff'
    BY <1>2 DEF ToldIsOff
  <2>6. SilentIsQuiet' /\ ActedIsDone'
    BY <1>t, <1>1, <1>2, <2>3 DEF ModeInv, SilentIsQuiet, ActedIsDone, HooksTypeOK, Asking, Fibers
  <2>7. SnapshotsAreOwn'
    BY <1>t, <1>1, <1>2, SnapshotsStand DEF Busy
  <2> QED BY <2>1, <2>4, <2>5, <2>6, <2>7 DEF HooksInv, ModeInv
<1>3. CASE /\ at' = [at EXCEPT ![t] = "idle"]
           /\ loading' = [loading EXCEPT ![t] = Unset]
           /\ UNCHANGED <<storedMode, told>>
  <2>1. HooksTypeOK'
    BY <1>t, <1>1, <1>3 DEF HooksTypeOK, HookPoints
  <2>2. Caching' = Caching /\ \A g \in Caching : g # t /\ at'[g] = at[g] /\ loading'[g] = loading[g]
    BY <1>t, <1>1, <1>3 DEF HooksTypeOK, Caching
  <2>3. Quiet <=> Quiet'
    BY <1>t, <1>1, <1>3, <2>2 DEF Quiet
  <2>4. ModesAreHeld' /\ ToldIsOff'
    BY <1>t, <1>1, <1>3, <2>2, <2>3 DEF ModeInv, ModesAreHeld, ToldIsOff, HooksTypeOK
  <2>6. SilentIsQuiet' /\ ActedIsDone'
    BY <1>t, <1>1, <1>3, <2>3 DEF ModeInv, SilentIsQuiet, ActedIsDone, HooksTypeOK, Asking, Fibers
  <2>7. SnapshotsAreOwn'
    BY <1>t, <1>1, <1>3, SnapshotsStand DEF Busy
  <2> QED BY <2>1, <2>4, <2>6, <2>7 DEF HooksInv, ModeInv
<1> QED BY <1>2, <1>3 DEF ToggleStores, Moves

\* The answer "disabled" counts when no other fiber holds a mode to cache.
LEMMA ToggleCachesHolds ==
  ASSUME HooksInv, NEW t \in Toggles, ToggleCaches(t)
  PROVE  HooksInv'
<1> USE UnsetAssumption
<1>t. HooksTypeOK /\ ModeInv /\ SnapshotsAreOwn /\ t \in Fibers
  BY DEF HooksInv, Fibers
<1>1. /\ at[t] = "set: cache" /\ at' = [at EXCEPT ![t] = "idle"]
      /\ cachedMode' = loading[t]
      /\ loading' = [loading EXCEPT ![t] = Unset]
      /\ told' = IF Caching = {t} /\ storedMode = loading[t] THEN loading[t] ELSE Unset
      /\ silent' = IF loading[t] THEN {} ELSE silent
      /\ UNCHANGED <<storedMode, acted, kind, agent, file, snapshots, taken, seen>>
  BY DEF ToggleCaches, Moves, callVars
<1>2. loading[t] \in BOOLEAN
  BY <1>t, <1>1 DEF ModeInv, ModesAreHeld
<1>3. told' \in BOOLEAN \cup {Unset} /\ silent' \subseteq silent
  BY <1>1, <1>2
<1>4. HooksTypeOK'
  BY <1>t, <1>1, <1>2, <1>3 DEF HooksTypeOK, HookPoints
<1>5. /\ Caching' = Caching \ {t}
      /\ \A g \in Caching' : at'[g] = at[g] /\ loading'[g] = loading[g]
  BY <1>t, <1>1 DEF HooksTypeOK, Caching
<1>6. loading[t] = FALSE /\ Quiet => Quiet'
  BY <1>1, <1>5 DEF Quiet
<1>7. ModesAreHeld'
  BY <1>t, <1>1, <1>2, <1>5 DEF ModeInv, ModesAreHeld, HooksTypeOK
<1>8. ToldIsOff'
  <2> SUFFICES ASSUME told' = FALSE
               PROVE  storedMode' = FALSE /\ Quiet' /\ \A f \in Fibers : at'[f] # "set: cache"
    BY DEF ToldIsOff
  <2>1. Caching = {t} /\ storedMode = FALSE /\ loading[t] = FALSE
    BY <1>1, <1>2
  <2>2. Caching' = {}
    BY <2>1, <1>5
  <2>3. Quiet'
    BY <1>1, <2>1, <2>2 DEF Quiet
  <2>4. \A f \in Fibers : at'[f] # "set: cache"
    BY <2>2 DEF Caching
  <2> QED BY <1>1, <2>1, <2>3, <2>4
<1>9. SilentIsQuiet'
  <2>1. CASE loading[t] = TRUE
    BY <1>1, <2>1 DEF SilentIsQuiet
  <2>2. CASE loading[t] = FALSE
    BY <1>t, <1>1, <2>2, <1>6 DEF ModeInv, SilentIsQuiet, HooksTypeOK, Asking, Fibers
  <2> QED BY <1>2, <2>1, <2>2
<1>10. ActedIsDone'
  BY <1>t, <1>1, <1>3 DEF ModeInv, ActedIsDone, HooksTypeOK, Fibers
<1>11. SnapshotsAreOwn'
  BY <1>t, <1>1, SnapshotsStand DEF Busy
<1> QED BY <1>4, <1>7, <1>8, <1>9, <1>10, <1>11 DEF HooksInv, ModeInv

-----------------------------------------------------------------------------
(* The other steps of a call, and a restart *)

LEMMA BeforeHolds ==
  ASSUME HooksInv, NEW c \in Calls, Before(c)
  PROVE  HooksInv'
<1>t. HooksTypeOK /\ ModeInv /\ SnapshotsAreOwn /\ c \in Fibers
  BY DEF HooksInv, Fibers
<1>1. PICK k \in CallKinds \ {"context"}, a \in Agents :
    /\ kind' = [kind EXCEPT ![c] = k]
    /\ agent' = [agent EXCEPT ![c] = a]
    /\ Begins(c)
    /\ \E to \in {"done", "before", "running"} : Moves(c, "idle", to)
    /\ UNCHANGED <<modeVars, file, snapshots, taken, seen, acted>>
  BY DEF Before
<1>2. PICK to \in {"done", "before", "running"} : at' = [at EXCEPT ![c] = to] /\ at[c] = "idle"
  BY <1>1 DEF Moves
<1>3. HooksTypeOK'
  BY <1>t, <1>1, <1>2 DEF HooksTypeOK, HookPoints, Begins, modeVars
<1>4. ModeInv'
  BY <1>t, <1>1, <1>2, ModeStands DEF Caching
<1>5. SnapshotsAreOwn'
  BY <1>t, <1>1, <1>2, SnapshotsStand DEF Busy
<1> QED BY <1>3, <1>4, <1>5 DEF HooksInv

LEMMA GateHolds ==
  ASSUME HooksInv, NEW c \in Calls, Gate(c)
  PROVE  HooksInv'
<1> USE UnsetAssumption
<1>t. HooksTypeOK /\ ModeInv /\ SnapshotsAreOwn /\ c \in Fibers
  BY DEF HooksInv, Fibers
<1>1. PICK to \in {"done", "snapshot"} : at' = [at EXCEPT ![c] = to] /\ at[c] = "gate"
  BY DEF Gate, Moves
<1>2. UNCHANGED <<modeVars, silent, kind, agent, file, snapshots, taken, seen>>
  BY DEF Gate, callVars
<1>3. acted' = acted \/ (acted' = acted \cup {c} /\ to = "done" /\ cachedMode = TRUE)
  BY <1>t, <1>1 DEF Gate, Moves, Acts, HooksTypeOK
<1>4. HooksTypeOK'
  BY <1>t, <1>1, <1>2, <1>3 DEF HooksTypeOK, HookPoints, modeVars
<1>5. cachedMode = TRUE => c \notin silent
  BY <1>t, <1>1 DEF ModeInv, SilentIsQuiet, Quiet, Asking
<1>6. ModeInv'
  BY <1>t, <1>1, <1>2, <1>3, <1>5, ModeStands DEF Caching, Asking
<1>7. SnapshotsAreOwn'
  BY <1>t, <1>1, <1>2, SnapshotsStand DEF Busy
<1> QED BY <1>4, <1>6, <1>7 DEF HooksInv

\* Two calls never share a key.
LEMMA KeysAreOwn ==
  /\ \A c \in Calls : snapshotKey(c) \in Keys
  /\ \A c, d \in Calls : snapshotKey(c) = snapshotKey(d) => c = d
BY DEF snapshotKey, SnapshotByCall, Keys

LEMMA TakeSnapshotHolds ==
  ASSUME HooksInv, NEW c \in Calls, TakeSnapshot(c)
  PROVE  HooksInv'
<1>t. HooksTypeOK /\ ModeInv /\ SnapshotsAreOwn /\ c \in Fibers
  BY DEF HooksInv, Fibers
<1>1. PICK to \in {"done", "running"} : at' = [at EXCEPT ![c] = to] /\ at[c] = "snapshot"
  BY DEF TakeSnapshot, Moves
<1>2. UNCHANGED <<modeVars, silent, acted, kind, agent, file, taken>>
  BY DEF TakeSnapshot, callVars
<1>3. ModeInv'
  BY <1>t, <1>1, <1>2, ModeStands DEF Caching, Asking
<1>4. CASE UNCHANGED <<snapshots, seen>>
  <2>1. HooksTypeOK'
    BY <1>t, <1>1, <1>2, <1>4 DEF HooksTypeOK, HookPoints, modeVars
  <2>2. SnapshotsAreOwn'
    BY <1>t, <1>1, <1>4, SnapshotsStand DEF Busy
  <2> QED BY <1>3, <2>1, <2>2 DEF HooksInv
<1>5. CASE /\ at' = [at EXCEPT ![c] = "running"]
           /\ snapshots' = [snapshots EXCEPT ![snapshotKey(c)] = file]
           /\ seen' = [seen EXCEPT ![c] = file]
  <2>1. HooksTypeOK'
    BY <1>t, <1>2, <1>5 DEF HooksTypeOK, HookPoints, modeVars
  <2>2. \A d \in Calls : seen'[d] # Unset => snapshots'[snapshotKey(d)] = seen'[d]
    BY <1>t, <1>5, KeysAreOwn DEF HooksTypeOK, SnapshotsAreOwn
  <2>3. ASSUME NEW k \in Keys, snapshots'[k] # Unset
        PROVE  \E d \in Calls : at'[d] \in {"running", "ended", "failed"} /\ k = snapshotKey(d)
    <3>1. CASE k = snapshotKey(c)
      BY <1>t, <1>5, <3>1 DEF HooksTypeOK
    <3>2. CASE k # snapshotKey(c)
      <4>1. PICK d \in Calls : at[d] \in {"running", "ended", "failed"} /\ k = snapshotKey(d)
        BY <1>t, <1>5, <2>3, <3>2 DEF HooksTypeOK, SnapshotsAreOwn
      <4> QED BY <1>t, <1>1, <1>5, <4>1 DEF HooksTypeOK, Fibers
    <3> QED BY <3>1, <3>2
  <2>4. SnapshotsAreOwn'
    BY <2>2, <2>3 DEF SnapshotsAreOwn, snapshotKey, SnapshotByCall
  <2> QED BY <1>3, <2>1, <2>4 DEF HooksInv
<1> QED BY <1>4, <1>5 DEF TakeSnapshot, Moves, callVars

LEMMA RunHolds ==
  ASSUME HooksInv, NEW c \in Calls, Run(c)
  PROVE  HooksInv'
<1>t. HooksTypeOK /\ ModeInv /\ SnapshotsAreOwn /\ c \in Fibers
  BY DEF HooksInv, Fibers
<1>1. PICK to \in {"ended", "failed"} : at' = [at EXCEPT ![c] = to] /\ at[c] = "running"
  BY DEF Run, Moves
<1>2. /\ UNCHANGED <<modeVars, silent, acted, kind, agent, snapshots, taken, seen>>
      /\ file' \in {"old", "new", file}
  BY DEF Run
<1>3. HooksTypeOK'
  BY <1>t, <1>1, <1>2 DEF HooksTypeOK, HookPoints, modeVars, Texts
<1>4. ModeInv'
  BY <1>t, <1>1, <1>2, ModeStands DEF Caching, Asking
<1>5. SnapshotsAreOwn'
  BY <1>t, <1>1, <1>2, SnapshotsStand DEF Busy
<1> QED BY <1>3, <1>4, <1>5 DEF HooksInv

LEMMA AfterHolds ==
  ASSUME HooksInv, NEW c \in Calls, After(c)
  PROVE  HooksInv'
<1>t. HooksTypeOK /\ ModeInv /\ SnapshotsAreOwn /\ c \in Fibers
  BY DEF HooksInv, Fibers
<1>1. PICK to \in {"after", "done"} :
        at' = [at EXCEPT ![c] = to] /\ at[c] \in {"ended", "failed"}
  BY DEF After, Moves
<1>2. /\ UNCHANGED <<modeVars, acted, kind, agent, file>>
      /\ Begins(c)
      /\ snapshots' = [snapshots EXCEPT ![snapshotKey(c)] = Unset]
      /\ seen' = [seen EXCEPT ![c] = Unset]
      /\ \/ taken' = taken
         \/ taken' = [taken EXCEPT ![c] = snapshots[snapshotKey(c)]]
  BY DEF After
<1>3. HooksTypeOK'
  <2>1. taken' \in [Calls -> Texts \cup {Unset}] /\ snapshots' \in [Keys -> Texts \cup {Unset}]
    BY <1>t, <1>2, KeysAreOwn DEF HooksTypeOK
  <2> QED BY <1>t, <1>1, <1>2, <2>1 DEF HooksTypeOK, HookPoints, modeVars, Begins
<1>4. ModeInv'
  BY <1>t, <1>1, <1>2, ModeStands DEF Caching
<1>5. \A d \in Calls : seen'[d] # Unset => snapshots'[snapshotKey(d)] = seen'[d]
  BY <1>t, <1>2, KeysAreOwn DEF HooksTypeOK, SnapshotsAreOwn
<1>6. ASSUME NEW k \in Keys, snapshots'[k] # Unset
      PROVE  \E d \in Calls : at'[d] \in {"running", "ended", "failed"} /\ k = snapshotKey(d)
  <2>1. k # snapshotKey(c)
    BY <1>t, <1>2, <1>6, KeysAreOwn DEF HooksTypeOK
  <2>2. PICK d \in Calls : at[d] \in {"running", "ended", "failed"} /\ k = snapshotKey(d)
    BY <1>t, <1>2, <1>6, <2>1 DEF HooksTypeOK, SnapshotsAreOwn
  <2> QED BY <1>t, <1>1, <2>1, <2>2 DEF HooksTypeOK, Fibers
<1>7. SnapshotsAreOwn'
  BY <1>5, <1>6 DEF SnapshotsAreOwn, snapshotKey, SnapshotByCall
<1> QED BY <1>3, <1>4, <1>7 DEF HooksInv

LEMMA FeedbackHolds ==
  ASSUME HooksInv, NEW c \in Calls, Feedback(c)
  PROVE  HooksInv'
<1>t. HooksTypeOK /\ ModeInv /\ SnapshotsAreOwn /\ c \in Fibers
  BY DEF HooksInv, Fibers
<1>1. /\ at[c] = "feedback" /\ at' = [at EXCEPT ![c] = "done"]
      /\ UNCHANGED <<modeVars, silent, kind, agent, file, snapshots, seen>>
      /\ acted' \in {acted, acted \cup {c}}
      /\ taken' = [taken EXCEPT ![c] = Unset]
  BY DEF Feedback, Moves, Acts
<1>2. HooksTypeOK'
  BY <1>t, <1>1 DEF HooksTypeOK, HookPoints, modeVars
<1>3. c \notin silent
  BY <1>t, <1>1 DEF ModeInv, SilentIsQuiet, Asking
<1>4. ModeInv'
  BY <1>t, <1>1, <1>3, ModeStands DEF Caching, Asking
<1>5. SnapshotsAreOwn'
  BY <1>t, <1>1, SnapshotsStand DEF Busy
<1> QED BY <1>2, <1>4, <1>5 DEF HooksInv

LEMMA ContextHolds ==
  ASSUME HooksInv, NEW c \in Calls, Context(c)
  PROVE  HooksInv'
<1>t. HooksTypeOK /\ ModeInv /\ SnapshotsAreOwn /\ c \in Fibers
  BY DEF HooksInv, Fibers
<1>1. PICK to \in {"context", "done"} : at' = [at EXCEPT ![c] = to] /\ at[c] = "idle"
  BY DEF Context, Moves
<1>2. /\ UNCHANGED <<modeVars, file, snapshots, taken, seen, acted>>
      /\ Begins(c)
      /\ kind' = [kind EXCEPT ![c] = "context"]
      /\ \E a \in Agents : agent' = [agent EXCEPT ![c] = a]
  BY DEF Context
<1>3. HooksTypeOK'
  BY <1>t, <1>1, <1>2 DEF HooksTypeOK, HookPoints, modeVars, Begins, CallKinds
<1>4. ModeInv'
  BY <1>t, <1>1, <1>2, ModeStands DEF Caching
<1>5. SnapshotsAreOwn'
  BY <1>t, <1>1, <1>2, SnapshotsStand DEF Busy
<1> QED BY <1>3, <1>4, <1>5 DEF HooksInv

LEMMA RestartHolds ==
  ASSUME HooksInv, Restart
  PROVE  HooksInv'
<1> USE UnsetAssumption
<1>t. HooksTypeOK /\ ModeInv
  BY DEF HooksInv
<1>1. HooksTypeOK'
  BY <1>t DEF Restart, HooksTypeOK, HookPoints
<1>2. /\ \A f \in Fibers : at'[f] \in {"done", "idle"}
      /\ Caching' = {}
  BY DEF Restart, Caching
<1>3. storedMode = FALSE => Quiet'
  BY <1>2 DEF Restart, Quiet
<1>4. ModesAreHeld' /\ ToldIsOff'
  BY <1>t, <1>2, <1>3 DEF Restart, ModeInv, ModesAreHeld, ToldIsOff
<1>5. SilentIsQuiet' /\ ActedIsDone'
  BY <1>t, <1>1, <1>2 DEF Restart, ModeInv, SilentIsQuiet, ActedIsDone, HooksTypeOK, Asking, Fibers
<1>6. SnapshotsAreOwn'
  BY DEF Restart, SnapshotsAreOwn
<1> QED BY <1>1, <1>4, <1>5, <1>6 DEF HooksInv, ModeInv

LEMMA HooksInvInductive == HooksInv /\ [HooksNext]_hookVars => HooksInv'
<1> SUFFICES ASSUME HooksInv, [HooksNext]_hookVars PROVE HooksInv'
  OBVIOUS
<1>1. CASE Restart
  BY <1>1, RestartHolds
<1>2. CASE \E t \in Toggles : ToggleReads(t) \/ ToggleStores(t) \/ ToggleCaches(t)
  BY <1>2, ToggleReadsHolds, ToggleStoresHolds, ToggleCachesHolds
<1>3. ASSUME NEW c \in Calls,
             \/ Before(c) \/ CheckMode(c) \/ Gate(c) \/ TakeSnapshot(c) \/ Run(c)
             \/ After(c) \/ CheckModeAfter(c) \/ Feedback(c) \/ Context(c) \/ Guide(c)
      PROVE  HooksInv'
  BY <1>3, BeforeHolds, CheckModeHolds, GateHolds, TakeSnapshotHolds, RunHolds,
     AfterHolds, CheckModeAfterHolds, FeedbackHolds, ContextHolds, GuideHolds
<1>4. CASE UNCHANGED hookVars
  BY <1>4 DEF hookVars, HooksInv, HooksTypeOK, ModeInv, ModesAreHeld, ToldIsOff, SilentIsQuiet,
              ActedIsDone, Quiet, Caching, SnapshotsAreOwn, snapshotKey, SnapshotByCall
<1> QED BY <1>1, <1>2, <1>3, <1>4 DEF HooksNext

LEMMA HooksInvAlways == HooksSpec => []HooksInv
BY HooksInitHolds, HooksInvInductive, PTL DEF HooksSpec

(* The variables of the hooks keep their types (src/index.ts:1041-1512,    *)
(* src/mode/State.ts).                                                     *)
THEOREM HooksTypeCorrect == HooksSpec => []HooksTypeOK
<1>1. HooksInv => HooksTypeOK
  BY DEF HooksInv
<1> QED BY <1>1, HooksInvAlways, PTL

(* Once the toggle answered "disabled", no hook that begins later blocks,  *)
(* advises or guides because of the mode, through restarts and until the   *)
(* mode is switched on, however many toggles and hooks are under way       *)
(* (src/mode/State.ts:1-6, 42-105).                                        *)
THEOREM OffStaysSilent == HooksSpec => []OffIsSilent
<1>1. HooksInv => OffIsSilent
  BY DEF HooksInv, ModeInv, ActedIsDone, OffIsSilent
<1> QED BY <1>1, HooksInvAlways, PTL

(* The snapshot of a call is the text its own before-hook saw, kept from   *)
(* that hook to the after-hook and no longer, for any number of calls in   *)
(* any number of sessions (src/index.ts:1147-1158, 1314-1350).             *)
THEOREM SnapshotsBelongToCalls == HooksSpec => []SnapshotsAreOwn
<1>1. HooksInv => SnapshotsAreOwn
  BY DEF HooksInv
<1> QED BY <1>1, HooksInvAlways, PTL
=============================================================================
