------------------------------ MODULE Verdict ------------------------------
(***************************************************************************)
(* One verification run (verify-kit/src/Orchestrator.ts): the checkers of  *)
(* the modules that apply run side by side, each as a child process under  *)
(* a timeout (src/Exec.ts, Checker.ts); then the patterns are scanned, the *)
(* evidence and the review are judged, and the report gets its verdict     *)
(* (Evidence.ts, Report.ts).                                               *)
(***************************************************************************)
EXTENDS Integers

CONSTANTS
  Applies,   \* module -> the files it applies to
  CheckOf,   \* module -> the kind of its checker, or "none"
  Scanned,   \* modules with a catalog of patterns
  MinSkills  \* minSkillEvidence

ASSUME VerdictAssumption == DOMAIN Applies = DOMAIN CheckOf /\ MinSkills \in Int

Modules == DOMAIN Applies
Sources == UNION {Applies[m] : m \in Modules}
CodeChecks == {"typecheck", "test", "build"}
CheckKinds == CodeChecks \cup {"lint", "custom"}
ReviewVerdicts == {"passed", "failed", "error", "skipped"}
Processes == {"none", "running", "timed out", "settled"}

VARIABLES
  step,     \* what the run does
  touched,   \* files of the request
  env,       \* what the host wired: readFile, a reviewer, a required review
  skills,    \* distinct skills loaded
  process,   \* module -> its checker process
  result,    \* module -> verdict of its check, "none" before, "absent" without
  unscanned, \* modules to scan
  scan,      \* patternScanStatus
  semantic,  \* status of the review, "none" before
  report,    \* overall, "none" before
  clean,     \* modules whose checker ended with 0 in time (history)
  broken,    \* modules whose catalog was unavailable (history)
  mute,      \* files that gave a module's scan nothing: the path leaves the root,
             \* or readFile has no text (history)
  scanned    \* files a module's patterns were matched against (history)

verdictVars ==
  <<step, touched, env, skills, process, result, unscanned, scan, semantic,
    report, clean, broken, mute, scanned>>
request == <<touched, env, skills>>
looks == <<broken, mute, scanned>>

VerdictInit ==
  /\ step = "start"
  /\ touched = {}
  /\ env = [reads |-> FALSE, reviewer |-> FALSE, required |-> FALSE]
  /\ skills = 0
  /\ process = [m \in Modules |-> "none"]
  /\ result = [m \in Modules |-> "none"]
  /\ unscanned = {}
  /\ scan = "skipped"
  /\ semantic = "none"
  /\ report = "none"
  /\ clean = {}
  /\ broken = {}
  /\ mute = {}
  /\ scanned = {}

\* The modules that apply to some touched file.
Resolved == {m \in Modules : Applies[m] \cap touched # {}}

\* What a scan reads: the touched files of a module, with that module.
Readings(m) == {<<m, f>> : f \in Applies[m] \cap touched}

BeginRun ==
  /\ step = "start"
  /\ step' = "checks"
  /\ touched' \in SUBSET Sources
  /\ env' \in [reads : BOOLEAN, reviewer : BOOLEAN, required : BOOLEAN]
  /\ skills' \in 0 .. MinSkills
  /\ UNCHANGED <<process, result, unscanned, scan, semantic, report, clean, looks>>

NoExit == -1

\* A mutant: the exit code alone decides.
ClassifyByExit(exit, late) ==
  CASE exit = NoExit -> "error" [] exit = 0 -> "passed" [] OTHER -> "failed"

\* How a command that ended is classified; an ExecError has no exit code and
\* counts as timed out.
Classify(exit, late) ==
  CASE exit = NoExit /\ late -> "error"
    [] exit = 0 /\ ~late -> "passed"
    [] OTHER -> "failed"

Settle(m, exit, late) ==
  /\ process' = [process EXCEPT ![m] = "settled"]
  /\ result' = [result EXCEPT ![m] = Classify(exit, late)]
  /\ UNCHANGED <<step, request, unscanned, scan, semantic, report, looks>>

\* A module that cannot name its checkers is an error of its own; one may
\* name none; a command that cannot be spawned is an ExecError.
Check(m) ==
  /\ step = "checks"
  /\ m \in Resolved
  /\ result[m] = "none" /\ process[m] = "none"
  /\ \/ /\ CheckOf[m] = "none"
        /\ result' = [result EXCEPT ![m] = "absent"]
        /\ process' = process
     \/ /\ result' = [result EXCEPT ![m] = "error"]
        /\ process' = process
     \/ /\ CheckOf[m] # "none"
        /\ process' = [process EXCEPT ![m] = "running"]
        /\ result' = result
  /\ UNCHANGED <<step, request, unscanned, scan, semantic, report, clean, looks>>

\* The process ends: with a code, or by a signal, or it never started.
Close(m) ==
  /\ process[m] = "running"
  /\ \E exit \in {0, 1} :
       /\ Settle(m, exit, FALSE)
       /\ clean' = IF exit = 0 THEN clean \cup {m} ELSE clean

ExecFails(m) ==
  /\ process[m] \in {"running", "timed out"}
  /\ Settle(m, NoExit, TRUE)
  /\ clean' = clean

\* The timer kills the process, which may have ended by itself just before.
Timer(m) ==
  /\ process[m] = "running"
  /\ process' = [process EXCEPT ![m] = "timed out"]
  /\ UNCHANGED <<step, request, result, unscanned, scan, semantic, report, clean, looks>>

CloseLate(m) ==
  /\ process[m] = "timed out"
  /\ \E exit \in {0, 1} : Settle(m, exit, TRUE)
  /\ clean' = clean

\* The fiber of the run is interrupted: its processes are killed, no report.
InterruptRun ==
  /\ step \notin {"start", "done", "interrupted"}
  /\ step' = "interrupted"
  /\ process' = [m \in Modules |->
                   IF process[m] \in {"running", "timed out"} THEN "settled" ELSE process[m]]
  /\ UNCHANGED <<request, result, unscanned, scan, semantic, report, clean, looks>>

BeginScan ==
  /\ step = "checks"
  /\ \A m \in Resolved : result[m] # "none"
  /\ step' = "scan"
  /\ unscanned' = Resolved \cap Scanned
  /\ scan' = IF Resolved \cap Scanned # {} /\ ~env.reads /\ touched # {} THEN "error" ELSE "skipped"
  /\ UNCHANGED <<request, process, result, semantic, report, clean, looks>>

\* No other module runs between the read of the status and its write.  A file
\* that gives nothing is passed over, and the scan is ok all the same.
Scan(m) ==
  /\ step = "scan"
  /\ m \in unscanned
  /\ unscanned' = unscanned \ {m}
  /\ \/ scan' = "error" /\ broken' = broken \cup {m} /\ UNCHANGED <<mute, scanned>>
     \/ /\ scan' = IF scan = "error" THEN scan ELSE "ok"
        /\ \E silent \in SUBSET Readings(m) :
             IF env.reads
               THEN mute' = mute \cup silent /\ scanned' = scanned \cup (Readings(m) \ silent)
               ELSE UNCHANGED <<mute, scanned>>
        /\ broken' = broken
  /\ UNCHANGED <<step, request, process, result, semantic, report, clean>>

Review ==
  /\ step = "scan"
  /\ unscanned = {}
  /\ step' = "review"
  /\ IF env.reviewer THEN semantic' \in ReviewVerdicts
     ELSE semantic' = IF env.required THEN "error" ELSE "skipped"
  /\ UNCHANGED <<request, process, result, unscanned, scan, report, clean, looks>>

Checked == {m \in Resolved : result[m] # "absent"}
Verdicts == {result[m] : m \in Checked}

\* The kind of a check that could not be named is custom.
CodeDetected ==
  IF Checked # {} THEN \E m \in Checked : process[m] # "none" /\ CheckOf[m] \in CodeChecks
  ELSE Resolved # {}

Evidence ==
  CASE ~CodeDetected \/ MinSkills <= 0 -> "skipped"
    [] CodeDetected /\ MinSkills > 0 /\ skills >= MinSkills -> "sufficient"
    [] OTHER -> "insufficient"

Failing == "failed" \in Verdicts \/ Evidence = "insufficient" \/ semantic = "failed"
Erring ==
  \/ Verdicts = {}
  \/ "error" \in Verdicts
  \/ ~Failing /\ (semantic = "error" \/ scan = "error")

Overall ==
  CASE Erring -> "error"
    [] ~Erring /\ Failing -> "failed"
    [] OTHER -> "passed"

Report ==
  /\ step = "review"
  /\ step' = "done"
  /\ report' = Overall
  /\ UNCHANGED <<request, process, result, unscanned, scan, semantic, clean, looks>>

VerdictNext ==
  \/ BeginRun \/ BeginScan \/ Review \/ Report \/ InterruptRun
  \/ \E m \in Modules :
       Check(m) \/ Close(m) \/ ExecFails(m) \/ Timer(m) \/ CloseLate(m) \/ Scan(m)

VerdictSpec == VerdictInit /\ [][VerdictNext]_verdictVars

VerdictTypeOK ==
  /\ step \in {"start", "checks", "scan", "review", "done", "interrupted"}
  /\ touched \subseteq Sources
  /\ env \in [reads : BOOLEAN, reviewer : BOOLEAN, required : BOOLEAN]
  /\ skills \in Int
  /\ mute \subseteq Modules \X Sources /\ scanned \subseteq Modules \X Sources
  /\ process \in [Modules -> Processes]
  /\ result \in [Modules -> {"none", "absent", "passed", "failed", "error"}]
  /\ unscanned \subseteq Modules
  /\ scan \in {"skipped", "ok", "error"}
  /\ semantic \in ReviewVerdicts \cup {"none"}
  /\ report \in {"none", "passed", "failed", "error"}
  /\ clean \subseteq Modules /\ broken \subseteq Modules

(* A report says passed only when something was checked and every checker  *)
(* of every module that applies ended with 0 before its timeout, every     *)
(* catalog was there and every touched file was matched against it that    *)
(* its module could read, a required review took place, no review failed,  *)
(* and code comes with its skills (Report.ts:110-120 over                  *)
(* Orchestrator.ts:86-311; the header of Report.ts promises that no error  *)
(* is hidden).  A file whose path leaves the root or that has no text is   *)
(* not an error: it is passed over in silence (Orchestrator.ts:183-195).   *)
PassedMeansChecked ==
  report = "passed" =>
    /\ \E m \in Resolved : m \in clean
    /\ \A m \in Resolved : m \in clean \/ CheckOf[m] = "none"
    /\ broken = {}
    /\ \A m \in Resolved \cap Scanned :
         /\ env.reads
         /\ Readings(m) \subseteq mute \cup scanned
    /\ env.required => env.reviewer
    /\ semantic \notin {"failed", "error", "none"}
    /\ (\E m \in Resolved : CheckOf[m] \in CodeChecks) => skills >= MinSkills
=============================================================================
