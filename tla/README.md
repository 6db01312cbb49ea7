# Formal models of opencode-effect-harness

TLA+ modules of the parts of this repository whose correctness depends on
interleavings, failures and restarts, the TLC configurations that check them on
small instances, and proofs of their main invariants. Line numbers refer to the
sources under `src/`; `index.ts` is the plugin's composition root
`src/src/index.ts`, `Journal.ts` is `src/packages/shared/src/Journal.ts`.

## The system

The repository is a plugin for a coding-agent host. The host runs *sessions*;
in a session an agent calls *tools*; the plugin hooks into tool calls, consumes
the host's event stream and adds tools of its own. Everything is written with
Effect: a handler is a fiber, and fibers interleave wherever one of them waits
for storage, a file, a child process or another session. Several processes may
run the plugin over one project directory.

| Part | State it keeps | Operations | What makes it correct |
|---|---|---|---|
| Journal (`shared/Journal.ts`, `lock/Lock.ts`) | two files per stream (entries, request ids), a semaphore per stream and process, a lock directory | append, read, latest, repair | the chain always decodes, no entry is lost, a request is written once and answered with its own entry, every call ends |
| Change ledger and verification loop (`Ledger.ts`, `Events.ts`, `index.ts`) | changed paths per session (memory), sessions in flight (memory), processed event ids (host storage) | after-hook records, verify tool, automatic run on `execution.succeeded` | a change leaves the ledger only through a durable report; a replayed event verifies nothing; a trigger with pending changes starts a run |
| Skill ledger, pending reads, write gate (`Ledger.ts`, `rule/Gate.ts`, `index.ts`) | skills per session (memory and storage), reads in progress | before/after hooks of read and write tools, skill events, compaction | a strict agent writes only with enough skills in its present context; compaction forgets |
| Hooks and mode (`index.ts`, `mode/State.ts`, `Snapshots.ts`) | the mode (storage and a cache), texts before each running call | before, after and context hooks, toggle | once told to be off the plugin is silent; a snapshot belongs to its call |
| Projection and matching (`harness-kit/Edit.ts`, `Projection.ts`, `Matcher.ts`, `rule/Feedback.ts`) | none between calls | project an edit, blank comments, find spans and matches | every offset names the text it is about |
| Pattern catalog and module assets (`harness-kit/Catalog.ts`, `module-typescript`) | the catalog, read once at the start | check the manifest, walk the directories, load the detectors | a module that loads has what was shipped |
| Child sessions (`session/Origin.ts`, `session/Executor.ts`) | origin and prompt per child session | create, register, generate, interrupt, unregister | a child session is read-only for as long as it can act; every registration is undone |
| Critic and trace sink (`index.ts`, `Events.ts`, `verify-kit/Critic.ts`) | text per session (memory, bounded), a report file, journal entries | review, record an event, read the transcript | a review that counts was decoded from text of its own child alone, all of it that could be had |
| Benchmark (`benchmark/Runner.ts`, `bench-store/Store.ts`) | jobs, trials, scores, history, traces in SQLite | start a job, score a trial, complete, list | every trial ends in one terminal state, scores belong to scored trials, a job is complete only when its trials are |
| Benchmark tool (`benchmark/Tool.ts`, `bench-store/Store.ts`) | tasks, revisions and profiles in SQLite | create and update tasks, add profiles, start, status | an answered update is kept; a job runs the revision it names |
| Suite and environments (`compound-kit/Suite.ts`, `Env.ts`) | keys and a counter in memory, directories with markers | run a trial in a workspace of its own | trials share no directory and no key, and leave none behind |
| Proposal queue (`compound-kit/Queue.ts`) | a journal stream | propose, decide, status | a decision has effect once, and only on a proposal |
| Evolution and blueprint store (`compound-kit/Evolution.ts`, `Store.ts`) | versions, a pointer, a lineage file | baseline, commit, attempt, append a version, set the pointer | scores never regress, versions are gapless, a written block stays |
| Claim kernel (`Claim.ts`) | the claims with their expiry | acquire, heartbeat, release, inspect, purge | one live holder per work item |
| Verification orchestrator (`verify-kit/*`) | none between runs | run checkers, scan patterns, review, verdict | a check that could not run is never reported as passed |
| Rule engine (`harness-kit/Engine.ts`, `Controller.ts`, `rule/*`) | rules | evaluate rules for an event | order of decisions; one failing rule does not hide the others |

The parts meet in `index.ts`: hooks write the ledgers that the gate and the
runs read; the consumer's events reset the skill ledger and start runs; the
benchmark runner and the critic create child sessions whose ends must not start
runs; the critic and the proposal queue write the journal.

Hard behaviours: state read before a wait and used after it (hydration of the
skill ledger, the copy of the request ids, peek and drain), two files or two
maps updated one after the other, a finalizer installed after the resource is
taken, a process that dies between two writes, events delivered twice, and
timeouts that race a late answer. `PROJECT.json` lists them one by one under
`hazards`, each with its line and the properties that cover it.

## The plan

The modules, the most important behaviour first; all are done:

1. `Journal`, with proofs.
2. `VerifyLoop`, with proofs.
3. `SkillGate`, with proofs.
4. `Benchmark`, and the abstract `TrialLife` it implements, with proofs.
5. `Hooks` (with the mode), `Projection`, `Critic`, `Verdict` and `Assets`: what
   the plugin does around the calls of an agent, at its start and in one run, with
   proofs.
6. `Proposals`, over what `Journal` promises, with proofs.
7. `Claim`, `Lineage` and `BlueprintStore`, with proofs.
8. `Tasks`, the benchmark tool over its store, and `Suite`, with proofs.
9. `Plugin`, which puts the modules of 5 to 8 side by side, with the proof that it
   implements each of them.

`Proposals` takes from `Journal` what an append does for one caller at a time
(replay, both files, the stream alone, each from files that may be read as empty); no
refinement links the two. The lease is stated
as an invariant of `Claim` and not as a specification of its own: it would
have the same states. Every invariant and action property that a run checks is
proved. Left to do: the hazards that `PROJECT.json` lists without a property, and the
refinement of `Journal` by what `Proposals` takes from it.

## Journal.tla

State: `file` and `ids` are the two files of a stream, `quarantine` the lines in
its `.corrupt-*` files, `lock` the lock directory, `permit` the semaphore of
each process; `pc`, `call`, `raw`, `known` and `answer` are the locals of each
caller's fiber. `acked`, `orphaned`, `replaced`, `damaged`, `damages`, `missed` and
`misreads` are history.

A call goes through `Call`, `TakePermit`, `AcquireLock`, `ReadStream`, then for
an append `ReadIds`, `WriteStream`, `WriteIds`, for a repair `Quarantine`,
`Rewrite`, and `Unlock`; each is one effect of the code after which the fiber
may be suspended, fail or die. `RefuseLock` is the typed failure of a
contender, `StepFails` a platform error or an interruption of a fiber that
holds the lock, `InterruptLock` the window between `makeDirectory` and the
finalizer that removes it (Lock.ts:16-19), `Crash` the death of a process. An
abandoned directory stays until an operator removes it (`ClearLock`). `Garble`,
`DropLine` and `DropIds` corrupt the files from outside.

Two reads take a failure for an absent file. A failing `exists()` (Journal.ts:199)
makes `ReadStream` yield an empty history, and the next `WriteStream` replaces the
stream; an index that cannot be read or parsed (273-278) makes `ReadIds` yield no ids,
and the next `WriteIds` forgets the others. The code loses entries and repeats
requests in these cases, so the properties name them and say that nothing else is
lost: `replaced` holds the entries of a stream an append took for missing
(`HistoryKept`, `AcknowledgedKept`), `Displaced` their requests, which the surviving
index may answer with foreign entries (`AnsweredByOwnEntry`), and `orphaned` the
requests whose ids a write or a failed reading lost (`WrittenOnce`). `ChainIntact`
needs no exception: what is written after a failed read is a chain of its own.

An entry's hash is modelled as the sequence of all it covers, so that it is
injective; the real fingerprint is 32 bits wide and may collide. Kind, actor
and time are part of the payload, which is the request the entry was written
for: `AnsweredByOwnEntry` needs to tell whose entry an answer is, no property
needs more. `WriteStream` writes what the fiber read, never what is in the file
when it writes.

Runs:

- `journal` (two processes, two requests, two entries, and one corruption or one
  failed read, `MaxFaults = 1`): chain, durability and idempotence with every failure
  enabled. Two entries are enough for a link, a replay of the older entry and a cut
  in the middle; one corruption is enough to make a repair necessary, and one failed
  read to replace a stream of two entries or an index of two ids. That they do not
  conspire is left to the proofs, which have no such bound.
- `journal_live` (three callers, two of them in one process, one entry, one failed
  read, no corruption): mutual exclusion, queueing and termination. One entry is
  enough for every path of a call: append, replay, full stream, repair.
- `journal_retry`: the promise of Journal.ts:13 without the exception that
  `WrittenOnce` makes. TLC finds a retry that the index does not know, after a lost
  update or a failed reading of it.

Fairness (`FairSpec`): a started fiber continues (weak fairness of the steps of
a call; Effect's scheduler is fair, and file operations end), and the semaphore
serves its waiters in order (strong fairness of `TakePermit`: a waiter that is
passed over again and again gets its turn). New calls, failures, crashes and
operators are not fair.

## VerifyLoop.tla

State: `changes` is the change ledger, `inFlight` the set in `index.ts:1517`,
`runs` the processed event ids in host storage, `run[r]` the program counter and
locals of each run: of the verify tool (`Calls`) or of the one event consumer
(`Watcher`). `hooks` holds the edits whose after-hook has not run, `queue` the
events not yet consumed. `unverified`, `overlapped`, `failed`, `finished`, `log`
are history.

`Edit` and `EndExecution` are the host; `Record` is the after-hook;
`TakeEvent`, `Dedupe`, `RecordRun` are the consumer before and after a run;
`Peek`, `Verify`, `Persist`, `Drain` are the four stages both kinds of run share
(index.ts:429-483 and 1575-1623); `RunFails` is `catchCause` with `ensuring`;
`Crash` restarts the plugin, which keeps only the host's storage and log. Storage may
fail: a `get` that does is no ids (`Dedupe`, index.ts:1564), so that the run verifies
a replay and `RecordRun` writes its id in the place of all the others; a `set` that
does is ignored. `ReplaysNeverVerify` leaves out the run that could not read the ids
(`IdsAreRead`) and the ids it replaced, which `finished` drops.
`Verify` reads all files at one instant: the checkers and the pattern scan read
them at different times, and a report of an edit made in between is one of the
edits `overlapped` exempts.

Runs:

- `verify_loop` (one session, two files, one tool call and the consumer, two
  edits, two events, one duplicate, one restart, `KeptRuns = 1` for the 64 of the
  code). Two files let a run peek one and a drain drop the other; two events and
  a duplicate with a memory of one id reach the replay inside and outside the
  remembered window. Sessions do not interact except through the one consumer,
  and a second session only delays it.
- `verify_trigger`: "the next trigger retries" (index.ts:1630). TLC finds that
  the early return for a known id at 1571-1573 leaves the session in flight, so
  the next event of the session is dropped.
- `verify_retain`: "a failed run RETAINS the change ledger" (index.ts:13). TLC
  finds a run that fails after a concurrent run drained what it had peeked.

`LostOnlyToOverlap` is what remains true of the second promise and
`TriggersVerify`, which exempts histories with a duplicate delivery, of the
first. Fairness: the consumer's fiber runs (`WF_vars(Consumer)`); checks end
because they run under a timeout. Tool calls need not finish.

## SkillGate.tla

State: `memory`, `hydrated` and `stored` are the ledger of `Ledger.make`
(Ledger.ts:149-219): the set of the session, the mark of `hydrateOnce`, and the
value under the session's key in host storage. `pending` is `PendingReads`.
`fiber` holds, for each hook call and for the one event consumer, where it waits
and what it holds while it waits. `read`, `context`, `live`, `raced` and `leftover`
are history.

`BeforeRead`, `CompletedRead`, `FailedRead` and `AfterOptedOut` are the hooks of
the read tool, `StartGate`, `LetThrough` and `Block` the before-hook of a write by
a strict agent, `Activated`, `Compacted` and `Remove` the consumer. All of them
reach the ledger through `Hydrate` (the wait for `storage.get`), `Mark` and
`Persist` (the wait for `storage.set`); a fiber may be overtaken at each.
`Decide` does the whole of `countDistinct` after the wait, since nothing in it
waits again. `Restart` loses all but storage.

Each of the three may fail and be ignored: `Hydrate` then finds nothing and still
marks the session as hydrated (Ledger.ts:160), `Persist` leaves storage as it was
(180), and so does `Remove` (208), whose remains, `leftover`, a later hydration or
restart brings back. They are part of what `CompactionForgets` and `WritesAreEarned`
allow, and of nothing else.

One session with the mode on; the session's location resolves. A write is
one whose projection holds Effect code: all others are let through, or blocked,
before the ledger is asked.

Runs (two skills, one reader that opted out and one that did not, one writer and
the consumer; the minimum is 2, so that one skill too many or too few decides):

- `skill_gate`: the six properties below with every interleaving and restart. The
  state space is finite without a bound on the number of calls, compactions or
  restarts. Two skills are enough for a set that is a mixture of an old and a new
  one, two concurrent markers for every overlap of a hydration with a mark, since
  a hydration overlaps others only through the one set.
- `skill_leak`: "this runs even for opted-out agents so no state leaks"
  (index.ts:1348). TLC finds the read of an opted-out agent that stays pending;
  its skill counts in the gate for every agent of the session until a restart.
- `skill_compaction`: the compaction resets the loaded set
  (`docs/spec/02-integration-verifier-compound.md:77`). TLC finds a fiber that
  read storage before the compaction and seeds the old set after it.

`CompactionForgets` and `WritesAreEarned` state what holds when the last
compaction overlapped no fiber that had read storage or was about to write it
(`raced`). No liveness is stated: every fiber ends if storage answers.

## Benchmark.tla and TrialLife.tla

State: `job`, `row`, `score`, `leader`, `events`, `traced` are the tables of the
store; `run` is where `runJob` is, `refs` the scores it has read; `fiber` is where
each trial is, in which of its two sessions (`role`), and the outcome it is about
to record; `origins` is the registry of Origin.ts, `dirs` the directories under
`.effect-harness/workspaces`, `acting` the sessions in which the host generates.
`adrift`, `stray` and `halted` are history.

`CreateJob` to `Start`, `Collect` and `CloseJob` are the run before and after
`Effect.forEach`. A trial goes through `Begin`, `MakeDirectory`, `Create`, and
`Answer`, `GenerateFails` or `TimeOut` with `AfterInterrupt`; a candidate's valid
answer sends it through the same steps for the judge, up to `Verdict`; then
`Record` and `End`. Each is what happens up to the next wait, finalizers included.
`NoDirectory` and `RecordFails` are the failures a trial does not survive: forEach
interrupts the others (`Interrupted`, with the finalizers each has reached) and
the job is left as it is (`Stop`). `RunFails` is a failure of the store outside
the trials, or an interruption there; `Cancel` the host's interruption of the tool
call. `Crash` ends the run: nothing resumes a job, though its rows are written
first so that something could (Runner.ts:479).

One job; jobs share nothing but the store's transactions and the registry, and
session ids are never reused. A generation that the host answers, with an error
too, has stopped in the host. Each store operation succeeds or fails as a whole;
`recordTrace`, which is no transaction, has one writer per trial. A cleanup whose
removal fails is ignored and the directory stays (`CleanUp`; index.ts:1013,
Runner.ts:208, 445); `Stuck` bounds the directories this may happen to, and the
proofs leave it open.

`TrialLife` is the contract of `task/Store.ts:8-13` and of
`docs/spec/06-benchmark-store-spec.md`: trials appear together, leave pending at
most once, have a total exactly when scored, and a job ends once, with no trial
pending and a leader of the highest total. `LifeSpec` is the refinement: row to
status, the total of a score to total.

Runs:

- `benchmark` (three trials, two at once, two scores; the removal of one candidate's
  directory may fail: trials are alike but for their ids, and a judge's directory is
  cleaned up by the same operator). Three trials make one wait
  for a place while two run, and let one fail with one under way and one not
  begun. Of the two scores the one with the better total has the worse checks, so
  that the order of the two criteria decides; equal scores leave the ids to
  decide.
- `benchmark_origins` (two trials): "origin cleanup runs in ensuring"
  (Executor.ts:17). TLC finds that the judge's session stays registered when a
  job has completed regularly: `runJudge` drops its `releaseOrigin`.

`CandidatesAreReleased`, `ActingIsReadOnly` and `DirectoriesAreRemoved` state what
holds for candidates, for sessions someone waits for, and for directories that no
interruption or crash abandoned and no failed removal left. Fairness: the run and each fiber go on, as Effect's
scheduler is fair, a generation ends under its timeout, and the host answers the
creation and the interruption of a session, for which the code has no timeout.
The host need not end a session nobody waits for.

## Plugin.tla

`Plugin` puts eleven modules that share no state side by side: `Claim`,
`Proposals`, `Lineage`, `BlueprintStore`, `Assets`, `Verdict`, `Critic`, `Hooks`,
`Projection`, `Tasks` and `Suite`. `focus` is chosen at the start and names the one
that moves; the others stand still in one of their initial states. Each property is
about the variables of one module. A step of the program changes the variables of
one module at most, so what a module goes through in any interleaving of them is,
stuttering aside, what it goes through alone: the run explores the sum of the state
spaces and not their product, and loses no violation. (For a module out of focus
`PluginInit` fixes the initial state, so that it is not multiplied.) One half of the
argument is proved: every behaviour of `Plugin` is a behaviour of each part
(`PartsAreImplemented`). The other half, that the program's steps are steps of one
part, is the reading of the code: index.ts:238-256 builds the states one by one.

The run `plugin` checks the fourteen properties below. Every part is safety only:
no fairness is assumed. Deadlock is not checked, because a part may end: a run of
`Verdict`, a start of `Assets`, a write of `Projection` happen once, and `Claim`,
`Proposals`, `Hooks`, `Tasks` and `Suite` stop at their bounds.

| Part | Bounds | Why they are enough |
|---|---|---|
| `Claim` | two holders, one with a second fiber; lifetime 1, clock up to 2, two ids | a call can decide with a time before the present claim began, and after it expired |
| `Proposals` | one proposal, one request id chosen by the caller, three entries written in all | propose, decide and propose again after a lost or unread index, also in a new stream; proposals do not interact |
| `Lineage` | two processes, scores 0 to 2, two commits, one attempt | a score better on one half only, and two processes over one lineage |
| `BlueprintStore` | two writers, two versions, two blocks | an append on an append, a crash between the writes, a lock left behind |
| `Assets` | two patterns and one skill, one change of the disk | a file that drifts, is missing, or is there and unlisted, at any time of the start |
| `Verdict` | three modules: two that share a file, one without a checker | side by side, alone and absent checks; every outcome of each |
| `Critic` | two reviews, two texts of each child, a sink of one session | each review is a session that pushes the other out; a reply without its first or its last text |
| `Hooks` | two calls of one session (four and one kinds), two toggles | a hook overtaken by both toggles, an after-hook by another call's |
| `Projection` | eight texts, six replacements, two per edit | both orders, overlap, deletion, empty and repeated text; each state of the scanner |
| `Tasks` | two users, one task, two problems, two lists of profiles, four operations, one job of up to four trials, lists of two rows | an update, and a start, overtaken by another update; two specifications with one hash; jobs below, at and beyond the limit of a list |
| `Suite` | two attempts, three keys (one with a long label), two runners, one tick, one crash | the same path by counter, by a cut label and by a restarted counter |

### Claim

State: `store` is the claim of one work item, `call` each caller's operation with
the clock it read, `held` what its last success returned. `StartCall` is the read of
the clock (Claim.ts:62) and `Acquire`, `Heartbeat`, `Release`, `Purge` the one
`Ref.modify` of each operation; in between others may act and time may pass.

`LeaseHolds`: a claim returned to a holder is the stored one until it expires by the
clock or is given up, although the others decide with old times. It excepts holders
that call from two fibers: their refreshes may arrive in the other order and shorten
the claim.

### Proposals

State: `log` and `index` are the stream and its request ids. `Propose` and `Decide`
are `append` with the request id of the proposal, of the decision, or of the caller;
`Replay`, `WriteLog` with `WriteIndex`, and `WriteLog` with `LoseIndex` are what
`Journal` can make of it. What a write starts from may be nothing in place of the
stream, after a failing `exists()`, and nothing in place of the index. `StatusAll` is
the fold of Queue.ts over the entries.

`StatusIsAccountedFor`: a reader's status is one the answers so far account for
(`expected`). A decided proposal becomes pending again only when it was proposed once
more after the index lost the request of its proposal or by an append that could not
read the index, or in a stream that replaced the one with the decision; that stream
begins with nothing expected (`Standing`).

### Lineage

State: `stored` is the lineage file, `view` the value each process holds.
`EstablishBaseline`, `Commit` and `JournalAttempt` compute from the caller's lineage
and save it whole; `RefuseCandidate` stands for the four refusals and a failing save;
`CommitAndDie` for a process that dies after the rename.

`LineageImproves`: stored and held lineages improve on both scores from version to
version, and an answered commit stays. It excepts saves by a process that held
another lineage than the stored one (`overwritten`): the lock of `saveLineage` does
not cover the read (Evolution.ts:175).

### BlueprintStore

State: `blocks` is the markdown file, `pointer` the pointer file, `lock` the lock
directory, `phase` and `read` each writer's step and what it read. `Lock` fails at
once when the directory is there; `ReadBlocks`, `WriteBlocks`, `WritePointer` and
`FindVersion` are the effects under it; `Unlock` may fail and `Crash` leaves the
directory behind.

`BlocksAreKept` (of every step): an append only adds, and the pointer moves only to a
version that has a block. It holds until an `exists()` fails on a file that is there:
Store.ts:173 takes it for absent, and the next write drops the history.

### Assets

State: `disk` and `manifest` are the files and `manifest.tsv`, `startup` the step of
the start, `todo` and `unlisted` what the step has left, `mismatch`, `catalog` and
`feedback` its results. `ReadFeedback` loads the feedback rules, which end empty on
any failure; `Import` to `LoadPatterns` construct a module: row by row against the
disk, directory by directory against the manifest, then the detectors. `Drift`
changes the disk in between. Sizes and fingerprints are those of the contents, and
the fingerprint has no collisions.

`LoadedAssetsAreShipped`: a module that loaded has its listed files as shipped, no
other, the counts it requires and a detector per pattern, unless the disk changed
after the manifest was read. A directory that cannot be read counts as empty.

### Verdict

State: `process` and `result` are the child process and the verdict of each module's
checker, `scan` and `semantic` the verdicts of the other two stages, `report` the
overall one. `Check` starts a checker or finds none or fails to name it; `Close`,
`ExecFails`, `Timer` and `CloseLate` are the exit and the timer in either order;
`Scan`, `Review`, `Report` follow in turn; `InterruptRun` ends it anywhere. A file
that leaves the root or cannot be read is passed over and the scan stays ok
(Orchestrator.ts:186-195). `clean` (ended with 0 in time), `broken` (no catalog),
`mute` (passed over) and `scanned` (matched) are history.

`PassedMeansChecked`: a report says passed only when something was checked, every
checker of every module that applies was clean, every catalog was there and matched
against every touched file that gave it a text, a required review took place, nothing
failed, and code comes with its skills. It does not say that every file was read: a
report passes with files that were passed over.

### Critic

State: `stage` of each call, `child` and `said` of its session, `stream` the events
not consumed, `sink` the buffers in the order of their sessions, `origins`, and what
came of it: `answer`, `saved`, `journal`. `RefuseReview` to `Conclude` are the stages
of the tool; `Publish`, `ChildEnds` and `ChildMutates` the host; `Consume` the event
consumer, which adds a text to its session (`Filled`) and drops the oldest session
beyond the limit (`Bounded`); `InterruptReview` an interruption at any wait. A text is
its place among those of its session; which of them parse is not known, so `Decode`
may accept or reject whatever the sink holds. `fed`, `heard`, `evicted`, `hasty` and
`mutated` are history.

`ReviewsAreGenuine`: a review answered or journalled as decoded was decoded from texts
of its own child alone, in order and without a gap, and from all of them, but for a
beginning that the sink had pushed out and an end that the consumer did not have when
the tool read. In these two cases the code cannot tell a part from the whole, and
accepts a part that parses. The review is on disk, and one event at most is
journalled for it; and a child changes files only after the tool gave up on it, by a
failed wait or an interruption, which release its origin and leave it running. The
filter of findings by their citations (Critic.ts:215-229) works on one decoded report
and is left out.

### Hooks

State: `storedMode` and `cachedMode`; `at` where each hook and toggle waits and
`loading` the mode it carries; `snapshots` the texts before the running calls.
`Before`, `CheckMode`, `Gate`, `TakeSnapshot` are the before-hook, `Run` the host's
tool, `After`, `CheckModeAfter`, `Feedback` the after-hook, `Context` and `Guide` the
context hook; `ToggleReads`, `ToggleStores`, `ToggleCaches` a toggle; `Restart` loses
what is in memory. Whether the gate blocks is open here and decided in `SkillGate`.

`OffIsSilent`: after a toggle was answered with "disabled", no hook that begins later
acts because of the mode, through restarts, until it is switched on. It excepts what
State.ts:48-57 admits: another fiber that read the mode before and will cache it
after the toggle, and a read that fails, which counts as on. A session whose location
does not resolve counts as on too and is left out.

`SnapshotsAreOwn`: the text before a call is kept from its before-hook to its
after-hook and no longer, and is never another call's.

### Projection

State: one write from its intent to its review: `source`, `replacements`, `proposed`
(what the gate is shown), `after`, `measured`, `matches`. `Intend` resolves and applies
an edit (Edit.ts, `prospective`), `HostWrites` lets the host write that or something
else, `Actual` looks for the new texts in the result, `ReviewWrite` blanks comments
and reports the matches in added text. A text is a sequence of units; the pattern is
one unit; the library's diff is any set of places whose removal leaves a part of the
old text. `Units` are the code units texts are made of; the places, the counts, the
scanner and the edits are recursive functions over the units or the edits, with the
value after each of them.

`OffsetsNameTheirText`: the spans of a projected edit are its new texts in file
order and the rest is the source; the spans of the final text agree with them; a
match is where the pattern is, in new text, and in a line comment only if it looks
there. It excepts texts with a character of two units after a slash: Matcher.ts:47
blanks it to one unit inside a comment, which shifts what follows.

### Tasks

State: `revisions`, `current`, `profiles` and `jobs` are tables, `op` the operation
each user has under way. An operation is several statements: `TaskUpdate` and
`UpdateTask` read and write; `BenchmarkStart` to `CompleteJob` are a start and the
job it runs (what a trial does is in `Benchmark`); `StatusOfJob`, `TrialOfJob`,
`ListTrials`, `ListScores` the reads of an answer. `OpEnds` is a failing statement or
an interruption.

`UpdatesAreKept`: the fields that an answered create or update gave are in the task
until another answer replaces them. It excepts what an update takes from an older
specification it had read, and a return to an earlier specification, which is
answered and not made current (Store.ts:516-523).

`JobsRunTheirRevision`: a job runs exactly the profiles of the revision it names,
each equally often, whatever is updated meanwhile; no trial ends before the job's
history begins; and an answer about an ended job shows each trial, ended, and of each
trial shown as scored the score, unless the list is at its limit (`ListCap` for the
200 of Store.ts:502): trials are cut by profile (`FirstTrials`, `Place` being the
order of the ids) and scores by time, which may be any of them, so that beyond the
limit a trial is shown as scored without its score. A list of profiles that names a
profile twice leaves a running job without trials, which the property admits.

### Suite

State: `place` of each attempt, `keys` and `counter` of each runner, `marker` of each
directory, `workspace` and `outcome`. `TakeKey` and `NameWorkspace` to `CopyFixture`
are what happens before the finalizers are attached, where `NotCreated` keeps the key
(Suite.ts:198); then `EnterWorkspace`, `Meddle` (a blueprint's commands may change the
marker; a command that removes its own directory is left out), `RunEnds` or `RunStops`, and the finalizers `Destroy`, `RemoveWorkspace` or
`RemoveFails`, `ReleaseKey`. `CrashRunner` loses keys and counter and keeps the
directories.

`TrialsKeepApart`: two trials at work never share a directory nor, in one runner, a
key; and a key or directory nobody uses was left by an attempt whose workspace could
not be made, by a crash (the directory), or by a removal that failed or was refused.

## Proofs

`JournalProofs.tla`, for all constants that satisfy the assumptions of
`Journal.tla`:

- `TypeCorrect`: from `TInv`, which adds to `TypeOK` what the steps need to know
  of the fibers' locals.
- `Exclusion`: `WritersOwnTheLock` is inductive given the types: the lock changes
  hands only through `Free` (`AcquireLock` needs it) and is given up only by a
  fiber that leaves the locked steps; `ClearLock` touches only a directory no
  live fiber owns, which is why `Crash` and a failed removal turn it `Abandoned`.
- `AcknowledgedEntriesAreKept` and `HistoryIsKept`: from `KInv`, which adds that
  under the lock a fiber's copy `raw` equals `file` except for what was damaged
  meanwhile, unless its reading took the stream for missing (`missed`), that an
  answer about to be returned is in a safe place, and that a repair about to cut has
  its tail in quarantine. What a step of the program may lose is exactly what a
  fiber in `missed` replaces, and that goes into `replaced`. Without the clause on `raw` a
  writer could overwrite entries it never saw; `Exclusion` is what keeps it.
- `SiblingsWait`: from `QueueInv`: at most one fiber of a process is past the
  semaphore, the permit is out while one is, and a lock directory with a live owner
  has an owner in the locked steps.
- `ChainStaysIntact` and `AnswersAreForTheirRequests`: from `OwnInv`. As long as
  nothing outside has touched the files, the stream decodes, what a fiber under the
  lock holds of it is current or was misread (`missed`), the index and its copies
  point only at entries of the request they name or of one whose entries went with a
  replaced stream (`Displaced`), and the other answers are own.
- `RequestsAreWrittenOnce`: from `TidyInv`. Of a request that lost no index update,
  and that no failed reading of the index hid from its fiber (`Ignored`), also in
  files that were touched, the stream and every copy hold one entry at
  most, the one the index names, except between the two writes of its own fiber; and
  a fiber about to write one has looked into both.

`VerifyLoopProofs.tla`:

- `TypeCorrect`.
- `LossNeedsOverlap`: `LostOnlyToOverlap` is not inductive, since a drain removes
  the whole ledger. `LInv` adds `OpenRuns`: for a run between peek and drain,
  what its session's ledger holds, the run peeked or it overlapped the run, and
  a run about to drain has its files in a report or overlapped.
- `NoReplayIsVerified`: from `ReplayInv`: the ids in storage are the last
  `KeptRuns` of those finished since they were last overwritten unread, and the event
  at work was not among them when the consumer looked, unless its look failed; nobody
  else stores ids, so it is not among them until it is stored.

`SkillGateProofs.tla`, for any finite set of skills and any calls:

- `TypeCorrect`: with `ReadsAreOfSkills`, since a completed read marks what is
  pending.
- `OnlyReadSkillsAreCredited`: `CreditsAreRead` is not inductive, as a waiting
  fiber writes back what it holds; `Credited` says that of what fibers hold too.
- `MarksAreKept` and `OnlyRunningReadsPend`: inductive as they stand, given the
  types.
- `CompactionsForget` and `OnlyEarnedWritesPass`: from `Fresh`. Unless the last
  compaction was raced, memory and what fibers carry lie in `Findable`, which is
  `context` with what a failed removal left in storage (`leftover`), and so does
  storage once the compaction is over; and a fiber that is not waiting carries
  nothing, which is what makes `raced`, set at the compaction, a sufficient
  exception.

`BenchmarkProofs.tla`, for any trials, scores and concurrency:

- `TypeCorrect`, from lemmas about the few records a fiber goes through.
- `ActingSessionsAreReadOnly`, `CandidatesAreReleasedAtLast` and
  `DirectoriesAreInUse`: from `ChildInv`, which says of each session and directory
  in which steps of its fiber it may be there, or that its removal failed (`stray`,
  for any `Stuck`); none of the three is inductive, as each speaks of a trial in one
  of its steps only. `Moves` says where each step
  leaves its fiber, so that the other lemmas need not look into the actions.
- `HistoryTellsTheJob` and `StoreTellsTheLife` (the refinement): from `StoreInv`.
  It relates the step of the run to job and rows (a trial can be recorded only
  while the job runs), the outcome a fiber holds to the score it holds, and the
  scores read to those in the store when the job is closed. The leader's total is
  the highest because the order of leaders compares totals first.

`CompoundProofs.tla`, one section per part, since their states are separate:

- Claims, for any callers, holders, lifetime and clock. `ClaimTypeCorrect` and
  `LeasesHold`: from `ClaimInv`, which adds `CallsLookBack`: the clock a call read is
  not ahead of the present one. A claim that is live now was live then, so no old
  decision takes it.
- Lineages, for any processes, scores and bounds. `LineageTypeCorrect` and
  `LineagesImprove`: inductive together. The best score is above all committed ones
  (`BestIsAbove`), so a promoted candidate is too, as `Above` is transitive; commits
  survive because an unoverwritten save starts from what is stored.
- The blueprint store, for any writers, versions and crashes. `StoreTypeCorrect` and
  `BlocksStay`: from `StoreInv`: a writer past `Lock` owns the directory, what it read
  is still the file as long as no `exists()` failed, and the version it is about to
  point at has a block.
- The proposal queue, for any proposals, requests and streams. `ProposalsTypeCorrect`
  and `StatusesAreAccountedFor`: from `ProposalsInv`. A reader folds the whole stream;
  `FoldsOnce` in the invariant says that the fold has exactly one value, and one more
  entry changes one row (`FoldGrows`). `RowsAreProposed` is what makes a replay
  harmless: a proposal with a row is `Asked`, its request being in the index or among
  those whose entry may be written again (`orphans`). A replaced stream starts with
  nothing expected and an index that names nothing of it; `appends` counts through.
- The suite, for any finite set of attempts, any runners, labels and crashes.
  `SuiteTypeCorrect` and `TrialsAreApart`: from `SuiteInv`. That trials keep apart
  follows from clauses about keys and about places, each kept by a lemma on any step
  that changes one attempt; that a counter stays in its range needs the number of
  attempts that have named a workspace, which is why `Attempts` is assumed finite.
- The benchmark tool, for any users, tasks, profiles and overlapping operations.
  `TasksTypeCorrect`, `UpdatesStay` and `JobsKeepTheirRevision`: from `TasksInv`. It
  adds that a specification is stored under its own hash (`RevisionsFit`), what each operation in progress has read and still may rely on
  (`OpFits`), and that two starts at work own different jobs. The proof of the types
  is why `Profiles` holds the judge's profile, which no list need name.

`SessionProofs.tla`:

- Assets, for any files, kinds and manifests. `AssetsTypeCorrect` and
  `AssetsAreShipped`: from `AssetsInv`. As long as the disk did not move, the rows
  already looked at agree with it, the directories already walked hold nothing beside
  the manifest, and the patterns loaded and those still to load make up the listed
  ones.
- Verdicts, for any modules and files. `VerdictTypeCorrect` and
  `PassedReportsAreChecked`: from `VerdictInv`: a result "passed" is of a process
  that closed with 0 before its timer, a scan that stands has been through every
  file but those that gave no text (`mute`), each stage is the function of the ones
  before, and the report is `Overall` of the three.
- Reviews, for any reviews, sessions, texts and size of the sink.
  `CriticTypeCorrect` and `GenuineReviews`: from `CriticInv`. `StreamFits` says
  that the stream holds each session's texts that the consumer has yet to take, in
  order; `SinkFits` that a buffer holds a run of its session's texts up to the last
  taken, from the first on unless it was evicted; `ReviewFits`
  that a review goes on to decode only when its child ended, and that a child generates
  unregistered only where the review was given up; `JournalFits` that the journal has a
  review only when it ended, once.
- Hooks, for any calls, toggles and sessions. `HooksTypeCorrect`, `OffStaysSilent`
  and `SnapshotsBelongToCalls`: from `HooksInv`. When callers were told off, the cache
  says off or is empty, storage says off, and no fiber holds another mode it will
  cache (`ToldIsOff`); a hook that began after that reads nothing else
  (`SilentIsQuiet`). `Unset` is neither a mode nor a text (`UnsetAssumption`).

`ProjectionProofs.tla`, for texts of any length over any units, and any number of
replacements:

- `ProjectionTypeCorrect` and `OffsetsAreNamed`: from `ProjectionInv`, which says what
  the gate was shown is the source with its edits applied, and what was measured and
  reported are the functions of the text written. It is kept at once; the work is in
  the lemmas about those functions. They are recursive, so each is first shown to exist
  (`FoldExists`) and then followed by induction over offsets. The library's induction
  theorems take an operator and cannot be used; `UpTo` is the same principle over a
  set of numbers, from the minimum of a non-empty set of naturals (`WFMin`).
- Edits: `EditStepFits` keeps, after each edit, that the content is the source up to
  the cursor with the spans' texts in it, that each span is where its text is, and
  that the rest is the source without the old texts. Overlaps must be excluded for
  this, and the sort must order the edits (`Rank` is one to one). When the host wrote
  what was shown, `SpansIn` finds the same spans, because a new text that occurs once
  occurs where it was written.
- The scanner: `UnitAligned` takes one unit in one state, `ScanAligned` all of them.
  Without a character of two units after a slash, each unit leaves one, itself or a
  blank, and in a line comment a blank (`StrippedFits`); so a match in what is left is
  a match in the text.

`PluginProofs.tla`:

- `PartsAreImplemented`: `Spec` implies the specification of each of the eleven parts:
  a step of `Plugin` is one of the part in focus and a stutter of the others.
- `PluginTypeCorrect` and `PluginKeepsItsPromises`: with it, the types, the
  twelve invariants and `BlocksAreKept` for the whole, from the theorems of the parts.

What is assumed of constants is in the named assumptions of the modules, and TLC
evaluates all of them in the runs. They say that model values for "nothing" differ from
values (`NoneAssumption`, `UnsetAssumption`, parts of the others), that bounds are
natural numbers, that tables given as constants are functions on their sets, and in
three places what the code fixes: `RevisionOf` maps specifications to revisions (two
may share one, as hashes may), a list of profiles is not empty, and the texts of
`Projection` are sequences of `Units`. The units that the scanner writes itself, a
blank and a slash, are among them.

Only model-checked: the liveness properties `CallsReturn`, `TriggersVerify` and
`RunEnds`, which are out of the prover's reach under fairness. The violations found by
the other runs are counterexamples of TLC.

## Not modelled

`PROJECT.json` lists every component with its status. Whole components:

- the rule engine and its controllers: a fold over the rules of one event without
  state; the rules the plugin installs are in `SkillGate` and `Projection`;
- the companion command line, the terminal view and the build scripts: one command or
  one rendering at a time, over the stores modelled above;
- the model clients: calls of remote services, whose outcome is a choice in
  `Benchmark`, `Critic` and `Suite`;
- traces, logs and distillation: text written and read once, on which nothing depends;
- options, the capability probe and the path guard: decoding at the start and pure
  predicates.

Within the modelled parts: in `Journal`, the identity of quarantine files made in the
same millisecond; in `VerifyLoop`, a consumer stopped by a defect (Events.ts:182), the mode
and origin guards of the automatic runs (fixed to on and builder) and paths passed to
the verify tool by its caller; in `SkillGate`, compactions that happen while the
plugin is down; in `Benchmark`, the hash chain of its history (the form of
Journal's), how a score is composed, and which tools an origin takes from a session;
in `Critic`, the filter that drops citations the review did not
gather; in `Tasks`, the limits of the lists of tasks and jobs and the operations that
only answer; in `Projection`, regular
expressions, globs and syntax-tree predicates, whose engines are libraries; in
`Assets`, the text of the files; in `Hooks`, the cache of session locations, which
never change; in `Suite`, an attempt's command that removes its own directory, what a
judge scores and the arithmetic of scorecards.
