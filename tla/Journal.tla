------------------------------ MODULE Journal ------------------------------
(***************************************************************************)
(* One stream of the append-only journal (packages/shared/src/Journal.ts)  *)
(* and the directory lock that guards it (lock/Lock.ts).                   *)
(*                                                                         *)
(* A stream is two files: the entries (<stream>.ndjson) and the index from *)
(* request ids to sequence numbers (<stream>.ids.json).  Each is replaced  *)
(* atomically (temporary file and rename), but one after the other.  A     *)
(* process runs one instance of the service; its callers are fibers.  The  *)
(* fibers of one instance queue on a semaphore, instances exclude each     *)
(* other with a lock directory, and a process may die at any step.         *)
(*                                                                         *)
(* Abstractions: kind, actor and time are folded into the payload, which   *)
(* is the request the entry was written for; the seal is injective.        *)
(***************************************************************************)
EXTENDS Naturals, Sequences

CONSTANTS
  Instances,    \* processes, each with its own service layer
  Fibers,       \* callers
  InstanceOf,   \* the instance a fiber calls
  Requests,     \* request ids the callers use
  NoRequest,    \* a call without a request id
  Garbage,      \* a line that does not parse
  None,         \* no value
  Free,         \* the lock directory does not exist
  Abandoned,    \* it exists and no live fiber owns it
  MaxEntries,   \* bound: entries after which appends fail
  MaxDamage,    \* bound: external corruptions of the files
  MaxFaults     \* bound: those, and reads that fail and are taken for a missing
                \* file, together

ASSUME FibersBelongToInstances == InstanceOf \in [Fibers -> Instances]
ASSUME LockValuesDiffer ==
  /\ Free # Abandoned
  /\ Free \notin Fibers
  /\ Abandoned \notin Fibers
ASSUME BoundsAreNaturals == MaxEntries \in Nat /\ MaxDamage \in Nat /\ MaxFaults \in Nat

Payload == Requests \cup {NoRequest}
Hash == Seq(Nat \X Payload)
Entry == [sequence : Nat, previousHash : Hash, payload : Payload, hash : Hash]

ASSUME DistinctMarkers ==
  /\ Garbage \notin Entry
  /\ None \notin Entry
  /\ None \notin Nat
  /\ NoRequest \notin Requests

Line == Entry \cup {Garbage}

\* Where a fiber stands inside a call; "read" to "rewrite" run under the lock.
Locked == {"read", "ids", "stream", "index", "quarantine", "rewrite", "unlock"}
Steps == {"idle", "wait", "mkdir"} \cup Locked

VARIABLES
  file,        \* the lines of <stream>.ndjson
  ids,         \* <stream>.ids.json: request id -> sequence, or None
  quarantine,  \* the lines saved in <stream>.corrupt-* files
  lock,        \* the lock directory: Free, Abandoned, or the fiber that made it
  permit,      \* per instance: is the stream's semaphore available?
  pc,          \* per fiber: its step
  call,        \* per fiber: the operation and request of its call
  raw,         \* per fiber: the lines it read
  known,       \* per fiber: the index it read
  missed,      \* history: fibers whose call took the existing stream for missing
  answer,      \* per fiber: the entry it will return, or None
  acked,       \* history: [request, entry] pairs returned to callers
  orphaned,    \* history: requests whose entry the index lost, or was not asked for
  replaced,    \* history: entries of streams that were taken for missing and restarted
  damaged,     \* history: entries destroyed from outside
  damages,     \* history: number of external corruptions
  misreads     \* history: number of failed reads taken for a missing file

files == <<file, ids, quarantine>>
locals == <<call, raw, known, missed, answer>>
history == <<acked, orphaned, replaced, damaged, damages, misreads>>
vars == <<files, lock, permit, pc, locals, history>>

NoIds == [r \in Requests |-> None]
NoCall == [op |-> "none", request |-> NoRequest]

Lines(s) == {s[i] : i \in 1..Len(s)}
Entries(s) == Lines(s) \ {Garbage}

Init ==
  /\ file = <<>>
  /\ ids = NoIds
  /\ quarantine = {}
  /\ lock = Free
  /\ permit = [i \in Instances |-> TRUE]
  /\ pc = [f \in Fibers |-> "idle"]
  /\ call = [f \in Fibers |-> NoCall]
  /\ raw = [f \in Fibers |-> <<>>]
  /\ known = [f \in Fibers |-> NoIds]
  /\ answer = [f \in Fibers |-> None]
  /\ acked = {}
  /\ missed = {}
  /\ orphaned = {}
  /\ replaced = {}
  /\ damaged = {}
  /\ damages = 0
  /\ misreads = 0
-----------------------------------------------------------------------------
(* The chain *)

Genesis == <<>>

\* seal: a fingerprint of the sequence, the previous hash and the contents.
Seal(sequence, previousHash, payload) == Append(previousHash, <<sequence, payload>>)

LastHash(s) == IF Len(s) = 0 THEN Genesis ELSE s[Len(s)].hash

\* Mutant: the first entry is linked to nothing.
RootlessEntry(s, payload) ==
  [sequence |-> Len(s),
   previousHash |-> IF Len(s) = 0 THEN None ELSE LastHash(s),
   payload |-> payload,
   hash |-> Seal(Len(s), LastHash(s), payload)]

\* Mutant: every entry is linked to the genesis hash.
UnlinkedEntry(s, payload) ==
  [sequence |-> Len(s),
   previousHash |-> Genesis,
   payload |-> payload,
   hash |-> Seal(Len(s), Genesis, payload)]

SealedEntry(s, payload) ==
  [sequence |-> Len(s),
   previousHash |-> LastHash(s),
   payload |-> payload,
   hash |-> Seal(Len(s), LastHash(s), payload)]

\* decodeEntries: every line parses, is in sequence, linked and sealed.
Decodes(s) ==
  /\ \A i \in 1..Len(s) : s[i] # Garbage
  /\ \A i \in 1..Len(s) :
       /\ s[i].sequence = i - 1
       /\ s[i].hash = Seal(s[i].sequence, s[i].previousHash, s[i].payload)
       /\ s[i].previousHash = IF i = 1 THEN Genesis ELSE s[i - 1].hash

\* repair keeps the first n lines: those before the first that does not parse.
ValidPrefix(s, n) ==
  /\ \A i \in 1..n : s[i] # Garbage
  /\ n < Len(s) => s[n + 1] = Garbage
-----------------------------------------------------------------------------
(* Calls *)

Goto(f, step) == pc' = [pc EXCEPT ![f] = step]

Call(f, op, request) ==
  /\ pc[f] = "idle"
  /\ op = "repair" => request = NoRequest
  /\ call' = [call EXCEPT ![f] = [op |-> op, request |-> request]]
  /\ Goto(f, "wait")
  /\ UNCHANGED <<files, lock, permit, raw, known, missed, answer, history>>

\* Interrupted while it queues on the semaphore.
GiveUp(f) ==
  /\ pc[f] = "wait"
  /\ call' = [call EXCEPT ![f] = NoCall]
  /\ Goto(f, "idle")
  /\ UNCHANGED <<files, lock, permit, raw, known, missed, answer, history>>

\* Mutant: no semaphore.
TakePermitAnyway(f) ==
  /\ pc[f] = "wait"
  /\ permit' = [permit EXCEPT ![InstanceOf[f]] = FALSE]
  /\ Goto(f, "mkdir")
  /\ UNCHANGED <<files, lock, locals, history>>

\* The stream's semaphore: one caller of the instance at a time.
TakePermit(f) ==
  /\ pc[f] = "wait"
  /\ permit[InstanceOf[f]]
  /\ permit' = [permit EXCEPT ![InstanceOf[f]] = FALSE]
  /\ Goto(f, "mkdir")
  /\ UNCHANGED <<files, lock, locals, history>>

\* Mutant: the semaphore is not released.
LeaveHolding(f) ==
  /\ UNCHANGED permit
  /\ Goto(f, "idle")
  /\ call' = [call EXCEPT ![f] = NoCall]
  /\ raw' = [raw EXCEPT ![f] = <<>>]
  /\ known' = [known EXCEPT ![f] = NoIds]
  /\ missed' = missed \ {f}
  /\ answer' = [answer EXCEPT ![f] = None]

\* The call is over: the fiber forgets its locals and releases the semaphore.
Leave(f) ==
  /\ permit' = [permit EXCEPT ![InstanceOf[f]] = TRUE]
  /\ Goto(f, "idle")
  /\ call' = [call EXCEPT ![f] = NoCall]
  /\ raw' = [raw EXCEPT ![f] = <<>>]
  /\ known' = [known EXCEPT ![f] = NoIds]
  /\ missed' = missed \ {f}
  /\ answer' = [answer EXCEPT ![f] = None]

\* Mutant: makeDirectory with recursive, which accepts an existing directory.
AcquireLockRecursive(f) ==
  /\ pc[f] = "mkdir"
  /\ lock' = f
  /\ Goto(f, "read")
  /\ UNCHANGED <<files, permit, locals, history>>

\* makeDirectory succeeds for one contender only.
AcquireLock(f) ==
  /\ pc[f] = "mkdir"
  /\ lock = Free
  /\ lock' = f
  /\ Goto(f, "read")
  /\ UNCHANGED <<files, permit, locals, history>>

\* "another process owns the stream lock": the directory exists, or making it
\* failed for any other reason.
RefuseLock(f) ==
  /\ pc[f] = "mkdir"
  /\ Leave(f)
  /\ UNCHANGED <<files, lock, history>>

\* Interrupted between makeDirectory and the finalizer: nobody removes it.
InterruptLock(f) ==
  /\ pc[f] = "mkdir"
  /\ lock = Free
  /\ lock' = Abandoned
  /\ Leave(f)
  /\ UNCHANGED <<files, history>>

\* A read that yields something else than what is there is counted.
Counted(taken, there) ==
  /\ misreads' = IF taken = there THEN misreads ELSE misreads + 1
  /\ damages + misreads' <= MaxFaults

\* The text a fiber read, decoded (decodeEntries of an append) or parsed line
\* by line (repair).
ReadAs(f, text) ==
  /\ pc[f] = "read"
  /\ raw' = [raw EXCEPT ![f] = text]
  /\ missed' = IF text = file THEN missed ELSE missed \cup {f}
  /\ Counted(text, file)
  /\ \/ call[f].op = "append" /\ Decodes(text) /\ Goto(f, "ids")
     \/ call[f].op = "append" /\ ~Decodes(text) /\ Goto(f, "unlock")
     \/ call[f].op = "repair" /\ Garbage \in Lines(text) /\ Goto(f, "quarantine")
     \/ call[f].op = "repair" /\ Garbage \notin Lines(text) /\ Goto(f, "unlock")
  /\ UNCHANGED <<files, lock, permit, call, known, answer,
                 acked, orphaned, replaced, damaged, damages>>

\* readFileRaw: a missing stream is empty, and a failing exists() counts as a
\* missing stream.
ReadStream(f) == \E text \in {file, <<>>} : ReadAs(f, text)

\* Mutant: a known request id is answered with the latest entry.
ReplaysLatest(f, index) ==
  LET r == call[f].request IN
    IF r = NoRequest \/ index[r] = None \/ raw[f] = <<>> THEN {} ELSE {raw[f][Len(raw[f])]}

\* The entry a known request id stands for, if the index points into the history.
Replays(f, index) ==
  LET r == call[f].request IN
    IF r = NoRequest \/ index[r] = None
      THEN {}
      ELSE {raw[f][i] : i \in {j \in 1..Len(raw[f]) : raw[f][j].sequence = index[r]}}

\* The replay check against the index a fiber read.  A stream at the bound
\* ends the call as a failed write does.
ReplayOrAppend(f, index) ==
  /\ pc[f] = "ids"
  /\ known' = [known EXCEPT ![f] = index]
  /\ Counted(index, ids)
  /\ IF Replays(f, index) # {}
       THEN /\ \E e \in Replays(f, index) : answer' = [answer EXCEPT ![f] = e]
            /\ Goto(f, "unlock")
       ELSE /\ UNCHANGED answer
            /\ Goto(f, IF Len(raw[f]) < MaxEntries THEN "stream" ELSE "unlock")
  /\ UNCHANGED <<files, lock, permit, call, raw, missed,
                 acked, orphaned, replaced, damaged, damages>>

\* readIds: an index that is missing, cannot be read or does not parse knows
\* no request.
ReadIds(f) == \E index \in {ids, NoIds} : ReplayOrAppend(f, index)

\* The requests the index on disk names and the fiber's reading of it does not.
Ignored(f) == {r \in Requests : ids[r] # None /\ known[f][r] = None}

\* writeAtomic of the stream with the sealed entry at its end.
WriteStream(f) ==
  LET e == SealedEntry(raw[f], call[f].request) IN
    /\ pc[f] = "stream"
    /\ file' = Append(raw[f], e)
    /\ answer' = [answer EXCEPT ![f] = e]
    /\ Goto(f, IF call[f].request = NoRequest THEN "unlock" ELSE "index")
    /\ orphaned' = orphaned \cup (Ignored(f) \cap {call[f].request})
    /\ replaced' = IF f \in missed THEN replaced \cup Entries(file) ELSE replaced
    /\ UNCHANGED <<ids, quarantine, lock, permit, call, raw, known, missed,
                   acked, damaged, damages, misreads>>

\* Mutant: the index is given the length of the stream, one past the entry.
WriteIdsPast(f) ==
  /\ pc[f] = "index"
  /\ ids' = [known[f] EXCEPT ![call[f].request] = answer[f].sequence + 1]
  /\ orphaned' = orphaned \cup Ignored(f)
  /\ Goto(f, "unlock")
  /\ UNCHANGED <<file, quarantine, lock, permit, locals,
                 acked, replaced, damaged, damages, misreads>>

\* writeAtomic of the index, from the copy read before the stream was written:
\* what that reading ignored is gone.
WriteIds(f) ==
  /\ pc[f] = "index"
  /\ ids' = [known[f] EXCEPT ![call[f].request] = answer[f].sequence]
  /\ orphaned' = orphaned \cup Ignored(f)
  /\ Goto(f, "unlock")
  /\ UNCHANGED <<file, quarantine, lock, permit, locals,
                 acked, replaced, damaged, damages, misreads>>

\* Mutant: a failed quarantine write is ignored.
QuarantineIgnored(f) ==
  /\ pc[f] = "quarantine"
  /\ Goto(f, "rewrite")
  /\ UNCHANGED <<files, lock, permit, locals, history>>

\* The bytes to drop are saved first ...
Quarantine(f) ==
  /\ pc[f] = "quarantine"
  /\ \E n \in 0..Len(raw[f]) :
       /\ ValidPrefix(raw[f], n)
       /\ quarantine' = quarantine \cup {raw[f][i] : i \in (n + 1)..Len(raw[f])}
  /\ Goto(f, "rewrite")
  /\ UNCHANGED <<file, ids, lock, permit, locals, history>>

\* Mutant: the cut drops the last valid line as well.
RewriteShort(f) ==
  /\ pc[f] = "rewrite"
  /\ \E n \in 0..Len(raw[f]) :
       /\ ValidPrefix(raw[f], n)
       /\ file' = SubSeq(raw[f], 1, n - 1)
  /\ Goto(f, "unlock")
  /\ UNCHANGED <<ids, quarantine, lock, permit, locals, history>>

\* ... and only then is the stream cut back; the index is left as it is.
Rewrite(f) ==
  /\ pc[f] = "rewrite"
  /\ \E n \in 0..Len(raw[f]) :
       /\ ValidPrefix(raw[f], n)
       /\ file' = SubSeq(raw[f], 1, n)
  /\ Goto(f, "unlock")
  /\ UNCHANGED <<ids, quarantine, lock, permit, locals, history>>

\* The lock directory is removed on every exit; a failed removal is ignored.
\* An append that has its entry returns it, every other call ends without one.
Unlock(f) ==
  /\ pc[f] = "unlock"
  /\ lock' \in {Free, Abandoned}
  /\ acked' = IF answer[f] = None THEN acked
              ELSE acked \cup {[request |-> call[f].request, entry |-> answer[f]]}
  /\ Leave(f)
  /\ UNCHANGED <<files, orphaned, replaced, damaged, damages, misreads>>
-----------------------------------------------------------------------------
(* Failures *)

\* A request written to the stream whose index update will not happen.
Orphans(fs) == {call[f].request : f \in {g \in fs : pc[g] = "index"}}

\* A file operation fails or the fiber is interrupted: typed error, lock released.
StepFails(f) ==
  /\ pc[f] \in Locked \ {"unlock"}
  /\ orphaned' = orphaned \cup Orphans({f})
  /\ answer' = [answer EXCEPT ![f] = None]
  /\ Goto(f, "unlock")
  /\ UNCHANGED <<files, lock, permit, call, raw, known, missed,
                 acked, replaced, damaged, damages, misreads>>

\* A process dies and restarts: its fibers are gone, its lock directory is not.
Crash(i) ==
  LET gone == {f \in Fibers : InstanceOf[f] = i}
      Reset(g, value) == [f \in Fibers |-> IF f \in gone THEN value ELSE g[f]]
  IN /\ \E f \in gone : pc[f] # "idle"
     /\ pc' = Reset(pc, "idle")
     /\ call' = Reset(call, NoCall)
     /\ raw' = Reset(raw, <<>>)
     /\ known' = Reset(known, NoIds)
     /\ answer' = Reset(answer, None)
     /\ missed' = missed \ gone
     /\ permit' = [permit EXCEPT ![i] = TRUE]
     /\ lock' = IF lock \in gone THEN Abandoned ELSE lock
     /\ orphaned' = orphaned \cup Orphans(gone)
     /\ UNCHANGED <<files, acked, replaced, damaged, damages, misreads>>

\* An operator investigates an abandoned lock and removes the directory.
ClearLock ==
  /\ lock = Abandoned
  /\ lock' = Free
  /\ UNCHANGED <<files, permit, pc, locals, history>>

Destroyed(k) == {file[k]} \ {Garbage}

\* External corruption: a line is garbled, a line vanishes, the index vanishes.
Garble(k) ==
  /\ damages < MaxDamage /\ damages + misreads < MaxFaults
  /\ damages' = damages + 1
  /\ file' = [file EXCEPT ![k] = Garbage]
  /\ damaged' = damaged \cup Destroyed(k)
  /\ UNCHANGED <<ids, quarantine, lock, permit, pc, locals,
                 acked, orphaned, replaced, misreads>>

DropLine(k) ==
  /\ damages < MaxDamage /\ damages + misreads < MaxFaults
  /\ damages' = damages + 1
  /\ file' = [i \in 1..(Len(file) - 1) |-> IF i < k THEN file[i] ELSE file[i + 1]]
  /\ damaged' = damaged \cup Destroyed(k)
  /\ UNCHANGED <<ids, quarantine, lock, permit, pc, locals,
                 acked, orphaned, replaced, misreads>>

DropIds ==
  /\ damages < MaxDamage /\ damages + misreads < MaxFaults
  /\ damages' = damages + 1
  /\ ids' = NoIds
  /\ orphaned' = orphaned \cup {r \in Requests : ids[r] # None}
  /\ UNCHANGED <<file, quarantine, lock, permit, pc, locals,
                 acked, replaced, damaged, misreads>>
-----------------------------------------------------------------------------
Progress(f) ==
  \/ TakePermit(f) \/ AcquireLock(f) \/ RefuseLock(f)
  \/ ReadStream(f) \/ ReadIds(f) \/ WriteStream(f) \/ WriteIds(f)
  \/ Quarantine(f) \/ Rewrite(f) \/ Unlock(f)

Corruption ==
  \/ \E k \in 1..Len(file) : Garble(k) \/ DropLine(k)
  \/ DropIds

Next ==
  \/ \E f \in Fibers, op \in {"append", "repair"}, r \in Payload : Call(f, op, r)
  \/ \E f \in Fibers : Progress(f) \/ GiveUp(f) \/ InterruptLock(f) \/ StepFails(f)
  \/ \E i \in Instances : Crash(i)
  \/ ClearLock
  \/ Corruption

Spec == Init /\ [][Next]_vars

\* A running process keeps running its fibers, and the semaphore wakes its
\* waiters in order; calls, failures, crashes and operators are under no
\* obligation.
FairSpec ==
  /\ Spec
  /\ \A f \in Fibers : WF_vars(Progress(f)) /\ SF_vars(TakePermit(f))
-----------------------------------------------------------------------------
(* Properties *)

TypeOK ==
  /\ file \in Seq(Line)
  /\ ids \in [Requests -> Nat \cup {None}]
  /\ quarantine \subseteq Line
  /\ lock \in Fibers \cup {Free, Abandoned}
  /\ permit \in [Instances -> BOOLEAN]
  /\ pc \in [Fibers -> Steps]
  /\ call \in [Fibers -> [op : {"append", "repair", "none"}, request : Payload]]
  /\ raw \in [Fibers -> Seq(Line)]
  /\ known \in [Fibers -> [Requests -> Nat \cup {None}]]
  /\ missed \subseteq Fibers
  /\ answer \in [Fibers -> Entry \cup {None}]
  /\ acked \subseteq [request : Payload, entry : Entry]
  /\ orphaned \subseteq Payload
  /\ replaced \subseteq Entry
  /\ damaged \subseteq Entry
  /\ damages \in Nat
  /\ misreads \in Nat

\* Whoever reads, decides or writes owns the lock directory, so two writers of
\* one stream never interleave, in one process or in two, across crashes,
\* failed unlocks and operators.  (Journal.ts:11, Lock.ts:5)
WritersOwnTheLock == \A f \in Fibers : pc[f] \in Locked => lock = f

\* A caller is refused the lock only because of another process or an
\* abandoned directory; callers of one process wait for each other.
\* (Journal.ts:172)
SiblingsQueue ==
  \A f \in Fibers :
    pc[f] = "mkdir" /\ lock \in Fibers => InstanceOf[lock] # InstanceOf[f]

\* Without corruption from outside, every state the two writes, the failed
\* reads, the failures and the crashes can leave decodes. (Journal.ts:12)
ChainIntact == damages = 0 => Decodes(file)

\* An append keeps all that was there and a repair saves what it cuts off.  An
\* entry is destroyed only from outside, or by an append whose own exists()
\* failed: it takes the stream for missing and starts it anew, although it
\* holds the lock.  (Journal.ts:10, 14, 199, 377)
HistoryKept ==
  [][Entries(file) \subseteq Entries(file') \cup quarantine' \cup damaged' \cup replaced']_vars

\* An entry once returned to a caller is in the stream or in quarantine,
\* unless it was destroyed from outside or its stream was taken for missing.
AcknowledgedKept ==
  \A a \in acked : a.entry \in Entries(file) \cup quarantine \cup damaged \cup replaced

\* A request reaches the stream at most once, however often it is retried,
\* unless the index lost its entry (an update or the file was lost, or an
\* append that could not read the index rewrote it) or the retry itself could
\* not read the index.  (Journal.ts:13, 273)
WrittenOnce ==
  \A r \in Requests \ orphaned :
    \A i, j \in 1..Len(file) :
      file[i] # Garbage /\ file[j] # Garbage
        /\ file[i].payload = r /\ file[j].payload = r => i = j

\* The same without the exception: what Journal.ts:13 promises.
RetriesAreIdempotent ==
  damages = 0 =>
    \A r \in Requests :
      \A i, j \in 1..Len(file) : file[i].payload = r /\ file[j].payload = r => i = j

\* The requests whose entries went with a stream that was taken for missing;
\* the index may still point at where they stood.
Displaced == {e.payload : e \in replaced}

\* A request is answered with an entry that was written for it, as long as
\* nothing outside has touched the files and its entry was not in a stream
\* that was taken for missing: the index outlives that stream and then names
\* the entries of others.  (Journal.ts:13, 199)
AnsweredByOwnEntry ==
  damages = 0 => \A a \in acked : a.request \notin Displaced => a.entry.payload = a.request

\* Every call ends: no caller waits for ever, whatever fails or dies.
CallsReturn == \A f \in Fibers : pc[f] = "wait" ~> pc[f] = "idle"
============================================================================
