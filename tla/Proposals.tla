----------------------------- MODULE Proposals -----------------------------
(***************************************************************************)
(* The queue of proposals (compound-kit/src/Queue.ts) over what Journal    *)
(* does for one caller at a time: an append is answered by the entry the   *)
(* index names for its request, if both files are read, and otherwise it   *)
(* adds an entry to the stream it read.  A stream whose exists fails is    *)
(* read as empty, and so is an index that cannot be read; a crash or a     *)
(* failed write loses the update of the index.                             *)
(***************************************************************************)
EXTENDS Integers, Sequences

CONSTANTS
  Proposed,    \* ids of proposals
  Requests,    \* request ids the callers of decide choose
  Contents,    \* rewritten contents
  None,        \* no row, no content, no request
  MaxAppends   \* entries written, of the stream and of those it replaced (bound)

Decisions == {"approve", "edit-approve", "skip", "reject", "abort"}
Statuses == {"pending", "approved", "edited-approved", "skipped", "rejected"}

\* A request id is that of the proposal, of a decision on it, or the caller's.
ProposalRequest(p) == <<"prop", p>>
DefaultRequest(decision, p) == <<decision, p>>
GivenRequest(r) == <<"given", r>>

Entries ==
  [kind : Decisions \cup {"proposed"}, id : Proposed,
   content : Contents \cup {None}]
Rows == [status : Statuses, content : Contents \cup {None}]

ASSUME NoneAssumption == None \notin Rows

VARIABLES
  log,       \* entries of the stream
  index,     \* request ids of the index -> sequence of an entry, from 0
  expected,  \* proposal -> the statuses a reader may expect (history)
  orphans,   \* requests with an entry that the index lost (history)
  appends    \* entries written so far (counts to MaxAppends)

proposalVars == <<log, index, expected, orphans, appends>>

NoIndex == [q \in {} |-> 0]

ProposalsInit ==
  /\ log = <<>>
  /\ index = NoIndex
  /\ expected = [p \in Proposed |-> {}]
  /\ orphans = {}
  /\ appends = 0

Proposing(p) == [kind |-> "proposed", id |-> p, content |-> None]
Deciding(p, decision, content) == [kind |-> decision, id |-> p, content |-> content]

\* The status a decision gives a row; an abort leaves the row alone.
StatusOf(decision, before) ==
  CASE decision = "approve" -> "approved"
    [] decision = "edit-approve" -> "edited-approved"
    [] decision = "skip" -> "skipped"
    [] decision = "reject" -> "rejected"
    [] OTHER -> before

\* One entry of the stream applied to the table of rows.
Decided(row, entry) ==
  [status |-> StatusOf(entry.kind, row.status),
   content |-> IF entry.kind = "edit-approve" /\ entry.content # None
               THEN entry.content ELSE row.content]

Apply(table, entry) ==
  CASE entry.kind = "proposed" ->
         [table EXCEPT ![entry.id] = [status |-> "pending", content |-> None]]
    [] entry.kind # "proposed" /\ table[entry.id] # None ->
         [table EXCEPT ![entry.id] = Decided(table[entry.id], entry)]
    [] OTHER -> table

\* The table after the first n entries.
TableAt[n \in 0 .. Len(log)] ==
  IF n = 0 THEN [p \in Proposed |-> None] ELSE Apply(TableAt[n - 1], log[n])

StatusAll == TableAt[Len(log)]

Status(p) == IF StatusAll[p] = None THEN None ELSE StatusAll[p].status
Pending == {p \in Proposed : Status(p) = "pending"}

\* A request the index knows is answered by the entry at its sequence.
Replays(raw, known, request) ==
  request \in DOMAIN known /\ known[request] < Len(raw)

Replay(request) ==
  /\ Replays(log, index, request)
  /\ UNCHANGED <<log, index, orphans, appends>>

\* The requests of the index this reading of it ignores.
Unread(known) == DOMAIN index \ DOMAIN known

\* The stream is written, from what was read of it.  Both readings may be of
\* the files or of nothing in their place.
WriteLog(raw, known, entry, request) ==
  /\ ~Replays(raw, known, request)
  /\ appends < MaxAppends
  /\ log' = Append(raw, entry)
  /\ appends' = appends + 1

\* The index is written, from what was read of it ...
WriteIndex(raw, known, request) ==
  /\ index' = [q \in DOMAIN known \cup {request} |->
                 IF q = request THEN Len(raw) ELSE known[q]]
  /\ orphans' = orphans \cup Unread(known)

\* ... or not, and the caller learns of a failure, or nothing.
LoseIndex(request) ==
  /\ orphans' = orphans \cup {request}
  /\ index' = index

\* Nothing is expected of a stream that takes the place of another.
Standing(raw) == IF raw = log THEN expected ELSE [p \in Proposed |-> {}]

\* A row is pending because it was proposed, or proposed again after the
\* index lost the request, or could not be read.
Awaited(raw, known, p) ==
  LET before == Standing(raw) IN
  expected' = IF before[p] = {} \/ ProposalRequest(p) \in orphans \cup Unread(known)
              THEN [before EXCEPT ![p] = @ \cup {"pending"}] ELSE before

\* A mutant: the request id of a proposal is new on every call.
ProposeAnew(p) ==
  LET request == <<"prop", p, Len(log)>> IN
  /\ WriteLog(log, index, Proposing(p), request)
  /\ WriteIndex(log, index, request)
  /\ Awaited(log, index, p)

Propose(p) ==
  LET request == ProposalRequest(p) IN
  \/ Replay(request) /\ UNCHANGED expected
  \/ \E raw \in {log, <<>>}, known \in {index, NoIndex} :
       /\ WriteLog(raw, known, Proposing(p), request)
       /\ WriteIndex(raw, known, request) \/ LoseIndex(request)
       /\ Awaited(raw, known, p)

\* The decision of a call that was answered stands; that of a call that
\* failed, or that was answered by an earlier entry, may.
Expect(raw, p, decision, certain) ==
  LET before == Standing(raw)
      after == {StatusOf(decision, s) : s \in before[p]}
  IN  expected' = [before EXCEPT ![p] = IF certain THEN after ELSE @ \cup after]

Decide(p, decision, content, given) ==
  LET request == IF given = None THEN DefaultRequest(decision, p) ELSE GivenRequest(given)
  IN  \/ Replay(request) /\ Expect(log, p, decision, FALSE)
      \/ \E raw \in {log, <<>>}, known \in {index, NoIndex} :
           /\ WriteLog(raw, known, Deciding(p, decision, content), request)
           /\ \/ WriteIndex(raw, known, request) /\ Expect(raw, p, decision, TRUE)
              \/ LoseIndex(request) /\ Expect(raw, p, decision, FALSE)

ProposalsNext ==
  \/ \E p \in Proposed : Propose(p)
  \/ \E p \in Proposed, decision \in Decisions,
        content \in Contents \cup {None}, given \in Requests \cup {None} :
       /\ decision # "edit-approve" => content = None
       /\ Decide(p, decision, content, given)

ProposalsSpec == ProposalsInit /\ [][ProposalsNext]_proposalVars

ProposalsTypeOK ==
  /\ log \in Seq(Entries)
  /\ Len(log) <= appends
  /\ \A q \in DOMAIN index : index[q] \in Nat
  /\ \A p \in Proposed : expected[p] \subseteq Statuses
  /\ \A p \in Proposed : StatusAll[p] \in Rows \cup {None}

(* The status a reader computes from the stream is one the callers can     *)
(* account for: after a decision that was answered by an entry of its own  *)
(* it is that decision, whatever failed appends, repeated proposals,       *)
(* repeated decisions and aborts came before.  A proposal that was decided *)
(* is pending again only when it was proposed again after the index lost   *)
(* the request of its proposal, or by an append that could not read the    *)
(* index, or in a stream that took the place of one that was read as empty *)
(* (Queue.ts:70-80, 104-201; Journal.ts:195-212, 273-278, 312-344).        *)
StatusIsAccountedFor ==
  \A p \in Proposed : Status(p) # None => Status(p) \in expected[p]
=============================================================================
