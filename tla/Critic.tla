------------------------------- MODULE Critic -------------------------------
(***************************************************************************)
(* The tool effect_harness_critic (src/index.ts:497-743): a child reviews  *)
(* the builder's summary.  The plugin cannot ask for the transcript of the *)
(* child; it reads what the event consumer has put into the trace sink by  *)
(* then (src/Events.ts:101-187), and decodes it (verify-kit/src/Critic.ts).*)
(***************************************************************************)
EXTENDS Integers, SequencesExt, FiniteSets

CONSTANTS
  Reviews,      \* calls of the tool, each with its own child session
  Others,       \* sessions that are no review
  MaxTexts,     \* texts published of one session (bound)
  MaxSessions   \* sessions the sink keeps text of

ASSUME CriticAssumption == MaxTexts \in Nat /\ MaxSessions \in Nat \ {0}

Sessions == Reviews \cup Others
Stages ==
  {"idle", "spawned", "prompt", "wait", "transcript", "save", "completed", "undecoded",
   "failed", "done"}
Answers == {"none", "error", "unavailable", "undecoded", "decoded"}

VARIABLES
  stage,    \* review -> where the call is
  child,    \* review -> its session: "none", "ready", "generating" or "ended"
  said,     \* session -> texts the host has published of it: the prompt, the
            \* parts of the reply, a part that is sent again
  stream,   \* events published and not yet consumed
  fed,      \* session -> events of it consumed so far (history)
  sink,     \* sessions with text, oldest first, and their events
  origins,  \* sessions registered as critic
  answer,   \* review -> what the tool answered
  saved,    \* reviews whose report file is there
  journal,  \* events of the journal: the review, the kind, and whether it decoded
  heard,    \* review -> the events whose text was decoded (history)
  evicted,  \* sessions the sink has pushed out (history)
  hasty,    \* reviews read before the consumer had all their events (history)
  mutated   \* reviews whose child changed a file (history)

criticVars ==
  <<stage, child, said, stream, fed, sink, origins, answer, saved, journal, heard,
    evicted, hasty, mutated>>
sinkVars == <<fed, sink, evicted>>
host == <<child, said, stream, sinkVars, mutated>>
results == <<answer, saved, journal, heard, hasty>>

CriticInit ==
  /\ stage = [r \in Reviews |-> "idle"]
  /\ child = [r \in Reviews |-> "none"]
  /\ said = [s \in Sessions |-> 0]
  /\ stream = <<>>
  /\ fed = [s \in Sessions |-> 0]
  /\ sink = <<>>
  /\ origins = {}
  /\ answer = [r \in Reviews |-> "none"]
  /\ saved = {}
  /\ journal = {}
  /\ heard = [r \in Reviews |-> <<>>]
  /\ evicted = {}
  /\ hasty = {}
  /\ mutated = {}

Goes(r, from, to) == stage[r] = from /\ stage' = [stage EXCEPT ![r] = to]
Ends(r, from, what) ==
  /\ Goes(r, from, "done")
  /\ answer' = [answer EXCEPT ![r] = what]

\* A short summary, a disabled critic, a required independent model, no
\* location, or no child: an error before anything is registered.
RefuseReview(r) ==
  /\ Ends(r, "idle", "error")
  /\ UNCHANGED <<host, origins, saved, journal, heard, hasty>>

Spawn(r) ==
  /\ Goes(r, "idle", "spawned")
  /\ child' = [child EXCEPT ![r] = "ready"]
  /\ UNCHANGED <<said, stream, sinkVars, mutated, origins, results>>

Register(r) ==
  /\ Goes(r, "spawned", "prompt")
  /\ origins' = origins \cup {r}
  /\ UNCHANGED <<host, results>>

\* A prompt that fails is followed by the wait all the same.
Prompt(r) ==
  /\ Goes(r, "prompt", "wait")
  /\ child' \in {child, [child EXCEPT ![r] = "generating"]}
  /\ UNCHANGED <<said, stream, sinkVars, mutated, origins, results>>

\* The host's wait returns when the child has ended.  ensuring(unregister)
\* runs on every exit of the two stages; the child is not interrupted.
\* stageFailed is set when the prompt or the wait failed.
Wait(r) ==
  /\ \/ Goes(r, "wait", "transcript") /\ child[r] = "ended"
     \/ Goes(r, "wait", "failed")
  /\ origins' = origins \ {r}
  /\ UNCHANGED <<host, results>>

\* The fiber of the tool is interrupted at any await.
InterruptReview(r) ==
  /\ stage[r] \notin {"idle", "done"}
  /\ Ends(r, stage[r], "error")
  /\ origins' = origins \ {r}
  /\ UNCHANGED <<host, saved, journal, heard, hasty>>

\* The host publishes a text of a session; texts are told apart by their order.
Publish(s) ==
  /\ s \in Reviews => child[s] = "generating"
  /\ said[s] < MaxTexts
  /\ said' = [said EXCEPT ![s] = @ + 1]
  /\ stream' = Append(stream, [session |-> s, text |-> said[s] + 1])
  /\ UNCHANGED <<stage, child, sinkVars, mutated, origins, results>>

ChildEnds(r) ==
  /\ child[r] = "generating"
  /\ child' = [child EXCEPT ![r] = "ended"]
  /\ UNCHANGED <<stage, said, stream, sinkVars, mutated, origins, results>>

\* The before-hook refuses a mutating tool of a registered session.
ChildMutates(r) ==
  /\ child[r] = "generating"
  /\ r \notin origins
  /\ mutated' = mutated \cup {r}
  /\ UNCHANGED <<stage, child, said, stream, sinkVars, origins, results>>

Buffers(s) == {i \in 1 .. Len(sink) : sink[i].session = s}

\* A mutant: a text takes the place of those before it.
FilledLast(event) ==
  IF Buffers(event.session) # {}
  THEN [i \in 1 .. Len(sink) |->
          IF i \in Buffers(event.session)
          THEN [session |-> event.session, text |-> <<event>>] ELSE sink[i]]
  ELSE Append(sink, [session |-> event.session, text |-> <<event>>])

\* The sink with an event put after those of its session, or begun with it.
Filled(event) ==
  IF Buffers(event.session) # {}
  THEN [i \in 1 .. Len(sink) |->
          IF i \in Buffers(event.session)
          THEN [session |-> event.session, text |-> Append(sink[i].text, event)] ELSE sink[i]]
  ELSE Append(sink, [session |-> event.session, text |-> <<event>>])

\* A mutant: nothing is pushed out.
Unbounded(grown) == sink' = grown /\ evicted' = evicted

\* A session that exceeds the limit pushes out the oldest one.
Bounded(grown) ==
  IF Len(grown) > MaxSessions
  THEN sink' = Tail(grown) /\ evicted' = evicted \cup {Head(grown).session}
  ELSE sink' = grown /\ evicted' = evicted

\* One event at a time; the consumer may be far behind.
Consume ==
  /\ stream # <<>>
  /\ stream' = Tail(stream)
  /\ fed' = [fed EXCEPT ![Head(stream).session] = @ + 1]
  /\ Bounded(Filled(Head(stream)))
  /\ UNCHANGED <<stage, child, said, mutated, origins, results>>

\* The transcript is what the sink holds now.
Transcript(r) == IF Buffers(r) = {} THEN <<>> ELSE sink[CHOOSE i \in Buffers(r) : TRUE].text

Behind(r) == fed[r] < said[r]

\* The decoder accepts what parses as the required JSON and rejects the rest.
\* Which text does is not known here: a part of a reply may, as the whole does.
Decode(r) ==
  \/ Goes(r, "transcript", "undecoded") /\ heard' = heard
  \/ Goes(r, "transcript", "save") /\ heard' = [heard EXCEPT ![r] = Transcript(r)]

\* Blank text is no transcript.
ReadTranscript(r) ==
  /\ hasty' = IF Behind(r) THEN hasty \cup {r} ELSE hasty
  /\ \/ Goes(r, "transcript", "failed") /\ heard' = heard
     \/ Transcript(r) # <<>> /\ Decode(r)
  /\ UNCHANGED <<host, origins, answer, saved, journal>>

\* Written aside and renamed; a failure is an error of the tool.
SaveReport(r) ==
  /\ \/ /\ Goes(r, "save", "completed")
        /\ saved' = saved \cup {r}
        /\ answer' = answer
     \/ /\ Ends(r, "save", "error")
        /\ saved' = saved
  /\ UNCHANGED <<host, origins, journal, heard, hasty>>

\* A failing append of the journal is logged and forgotten.
Journalled(r, kind, decoded) ==
  journal' \in {journal, journal \cup {[review |-> r, kind |-> kind, decoded |-> decoded]}}

Conclude(r) ==
  /\ \/ Ends(r, "failed", "unavailable") /\ Journalled(r, "review.failed", FALSE)
     \/ Ends(r, "undecoded", "undecoded") /\ Journalled(r, "review.completed", FALSE)
     \/ Ends(r, "completed", "decoded") /\ Journalled(r, "review.completed", TRUE)
  /\ UNCHANGED <<host, origins, saved, heard, hasty>>

CriticNext ==
  \/ Consume
  \/ \E s \in Sessions : Publish(s)
  \/ \E r \in Reviews :
       \/ RefuseReview(r) \/ Spawn(r) \/ Register(r) \/ Prompt(r) \/ Wait(r)
       \/ ReadTranscript(r) \/ SaveReport(r) \/ Conclude(r) \/ InterruptReview(r)
       \/ ChildEnds(r) \/ ChildMutates(r)

CriticSpec == CriticInit /\ [][CriticNext]_criticVars

Events == [session : Sessions, text : 1 .. MaxTexts]

CriticTypeOK ==
  /\ stage \in [Reviews -> Stages]
  /\ child \in [Reviews -> {"none", "ready", "generating", "ended"}]
  /\ said \in [Sessions -> 0 .. MaxTexts] /\ fed \in [Sessions -> 0 .. MaxTexts]
  /\ stream \in Seq(Events)
  /\ sink \in Seq([session : Sessions, text : Seq(Events)])
  /\ Len(sink) <= MaxSessions
  /\ origins \subseteq Reviews
  /\ answer \in [Reviews -> Answers]
  /\ heard \in [Reviews -> Seq(Events)]
  /\ saved \subseteq Reviews /\ mutated \subseteq Reviews /\ hasty \subseteq Reviews
  /\ evicted \subseteq Sessions
  /\ journal \subseteq
       [review : Reviews, kind : {"review.failed", "review.completed"}, decoded : BOOLEAN]

\* Texts of a session in order and without a gap, from the first on.
IsRun(s, events, first) ==
  /\ events # <<>>
  /\ \A i \in 1 .. Len(events) : events[i] = [session |-> s, text |-> first + i - 1]

\* All texts of the child, but for the first ones if the sink pushed it out,
\* and the last ones if it was read early.
HeardChild(r) ==
  \E first \in 1 .. MaxTexts :
    /\ IsRun(r, heard[r], first)
    /\ first = 1 \/ r \in evicted
    /\ first + Len(heard[r]) - 1 = said[r] \/ r \in hasty

(* A review that is answered or journalled as decoded was decoded from     *)
(* text of its own child alone, in order and without a gap, whatever other *)
(* sessions said: from all that was published of the child, unless its     *)
(* beginning was pushed out of the sink or the consumer did not have its   *)
(* end yet.  In these two cases the code cannot tell a part of a reply     *)
(* from the reply: a part that parses is accepted.  The report of a        *)
(* decoded review is on disk, and one event at most is journalled for it   *)
(* (index.ts:611-743, Events.ts:125-153, Critic.ts:111-193).  And the      *)
(* child changes no file as long as the tool has not given up on it: it is *)
(* registered before it is prompted and until it has ended; only a failed  *)
(* wait or an interruption leaves it running unregistered                  *)
(* (index.ts:561-591).                                                     *)
ReviewsAreGenuine ==
  /\ \A r \in Reviews :
       /\ \/ answer[r] = "decoded"
          \/ \E e \in journal : e.review = r /\ e.decoded
          =>
            /\ HeardChild(r)
            /\ r \in saved
       /\ Cardinality({e \in journal : e.review = r}) <= 1
  /\ \A r \in mutated :
       stage[r] \in {"failed", "done"} /\ answer[r] \in {"none", "error", "unavailable"}
=============================================================================
