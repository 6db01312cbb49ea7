--------------------------- MODULE CompoundProofs ---------------------------
(***************************************************************************)
(* Proofs about the shared stores of compound-kit and the state layer of   *)
(* the plugin: claims, the lineage and the pointer of a blueprint, the     *)
(* queue of proposals, the runners of a suite, and the tasks of the        *)
(* benchmark tool.  They share no state; each part has its own inductive   *)
(* invariant, for every number of callers, processes, writers, proposals,  *)
(* runners and users.                                                      *)
(***************************************************************************)
EXTENDS Claim, Lineage, BlueprintStore, Proposals, Suite, Tasks, TLAPS,
        SequenceTheorems, FiniteSetTheorems

-----------------------------------------------------------------------------

(***************************************************************************)
(* The claims (Claim): the lease of a holder.                              *)
(***************************************************************************)

\* A call decides with a clock that has passed, an acquire has an id, and what
\* a caller holds was made out to its holder.
CallsLookBack ==
  /\ \A c \in Callers : call[c].op = "acquire" => call[c].id \in Ids
  /\ \A c \in Callers : call[c].now <= clock
  /\ \A c \in Callers : held[c] # NoClaim => held[c].holder = HolderOf[c]

ClaimInv == ClaimTypeOK /\ CallsLookBack /\ LeaseHolds

LEMMA NoCallType == NoCall \in ClaimCalls
BY TtlAssumption DEF NoCall, ClaimCalls

LEMMA ClaimForType ==
  ASSUME ClaimTypeOK, NEW c \in Callers, NEW id \in Ids
  PROVE  ClaimFor(c, id) \in Claims /\ ClaimFor(c, id).holder = HolderOf[c]
BY TtlAssumption DEF ClaimFor, Claims, ClaimTypeOK, ClaimCalls, Holders

LEMMA ClaimInitHolds == ClaimInit => ClaimInv
<1> SUFFICES ASSUME ClaimInit PROVE ClaimInv
  OBVIOUS
<1>1. ClaimTypeOK
  BY NoCallType, TtlAssumption DEF ClaimInit, ClaimTypeOK
<1>2. CallsLookBack /\ LeaseHolds
  BY DEF ClaimInit, CallsLookBack, LeaseHolds, NoCall
<1> QED BY <1>1, <1>2 DEF ClaimInv

\* An id that an acquire has drawn is one of Ids.
LEMMA StartCallKeeps ==
  ASSUME ClaimInv, NEW c \in Callers, StartCall(c)
  PROVE  ClaimInv'
<1> USE DEF ClaimInv
<1>1. PICK kind \in Operations, id \in 0 .. MaxId :
        /\ kind = "acquire" => id = made + 1
        /\ call' = [call EXCEPT ![c] = [op |-> kind, now |-> clock, id |-> id]]
        /\ made' = IF kind = "acquire" THEN id ELSE made
  BY DEF StartCall
<1>2. UNCHANGED <<clock, store, held>>
  BY DEF StartCall
<1>3. [op |-> kind, now |-> clock, id |-> id] \in ClaimCalls
  BY DEF ClaimTypeOK, ClaimCalls
<1>4. ClaimTypeOK'
  BY <1>1, <1>2, <1>3 DEF ClaimTypeOK
<1>5. CallsLookBack'
  <2>1. kind = "acquire" => id \in Ids
    BY <1>1, TtlAssumption DEF ClaimTypeOK, Ids
  <2> QED BY <2>1, <1>1, <1>2 DEF CallsLookBack, ClaimTypeOK, ClaimCalls
<1>6. LeaseHolds'
  BY <1>2 DEF LeaseHolds
<1> QED BY <1>4, <1>5, <1>6

\* Whoever holds a live claim of another holder's work finds it in the store,
\* alive for every caller however old its clock is.
LEMMA LeaseIsSeen ==
  ASSUME ClaimInv, NEW c \in Callers, NEW d \in Callers, c # d,
         Solo(d), held[d] # NoClaim, Live(held[d], clock)
  PROVE  /\ store = held[d] /\ store # NoClaim
         /\ ~MayTake(store, call[c].now)
         /\ Live(store, call[c].now)
         /\ store.holder # HolderOf[c]
<1>1. store = held[d] /\ store \in Claims
  BY DEF ClaimInv, ClaimTypeOK, LeaseHolds
<1>2. store.holder = HolderOf[d] /\ HolderOf[d] # HolderOf[c]
  BY <1>1 DEF ClaimInv, CallsLookBack, Solo
<1>3. call[c].now \in Nat /\ call[c].now <= clock /\ clock \in Nat
  BY DEF ClaimInv, ClaimTypeOK, ClaimCalls, CallsLookBack
<1>4. Live(store, call[c].now)
  BY <1>1, <1>3 DEF Live, Claims
<1> QED BY <1>1, <1>2, <1>4 DEF MayTake

\* A caller takes or refreshes a claim only where no other holder's is live.
LEMMA ReturnsKeeps ==
  ASSUME ClaimInv, NEW c \in Callers, NEW claim \in Claims, claim.holder = HolderOf[c],
         Returns(c, claim), UNCHANGED <<clock, made>>,
         store = NoClaim \/ MayTake(store, call[c].now) \/ store.holder = HolderOf[c]
  PROVE  ClaimInv'
<1>1. ClaimTypeOK'
  BY NoCallType DEF ClaimInv, ClaimTypeOK, Returns, Done
<1>2. CallsLookBack'
  <2>1. \A d \in Callers :
          /\ call'[d].now <= clock'
          /\ call'[d].op = "acquire" => call'[d].id \in Ids
    BY DEF ClaimInv, ClaimTypeOK, CallsLookBack, Returns, Done, NoCall
  <2>2. \A d \in Callers : held'[d] # NoClaim => held'[d].holder = HolderOf[d]
    BY DEF ClaimInv, ClaimTypeOK, CallsLookBack, Returns
  <2> QED BY <2>1, <2>2 DEF CallsLookBack
<1>3. ASSUME NEW d \in Callers, Solo(d), held'[d] # NoClaim, Live(held'[d], clock')
      PROVE  store' = held'[d]
  <2>1. CASE d = c
    BY <2>1 DEF Returns, ClaimInv, ClaimTypeOK
  <2>2. CASE d # c
    <3>1. held'[d] = held[d]
      BY <2>2 DEF Returns, ClaimInv, ClaimTypeOK
    <3> QED BY <3>1, <2>2, <1>3, LeaseIsSeen
  <2> QED BY <2>1, <2>2
<1>4. LeaseHolds'
  BY <1>3 DEF LeaseHolds, Solo
<1> QED BY <1>1, <1>2, <1>4 DEF ClaimInv

LEMMA FailsKeeps ==
  ASSUME ClaimInv, NEW c \in Callers, Fails(c), UNCHANGED <<clock, made>>
  PROVE  ClaimInv'
<1>1. ClaimTypeOK'
  BY NoCallType DEF ClaimInv, ClaimTypeOK, Fails, Done
<1>2. CallsLookBack'
  BY DEF ClaimInv, ClaimTypeOK, CallsLookBack, Fails, Done, NoCall
<1>3. LeaseHolds'
  BY DEF ClaimInv, LeaseHolds, Fails
<1> QED BY <1>1, <1>2, <1>3 DEF ClaimInv

\* A caller removes a claim only where no other holder's is live.
LEMMA RemovesKeeps ==
  ASSUME ClaimInv, NEW c \in Callers, Done(c), UNCHANGED <<clock, made>>,
         store' \in {store, NoClaim}, held' \in {held, [held EXCEPT ![c] = NoClaim]},
         store' # store => \/ ~Live(store, call[c].now)
                           \/ store.holder = HolderOf[c] /\ held'[c] = NoClaim,
         store # NoClaim
  PROVE  ClaimInv'
<1>1. ClaimTypeOK'
  BY NoCallType DEF ClaimInv, ClaimTypeOK, Done
<1>2. CallsLookBack'
  <2>1. \A d \in Callers :
          /\ call'[d].now <= clock'
          /\ call'[d].op = "acquire" => call'[d].id \in Ids
    BY DEF ClaimInv, ClaimTypeOK, CallsLookBack, Done, NoCall
  <2>2. \A d \in Callers : held'[d] # NoClaim => held'[d].holder = HolderOf[d]
    BY DEF ClaimInv, ClaimTypeOK, CallsLookBack
  <2> QED BY <2>1, <2>2 DEF CallsLookBack
<1>3. ASSUME NEW d \in Callers, Solo(d), held'[d] # NoClaim, Live(held'[d], clock')
      PROVE  store' = held'[d]
  <2>1. held'[d] = held[d]
    BY <1>3 DEF ClaimInv, ClaimTypeOK
  <2>2. store = held[d]
    BY <2>1, <1>3 DEF ClaimInv, LeaseHolds
  <2>3. CASE d # c
    BY <2>1, <2>2, <2>3, <1>3, LeaseIsSeen
  <2>4. CASE d = c
    <3>1. store \in Claims /\ call[c].now \in Nat /\ call[c].now <= clock /\ clock \in Nat
      BY DEF ClaimInv, ClaimTypeOK, ClaimCalls, CallsLookBack
    <3>2. Live(store, call[c].now)
      BY <3>1, <2>1, <2>2, <1>3 DEF Live, Claims
    <3> QED BY <3>2, <2>1, <2>2, <2>4, <1>3
  <2> QED BY <2>3, <2>4
<1>4. LeaseHolds'
  BY <1>3 DEF LeaseHolds, Solo
<1> QED BY <1>1, <1>2, <1>4 DEF ClaimInv

LEMMA AcquireKeeps ==
  ASSUME ClaimInv, NEW c \in Callers, Acquire(c)
  PROVE  ClaimInv'
<1>1. UNCHANGED <<clock, made>> /\ call[c].id \in Ids
  BY DEF Acquire, ClaimInv, CallsLookBack
<1>2. ClaimFor(c, call[c].id) \in Claims /\ ClaimFor(c, call[c].id).holder = HolderOf[c]
  BY <1>1, ClaimForType DEF ClaimInv
<1>3. CASE store = NoClaim /\ Returns(c, ClaimFor(c, call[c].id))
  BY <1>1, <1>2, <1>3, ReturnsKeeps
<1>4. CASE MayTake(store, call[c].now) /\ Returns(c, ClaimFor(c, call[c].id))
  BY <1>1, <1>2, <1>4, ReturnsKeeps
<1>5. CASE /\ store # NoClaim /\ store.holder = HolderOf[c]
           /\ Returns(c, ClaimFor(c, store.id))
  <2>1. store.id \in Ids
    BY <1>5 DEF ClaimInv, ClaimTypeOK, Claims
  <2> QED BY <2>1, <1>1, <1>5, ClaimForType, ReturnsKeeps DEF ClaimInv
<1>6. CASE Fails(c)
  BY <1>1, <1>6, FailsKeeps
<1> QED BY <1>3, <1>4, <1>5, <1>6 DEF Acquire

LEMMA HeartbeatKeeps ==
  ASSUME ClaimInv, NEW c \in Callers, Heartbeat(c)
  PROVE  ClaimInv'
<1>1. UNCHANGED <<clock, made>>
  BY DEF Heartbeat
<1>2. CASE Fails(c)
  BY <1>1, <1>2, FailsKeeps
<1>3. CASE /\ store # NoClaim /\ store.holder = HolderOf[c]
           /\ Returns(c, ClaimFor(c, store.id))
  <2>1. store.id \in Ids
    BY <1>3 DEF ClaimInv, ClaimTypeOK, Claims
  <2> QED BY <2>1, <1>1, <1>3, ClaimForType, ReturnsKeeps DEF ClaimInv
<1> QED BY <1>2, <1>3 DEF Heartbeat

LEMMA ReleaseKeeps ==
  ASSUME ClaimInv, NEW c \in Callers, Release(c)
  PROVE  ClaimInv'
<1>1. UNCHANGED <<clock, made>>
  BY DEF Release
<1>2. CASE Fails(c)
  BY <1>1, <1>2, FailsKeeps
<1>3. CASE /\ store # NoClaim /\ store' = NoClaim /\ Done(c)
           /\ Live(store, call[c].now) => store.holder = HolderOf[c]
           /\ held' = IF Live(store, call[c].now) THEN [held EXCEPT ![c] = NoClaim] ELSE held
  <2>1. Live(store, call[c].now) => held'[c] = NoClaim
    BY <1>3 DEF ClaimInv, ClaimTypeOK
  <2> QED BY <2>1, <1>1, <1>3, RemovesKeeps
<1> QED BY <1>2, <1>3 DEF Release

LEMMA PurgeKeeps ==
  ASSUME ClaimInv, NEW c \in Callers, Purge(c)
  PROVE  ClaimInv'
<1>1. UNCHANGED <<clock, made, held>> /\ Done(c)
  BY DEF Purge
<1>2. CASE store' = store
  BY <1>1, <1>2, FailsKeeps DEF Fails
<1>3. CASE store' # store
  BY <1>1, <1>3, RemovesKeeps DEF Purge
<1> QED BY <1>2, <1>3

LEMMA TickKeeps ==
  ASSUME ClaimInv, Tick
  PROVE  ClaimInv'
<1> USE DEF ClaimInv
<1>1. clock \in Nat /\ clock' = clock + 1 /\ UNCHANGED <<store, made, call, held>>
  BY DEF Tick, ClaimTypeOK
<1>2. ClaimTypeOK'
  BY <1>1 DEF ClaimTypeOK
<1>3. CallsLookBack'
  BY <1>1 DEF CallsLookBack, ClaimTypeOK, ClaimCalls
<1>4. ASSUME NEW d \in Callers, held[d] # NoClaim, Live(held[d], clock')
      PROVE  Live(held[d], clock)
  BY <1>1, <1>4 DEF Live, ClaimTypeOK, Claims
<1>5. LeaseHolds'
  BY <1>1, <1>4 DEF LeaseHolds, Solo
<1> QED BY <1>2, <1>3, <1>5

\* The kernel keeps its types and its invariant.
LEMMA ClaimInvInductive == ClaimSpec => []ClaimInv
<1>1. ClaimInv /\ [ClaimNext]_claimVars => ClaimInv'
  <2> SUFFICES ASSUME ClaimInv, [ClaimNext]_claimVars PROVE ClaimInv'
    OBVIOUS
  <2>1. CASE Tick
    BY <2>1, TickKeeps
  <2>2. ASSUME NEW c \in Callers, StartCall(c) PROVE ClaimInv'
    BY <2>2, StartCallKeeps
  <2>3. ASSUME NEW c \in Callers, Acquire(c) PROVE ClaimInv'
    BY <2>3, AcquireKeeps
  <2>4. ASSUME NEW c \in Callers, Heartbeat(c) PROVE ClaimInv'
    BY <2>4, HeartbeatKeeps
  <2>5. ASSUME NEW c \in Callers, Release(c) PROVE ClaimInv'
    BY <2>5, ReleaseKeeps
  <2>6. ASSUME NEW c \in Callers, Purge(c) PROVE ClaimInv'
    BY <2>6, PurgeKeeps
  <2>7. CASE UNCHANGED claimVars
    BY <2>7 DEF claimVars, ClaimInv, ClaimTypeOK, CallsLookBack, LeaseHolds
  <2> QED BY <2>1, <2>2, <2>3, <2>4, <2>5, <2>6, <2>7 DEF ClaimNext, Serve
<1> QED BY <1>1, ClaimInitHolds, PTL DEF ClaimSpec

(* Every reachable state of the claim kernel (Claim.ts:49-113) is well    *)
(* typed.                                                                 *)
THEOREM ClaimTypeCorrect == ClaimSpec => []ClaimTypeOK
<1>1. ClaimInv => ClaimTypeOK
  BY DEF ClaimInv
<1> QED BY <1>1, ClaimInvInductive, PTL

(* A holder keeps a claim it was granted until the claim expires, whatever *)
(* the others call and however old the clock is that they read            *)
(* (Claim.ts:61-107), for any number of callers and any length of a claim. *)
THEOREM LeasesHold == ClaimSpec => []LeaseHolds
<1>1. ClaimInv => LeaseHolds
  BY DEF ClaimInv
<1> QED BY <1>1, ClaimInvInductive, PTL

-----------------------------------------------------------------------------

(***************************************************************************)
(* The lineage (Lineage): improvement, and what overlapping saves leave of *)
(* the commits.                                                            *)
(***************************************************************************)

LineageInv == LineageTypeOK /\ LineageImproves

LEMMA AboveIsTransitive ==
  ASSUME NEW p \in Points, NEW q \in Points, NEW r \in Points, Above(p, q), Above(q, r)
  PROVE  Above(p, r)
<1>1. /\ p.train \in Int /\ q.train \in Int /\ r.train \in Int
      /\ p.holdout \in Int /\ q.holdout \in Int /\ r.holdout \in Int
  BY LineageAssumption DEF Points
<1>2. /\ p.train > q.train /\ q.train > r.train
      /\ p.holdout > q.holdout /\ q.holdout > r.holdout
  BY DEF Above
<1>3. p.train > r.train /\ p.holdout > r.holdout
  BY <1>1, <1>2
<1> QED BY <1>3 DEF Above

\* Whoever beats the running best beats the baseline and every commit.
LEMMA BestIsAbove ==
  ASSUME NEW l \in Lineages, Improves(l), NEW p \in Points, Above(p, l.best)
  PROVE  /\ Above(p, l.baseline)
         /\ \A i \in 1 .. Len(l.committed) : Above(p, l.committed[i])
<1> DEFINE n == Len(l.committed)
<1>1. /\ l.committed \in Seq(Points) /\ n \in Nat
      /\ l.baseline \in Points /\ l.best \in Points
      /\ \A i \in 1 .. n : l.committed[i] \in Points
  BY DEF Lineages
<1>2. CASE l.committed = <<>>
  <2>1. l.best = l.baseline /\ n = 0
    BY <1>2 DEF Improves
  <2> QED BY <2>1
<1>3. CASE l.committed # <<>>
  <2>1. n >= 1 /\ n \in 1 .. n
    BY <1>1, <1>3, EmptySeq
  <2>2. l.best = l.committed[n] /\ Above(l.committed[n], l.baseline)
    BY <1>3, <2>1 DEF Improves
  <2>3. Above(p, l.baseline)
    BY <1>1, <2>1, <2>2, AboveIsTransitive
  <2>4. ASSUME NEW i \in 1 .. n
        PROVE  Above(p, l.committed[i])
    <3>1. CASE i = n
      BY <3>1, <2>2
    <3>2. CASE i # n
      <4>1. i \in 1 .. n - 1
        BY <3>2, <1>1
      <4>2. Above(l.committed[n], l.committed[i])
        BY <4>1, <2>1 DEF Improves
      <4> QED BY <4>2, <2>2, <1>1, <2>1, AboveIsTransitive
    <3> QED BY <3>1, <3>2
  <2> QED BY <2>3, <2>4
<1> QED BY <1>2, <1>3

LEMMA FreshImproves ==
  ASSUME NEW score \in Points, NEW evaluator \in Evaluators
  PROVE  Fresh(score, evaluator) \in Lineages /\ Improves(Fresh(score, evaluator))
<1>1. <<>> \in Seq(Points) /\ Len(<<>>) = 0
  OBVIOUS
<1>2. Fresh(score, evaluator) \in Lineages
  BY <1>1 DEF Fresh, Lineages
<1>3. Improves(Fresh(score, evaluator))
  BY <1>1 DEF Fresh, Improves
<1> QED BY <1>2, <1>3

LEMMA PromotedImproves ==
  ASSUME NEW l \in Lineages, Improves(l), NEW p \in Points, Above(p, l.best)
  PROVE  /\ Promoted(l, p) \in Lineages
         /\ Improves(Promoted(l, p))
         /\ Promoted(l, p).committed = Append(l.committed, p)
<1> DEFINE n == Len(l.committed)
           longer == Append(l.committed, p)
           k == Promoted(l, p)
<1>1. l.committed \in Seq(Points) /\ n \in Nat
  BY DEF Lineages
<1>2. /\ longer \in Seq(Points) /\ Len(longer) = n + 1
      /\ longer[n + 1] = p
      /\ \A i \in 1 .. n : longer[i] = l.committed[i]
      /\ longer # <<>>
  BY <1>1, EmptySeq
<1>3. k \in Lineages /\ k.committed = longer /\ k.baseline = l.baseline /\ k.best = p
  BY <1>2 DEF Promoted, Lineages
<1>4. ASSUME NEW i \in 1 .. n + 1
      PROVE  /\ Above(longer[i], l.baseline)
             /\ \A j \in 1 .. i - 1 : Above(longer[i], longer[j])
  <2>1. CASE i = n + 1
    BY <2>1, <1>1, <1>2, BestIsAbove
  <2>2. CASE i # n + 1
    <3>1. i \in 1 .. n
      BY <2>2, <1>1
    <3>2. longer[i] = l.committed[i] /\ \A j \in 1 .. i - 1 : longer[j] = l.committed[j]
      BY <3>1, <1>1, <1>2
    <3> QED BY <3>1, <3>2 DEF Improves
  <2> QED BY <2>1, <2>2
<1>5. k.best = k.committed[Len(k.committed)]
  BY <1>2, <1>3
<1>6. Improves(k)
  BY <1>2, <1>3, <1>4, <1>5 DEF Improves
<1> QED BY <1>3, <1>6

LEMMA AttemptedImproves ==
  ASSUME NEW l \in Lineages, Improves(l)
  PROVE  /\ Attempted(l) \in Lineages
         /\ Improves(Attempted(l))
         /\ Attempted(l).committed = l.committed
<1>1. Attempted(l) \in Lineages
  BY DEF Attempted, Lineages
<1>2. Improves(Attempted(l))
  BY DEF Attempted, Improves
<1> QED BY <1>1, <1>2 DEF Attempted

\* A longer list of commits keeps what the shorter one keeps, and its own end.
LEMMA AppendKeeps ==
  ASSUME NEW l \in Lineages, NEW k \in Lineages, NEW p \in Points,
         NEW scores \in Seq(Points), k.committed = Append(l.committed, p),
         scores # <<>> => Keeps(l, scores)
  PROVE  Keeps(k, scores) /\ Keeps(k, Append(scores, p))
<1> DEFINE n == Len(l.committed)
<1>1. /\ l.committed \in Seq(Points) /\ n \in Nat /\ Len(scores) \in Nat
      /\ Len(k.committed) = n + 1 /\ k.committed[n + 1] = p
      /\ \A j \in 1 .. n : k.committed[j] = l.committed[j]
  BY DEF Lineages
<1>2. \A i \in 1 .. Len(scores) : \E j \in 1 .. n : l.committed[j] = scores[i]
  <2>1. CASE scores = <<>>
    BY <2>1
  <2>2. CASE scores # <<>>
    BY <2>2 DEF Keeps
  <2> QED BY <2>1, <2>2
<1>3. \A i \in 1 .. Len(scores) : \E j \in 1 .. n + 1 : k.committed[j] = scores[i]
  <2> TAKE i \in 1 .. Len(scores)
  <2>1. PICK j \in 1 .. n : l.committed[j] = scores[i]
    BY <1>2
  <2> QED BY <2>1, <1>1
<1>4. /\ Len(Append(scores, p)) = Len(scores) + 1
      /\ Append(scores, p)[Len(scores) + 1] = p
      /\ \A i \in 1 .. Len(scores) : Append(scores, p)[i] = scores[i]
  OBVIOUS
<1>5. \A i \in 1 .. Len(scores) + 1 : \E j \in 1 .. n + 1 : k.committed[j] = Append(scores, p)[i]
  <2> TAKE i \in 1 .. Len(scores) + 1
  <2>1. CASE i = Len(scores) + 1
    <3>1. n + 1 \in 1 .. n + 1
      BY <1>1
    <3> QED BY <3>1, <2>1, <1>1, <1>4
  <2>2. CASE i # Len(scores) + 1
    <3>1. i \in 1 .. Len(scores)
      BY <2>2, <1>1
    <3> QED BY <3>1, <1>3, <1>4
  <2> QED BY <2>1, <2>2
<1> QED BY <1>1, <1>3, <1>4, <1>5 DEF Keeps

\* What a candidate that may be promoted is above.
LEMMA PromotableIsAbove ==
  ASSUME NEW l, NEW c, Promotable(l, c)
  PROVE  Above(c.score, l.best)
BY DEF Promotable, Better, Above

LEMMA LineageInitHolds == LineageInit => LineageInv
<1> SUFFICES ASSUME LineageInit PROVE LineageInv
  OBVIOUS
<1>1. LineageTypeOK
  <2>1. overwritten \in BOOLEAN
    BY Zenon DEF LineageInit
  <2>2. /\ stored \in Lineages \cup {NoLineage}
        /\ view \in [Evolvers -> Lineages \cup {NoLineage}]
        /\ answered \in Seq(Points)
    BY DEF LineageInit
  <2> QED BY <2>1, <2>2 DEF LineageTypeOK
<1>2. LineageImproves
  BY DEF LineageInit, LineageImproves
<1> QED BY <1>1, <1>2 DEF LineageInv

\* A save of an improving lineage by a process that holds what is stored, or
\* else overwrites it.
LEMMA SavedKeeps ==
  ASSUME LineageInv, NEW e \in Evolvers, NEW l \in Lineages, Improves(l),
         stored' = l,
         view' \in {[view EXCEPT ![e] = l], [view EXCEPT ![e] = NoLineage]},
         overwritten' \in BOOLEAN,
         answered' \in Seq(Points),
         ~overwritten' /\ answered' # <<>> => Keeps(l, answered')
  PROVE  LineageInv'
<1>1. l # NoLineage
  BY NoLineageAssumption
<1>2. LineageTypeOK'
  BY DEF LineageInv, LineageTypeOK
<1>3. ASSUME NEW d \in Evolvers, view'[d] # NoLineage
      PROVE  Improves(view'[d])
  BY <1>3 DEF LineageInv, LineageTypeOK, LineageImproves
<1> QED BY <1>1, <1>2, <1>3 DEF LineageInv, LineageImproves, Improves, Keeps

LEMMA CommitKeeps ==
  ASSUME LineageInv, NEW e \in Evolvers, Commit(e) \/ CommitAndDie(e)
  PROVE  LineageInv'
<1> DEFINE l == view[e]
<1>1. l \in Lineages /\ Improves(l) /\ answered \in Seq(Points)
  BY DEF Commit, CommitAndDie, LineageInv, LineageTypeOK, LineageImproves
<1>2. PICK c \in Candidates :
        /\ Promotable(l, c)
        /\ stored' = Promoted(l, c.score)
        /\ view' \in {[view EXCEPT ![e] = Promoted(l, c.score)], [view EXCEPT ![e] = NoLineage]}
        /\ overwritten' = (overwritten \/ l # stored)
        /\ answered' \in {answered, Append(answered, c.score)}
  <2>1. CASE Commit(e)
    BY <2>1 DEF Commit, Save
  <2>2. CASE CommitAndDie(e)
    BY <2>2 DEF CommitAndDie
  <2> QED BY <2>1, <2>2
<1>3. c.score \in Points
  BY DEF Candidates
<1> DEFINE k == Promoted(l, c.score)
<1>4. k \in Lineages /\ Improves(k) /\ k.committed = Append(l.committed, c.score)
  BY <1>1, <1>2, <1>3, PromotableIsAbove, PromotedImproves
<1>5. ASSUME ~overwritten'
      PROVE  Keeps(k, answered) /\ Keeps(k, Append(answered, c.score))
  <2>1. answered # <<>> => Keeps(l, answered)
    BY <1>2, <1>5 DEF LineageInv, LineageImproves
  <2> HIDE DEF k, l
  <2> QED BY <2>1, <1>1, <1>3, <1>4, AppendKeeps
<1>6. answered' \in Seq(Points) /\ overwritten' \in BOOLEAN
  BY <1>1, <1>2, <1>3 DEF LineageInv, LineageTypeOK
<1>7. ~overwritten' => Keeps(k, answered')
  BY <1>2, <1>5
<1> HIDE DEF k, l
<1> QED BY <1>2, <1>4, <1>6, <1>7, SavedKeeps DEF k

LEMMA JournalAttemptKeeps ==
  ASSUME LineageInv, NEW e \in Evolvers, JournalAttempt(e)
  PROVE  LineageInv'
<1> DEFINE l == view[e]
           k == Attempted(l)
<1>1. l \in Lineages /\ Improves(l) /\ answered \in Seq(Points)
  BY DEF JournalAttempt, LineageInv, LineageTypeOK, LineageImproves
<1>2. /\ stored' = k /\ view' = [view EXCEPT ![e] = k]
      /\ overwritten' = (overwritten \/ l # stored) /\ answered' = answered
  BY DEF JournalAttempt, Save
<1>3. k \in Lineages /\ Improves(k) /\ k.committed = l.committed
  BY <1>1, AttemptedImproves
<1>4. ~overwritten' /\ answered # <<>> => Keeps(l, answered)
  BY <1>2 DEF LineageInv, LineageImproves
<1>5. ~overwritten' /\ answered # <<>> => Keeps(k, answered)
  BY <1>3, <1>4 DEF Keeps
<1>6. overwritten' \in BOOLEAN
  BY <1>2 DEF LineageInv, LineageTypeOK
<1> HIDE DEF k, l
<1> QED BY <1>1, <1>2, <1>3, <1>5, <1>6, SavedKeeps

LEMMA EstablishBaselineKeeps ==
  ASSUME LineageInv, NEW e \in Evolvers, EstablishBaseline(e)
  PROVE  LineageInv'
<1>1. PICK score \in Points, evaluator \in Evaluators :
        /\ stored' = Fresh(score, evaluator)
        /\ view' = [view EXCEPT ![e] = Fresh(score, evaluator)]
        /\ answered' = <<>>
        /\ overwritten' = FALSE
  BY DEF EstablishBaseline
<1> DEFINE k == Fresh(score, evaluator)
<1>2. k \in Lineages /\ Improves(k)
  BY FreshImproves
<1>3. stored' = k /\ view' = [view EXCEPT ![e] = k]
  BY <1>1
<1>4. answered' \in Seq(Points)
  BY <1>1
<1>5. overwritten' \in BOOLEAN
  BY <1>1, Zenon
<1> HIDE DEF k
<1> QED BY <1>1, <1>2, <1>3, <1>4, <1>5, SavedKeeps

LEMMA LoadKeeps ==
  ASSUME LineageInv, NEW e \in Evolvers, Load(e)
  PROVE  LineageInv'
<1>1. stored # NoLineage /\ view' = [view EXCEPT ![e] = stored]
      /\ UNCHANGED <<stored, answered, overwritten>>
  BY DEF Load
<1>2. LineageTypeOK'
  BY <1>1 DEF LineageInv, LineageTypeOK
<1>3. ASSUME NEW d \in Evolvers, view'[d] # NoLineage
      PROVE  Improves(view'[d])
  BY <1>1, <1>3 DEF LineageInv, LineageTypeOK, LineageImproves
<1> QED BY <1>1, <1>2, <1>3 DEF LineageInv, LineageImproves, Improves, Keeps

LEMMA LineageInvInductive == LineageSpec => []LineageInv
<1>1. LineageInv /\ [LineageNext]_lineageVars => LineageInv'
  <2> SUFFICES ASSUME LineageInv, [LineageNext]_lineageVars PROVE LineageInv'
    OBVIOUS
  <2>1. CASE UNCHANGED lineageVars
    BY <2>1 DEF lineageVars, LineageInv, LineageTypeOK, LineageImproves, Improves, Keeps
  <2>2. ASSUME NEW e \in Evolvers, Load(e) PROVE LineageInv'
    BY <2>2, LoadKeeps
  <2>3. ASSUME NEW e \in Evolvers, EstablishBaseline(e) PROVE LineageInv'
    BY <2>3, EstablishBaselineKeeps
  <2>4. ASSUME NEW e \in Evolvers, RefuseCandidate(e) PROVE LineageInv'
    BY <2>4, <2>1 DEF RefuseCandidate
  <2>5. ASSUME NEW e \in Evolvers, Commit(e) \/ CommitAndDie(e) PROVE LineageInv'
    BY <2>5, CommitKeeps
  <2>6. ASSUME NEW e \in Evolvers, JournalAttempt(e) PROVE LineageInv'
    BY <2>6, JournalAttemptKeeps
  <2> QED BY <2>1, <2>2, <2>3, <2>4, <2>5, <2>6 DEF LineageNext
<1> QED BY <1>1, LineageInitHolds, PTL DEF LineageSpec

(* Every reachable state of the evolution of a blueprint (Evolution.ts) is *)
(* well typed.                                                            *)
THEOREM LineageTypeCorrect == LineageSpec => []LineageTypeOK
<1>1. LineageInv => LineageTypeOK
  BY DEF LineageInv
<1> QED BY <1>1, LineageInvInductive, PTL

(* Every lineage that is stored or held improves on both scores with every *)
(* version, and answered commits stay unless a process saved over what it  *)
(* did not hold (Evolution.ts:149-194), for any processes and scores.      *)
THEOREM LineagesImprove == LineageSpec => []LineageImproves
<1>1. LineageInv => LineageImproves
  BY DEF LineageInv
<1> QED BY <1>1, LineageInvInductive, PTL

-----------------------------------------------------------------------------

(***************************************************************************)
(* The pointer and the blocks of a blueprint (BlueprintStore).             *)
(***************************************************************************)

\* The phases between the lock directory and its removal.
Working == {"append: read", "append: write", "point: read", "write pointer", "leave"}

\* A call has a version, and works only under its own lock directory.
CallsAreLocked ==
  \A w \in Writers :
    /\ phase[w] # "idle" => version[w] \in Versions
    /\ phase[w] \in Working => lock = w

\* What a call read is still there when it writes, and so is the block of the
\* version the pointer is about to name.
ReadsAreFresh ==
  \A w \in Writers :
    /\ phase[w] = "append: write" /\ ~dropped => read[w] = blocks
    /\ phase[w] = "write pointer" => version[w] \in ToSet(blocks)

StoreInv == StoreTypeOK /\ CallsAreLocked /\ ReadsAreFresh

LEMMA VersionType ==
  ASSUME NEW v \in Versions
  PROVE  v \in 0 .. MaxVersion
BY StoreAssumption DEF Versions

LEMMA AppendedBlocks ==
  ASSUME NEW S, NEW s \in Seq(S), NEW x \in S
  PROVE  /\ Append(s, x) \in Seq(S)
         /\ IsPrefix(s, Append(s, x))
         /\ x \in ToSet(Append(s, x))
<1>1. /\ Append(s, x) \in Seq(S) /\ Len(s) \in Nat /\ Len(Append(s, x)) = Len(s) + 1
      /\ Append(s, x)[Len(s) + 1] = x
      /\ \A i \in 1 .. Len(s) : Append(s, x)[i] = s[i]
  OBVIOUS
<1>2. SubSeq(s, 1, Len(s)) = SubSeq(Append(s, x), 1, Len(s))
  BY <1>1
<1>3. Len(s) + 1 \in DOMAIN Append(s, x)
  BY <1>1
<1> QED BY <1>1, <1>2, <1>3 DEF IsPrefix, ToSet

LEMMA PrefixOfItself ==
  ASSUME NEW S, NEW s \in Seq(S)
  PROVE  IsPrefix(s, s)
BY DEF IsPrefix

\* Blocks of which none is foreign are versions.
LEMMA OwnBlocks ==
  ASSUME StoreTypeOK, Foreign \notin ToSet(blocks)
  PROVE  blocks \in Seq(Versions)
<1>1. blocks \in Seq(Versions \cup {Foreign})
  BY DEF StoreTypeOK
<1>2. Len(blocks) \in Nat /\ DOMAIN blocks = 1 .. Len(blocks)
      /\ blocks = [i \in 1 .. Len(blocks) |-> blocks[i]]
  BY <1>1
<1>3. \A i \in 1 .. Len(blocks) : blocks[i] \in Versions
  BY <1>1, <1>2 DEF ToSet
<1> QED BY <1>2, <1>3

LEMMA StoreInitHolds == StoreInit => StoreInv
<1> SUFFICES ASSUME StoreInit PROVE StoreInv
  OBVIOUS
<1>1. dropped \in BOOLEAN
  BY Zenon DEF StoreInit
<1>2. blocks \in Seq(Versions \cup {Foreign})
  <2>1. <<>> \in Seq(Versions \cup {Foreign}) /\ <<Foreign>> \in Seq(Versions \cup {Foreign})
    OBVIOUS
  <2> QED BY <2>1 DEF StoreInit
<1>3. /\ pointer \in 0 .. MaxVersion
      /\ lock \in Writers \cup {NoWriter}
      /\ phase \in [Writers -> CallPhases]
      /\ version \in [Writers -> 0 .. MaxVersion]
      /\ read \in [Writers -> Seq(Versions)]
  BY StoreAssumption DEF StoreInit, CallPhases
<1>4. CallsAreLocked /\ ReadsAreFresh
  BY DEF StoreInit, CallsAreLocked, ReadsAreFresh, Working
<1> QED BY <1>1, <1>2, <1>3, <1>4 DEF StoreInv, StoreTypeOK

LEMMA StepsType ==
  ASSUME StoreTypeOK, NEW w \in Writers, NEW from, NEW to \in CallPhases, Steps(w, from, to)
  PROVE  /\ phase' \in [Writers -> CallPhases]
         /\ phase[w] = from /\ phase'[w] = to
         /\ \A v \in Writers : v # w => phase'[v] = phase[v]
BY DEF StoreTypeOK, Steps

\* A step that touches neither files nor lock keeps what the other calls rely on.
LEMMA QuietStepKeeps ==
  ASSUME StoreInv, NEW w \in Writers, NEW from, NEW to \in CallPhases, Steps(w, from, to),
         UNCHANGED <<blocks, pointer, lock, version, read, dropped>>,
         to \in Working => from \in Working,
         from # "idle",
         to # "append: write",
         to = "write pointer" => version[w] \in ToSet(blocks)
  PROVE  StoreInv'
<1>1. /\ phase' \in [Writers -> CallPhases]
      /\ phase[w] = from /\ phase'[w] = to
      /\ \A v \in Writers : v # w => phase'[v] = phase[v]
  BY StepsType DEF StoreInv
<1>2. StoreTypeOK'
  BY <1>1 DEF StoreInv, StoreTypeOK
<1>3. CallsAreLocked'
  BY <1>1 DEF StoreInv, CallsAreLocked
<1>4. ReadsAreFresh'
  BY <1>1 DEF StoreInv, ReadsAreFresh, ToSet
<1> QED BY <1>2, <1>3, <1>4 DEF StoreInv

LEMMA StartWriteKeeps ==
  ASSUME StoreInv, NEW w \in Writers, StartWrite(w)
  PROVE  StoreInv'
<1>1. PICK to \in {"append: lock", "point: lock"} : Steps(w, "idle", to)
  BY DEF StartWrite
<1>2. PICK v \in Versions : version' = [version EXCEPT ![w] = v]
  BY DEF StartWrite
<1>3. UNCHANGED <<blocks, pointer, lock, read, dropped>>
  BY DEF StartWrite
<1>4. to \in CallPhases /\ to \notin Working
  BY DEF CallPhases, Working
<1>5. /\ phase' \in [Writers -> CallPhases]
      /\ phase'[w] = to
      /\ \A x \in Writers : x # w => phase'[x] = phase[x]
  BY <1>1, <1>4, StepsType DEF StoreInv
<1>6. /\ version' \in [Writers -> 0 .. MaxVersion] /\ version'[w] \in Versions
      /\ \A x \in Writers : x # w => version'[x] = version[x]
  <2>1. v \in 0 .. MaxVersion
    BY <1>2, VersionType
  <2>2. version \in [Writers -> 0 .. MaxVersion]
    BY DEF StoreInv, StoreTypeOK
  <2> QED BY <2>1, <2>2, <1>2
<1>7. StoreTypeOK'
  BY <1>3, <1>5, <1>6 DEF StoreInv, StoreTypeOK
<1>8. CallsAreLocked'
  BY <1>3, <1>4, <1>5, <1>6 DEF StoreInv, CallsAreLocked
<1>9. ReadsAreFresh'
  <2>1. phase'[w] \notin {"append: write", "write pointer"}
    BY <1>5
  <2> QED BY <2>1, <1>3, <1>5, <1>6 DEF StoreInv, ReadsAreFresh, ToSet
<1> QED BY <1>7, <1>8, <1>9 DEF StoreInv

\* Nobody works while there is no lock directory.
LEMMA LockKeeps ==
  ASSUME StoreInv, NEW w \in Writers, Lock(w)
  PROVE  StoreInv'
<1>1. UNCHANGED <<blocks, pointer, version, read, dropped>>
  BY DEF Lock
<1>2. CASE /\ lock = NoWriter /\ lock' = w
           /\ \/ Steps(w, "append: lock", "append: read")
              \/ Steps(w, "point: lock", "point: read")
  <2>1. PICK from \in {"append: lock", "point: lock"}, to \in {"append: read", "point: read"} :
          Steps(w, from, to)
    BY <1>2
  <2>2. to \in CallPhases /\ to \in Working
    BY DEF CallPhases, Working
  <2>3. /\ phase' \in [Writers -> CallPhases]
        /\ phase[w] = from /\ phase'[w] = to
        /\ \A x \in Writers : x # w => phase'[x] = phase[x]
    BY <2>1, <2>2, StepsType DEF StoreInv
  <2>4. \A x \in Writers : phase[x] \notin Working
    BY <1>2, StoreAssumption DEF StoreInv, CallsAreLocked
  <2>5. StoreTypeOK'
    BY <1>1, <1>2, <2>3 DEF StoreInv, StoreTypeOK
  <2>6. CallsAreLocked'
    BY <1>1, <1>2, <2>3, <2>4 DEF StoreInv, CallsAreLocked
  <2>7. ReadsAreFresh'
    BY <1>1, <2>3 DEF StoreInv, ReadsAreFresh, ToSet
  <2> QED BY <2>5, <2>6, <2>7 DEF StoreInv
<1>3. CASE /\ lock' = lock
           /\ \/ Steps(w, "append: lock", "idle")
              \/ Steps(w, "point: lock", "idle")
  <2>1. PICK from \in {"append: lock", "point: lock"} : Steps(w, from, "idle")
    BY <1>3
  <2>2. "idle" \in CallPhases /\ "idle" \notin Working
    BY DEF CallPhases, Working
  <2> QED BY <1>1, <1>3, <2>1, <2>2, QuietStepKeeps
<1> QED BY <1>2, <1>3 DEF Lock

LEMMA ReadBlocksKeeps ==
  ASSUME StoreInv, NEW w \in Writers, ReadBlocks(w)
  PROVE  StoreInv'
<1>1. UNCHANGED <<blocks, pointer, lock, version>>
  BY DEF ReadBlocks
<1>2. CASE Steps(w, "append: read", "leave") /\ UNCHANGED <<read, dropped>>
  <2>1. {"append: read", "leave"} \subseteq CallPhases \cap Working
    BY DEF CallPhases, Working
  <2> QED BY <1>1, <1>2, <2>1, QuietStepKeeps
<1>3. ASSUME Steps(w, "append: read", "append: write"), NEW s \in Seq(Versions),
             read' = [read EXCEPT ![w] = s],
             dropped' \in BOOLEAN, dropped => dropped', ~dropped' => s = blocks
      PROVE  StoreInv'
  <2>1. "append: write" \in CallPhases /\ "append: read" \in Working
    BY DEF CallPhases, Working
  <2>2. /\ phase' \in [Writers -> CallPhases]
        /\ phase[w] = "append: read" /\ phase'[w] = "append: write"
        /\ \A x \in Writers : x # w => phase'[x] = phase[x]
    BY <1>3, <2>1, StepsType DEF StoreInv
  <2>3. StoreTypeOK'
    BY <1>1, <1>3, <2>2 DEF StoreInv, StoreTypeOK
  <2>4. CallsAreLocked'
    BY <1>1, <2>1, <2>2 DEF StoreInv, CallsAreLocked
  <2>5. /\ read'[w] = s
        /\ \A x \in Writers : x # w => read'[x] = read[x]
    BY <1>3 DEF StoreInv, StoreTypeOK
  <2>6. ReadsAreFresh'
    BY <1>1, <1>3, <2>2, <2>5 DEF StoreInv, ReadsAreFresh, ToSet
  <2> QED BY <2>3, <2>4, <2>6 DEF StoreInv
<1>4. CASE /\ Foreign \notin ToSet(blocks)
           /\ Steps(w, "append: read", "append: write")
           /\ read' = [read EXCEPT ![w] = blocks]
           /\ UNCHANGED dropped
  <2>1. blocks \in Seq(Versions)
    BY <1>4, OwnBlocks DEF StoreInv
  <2>2. dropped' \in BOOLEAN
    BY <1>4 DEF StoreInv, StoreTypeOK
  <2> QED BY <2>1, <2>2, <1>3, <1>4
<1>5. CASE /\ Steps(w, "append: read", "append: write")
           /\ read' = [read EXCEPT ![w] = <<>>]
           /\ dropped' = (dropped \/ blocks # <<>>)
  <2>1. <<>> \in Seq(Versions)
    OBVIOUS
  <2>2. dropped' \in BOOLEAN
    BY <1>5 DEF StoreInv, StoreTypeOK
  <2> QED BY <2>1, <2>2, <1>3, <1>5
<1> QED BY <1>2, <1>4, <1>5 DEF ReadBlocks

\* The lock directory is w's, so no other call is at work.
LEMMA OthersAreIdle ==
  ASSUME StoreInv, NEW w \in Writers, phase[w] \in Working,
         NEW x \in Writers, x # w
  PROVE  phase[x] \notin Working
BY DEF StoreInv, CallsAreLocked

LEMMA WriteBlocksKeeps ==
  ASSUME StoreInv, NEW w \in Writers, WriteBlocks(w)
  PROVE  StoreInv' /\ (~dropped => IsPrefix(blocks, blocks'))
<1>1. UNCHANGED <<pointer, lock, version, read, dropped>>
  BY DEF WriteBlocks
<1>2. {"append: write", "write pointer", "leave"} \subseteq CallPhases \cap Working
  BY DEF CallPhases, Working
<1>3. CASE Steps(w, "append: write", "leave") /\ UNCHANGED blocks
  BY <1>1, <1>2, <1>3, QuietStepKeeps, PrefixOfItself DEF StoreInv, StoreTypeOK
<1>4. CASE Steps(w, "append: write", "write pointer") /\ blocks' = Append(read[w], version[w])
  <2>1. /\ phase' \in [Writers -> CallPhases]
        /\ phase[w] = "append: write" /\ phase'[w] = "write pointer"
        /\ \A x \in Writers : x # w => phase'[x] = phase[x]
    BY <1>2, <1>4, StepsType DEF StoreInv
  <2>2. read[w] \in Seq(Versions) /\ version[w] \in Versions
    BY <2>1 DEF StoreInv, StoreTypeOK, CallsAreLocked
  <2>3. /\ blocks' \in Seq(Versions)
        /\ IsPrefix(read[w], blocks')
        /\ version[w] \in ToSet(blocks')
    BY <1>4, <2>2, AppendedBlocks
  <2>4. blocks' \in Seq(Versions \cup {Foreign})
    BY <2>3
  <2>5. StoreTypeOK'
    BY <1>1, <2>1, <2>4 DEF StoreInv, StoreTypeOK
  <2>6. CallsAreLocked'
    BY <1>1, <1>2, <2>1 DEF StoreInv, CallsAreLocked
  <2>7. \A x \in Writers : x # w => phase[x] \notin Working
    BY <1>2, <2>1, OthersAreIdle
  <2>8. ReadsAreFresh'
    BY <1>1, <1>2, <2>1, <2>3, <2>7 DEF ReadsAreFresh
  <2>9. ~dropped => read[w] = blocks
    BY <2>1 DEF StoreInv, ReadsAreFresh
  <2> QED BY <2>3, <2>5, <2>6, <2>8, <2>9 DEF StoreInv
<1> QED BY <1>3, <1>4 DEF WriteBlocks

LEMMA FindVersionKeeps ==
  ASSUME StoreInv, NEW w \in Writers, FindVersion(w)
  PROVE  StoreInv'
<1>1. UNCHANGED <<blocks, pointer, lock, version, read, dropped>>
  BY DEF FindVersion
<1>2. {"point: read", "write pointer", "leave"} \subseteq CallPhases \cap Working
  BY DEF CallPhases, Working
<1>3. CASE version[w] \in ToSet(blocks) /\ Steps(w, "point: read", "write pointer")
  BY <1>1, <1>2, <1>3, QuietStepKeeps
<1>4. CASE Steps(w, "point: read", "leave")
  BY <1>1, <1>2, <1>4, QuietStepKeeps
<1> QED BY <1>3, <1>4 DEF FindVersion

LEMMA WritePointerKeeps ==
  ASSUME StoreInv, NEW w \in Writers, WritePointer(w)
  PROVE  StoreInv' /\ (pointer' # pointer => pointer' \in ToSet(blocks'))
<1>1. UNCHANGED <<blocks, lock, version, read, dropped>> /\ pointer' \in {pointer, version[w]}
      /\ Steps(w, "write pointer", "leave")
  BY DEF WritePointer
<1>2. {"write pointer", "leave"} \subseteq CallPhases \cap Working
  BY DEF CallPhases, Working
<1>3. /\ phase' \in [Writers -> CallPhases]
      /\ phase[w] = "write pointer" /\ phase'[w] = "leave"
      /\ \A x \in Writers : x # w => phase'[x] = phase[x]
  BY <1>1, <1>2, StepsType DEF StoreInv
<1>4. version[w] \in ToSet(blocks) /\ version[w] \in 0 .. MaxVersion
  BY <1>3 DEF StoreInv, StoreTypeOK, ReadsAreFresh
<1>5. StoreTypeOK'
  BY <1>1, <1>3, <1>4 DEF StoreInv, StoreTypeOK
<1>6. CallsAreLocked'
  BY <1>1, <1>2, <1>3 DEF StoreInv, CallsAreLocked
<1>7. ReadsAreFresh'
  BY <1>1, <1>3 DEF StoreInv, ReadsAreFresh, ToSet
<1>8. pointer' # pointer => pointer' \in ToSet(blocks')
  BY <1>1, <1>4 DEF ToSet
<1> QED BY <1>5, <1>6, <1>7, <1>8 DEF StoreInv

LEMMA UnlockKeeps ==
  ASSUME StoreInv, NEW w \in Writers, Unlock(w)
  PROVE  StoreInv'
<1>1. UNCHANGED <<blocks, pointer, version, read, dropped>> /\ lock' \in {NoWriter, lock}
      /\ Steps(w, "leave", "idle")
  BY DEF Unlock
<1>2. {"leave", "idle"} \subseteq CallPhases /\ "leave" \in Working /\ "idle" \notin Working
  BY DEF CallPhases, Working
<1>3. /\ phase' \in [Writers -> CallPhases]
      /\ phase[w] = "leave" /\ phase'[w] = "idle"
      /\ \A x \in Writers : x # w => phase'[x] = phase[x]
  BY <1>1, <1>2, StepsType DEF StoreInv
<1>4. \A x \in Writers : x # w => phase[x] \notin Working
  BY <1>2, <1>3, OthersAreIdle
<1>5. StoreTypeOK'
  BY <1>1, <1>3 DEF StoreInv, StoreTypeOK
<1>6. CallsAreLocked'
  BY <1>1, <1>2, <1>3, <1>4 DEF StoreInv, CallsAreLocked
<1>7. ReadsAreFresh'
  BY <1>1, <1>3 DEF StoreInv, ReadsAreFresh, ToSet
<1> QED BY <1>5, <1>6, <1>7 DEF StoreInv

LEMMA CrashKeeps ==
  ASSUME StoreInv, NEW w \in Writers, Crash(w)
  PROVE  StoreInv'
<1>1. UNCHANGED <<blocks, pointer, lock, version, read, dropped>>
      /\ Steps(w, phase[w], "idle") /\ phase[w] # "idle"
  BY DEF Crash, Steps
<1>2. "idle" \in CallPhases /\ "idle" \notin Working
  BY DEF CallPhases, Working
<1> QED BY <1>1, <1>2, QuietStepKeeps

\* Only an append touches the blocks, only the last step of a call the pointer.
LEMMA StoreStep ==
  ASSUME StoreInv, [StoreNext]_storeVars
  PROVE  /\ StoreInv'
         /\ ~dropped => /\ IsPrefix(blocks, blocks')
                        /\ pointer' # pointer => pointer' \in ToSet(blocks')
<1> DEFINE Kept == /\ IsPrefix(blocks, blocks')
                   /\ pointer' # pointer => pointer' \in ToSet(blocks')
<1>1. blocks' = blocks /\ pointer' = pointer => Kept
  BY PrefixOfItself DEF StoreInv, StoreTypeOK
<1>2. CASE UNCHANGED storeVars
  <2>1. StoreInv'
    BY <1>2 DEF storeVars, StoreInv, StoreTypeOK, CallsAreLocked, ReadsAreFresh, ToSet
  <2> QED BY <1>1, <1>2, <2>1 DEF storeVars
<1>3. ASSUME NEW w \in Writers,
             \/ StartWrite(w) \/ Lock(w) \/ ReadBlocks(w)
             \/ FindVersion(w) \/ Unlock(w) \/ Crash(w)
      PROVE  StoreInv' /\ Kept
  <2>1. blocks' = blocks /\ pointer' = pointer
    BY <1>3 DEF StartWrite, Lock, ReadBlocks, FindVersion, Unlock, Crash
  <2>2. StoreInv'
    BY <1>3, StartWriteKeeps, LockKeeps, ReadBlocksKeeps, FindVersionKeeps, UnlockKeeps,
       CrashKeeps
  <2> QED BY <1>1, <2>1, <2>2
<1>4. ASSUME NEW w \in Writers, WriteBlocks(w)
      PROVE  StoreInv' /\ (~dropped => Kept)
  <2>1. pointer' = pointer
    BY <1>4 DEF WriteBlocks
  <2> QED BY <1>4, <2>1, WriteBlocksKeeps
<1>5. ASSUME NEW w \in Writers, WritePointer(w)
      PROVE  StoreInv' /\ Kept
  <2>1. blocks' = blocks
    BY <1>5 DEF WritePointer
  <2> QED BY <1>5, <2>1, WritePointerKeeps, PrefixOfItself DEF StoreInv, StoreTypeOK
<1> QED BY <1>2, <1>3, <1>4, <1>5 DEF StoreNext

LEMMA StoreInvInductive == StoreSpec => []StoreInv
<1>1. StoreInv /\ [StoreNext]_storeVars => StoreInv'
  BY StoreStep
<1> QED BY <1>1, StoreInitHolds, PTL DEF StoreSpec

(* Every reachable state of the files of a blueprint and of its writers   *)
(* (compound-kit/src/Store.ts) is well typed.                              *)
THEOREM StoreTypeCorrect == StoreSpec => []StoreTypeOK
<1>1. StoreInv => StoreTypeOK
  BY DEF StoreInv
<1> QED BY <1>1, StoreInvInductive, PTL

(* A written block stays and the pointer names a block, whatever writers   *)
(* overlap, fail or die (Store.ts:171-221), while no failing exists() was  *)
(* taken for an absent file: for any writers, versions and blocks.         *)
THEOREM BlocksStay == StoreSpec => BlocksAreKept
<1>1. StoreInv /\ [StoreNext]_storeVars =>
        [~dropped =>
           /\ IsPrefix(blocks, blocks')
           /\ pointer' # pointer => pointer' \in ToSet(blocks')]_storeVars
  BY StoreStep
<1> QED BY <1>1, StoreInvInductive, PTL DEF StoreSpec, BlocksAreKept

-----------------------------------------------------------------------------

(***************************************************************************)
(* The queue of proposals (Proposals).  The table a reader computes is a   *)
(* fold over the stream; that it has exactly one value is part of the      *)
(* invariant and grows with the stream (FoldGrows), which takes the place  *)
(* of an induction over its entries.                                       *)
(***************************************************************************)

NoRows == [p \in Proposed |-> None]
RowTables == [Proposed -> Rows \cup {None}]

\* f is the table after each prefix of the entries.
IsTable(f, entries) ==
  f = [n \in 0 .. Len(entries) |->
         IF n = 0 THEN NoRows ELSE Apply(f[n - 1], entries[n])]

\* The fold of the stream has one value; this grows with the stream.
FoldsOnce ==
  /\ \E f : IsTable(f, log)
  /\ \A f, g : IsTable(f, log) /\ IsTable(g, log) => f = g

\* An append with this request is answered, or the index lost it.
Asked(request) == request \in orphans \/ Replays(log, index, request)

\* A row was proposed, and what its readers may expect is not empty.
RowsAreProposed ==
  \A p \in Proposed :
    /\ StatusAll[p] # None =>
         /\ StatusAll[p].status \in expected[p]
         /\ Asked(ProposalRequest(p))
    /\ StatusAll[p] = None => expected[p] = {}

ProposalsInv ==
  /\ log \in Seq(Entries)
  /\ \A q \in DOMAIN index : index[q] \in Nat
  /\ appends \in Nat /\ Len(log) <= appends
  /\ expected \in [Proposed -> SUBSET Statuses]
  /\ FoldsOnce
  /\ StatusAll \in RowTables
  /\ RowsAreProposed

LEMMA TableChosen ==
  ASSUME FoldsOnce
  PROVE  IsTable(TableAt, log)
BY DEF FoldsOnce, IsTable, TableAt, NoRows

LEMMA TableValues ==
  ASSUME NEW entries \in Seq(Entries), NEW f, IsTable(f, entries)
  PROVE  /\ f[0] = NoRows
         /\ \A n \in 1 .. Len(entries) : f[n] = Apply(f[n - 1], entries[n])
<1>1. Len(entries) \in Nat
  OBVIOUS
<1> DEFINE F(n) == IF n = 0 THEN NoRows ELSE Apply(f[n - 1], entries[n])
<1>2. f = [n \in 0 .. Len(entries) |-> F(n)]
  BY DEF IsTable
<1>3. \A n \in 0 .. Len(entries) : f[n] = F(n)
  <2> HIDE DEF F
  <2> QED BY <1>2
<1>4. F(0) = NoRows /\ \A n \in 1 .. Len(entries) : F(n) = Apply(f[n - 1], entries[n])
  OBVIOUS
<1> HIDE DEF F
<1> QED BY <1>1, <1>3, <1>4

LEMMA TableMade ==
  ASSUME NEW entries \in Seq(Entries), NEW f,
         f = [n \in 0 .. Len(entries) |-> f[n]],
         f[0] = NoRows, \A n \in 1 .. Len(entries) : f[n] = Apply(f[n - 1], entries[n])
  PROVE  IsTable(f, entries)
<1> DEFINE F(n) == IF n = 0 THEN NoRows ELSE Apply(f[n - 1], entries[n])
<1>1. Len(entries) \in Nat
  OBVIOUS
<1>2. \A n \in 0 .. Len(entries) : f[n] = F(n)
  BY <1>1, SMTT(30)
<1>3. [n \in 0 .. Len(entries) |-> f[n]] = [n \in 0 .. Len(entries) |-> F(n)]
  BY <1>2
<1> QED BY <1>3 DEF IsTable

\* An entry more.
LEMMA FoldGrows ==
  ASSUME FoldsOnce, log \in Seq(Entries), NEW entry \in Entries, log' = Append(log, entry)
  PROVE  FoldsOnce' /\ StatusAll' = Apply(StatusAll, entry)
<1> DEFINE m == Len(log)
<1>1. /\ m \in Nat /\ log' \in Seq(Entries) /\ Len(log') = m + 1 /\ log'[m + 1] = entry
      /\ \A n \in 1 .. m : log'[n] = log[n]
  BY AppendProperties
<1> HIDE DEF m
<1>2. \E f : IsTable(f, log')
  <2>1. PICK f : IsTable(f, log)
    BY DEF FoldsOnce
  <2> DEFINE g == [n \in 0 .. m + 1 |-> IF n = m + 1 THEN Apply(f[m], entry) ELSE f[n]]
  <2>2. /\ f[0] = NoRows
        /\ \A n \in 1 .. m : f[n] = Apply(f[n - 1], log[n])
    BY <1>1, <2>1, TableValues DEF m
  <2>3. /\ g = [n \in 0 .. Len(log') |-> g[n]]
        /\ g[m + 1] = Apply(f[m], entry)
        /\ \A n \in 0 .. m : g[n] = f[n]
    BY <1>1
  <2> HIDE DEF g
  <2>4. g[0] = NoRows
    <3>1. 0 \in 0 .. m
      BY <1>1
    <3> QED BY <2>2, <2>3, <3>1
  <2>5. ASSUME NEW n \in 1 .. Len(log') PROVE g[n] = Apply(g[n - 1], log'[n])
    <3>1. CASE n = m + 1
      <4>1. n - 1 = m /\ m \in 0 .. m
        BY <1>1, <3>1
      <4>2. g[m] = f[m]
        BY <2>3, <4>1
      <4> QED BY <1>1, <2>3, <3>1, <4>1, <4>2
    <3>2. CASE n # m + 1
      <4>1. n \in 1 .. m /\ n - 1 \in 0 .. m /\ n \in 0 .. m
        BY <1>1, <3>2
      <4> QED BY <1>1, <2>2, <2>3, <4>1
    <3> QED BY <3>1, <3>2
  <2> QED BY <1>1, <2>3, <2>4, <2>5, TableMade
<1>3. ASSUME NEW f, IsTable(f, log')
      PROVE  /\ IsTable([n \in 0 .. m |-> f[n]], log)
             /\ f[m + 1] = Apply(f[m], entry)
             /\ f = [n \in 0 .. m + 1 |-> f[n]]
  <2> DEFINE g == [n \in 0 .. m |-> f[n]]
  <2>1. f[0] = NoRows /\ \A n \in 1 .. m + 1 : f[n] = Apply(f[n - 1], log'[n])
    BY <1>1, <1>3, TableValues, ZenonT(40)
  <2>2. g = [n \in 0 .. Len(log) |-> g[n]] /\ \A n \in 0 .. m : g[n] = f[n]
    BY <1>1 DEF m
  <2> HIDE DEF g
  <2>3. g[0] = NoRows
    <3>1. 0 \in 0 .. m
      BY <1>1
    <3> QED BY <2>1, <2>2, <3>1
  <2>4. ASSUME NEW n \in 1 .. Len(log) PROVE g[n] = Apply(g[n - 1], log[n])
    <3>1. n \in 1 .. m /\ n - 1 \in 0 .. m /\ n \in 0 .. m /\ n \in 1 .. m + 1
      BY <1>1 DEF m
    <3> QED BY <1>1, <2>1, <2>2, <3>1
  <2>5. IsTable(g, log)
    BY <2>2, <2>3, <2>4, TableMade
  <2>6. f[m + 1] = Apply(f[m], entry)
    <3>1. m + 1 \in 1 .. m + 1 /\ (m + 1) - 1 = m
      BY <1>1
    <3> QED BY <1>1, <2>1, <3>1
  <2>7. f = [n \in 0 .. m + 1 |-> f[n]]
    <3> DEFINE F(n) == IF n = 0 THEN NoRows ELSE Apply(f[n - 1], log'[n])
    <3>1. f = [n \in 0 .. m + 1 |-> F(n)]
      BY <1>1, <1>3 DEF IsTable
    <3> HIDE DEF F
    <3> QED BY <3>1
  <2> QED BY <2>5, <2>6, <2>7 DEF g
<1>4. ASSUME NEW f, NEW g, IsTable(f, log'), IsTable(g, log') PROVE f = g
  <2>1. [n \in 0 .. m |-> f[n]] = [n \in 0 .. m |-> g[n]]
    BY <1>3, <1>4 DEF FoldsOnce
  <2>2. \A n \in 0 .. m : f[n] = g[n]
    BY <2>1
  <2>3. m \in 0 .. m
    BY <1>1
  <2>4. f[m + 1] = g[m + 1]
    BY <1>3, <1>4, <2>2, <2>3
  <2>5. \A n \in 0 .. m + 1 : n \in 0 .. m \/ n = m + 1
    BY <1>1
  <2>6. \A n \in 0 .. m + 1 : f[n] = g[n]
    BY <2>2, <2>4, <2>5
  <2>7. f = [n \in 0 .. m + 1 |-> f[n]] /\ g = [n \in 0 .. m + 1 |-> g[n]]
    BY <1>3, <1>4
  <2>8. [n \in 0 .. m + 1 |-> f[n]] = [n \in 0 .. m + 1 |-> g[n]]
    BY <2>6
  <2> QED BY <2>7, <2>8
<1>5. FoldsOnce'
  BY <1>2, <1>4 DEF FoldsOnce
<1>6. IsTable(TableAt, log) /\ IsTable(TableAt', log')
  BY <1>5, TableChosen DEF FoldsOnce, IsTable, TableAt, NoRows
<1>7. IsTable([n \in 0 .. m |-> TableAt'[n]], log) /\ TableAt'[m + 1] = Apply(TableAt'[m], entry)
  BY <1>3, <1>6
<1>8. TableAt'[m] = TableAt[m]
  <2>1. TableAt = [n \in 0 .. m |-> TableAt'[n]]
    BY <1>6, <1>7 DEF FoldsOnce
  <2> QED BY <1>1, <2>1
<1>9. StatusAll' = TableAt'[m + 1] /\ StatusAll = TableAt[m]
  BY <1>1 DEF StatusAll, m
<1> QED BY <1>5, <1>7, <1>8, <1>9

\* The first entry of a stream that takes the place of another.
LEMMA FoldAnew ==
  ASSUME NEW entry \in Entries, log' = Append(<<>>, entry)
  PROVE  FoldsOnce' /\ StatusAll' = Apply(NoRows, entry)
<1>1. log' = <<entry>> /\ Len(log') = 1 /\ log'[1] = entry
  OBVIOUS
<1>2. 0 .. Len(log') = {0, 1}
  BY <1>1
<1> DEFINE g == [n \in {0, 1} |-> IF n = 0 THEN NoRows ELSE Apply(NoRows, entry)]
<1>3. g[0] = NoRows /\ g[1] = Apply(NoRows, entry)
  OBVIOUS
<1>4. ASSUME NEW f, f[0] = NoRows
      PROVE  [n \in {0, 1} |-> IF n = 0 THEN NoRows ELSE Apply(f[n - 1], log'[n])] = g
  <2>1. ASSUME NEW n \in {0, 1}
        PROVE  (IF n = 0 THEN NoRows ELSE Apply(f[n - 1], log'[n]))
                 = (IF n = 0 THEN NoRows ELSE Apply(NoRows, entry))
    <3>1. CASE n = 0
      BY <3>1
    <3>2. CASE n = 1
      <4>1. n - 1 = 0
        BY <3>2
      <4> QED BY <1>1, <1>4, <3>2, <4>1
    <3> QED BY <3>1, <3>2
  <2> QED BY <2>1
<1> HIDE DEF g
<1>5. \A f : IsTable(f, log') <=> f = g
  <2> SUFFICES ASSUME NEW f PROVE IsTable(f, log') <=> f = g
    OBVIOUS
  <2> DEFINE F(n) == IF n = 0 THEN NoRows ELSE Apply(f[n - 1], log'[n])
  <2>1. IsTable(f, log') <=> f = [n \in {0, 1} |-> F(n)]
    BY <1>2 DEF IsTable
  <2>2. F(0) = NoRows
    OBVIOUS
  <2>3. ASSUME f = [n \in {0, 1} |-> F(n)] PROVE f[0] = NoRows
    <3> HIDE DEF F
    <3> QED BY <2>2, <2>3
  <2>4. f[0] = NoRows => [n \in {0, 1} |-> F(n)] = g
    BY <1>4
  <2> HIDE DEF F
  <2> QED BY <1>3, <2>1, <2>3, <2>4
<1>6. FoldsOnce'
  BY <1>5 DEF FoldsOnce
<1>7. IsTable(TableAt', log')
  BY <1>6, TableChosen DEF FoldsOnce, IsTable, TableAt, NoRows
<1>8. TableAt' = g
  BY <1>5, <1>7
<1> QED BY <1>1, <1>3, <1>6, <1>8 DEF StatusAll

\* The rows of what an append read of the stream.
RowsRead(raw) == IF raw = log THEN StatusAll ELSE NoRows

LEMMA FoldWritten ==
  ASSUME ProposalsInv, NEW entry \in Entries, NEW raw \in {log, <<>>},
         log' = Append(raw, entry)
  PROVE  /\ FoldsOnce' /\ StatusAll' = Apply(RowsRead(raw), entry)
         /\ log' \in Seq(Entries) /\ Len(log') = Len(raw) + 1 /\ Len(raw) <= Len(log)
         /\ Len(raw) \in Nat
<1>1. log \in Seq(Entries) /\ raw \in Seq(Entries)
  <2>1. log \in Seq(Entries)
    BY DEF ProposalsInv
  <2>2. <<>> \in Seq(Entries)
    OBVIOUS
  <2> QED BY <2>1, <2>2
<1>2. /\ log' \in Seq(Entries) /\ Len(log') = Len(raw) + 1
      /\ Len(raw) <= Len(log) /\ Len(raw) \in Nat
  <2>1. Len(raw) \in Nat /\ Len(raw) <= Len(log)
    <3>1. CASE raw = log
      BY <1>1, <3>1
    <3>2. CASE raw = <<>>
      BY <1>1, <3>2
    <3> QED BY <3>1, <3>2
  <2>2. Append(raw, entry) \in Seq(Entries) /\ Len(Append(raw, entry)) = Len(raw) + 1
    BY <1>1, AppendProperties
  <2> QED BY <2>1, <2>2
<1>3. CASE raw = log
  BY <1>2, <1>3, FoldGrows DEF ProposalsInv, RowsRead
<1>4. CASE raw # log
  BY <1>2, <1>4, FoldAnew DEF RowsRead
<1> QED BY <1>3, <1>4

\* What an entry does to the rows.
LEMMA EntryKeepsTables ==
  ASSUME NEW table \in RowTables, NEW entry \in Entries
  PROVE  /\ Apply(table, entry) \in RowTables
         /\ \A p \in Proposed : p # entry.id => Apply(table, entry)[p] = table[p]
         /\ entry.kind = "proposed" =>
              Apply(table, entry)[entry.id] = [status |-> "pending", content |-> None]
         /\ entry.kind # "proposed" /\ table[entry.id] = None =>
              Apply(table, entry)[entry.id] = None
         /\ entry.kind # "proposed" /\ table[entry.id] # None =>
              /\ Apply(table, entry)[entry.id] = Decided(table[entry.id], entry)
              /\ Apply(table, entry)[entry.id] \in Rows
<1>1. entry.id \in Proposed /\ entry.content \in Contents \cup {None}
  BY DEF Entries
<1>2. [status |-> "pending", content |-> None] \in Rows
  BY DEF Rows, Statuses
<1>3. ASSUME table[entry.id] # None PROVE Decided(table[entry.id], entry) \in Rows
  <2>1. table[entry.id] \in Rows
    BY <1>1, <1>3 DEF RowTables
  <2>2. /\ table[entry.id].status \in Statuses
        /\ table[entry.id].content \in Contents \cup {None}
    BY <2>1 DEF Rows
  <2>3. StatusOf(entry.kind, table[entry.id].status) \in Statuses
    BY <2>2 DEF StatusOf, Statuses
  <2> QED BY <1>1, <2>2, <2>3 DEF Decided, Rows
<1>4. CASE entry.kind = "proposed"
  <2>1. Apply(table, entry) =
          [table EXCEPT ![entry.id] = [status |-> "pending", content |-> None]]
    BY <1>4 DEF Apply
  <2> QED BY <1>1, <1>2, <1>4, <2>1 DEF RowTables
<1>5. CASE entry.kind # "proposed" /\ table[entry.id] # None
  <2>1. Apply(table, entry) =
          [table EXCEPT ![entry.id] = Decided(table[entry.id], entry)]
    BY <1>5 DEF Apply
  <2> QED BY <1>1, <1>3, <1>5, <2>1 DEF RowTables
<1>6. CASE entry.kind # "proposed" /\ table[entry.id] = None
  <2>1. Apply(table, entry) = table
    BY <1>6 DEF Apply
  <2> QED BY <1>6, <2>1
<1> QED BY <1>4, <1>5, <1>6

LEMMA ProposalsStart == ProposalsInit => ProposalsInv
<1> SUFFICES ASSUME ProposalsInit PROVE ProposalsInv
  OBVIOUS
<1>1. log = <<>> /\ Len(log) = 0 /\ log \in Seq(Entries)
  BY DEF ProposalsInit
<1> DEFINE g == [n \in {0} |-> NoRows]
<1>2. 0 .. Len(log) = {0}
  BY <1>1
<1>3. \A f : IsTable(f, log) <=> f = g
  <2> SUFFICES ASSUME NEW f PROVE IsTable(f, log) <=> f = g
    OBVIOUS
  <2>1. [n \in 0 .. Len(log) |-> IF n = 0 THEN NoRows ELSE Apply(f[n - 1], log[n])] = g
    BY <1>2
  <2> QED BY <2>1 DEF IsTable
<1> HIDE DEF g
<1>4. FoldsOnce
  <2>1. IsTable(g, log)
    BY <1>3
  <2> QED BY <1>3, <2>1 DEF FoldsOnce
<1>5. TableAt = g
  BY <1>3, <1>4, TableChosen
<1>6. StatusAll = NoRows
  BY <1>1, <1>5 DEF StatusAll, g
<1>7. NoRows \in RowTables /\ \A p \in Proposed : NoRows[p] = None
  BY DEF NoRows, RowTables
<1>8. /\ expected \in [Proposed -> SUBSET Statuses]
      /\ \A p \in Proposed : expected[p] = {}
      /\ \A q \in DOMAIN index : index[q] \in Nat
      /\ appends \in Nat /\ Len(log) <= appends
  BY <1>1 DEF ProposalsInit, NoIndex
<1> QED BY <1>1, <1>4, <1>6, <1>7, <1>8 DEF ProposalsInv, RowsAreProposed

\* A call that is answered by an earlier entry changes no row.
LEMMA LogStands ==
  ASSUME ProposalsInv, log' = log
  PROVE  FoldsOnce' /\ StatusAll' = StatusAll
BY DEF FoldsOnce, StatusAll, TableAt, ProposalsInv

LEMMA RowsStand ==
  ASSUME ProposalsInv, log' = log, index' = index, orphans' = orphans, appends' = appends,
         expected' \in [Proposed -> SUBSET Statuses],
         \A p \in Proposed : /\ expected[p] \subseteq expected'[p]
                             /\ expected[p] = {} => expected'[p] = {}
  PROVE  ProposalsInv'
<1>1. FoldsOnce' /\ StatusAll' = StatusAll
  BY LogStands
<1> QED BY <1>1 DEF ProposalsInv, RowsAreProposed, Asked, Replays

\* What holds of the rows an append read, and of what is expected of them.
LEMMA RowsReadAreProposed ==
  ASSUME ProposalsInv, NEW raw \in {log, <<>>}, NEW p \in Proposed
  PROVE  /\ RowsRead(raw) \in RowTables
         /\ Standing(raw) \in [Proposed -> SUBSET Statuses]
         /\ RowsRead(raw)[p] # None =>
              /\ RowsRead(raw)[p].status \in Standing(raw)[p]
              /\ raw = log
              /\ Asked(ProposalRequest(p))
         /\ RowsRead(raw)[p] = None => Standing(raw)[p] = {}
<1>1. CASE raw = log
  BY <1>1 DEF ProposalsInv, RowsAreProposed, RowsRead, Standing
<1>2. CASE raw # log
  BY <1>2 DEF RowsRead, Standing, NoRows, RowTables
<1> QED BY <1>1, <1>2

\* A request stays answered or lost; that of the entry becomes so.
LEMMA AskedStays ==
  ASSUME ProposalsInv, NEW raw \in {log, <<>>}, NEW known \in {index, NoIndex},
         NEW request, NEW q, Len(log') = Len(raw) + 1, Len(raw) \in Nat,
         WriteIndex(raw, known, request) \/ LoseIndex(request),
         q = request \/ (raw = log /\ Asked(q))
  PROVE  Asked(q)'
<1>1. CASE LoseIndex(request)
  <2>1. index' = index /\ orphans' = orphans \cup {request}
    BY <1>1 DEF LoseIndex
  <2>2. ASSUME raw = log, Replays(log, index, q) PROVE Replays(log, index, q)'
    <3>1. q \in DOMAIN index /\ index[q] \in Nat /\ index[q] < Len(log)
      BY <2>2 DEF Replays, ProposalsInv
    <3>2. index[q] < Len(log')
      BY <2>2, <3>1
    <3> QED BY <2>1, <3>1, <3>2 DEF Replays
  <2> QED BY <2>1, <2>2 DEF Asked
<1>2. CASE WriteIndex(raw, known, request)
  <2>1. /\ index' = [r \in DOMAIN known \cup {request} |->
                       IF r = request THEN Len(raw) ELSE known[r]]
        /\ orphans' = orphans \cup (DOMAIN index \ DOMAIN known)
    BY <1>2 DEF WriteIndex, Unread
  <2>2. ASSUME q = request PROVE Replays(log, index, q)'
    <3>1. q \in DOMAIN index' /\ index'[q] = Len(raw)
      BY <2>1, <2>2
    <3>2. Len(raw) < Len(log')
      OBVIOUS
    <3> QED BY <3>1, <3>2 DEF Replays
  <2>3. ASSUME q # request, raw = log, Replays(log, index, q) PROVE Asked(q)'
    <3>1. q \in DOMAIN index /\ index[q] \in Nat /\ index[q] < Len(log)
      BY <2>3 DEF Replays, ProposalsInv
    <3>2. CASE q \in DOMAIN known
      <4>1. known = index
        BY <3>2 DEF NoIndex
      <4>2. q \in DOMAIN index' /\ index'[q] = index[q]
        BY <2>1, <2>3, <3>2, <4>1
      <4>3. index[q] < Len(log')
        BY <2>3, <3>1
      <4> QED BY <4>2, <4>3 DEF Asked, Replays
    <3>3. CASE q \notin DOMAIN known
      BY <2>1, <3>1, <3>3 DEF Asked
    <3> QED BY <3>2, <3>3
  <2> QED BY <2>1, <2>2, <2>3 DEF Asked
<1> QED BY <1>1, <1>2

\* The index and the count stay well typed.
LEMMA IndexStaysTyped ==
  ASSUME ProposalsInv, NEW raw \in {log, <<>>}, NEW known \in {index, NoIndex},
         NEW request, NEW entry \in Entries, WriteLog(raw, known, entry, request),
         WriteIndex(raw, known, request) \/ LoseIndex(request)
  PROVE  /\ \A q \in DOMAIN index' : index'[q] \in Nat
         /\ appends' \in Nat /\ Len(log') <= appends'
<1>1. /\ Len(log') = Len(raw) + 1 /\ Len(raw) <= Len(log) /\ Len(raw) \in Nat
      /\ Len(log) \in Nat
  BY FoldWritten DEF WriteLog, ProposalsInv
<1>2. appends' \in Nat /\ Len(log') <= appends'
  BY <1>1 DEF WriteLog, ProposalsInv
<1>3. CASE LoseIndex(request)
  BY <1>2, <1>3 DEF LoseIndex, ProposalsInv
<1>4. CASE WriteIndex(raw, known, request)
  <2>1. index' = [r \in DOMAIN known \cup {request} |->
                   IF r = request THEN Len(raw) ELSE known[r]]
    BY <1>4 DEF WriteIndex
  <2>2. \A r \in DOMAIN known : known[r] \in Nat
    BY DEF ProposalsInv, NoIndex
  <2> QED BY <1>1, <1>2, <2>1, <2>2
<1> QED BY <1>3, <1>4

LEMMA ProposePreserves ==
  ASSUME ProposalsInv, NEW p \in Proposed, Propose(p)
  PROVE  ProposalsInv'
<1> DEFINE request == ProposalRequest(p)
           entry == Proposing(p)
<1>1. CASE Replay(request) /\ UNCHANGED expected
  BY <1>1, RowsStand DEF Replay, ProposalsInv
<1>2. ASSUME NEW raw \in {log, <<>>}, NEW known \in {index, NoIndex},
             WriteLog(raw, known, entry, request),
             WriteIndex(raw, known, request) \/ LoseIndex(request),
             Awaited(raw, known, p)
      PROVE  ProposalsInv'
  <2>1. entry \in Entries /\ entry.kind = "proposed" /\ entry.id = p
    BY DEF Proposing, Entries
  <2>2. log' = Append(raw, entry) /\ ~Replays(raw, known, request)
    BY <1>2 DEF WriteLog
  <2>3. /\ FoldsOnce' /\ StatusAll' = Apply(RowsRead(raw), entry)
        /\ log' \in Seq(Entries) /\ Len(log') = Len(raw) + 1 /\ Len(raw) \in Nat
    BY <2>1, <2>2, FoldWritten
  <2>4. /\ StatusAll' \in RowTables
        /\ \A q \in Proposed : q # p => StatusAll'[q] = RowsRead(raw)[q]
        /\ StatusAll'[p] = [status |-> "pending", content |-> None]
    <3> DEFINE table == RowsRead(raw)
    <3>1. table \in RowTables /\ StatusAll' = Apply(table, entry)
      BY <2>3, RowsReadAreProposed
    <3> HIDE DEF table, entry
    <3>2. /\ Apply(table, entry) \in RowTables
          /\ \A q \in Proposed : q # p => Apply(table, entry)[q] = table[q]
          /\ Apply(table, entry)[p] = [status |-> "pending", content |-> None]
      BY <2>1, <3>1, EntryKeepsTables
    <3> QED BY <3>1, <3>2 DEF table
  <2>5. /\ expected' \in [Proposed -> SUBSET Statuses]
        /\ \A q \in Proposed : q # p => expected'[q] = Standing(raw)[q]
    BY <1>2, RowsReadAreProposed DEF Awaited, Statuses
  <2>6. Standing(raw)[p] = {} \/ request \in orphans \cup Unread(known)
    <3>1. CASE RowsRead(raw)[p] = None
      BY <3>1, RowsReadAreProposed
    <3>2. CASE RowsRead(raw)[p] # None
      <4>1. raw = log /\ (request \in orphans \/ Replays(log, index, request))
        BY <3>2, RowsReadAreProposed DEF Asked
      <4>2. ASSUME Replays(log, index, request) PROVE request \in Unread(known)
        <5>1. known = NoIndex /\ request \in DOMAIN index
          BY <2>2, <4>1, <4>2 DEF Replays
        <5> QED BY <5>1 DEF Unread, NoIndex
      <4> QED BY <4>1, <4>2
    <3> QED BY <3>1, <3>2
  <2>7. "pending" \in expected'[p]
    BY <1>2, <2>6, RowsReadAreProposed DEF Awaited
  <2>8. RowsAreProposed'
    <3> SUFFICES ASSUME NEW q \in Proposed
                 PROVE  /\ StatusAll'[q] # None =>
                             /\ StatusAll'[q].status \in expected'[q]
                             /\ Asked(ProposalRequest(q))'
                        /\ StatusAll'[q] = None => expected'[q] = {}
      BY DEF RowsAreProposed, ProposalRequest, Asked, Replays
    <3>1. CASE q = p
      <4>1. StatusAll'[p] # None
        BY <2>4, NoneAssumption DEF Rows, Statuses
      <4>2. Asked(request)'
        BY <1>2, <2>3, AskedStays
      <4> QED BY <2>4, <2>7, <3>1, <4>1, <4>2
    <3>2. CASE q # p
      <4> DEFINE other == ProposalRequest(q)
      <4>1. /\ RowsRead(raw)[q] # None =>
                 /\ RowsRead(raw)[q].status \in Standing(raw)[q]
                 /\ raw = log /\ Asked(other)
            /\ RowsRead(raw)[q] = None => Standing(raw)[q] = {}
        BY RowsReadAreProposed
      <4>2. RowsRead(raw)[q] # None => Asked(other)'
        <5> HIDE DEF other
        <5> QED BY <1>2, <2>3, <4>1, AskedStays
      <4> QED BY <2>4, <2>5, <3>2, <4>1, <4>2
    <3> QED BY <3>1, <3>2
  <2>9. /\ \A q \in DOMAIN index' : index'[q] \in Nat
        /\ appends' \in Nat /\ Len(log') <= appends'
    BY <1>2, <2>1, IndexStaysTyped
  <2> QED BY <2>3, <2>4, <2>5, <2>8, <2>9 DEF ProposalsInv
<1> QED BY <1>1, <1>2 DEF Propose

LEMMA DecidePreserves ==
  ASSUME ProposalsInv, NEW p \in Proposed, NEW decision \in Decisions,
         NEW content \in Contents \cup {None}, NEW given \in Requests \cup {None},
         Decide(p, decision, content, given)
  PROVE  ProposalsInv'
<1> DEFINE request == IF given = None THEN DefaultRequest(decision, p) ELSE GivenRequest(given)
           entry == Deciding(p, decision, content)
           after(raw) == {StatusOf(decision, s) : s \in Standing(raw)[p]}
<1>1. /\ entry \in Entries /\ entry.kind = decision /\ entry.id = p
      /\ entry.kind # "proposed"
  BY DEF Deciding, Entries, Decisions
<1>2. ASSUME NEW raw \in {log, <<>>}, NEW certain \in BOOLEAN,
             Expect(raw, p, decision, certain)
      PROVE  /\ expected' \in [Proposed -> SUBSET Statuses]
             /\ \A q \in Proposed : q # p => expected'[q] = Standing(raw)[q]
             /\ after(raw) \subseteq expected'[p]
             /\ ~certain => Standing(raw)[p] \subseteq expected'[p]
             /\ Standing(raw)[p] = {} => expected'[p] = {}
  <2>1. Standing(raw) \in [Proposed -> SUBSET Statuses]
    BY RowsReadAreProposed
  <2>2. after(raw) \subseteq Statuses /\ (Standing(raw)[p] = {} => after(raw) = {})
    BY <2>1 DEF StatusOf, Statuses
  <2> DEFINE before == Standing(raw)
             next == after(raw)
  <2>3. expected' = [before EXCEPT ![p] = IF certain THEN next ELSE before[p] \cup next]
    BY <1>2 DEF Expect
  <2> HIDE DEF before, next
  <2>4. /\ before \in [Proposed -> SUBSET Statuses] /\ next \subseteq Statuses
        /\ before[p] = {} => next = {}
    BY <2>1, <2>2 DEF before, next
  <2>5. /\ expected' \in [Proposed -> SUBSET Statuses]
        /\ \A q \in Proposed : q # p => expected'[q] = before[q]
        /\ next \subseteq expected'[p]
        /\ ~certain => before[p] \subseteq expected'[p]
        /\ before[p] = {} => expected'[p] = {}
    BY <2>3, <2>4
  <2> QED BY <2>5 DEF before, next
<1> HIDE DEF after
<1>3. CASE Replay(request) /\ Expect(log, p, decision, FALSE)
  <2>1. Standing(log) = expected
    BY DEF Standing
  <2>2. /\ expected' \in [Proposed -> SUBSET Statuses]
        /\ \A q \in Proposed : /\ expected[q] \subseteq expected'[q]
                               /\ expected[q] = {} => expected'[q] = {}
    BY <1>2, <1>3, <2>1
  <2> QED BY <1>3, <2>2, RowsStand DEF Replay
<1>4. ASSUME NEW raw \in {log, <<>>}, NEW known \in {index, NoIndex},
             NEW certain \in BOOLEAN,
             WriteLog(raw, known, entry, request),
             WriteIndex(raw, known, request) \/ LoseIndex(request),
             Expect(raw, p, decision, certain)
      PROVE  ProposalsInv'
  <2>1. log' = Append(raw, entry)
    BY <1>4 DEF WriteLog
  <2>2. /\ FoldsOnce' /\ StatusAll' = Apply(RowsRead(raw), entry)
        /\ log' \in Seq(Entries) /\ Len(log') = Len(raw) + 1 /\ Len(raw) \in Nat
    BY <1>1, <2>1, FoldWritten
  <2>3. /\ StatusAll' \in RowTables
        /\ \A q \in Proposed : q # p => StatusAll'[q] = RowsRead(raw)[q]
        /\ RowsRead(raw)[p] = None => StatusAll'[p] = None
        /\ RowsRead(raw)[p] # None =>
             /\ StatusAll'[p] = Decided(RowsRead(raw)[p], entry)
             /\ StatusAll'[p] \in Rows
    <3> DEFINE table == RowsRead(raw)
    <3>1. table \in RowTables /\ StatusAll' = Apply(table, entry)
      BY <2>2, RowsReadAreProposed
    <3> HIDE DEF table, entry
    <3>2. /\ Apply(table, entry) \in RowTables
          /\ \A q \in Proposed : q # p => Apply(table, entry)[q] = table[q]
          /\ table[p] = None => Apply(table, entry)[p] = None
          /\ table[p] # None =>
               /\ Apply(table, entry)[p] = Decided(table[p], entry)
               /\ Apply(table, entry)[p] \in Rows
      BY <1>1, <3>1, EntryKeepsTables
    <3> QED BY <3>1, <3>2 DEF table
  <2>4. ASSUME RowsRead(raw)[p] # None PROVE StatusAll'[p].status \in expected'[p]
    <3>1. StatusAll'[p].status = StatusOf(decision, RowsRead(raw)[p].status)
      BY <1>1, <2>3, <2>4 DEF Decided
    <3>2. RowsRead(raw)[p].status \in Standing(raw)[p]
      BY <2>4, RowsReadAreProposed
    <3>3. StatusOf(decision, RowsRead(raw)[p].status) \in after(raw)
      BY <3>2 DEF after
    <3> QED BY <1>2, <1>4, <3>1, <3>3
  <2>5. /\ \A q \in DOMAIN index' : index'[q] \in Nat
        /\ appends' \in Nat /\ Len(log') <= appends'
    BY <1>1, <1>4, IndexStaysTyped
  <2>6. RowsAreProposed'
    <3> SUFFICES ASSUME NEW q \in Proposed
                 PROVE  /\ StatusAll'[q] # None =>
                             /\ StatusAll'[q].status \in expected'[q]
                             /\ Asked(ProposalRequest(q))'
                        /\ StatusAll'[q] = None => expected'[q] = {}
      BY DEF RowsAreProposed, ProposalRequest, Asked, Replays
    <3> DEFINE other == ProposalRequest(q)
    <3>1. /\ RowsRead(raw)[q] # None =>
               /\ RowsRead(raw)[q].status \in Standing(raw)[q]
               /\ raw = log /\ Asked(other)
          /\ RowsRead(raw)[q] = None => Standing(raw)[q] = {}
      BY RowsReadAreProposed
    <3>2. RowsRead(raw)[q] # None => Asked(other)'
      <4> HIDE DEF other
      <4> QED BY <1>4, <2>2, <3>1, AskedStays
    <3>3. CASE q = p
      <4>1. RowsRead(raw)[p] # None => StatusAll'[p] # None
        BY <2>3, NoneAssumption
      <4>2. Standing(raw)[p] = {} => expected'[p] = {}
        BY <1>2, <1>4
      <4> QED BY <2>3, <2>4, <3>1, <3>2, <3>3, <4>1, <4>2
    <3>4. CASE q # p
      <4>1. expected'[q] = Standing(raw)[q]
        BY <1>2, <1>4, <3>4
      <4> QED BY <2>3, <3>1, <3>2, <3>4, <4>1
    <3> QED BY <3>3, <3>4
  <2>7. expected' \in [Proposed -> SUBSET Statuses]
    BY <1>2, <1>4
  <2> QED BY <2>2, <2>3, <2>5, <2>6, <2>7 DEF ProposalsInv
<1> QED BY <1>3, <1>4 DEF Decide

LEMMA ProposalsInductive ==
  ASSUME ProposalsInv, [ProposalsNext]_proposalVars
  PROVE  ProposalsInv'
<1>1. CASE UNCHANGED proposalVars
  BY <1>1, RowsStand DEF proposalVars, ProposalsInv
<1>2. CASE \E p \in Proposed : Propose(p)
  BY <1>2, ProposePreserves
<1>3. CASE \E p \in Proposed, decision \in Decisions,
             content \in Contents \cup {None}, given \in Requests \cup {None} :
             Decide(p, decision, content, given)
  BY <1>3, DecidePreserves
<1> QED BY <1>1, <1>2, <1>3 DEF ProposalsNext

LEMMA ProposalsInvariant == ProposalsSpec => []ProposalsInv
<1>1. ProposalsInit => ProposalsInv
  BY ProposalsStart
<1>2. ProposalsInv /\ [ProposalsNext]_proposalVars => ProposalsInv'
  BY ProposalsInductive
<1> QED BY <1>1, <1>2, PTL DEF ProposalsSpec

(* The table of the proposals is computed from the stream in one way, and  *)
(* its rows and the statuses a caller may expect are those of their types  *)
(* (Queue.ts:70-102).                                                      *)
THEOREM ProposalsTypeCorrect == ProposalsSpec => []ProposalsTypeOK
<1>1. ProposalsInv => ProposalsTypeOK
  BY DEF ProposalsInv, ProposalsTypeOK, RowTables
<1> QED BY <1>1, ProposalsInvariant, PTL

(* For any number of proposals, decisions and entries, the status that is  *)
(* computed from the stream is one its callers can account for, whichever  *)
(* appends failed, were repeated or lost their index (Queue.ts:70-80,      *)
(* 104-201).                                                               *)
THEOREM StatusesAreAccountedFor == ProposalsSpec => []StatusIsAccountedFor
<1>1. ProposalsInv => StatusIsAccountedFor
  BY DEF ProposalsInv, RowsAreProposed, StatusIsAccountedFor, Status
<1> QED BY <1>1, ProposalsInvariant, PTL

-----------------------------------------------------------------------------

(***************************************************************************)
(* The runners of a suite (Suite).  SuiteInv adds to the property the owners *)
(* of keys and directories one by one, the place an attempt must have      *)
(* reached to have a path, an outcome or a directory left behind, and that a *)
(* counter never exceeds the paths its runner has named, so that the paths *)
(* the model has are enough.                                               *)
(***************************************************************************)

Early == {"idle", "create", "mkdir", "stamp", "copy", "created", "run"}

\* An attempt has no outcome and leaves nothing before it has run; it has a
\* path when its directory is made and until that is gone.
AttemptsAdvance ==
  \A a \in Attempts :
    /\ place[a] \in Early => outcome[a] = "none" /\ a \notin left
    /\ place[a] = "mkdir" \/ InWorkspace(a) => workspace[a] \in Paths

Named(r) == {a \in Attempts : asked[a][1] = r /\ place[a] \notin {"idle", "create"}}

\* A runner counts no more workspaces than it has named.
NamesAreCounted == \A r \in Runners : counter[r] <= Cardinality(Named(r))

KeysAreKept ==
  /\ \A a \in Attempts : HoldsKey(a) => asked[a] \in keys
  /\ \A a, b \in Attempts : a # b => (HoldsKey(a) /\ HoldsKey(b) => asked[a] # asked[b])
  /\ \A k \in keys : \E a \in Attempts :
       asked[a] = k /\ (HoldsKey(a) \/ outcome[a] = "not created")

Blamed(a) == InWorkspace(a) \/ a \in left \/ outcome[a] \in {"not created", "crashed"}

PlacesAreKept ==
  /\ \A a \in Attempts : InWorkspace(a) => marker[workspace[a]] # "absent"
  /\ \A a, b \in Attempts :
       a # b => (InWorkspace(a) /\ InWorkspace(b) => workspace[a] # workspace[b])
  /\ \A p \in Paths : marker[p] # "absent" => \E a \in Attempts : workspace[a] = p /\ Blamed(a)

SuiteInv ==
  /\ SuiteTypeOK /\ NamesAreCounted /\ AttemptsAdvance
  /\ KeysAreKept /\ PlacesAreKept

LEMMA KeptApart == SuiteInv => TrialsKeepApart
<1> SUFFICES ASSUME SuiteInv PROVE TrialsKeepApart
  OBVIOUS
<1>1. \A a \in Attempts :
        /\ HoldsKey(a) => asked[a] \in keys
        /\ InWorkspace(a) => marker[workspace[a]] # "absent"
  BY DEF SuiteInv, KeysAreKept, PlacesAreKept
<1>2. \A a, b \in Attempts : a # b =>
        /\ InWorkspace(a) /\ InWorkspace(b) => workspace[a] # workspace[b]
        /\ HoldsKey(a) /\ HoldsKey(b) => asked[a] # asked[b]
  BY DEF SuiteInv, KeysAreKept, PlacesAreKept
<1>3. \A k \in keys : \E a \in Attempts :
        asked[a] = k /\ (HoldsKey(a) \/ outcome[a] = "not created")
  BY DEF SuiteInv, KeysAreKept
<1>4. \A p \in Paths : marker[p] # "absent" => \E a \in Attempts :
        /\ workspace[a] = p
        /\ InWorkspace(a) \/ a \in left \/ outcome[a] \in {"not created", "crashed"}
  BY DEF SuiteInv, PlacesAreKept, Blamed
<1> QED BY <1>1, <1>2, <1>3, <1>4 DEF TrialsKeepApart

\* Nothing of the other attempts changes.
Alone(a) ==
  \A b \in Attempts : b # a =>
    /\ place'[b] = place[b] /\ workspace'[b] = workspace[b]
    /\ outcome'[b] = outcome[b] /\ (b \in left' <=> b \in left)

\* The keys after a step of a: as they were, with a's or without it.
KeyStep(a) ==
  \/ /\ keys' = keys
     /\ HoldsKey(a)' => HoldsKey(a)
     /\ HoldsKey(a) => HoldsKey(a)' \/ outcome'[a] = "not created"
     /\ outcome[a] = "not created" => outcome'[a] = "not created" \/ HoldsKey(a)'
  \/ keys' = keys \cup {asked[a]} /\ asked[a] \notin keys /\ HoldsKey(a)'
  \/ keys' = keys \ {asked[a]} /\ HoldsKey(a) /\ ~HoldsKey(a)'

LEMMA KeyStepKeeps ==
  ASSUME SuiteInv, NEW a \in Attempts, Alone(a), asked' = asked, KeyStep(a)
  PROVE  KeysAreKept'
<1>1. \A b \in Attempts : b # a =>
        /\ HoldsKey(b)' <=> HoldsKey(b)
        /\ outcome'[b] = outcome[b]
  BY DEF Alone, HoldsKey
<1>2. \A b \in Attempts : HoldsKey(b) => asked[b] \in keys
  BY DEF SuiteInv, KeysAreKept
<1>3. \A b \in Attempts : b # a /\ HoldsKey(a) /\ HoldsKey(b) => asked[a] # asked[b]
  BY DEF SuiteInv, KeysAreKept
<1>4. ASSUME NEW b \in Attempts, HoldsKey(b)'
      PROVE  asked'[b] \in keys'
  BY <1>1, <1>2, <1>3, <1>4 DEF KeyStep
<1>5. ASSUME NEW b \in Attempts, NEW c \in Attempts, b # c, HoldsKey(b)', HoldsKey(c)'
      PROVE  asked'[b] # asked'[c]
  <2>1. CASE HoldsKey(b) /\ HoldsKey(c)
    BY <2>1, <1>5 DEF SuiteInv, KeysAreKept
  <2>2. CASE ~HoldsKey(b)
    <3>1. b = a /\ asked[a] \notin keys
      BY <2>2, <1>1, <1>5 DEF KeyStep
    <3>2. asked[c] \in keys
      BY <3>1, <1>1, <1>2, <1>5
    <3> QED BY <3>1, <3>2
  <2>3. CASE ~HoldsKey(c)
    <3>1. c = a /\ asked[a] \notin keys
      BY <2>3, <1>1, <1>5 DEF KeyStep
    <3>2. asked[b] \in keys
      BY <3>1, <1>1, <1>2, <1>5
    <3> QED BY <3>1, <3>2
  <2> QED BY <2>1, <2>2, <2>3
<1>6. ASSUME NEW k \in keys'
      PROVE  \E b \in Attempts : asked'[b] = k /\ (HoldsKey(b)' \/ outcome'[b] = "not created")
  <2>1. CASE k = asked[a] /\ HoldsKey(a)'
    BY <2>1
  <2>2. CASE ~(k = asked[a] /\ HoldsKey(a)')
    <3>1. k \in keys
      BY <2>2 DEF KeyStep
    <3>2. PICK b \in Attempts : asked[b] = k /\ (HoldsKey(b) \/ outcome[b] = "not created")
      BY <3>1 DEF SuiteInv, KeysAreKept
    <3>3. HoldsKey(b)' \/ outcome'[b] = "not created"
      BY <3>2, <2>2, <1>1, <1>6 DEF KeyStep
    <3> QED BY <3>2, <3>3
  <2> QED BY <2>1, <2>2
<1> QED BY <1>4, <1>5, <1>6 DEF KeysAreKept

\* The directories after a step of a: only its own changes, one is removed only
\* by whoever works in it and made only where there is none, and a blame goes
\* only with the directory.
PlaceStep(a) ==
  LET w == workspace'[a] IN
  /\ \A p \in Paths : p # w => marker'[p] = marker[p]
  /\ marker'[w] = "absent" /\ marker[w] # "absent" => InWorkspace(a) /\ w = workspace[a]
  /\ InWorkspace(a)' =>
       /\ w \in Paths /\ marker'[w] # "absent"
       /\ (InWorkspace(a) /\ w = workspace[a]) \/ marker[w] = "absent"
  /\ w # workspace[a] => ~Blamed(a)
  /\ ~Blamed(a)' /\ w \in Paths /\ marker'[w] # "absent" =>
       marker[w] # "absent" /\ ~(Blamed(a) /\ w = workspace[a])

LEMMA PlaceStepKeeps ==
  ASSUME SuiteInv, NEW a \in Attempts, Alone(a), PlaceStep(a)
  PROVE  PlacesAreKept'
<1> DEFINE w == workspace'[a]
<1>1. \A b \in Attempts : b # a =>
        /\ InWorkspace(b)' <=> InWorkspace(b)
        /\ Blamed(b)' <=> Blamed(b)
        /\ workspace'[b] = workspace[b]
  BY DEF Alone, InWorkspace, Blamed
<1>2. \A b \in Attempts : InWorkspace(b) =>
        workspace[b] \in Paths /\ marker[workspace[b]] # "absent"
  BY DEF SuiteInv, PlacesAreKept, AttemptsAdvance
<1>3. \A b, c \in Attempts : b # c /\ InWorkspace(b) /\ InWorkspace(c) => workspace[b] # workspace[c]
  BY DEF SuiteInv, PlacesAreKept
<1>4. ASSUME NEW b \in Attempts, InWorkspace(b)'
      PROVE  marker'[workspace'[b]] # "absent"
  <2>1. CASE b = a
    BY <2>1, <1>4 DEF PlaceStep
  <2>2. CASE b # a
    <3>1. InWorkspace(b) /\ workspace'[b] = workspace[b] /\ workspace[b] \in Paths
          /\ marker[workspace[b]] # "absent"
      BY <2>2, <1>1, <1>2, <1>4
    <3>2. CASE workspace[b] # w
      BY <3>1, <3>2 DEF PlaceStep
    <3>3. CASE workspace[b] = w
      <4>1. ~(InWorkspace(a) /\ w = workspace[a])
        BY <2>2, <3>1, <3>3, <1>3
      <4> QED BY <4>1, <3>1, <3>3 DEF PlaceStep
    <3> QED BY <3>2, <3>3
  <2> QED BY <2>1, <2>2
<1>5. ASSUME NEW b \in Attempts, b # a, InWorkspace(b), InWorkspace(a)'
      PROVE  workspace[b] # w
  BY <1>2, <1>3, <1>5 DEF PlaceStep
<1>6. ASSUME NEW b \in Attempts, NEW c \in Attempts, b # c, InWorkspace(b)', InWorkspace(c)'
      PROVE  workspace'[b] # workspace'[c]
  <2>1. CASE b = a
    BY <2>1, <1>1, <1>5, <1>6
  <2>2. CASE c = a
    BY <2>2, <1>1, <1>5, <1>6
  <2>3. CASE b # a /\ c # a
    BY <2>3, <1>1, <1>3, <1>6
  <2> QED BY <2>1, <2>2, <2>3
<1>7. ASSUME NEW p \in Paths, marker'[p] # "absent"
      PROVE  \E b \in Attempts : workspace'[b] = p /\ Blamed(b)'
  <2>1. CASE p = w /\ Blamed(a)'
    BY <2>1
  <2>2. CASE ~(p = w /\ Blamed(a)')
    <3>1. marker[p] # "absent"
      BY <2>2, <1>7 DEF PlaceStep
    <3>2. PICK b \in Attempts : workspace[b] = p /\ Blamed(b)
      BY <3>1 DEF SuiteInv, PlacesAreKept
    <3>3. b # a
      BY <3>2, <2>2, <1>7 DEF PlaceStep
    <3> QED BY <3>2, <3>3, <1>1
  <2> QED BY <2>1, <2>2
<1> QED BY <1>4, <1>6, <1>7 DEF PlacesAreKept

\* Attempts leave the first two places for good.
LEMMA CountKeeps ==
  ASSUME SuiteInv, asked' = asked, counter' = counter,
         \A b \in Attempts : place'[b] \in {"idle", "create"} => place[b] \in {"idle", "create"}
  PROVE  NamesAreCounted'
<1> SUFFICES ASSUME NEW r \in Runners
             PROVE  counter'[r] <= Cardinality(Named(r))'
  BY DEF NamesAreCounted
<1>1. Named(r) \subseteq Named(r)' /\ Named(r)' \subseteq Attempts
  BY DEF Named
<1>2. IsFiniteSet(Named(r)')
  BY <1>1, AttemptsAssumption, FS_Subset
<1>3. /\ IsFiniteSet(Named(r)) /\ Cardinality(Named(r)) <= Cardinality(Named(r)')
      /\ Cardinality(Named(r)) \in Nat /\ Cardinality(Named(r)') \in Nat
  BY <1>1, <1>2, FS_Subset, FS_CardinalityType
<1>4. counter[r] \in Int /\ counter[r] <= Cardinality(Named(r))
  BY AttemptsAssumption, FS_CardinalityType DEF SuiteInv, SuiteTypeOK, NamesAreCounted
<1> QED BY <1>3, <1>4

LEMMA SuiteInitHolds == SuiteInit => SuiteInv
<1> SUFFICES ASSUME SuiteInit PROVE SuiteInv
  OBVIOUS
<1>1. Cardinality(Attempts) \in Nat
  BY AttemptsAssumption, FS_CardinalityType
<1>2. SuiteTypeOK
  <2>1. asked \in [Attempts -> Runners \X TrialKeys]
    BY SuiteAssumption DEF SuiteInit
  <2>2. /\ hour \in 0 .. Hours /\ crashes \in 0 .. MaxCrashes
        /\ counter \in [Runners -> 0 .. Cardinality(Attempts)]
    BY <1>1, SuiteAssumption DEF SuiteInit
  <2>3. /\ place \in [Attempts -> AttemptPlaces]
        /\ keys \subseteq Runners \X TrialKeys
        /\ marker \in [Paths -> {"absent", "none", "own", "other"}]
        /\ workspace \in [Attempts -> Paths \cup {Nowhere}]
        /\ outcome \in [Attempts -> Outcomes]
        /\ left \subseteq Attempts
    BY DEF SuiteInit, AttemptPlaces, Outcomes
  <2> QED BY <2>1, <2>2, <2>3 DEF SuiteTypeOK
<1>3. NamesAreCounted
  <2> SUFFICES ASSUME NEW r \in Runners PROVE counter[r] <= Cardinality(Named(r))
    BY DEF NamesAreCounted
  <2>1. Named(r) = {} /\ counter[r] = 0
    BY DEF SuiteInit, Named
  <2> QED BY <2>1, FS_EmptySet
<1>4. AttemptsAdvance /\ KeysAreKept /\ PlacesAreKept
  BY DEF SuiteInit, AttemptsAdvance, KeysAreKept, PlacesAreKept, InWorkspace, HoldsKey
<1> QED BY <1>2, <1>3, <1>4 DEF SuiteInv

\* A step of one attempt keeps the invariant.
LEMMA AttemptKeeps ==
  ASSUME SuiteInv, NEW a \in Attempts, Alone(a), KeyStep(a), PlaceStep(a),
         UNCHANGED <<asked, crashes>>, SuiteTypeOK', NamesAreCounted',
         place'[a] \in Early => outcome'[a] = "none" /\ a \notin left',
         place'[a] = "mkdir" \/ InWorkspace(a)' => workspace'[a] \in Paths
  PROVE  SuiteInv'
<1>1. KeysAreKept' /\ PlacesAreKept'
  BY KeyStepKeeps, PlaceStepKeeps
<1>2. AttemptsAdvance'
  <2> SUFFICES ASSUME NEW b \in Attempts
               PROVE  /\ place'[b] \in Early => outcome'[b] = "none" /\ b \notin left'
                      /\ place'[b] = "mkdir" \/ InWorkspace(b)' => workspace'[b] \in Paths
    BY DEF AttemptsAdvance
  <2>1. CASE b = a
    BY <2>1
  <2>2. CASE b # a
    BY <2>2 DEF Alone, SuiteInv, AttemptsAdvance, InWorkspace
  <2> QED BY <2>1, <2>2
<1> QED BY <1>1, <1>2 DEF SuiteInv

LEMMA AdvancesType ==
  ASSUME SuiteTypeOK, NEW a \in Attempts, NEW next \in AttemptPlaces, Advances(a, next)
  PROVE  /\ place' \in [Attempts -> AttemptPlaces] /\ place'[a] = next
         /\ \A b \in Attempts : b # a => place'[b] = place[b]
BY DEF SuiteTypeOK, Advances

LEMMA OutcomeType ==
  ASSUME SuiteTypeOK, NEW a \in Attempts, NEW o \in Outcomes,
         outcome' = [outcome EXCEPT ![a] = o]
  PROVE  /\ outcome' \in [Attempts -> Outcomes] /\ outcome'[a] = o
         /\ \A b \in Attempts : b # a => outcome'[b] = outcome[b]
BY DEF SuiteTypeOK

LEMMA MarkerType ==
  ASSUME SuiteTypeOK, NEW w \in Paths, NEW x \in {"absent", "none", "own", "other"},
         marker' = [marker EXCEPT ![w] = x]
  PROVE  /\ marker' \in [Paths -> {"absent", "none", "own", "other"}] /\ marker'[w] = x
         /\ \A p \in Paths : p # w => marker'[p] = marker[p]
BY DEF SuiteTypeOK

LEMMA TakeKeyKeeps ==
  ASSUME SuiteInv, NEW a \in Attempts, TakeKey(a)
  PROVE  SuiteInv'
<1> USE DEF SuiteInv
<1>1. /\ place[a] = "idle" /\ outcome[a] = "none" /\ a \notin left
      /\ UNCHANGED <<asked, counter, hour, marker, workspace, left, crashes>>
  BY DEF TakeKey, AttemptsAdvance, Early
<1>2. asked[a] \in Runners \X TrialKeys
  BY DEF SuiteTypeOK
<1>3. CASE asked[a] \in keys
  <2>1. Advances(a, "over") /\ outcome' = [outcome EXCEPT ![a] = "duplicate"] /\ keys' = keys
    BY <1>3 DEF TakeKey, EndsWith
  <2>2. "over" \in AttemptPlaces /\ "duplicate" \in Outcomes
    BY DEF AttemptPlaces, Outcomes
  <2>3. /\ place' \in [Attempts -> AttemptPlaces] /\ place'[a] = "over"
        /\ \A b \in Attempts : b # a => place'[b] = place[b]
        /\ outcome' \in [Attempts -> Outcomes] /\ outcome'[a] = "duplicate"
        /\ \A b \in Attempts : b # a => outcome'[b] = outcome[b]
    BY <2>1, <2>2, AdvancesType, OutcomeType
  <2>4. SuiteTypeOK'
    BY <1>1, <2>1, <2>3 DEF SuiteTypeOK
  <2>5. NamesAreCounted'
    BY <1>1, <2>3, CountKeeps
  <2>6. Alone(a) /\ KeyStep(a)
    BY <1>1, <2>1, <2>3 DEF Alone, KeyStep, HoldsKey
  <2>7. PlaceStep(a)
    BY <1>1, <2>3 DEF PlaceStep, InWorkspace, Blamed
  <2> QED BY <1>1, <2>3, <2>4, <2>5, <2>6, <2>7, AttemptKeeps DEF Early, InWorkspace
<1>4. CASE asked[a] \notin keys
  <2>1. Advances(a, "create") /\ outcome' = outcome /\ keys' = keys \cup {asked[a]}
    BY <1>4 DEF TakeKey
  <2>2. "create" \in AttemptPlaces
    BY DEF AttemptPlaces
  <2>3. /\ place' \in [Attempts -> AttemptPlaces] /\ place'[a] = "create"
        /\ \A b \in Attempts : b # a => place'[b] = place[b]
    BY <2>1, <2>2, AdvancesType
  <2>4. SuiteTypeOK'
    BY <1>1, <1>2, <2>1, <2>3 DEF SuiteTypeOK
  <2>5. NamesAreCounted'
    BY <1>1, <2>3, CountKeeps
  <2>6. Alone(a) /\ KeyStep(a)
    BY <1>1, <1>4, <2>1, <2>3 DEF Alone, KeyStep, HoldsKey
  <2>7. PlaceStep(a)
    BY <1>1, <2>1, <2>3 DEF PlaceStep, InWorkspace, Blamed
  <2> QED BY <1>1, <2>1, <2>3, <2>4, <2>5, <2>6, <2>7, AttemptKeeps DEF Early, InWorkspace
<1> QED BY <1>3, <1>4

\* A step within the places that hold the key, with the directory it had, may
\* change that directory only by marking it.
LEMMA WorkKeeps ==
  ASSUME SuiteInv, NEW a \in Attempts, NEW next \in AttemptPlaces,
         place' = [place EXCEPT ![a] = next],
         UNCHANGED <<asked, keys, counter, hour, workspace, crashes>>,
         place[a] \notin {"idle", "create", "over"}, next \notin {"idle", "create", "mkdir", "over"},
         outcome' \in [Attempts -> Outcomes], left' \subseteq Attempts,
         \A b \in Attempts : b # a => outcome'[b] = outcome[b] /\ (b \in left' <=> b \in left),
         next \in Early => place[a] \in Early /\ outcome'[a] = outcome[a] /\ left' = left,
         marker' = marker \/ \E x \in {"none", "own", "other"} :
                                marker' = [marker EXCEPT ![workspace[a]] = x],
         InWorkspace(a),
         InWorkspace(a)' \/ a \in left'
  PROVE  SuiteInv'
<1> USE DEF SuiteInv
<1>1. /\ place' \in [Attempts -> AttemptPlaces] /\ place'[a] = next
      /\ \A b \in Attempts : b # a => place'[b] = place[b]
  BY AdvancesType DEF Advances
<1>2. workspace[a] \in Paths /\ marker[workspace[a]] # "absent"
  BY DEF AttemptsAdvance, PlacesAreKept
<1>3. /\ marker' \in [Paths -> {"absent", "none", "own", "other"}]
      /\ marker'[workspace[a]] # "absent"
      /\ \A p \in Paths : p # workspace[a] => marker'[p] = marker[p]
  <2>1. CASE marker' = marker
    BY <2>1, <1>2 DEF SuiteTypeOK
  <2>2. CASE \E x \in {"none", "own", "other"} : marker' = [marker EXCEPT ![workspace[a]] = x]
    BY <2>2, <1>2, MarkerType
  <2> QED BY <2>1, <2>2
<1>4. SuiteTypeOK'
  BY <1>1, <1>3 DEF SuiteTypeOK
<1>5. NamesAreCounted'
  BY <1>1, CountKeeps
<1>6. Alone(a)
  BY <1>1 DEF Alone
<1>7. HoldsKey(a) /\ HoldsKey(a)'
  BY <1>1 DEF HoldsKey
<1>8. KeyStep(a)
  BY <1>7 DEF KeyStep
<1>9. Blamed(a) /\ Blamed(a)'
  BY <1>3 DEF Blamed
<1>10. PlaceStep(a)
  BY <1>2, <1>3, <1>9 DEF PlaceStep
<1>11. place'[a] \in Early => outcome'[a] = "none" /\ a \notin left'
  BY <1>1 DEF AttemptsAdvance
<1> QED BY <1>1, <1>2, <1>4, <1>5, <1>6, <1>8, <1>10, <1>11, AttemptKeeps

LEMMA InWorkKeeps ==
  ASSUME SuiteInv, NEW a \in Attempts,
         \/ StampOwnership(a) \/ CopyFixture(a) \/ EnterWorkspace(a) \/ Meddle(a)
         \/ RunEnds(a) \/ RunStops(a) \/ Destroy(a) \/ RemoveFails(a)
  PROVE  SuiteInv'
<1> DEFINE Works(next) ==
      /\ place' = [place EXCEPT ![a] = next]
      /\ UNCHANGED <<asked, keys, counter, hour, workspace, crashes>>
      /\ marker' = marker \/ \E x \in {"none", "own", "other"} :
                               marker' = [marker EXCEPT ![workspace[a]] = x]
<1>1. /\ outcome \in [Attempts -> Outcomes] /\ left \subseteq Attempts
      /\ place \in [Attempts -> AttemptPlaces]
      /\ marker \in [Paths -> {"absent", "none", "own", "other"}]
  BY DEF SuiteInv, SuiteTypeOK
<1>2. {"copy", "created", "run", "destroy", "remove", "release"} \subseteq AttemptPlaces
  BY DEF AttemptPlaces
<1>3. CASE StampOwnership(a)
  <2>1. PICK next \in {"copy", "created"} : Works(next)
    BY <1>3 DEF StampOwnership, Advances
  <2>2. place[a] = "stamp" /\ UNCHANGED <<outcome, left>>
    BY <1>3 DEF StampOwnership
  <2> QED BY <1>1, <1>2, <2>1, <2>2, WorkKeeps DEF Early, InWorkspace
<1>4. CASE CopyFixture(a)
  <2>1. PICK f \in Fixtures :
          marker' = [marker EXCEPT ![workspace[a]] =
                       IF f = "marked" THEN "other" ELSE marker[workspace[a]]]
    BY <1>4 DEF CopyFixture
  <2>2. place[a] = "copy" /\ UNCHANGED <<outcome, left>>
    BY <1>4 DEF CopyFixture
  <2>3. marker' = marker \/ marker' = [marker EXCEPT ![workspace[a]] = "other"]
    BY <2>1, <1>1
  <2>4. Works("created")
    BY <2>3, <1>4 DEF CopyFixture, Advances
  <2> QED BY <1>1, <1>2, <2>2, <2>4, WorkKeeps DEF Early, InWorkspace
<1>5. CASE EnterWorkspace(a)
  <2>1. Works("run") /\ place[a] = "created" /\ UNCHANGED <<outcome, left>>
    BY <1>5 DEF EnterWorkspace, Advances
  <2> QED BY <1>1, <1>2, <2>1, WorkKeeps DEF Early, InWorkspace
<1>6. CASE Meddle(a)
  <2>1. place[a] = "run" /\ UNCHANGED <<place, outcome, left>>
    BY <1>6 DEF Meddle
  <2>2. place' = [place EXCEPT ![a] = "run"]
    BY <2>1, <1>1
  <2>3. Works("run")
    BY <2>2, <1>6 DEF Meddle
  <2> QED BY <1>1, <1>2, <2>1, <2>3, WorkKeeps DEF Early, InWorkspace
<1>7. CASE RunEnds(a) \/ RunStops(a)
  <2>1. PICK o \in {"passed", "not passed", "stopped"} : outcome' = [outcome EXCEPT ![a] = o]
    BY <1>7 DEF RunEnds, RunStops
  <2>2. o \in Outcomes
    BY DEF Outcomes
  <2>3. /\ outcome' \in [Attempts -> Outcomes]
        /\ \A b \in Attempts : b # a => outcome'[b] = outcome[b]
    BY <2>1, <2>2, <1>1
  <2>4. Works("destroy") /\ place[a] = "run" /\ left' = left
    BY <1>7 DEF RunEnds, RunStops, Advances
  <2> QED BY <1>1, <1>2, <2>3, <2>4, WorkKeeps DEF Early, InWorkspace
<1>8. CASE Destroy(a)
  <2>1. place[a] = "destroy" /\ UNCHANGED outcome
    BY <1>8 DEF Destroy
  <2>2. CASE Works("remove") /\ left' = left
    BY <1>1, <1>2, <2>1, <2>2, WorkKeeps DEF Early, InWorkspace
  <2>3. CASE Works("release") /\ left' = left \cup {a}
    BY <1>1, <1>2, <2>1, <2>3, WorkKeeps DEF Early, InWorkspace
  <2> QED BY <2>2, <2>3, <1>8 DEF Destroy, Advances
<1>9. CASE RemoveFails(a)
  <2>1. Works("release") /\ place[a] = "remove" /\ UNCHANGED outcome /\ left' = left \cup {a}
    BY <1>9 DEF RemoveFails, Advances
  <2> QED BY <1>1, <1>2, <2>1, WorkKeeps DEF Early, InWorkspace
<1> QED BY <1>3, <1>4, <1>5, <1>6, <1>7, <1>8, <1>9

LEMMA RemoveWorkspaceKeeps ==
  ASSUME SuiteInv, NEW a \in Attempts, RemoveWorkspace(a)
  PROVE  SuiteInv'
<1> USE DEF SuiteInv
<1>1. /\ place[a] = "remove" /\ Advances(a, "release")
      /\ marker' = [marker EXCEPT ![workspace[a]] = "absent"]
      /\ UNCHANGED <<asked, keys, counter, hour, workspace, outcome, left, crashes>>
  BY DEF RemoveWorkspace
<1>2. "release" \in AttemptPlaces
  BY DEF AttemptPlaces
<1>3. /\ place' \in [Attempts -> AttemptPlaces] /\ place'[a] = "release"
      /\ \A b \in Attempts : b # a => place'[b] = place[b]
  BY <1>1, <1>2, AdvancesType
<1>4. workspace[a] \in Paths /\ InWorkspace(a)
  BY <1>1 DEF AttemptsAdvance, InWorkspace
<1>5. /\ marker' \in [Paths -> {"absent", "none", "own", "other"}]
      /\ marker'[workspace[a]] = "absent"
      /\ \A p \in Paths : p # workspace[a] => marker'[p] = marker[p]
  BY <1>1, <1>4, MarkerType
<1>6. SuiteTypeOK'
  BY <1>1, <1>3, <1>5 DEF SuiteTypeOK
<1>7. NamesAreCounted'
  BY <1>1, <1>3, CountKeeps
<1>8. Alone(a) /\ KeyStep(a)
  BY <1>1, <1>3 DEF Alone, KeyStep, HoldsKey
<1>9. PlaceStep(a)
  BY <1>1, <1>3, <1>4, <1>5 DEF PlaceStep, InWorkspace
<1> QED BY <1>1, <1>3, <1>6, <1>7, <1>8, <1>9, AttemptKeeps DEF Early, InWorkspace

LEMMA MakeWorkspaceKeeps ==
  ASSUME SuiteInv, NEW a \in Attempts, MakeWorkspace(a)
  PROVE  SuiteInv'
<1> USE DEF SuiteInv
<1>1. /\ place[a] = "mkdir" /\ Advances(a, "stamp") /\ marker[workspace[a]] = "absent"
      /\ marker' = [marker EXCEPT ![workspace[a]] = "none"]
      /\ UNCHANGED <<asked, keys, counter, hour, workspace, outcome, left, crashes>>
  BY DEF MakeWorkspace
<1>2. "stamp" \in AttemptPlaces
  BY DEF AttemptPlaces
<1>3. /\ place' \in [Attempts -> AttemptPlaces] /\ place'[a] = "stamp"
      /\ \A b \in Attempts : b # a => place'[b] = place[b]
  BY <1>1, <1>2, AdvancesType
<1>4. workspace[a] \in Paths
  BY <1>1 DEF AttemptsAdvance
<1>5. /\ marker' \in [Paths -> {"absent", "none", "own", "other"}]
      /\ marker'[workspace[a]] = "none"
      /\ \A p \in Paths : p # workspace[a] => marker'[p] = marker[p]
  BY <1>1, <1>4, MarkerType
<1>6. SuiteTypeOK'
  BY <1>1, <1>3, <1>5 DEF SuiteTypeOK
<1>7. NamesAreCounted'
  BY <1>1, <1>3, CountKeeps
<1>8. Alone(a) /\ KeyStep(a)
  BY <1>1, <1>3 DEF Alone, KeyStep, HoldsKey
<1>9. PlaceStep(a)
  BY <1>1, <1>3, <1>4, <1>5 DEF PlaceStep, InWorkspace, Blamed
<1>10. outcome'[a] = "none" /\ a \notin left'
  BY <1>1 DEF AttemptsAdvance, Early
<1> QED BY <1>1, <1>3, <1>4, <1>6, <1>7, <1>8, <1>9, <1>10, AttemptKeeps

\* No workspace is made, and the key stays: it was held by an attempt without one.
LEMMA NotCreatedKeeps ==
  ASSUME SuiteInv, NEW a \in Attempts, NotCreated(a)
  PROVE  SuiteInv'
<1> USE DEF SuiteInv
<1>1. /\ place[a] \in Creating /\ Advances(a, "over")
      /\ outcome' = [outcome EXCEPT ![a] = "not created"]
      /\ UNCHANGED <<asked, keys, counter, hour, marker, workspace, left, crashes>>
  BY DEF NotCreated, EndsWith
<1>2. "over" \in AttemptPlaces /\ "not created" \in Outcomes
  BY DEF AttemptPlaces, Outcomes
<1>3. /\ place' \in [Attempts -> AttemptPlaces] /\ place'[a] = "over"
      /\ \A b \in Attempts : b # a => place'[b] = place[b]
      /\ outcome' \in [Attempts -> Outcomes] /\ outcome'[a] = "not created"
      /\ \A b \in Attempts : b # a => outcome'[b] = outcome[b]
  BY <1>1, <1>2, AdvancesType, OutcomeType
<1>4. SuiteTypeOK'
  BY <1>1, <1>3 DEF SuiteTypeOK
<1>5. NamesAreCounted'
  BY <1>1, <1>3, CountKeeps
<1>6. Alone(a) /\ KeyStep(a)
  BY <1>1, <1>3 DEF Alone, KeyStep, HoldsKey
<1>7. PlaceStep(a)
  BY <1>1, <1>3 DEF PlaceStep, InWorkspace, Blamed
<1> QED BY <1>1, <1>3, <1>4, <1>5, <1>6, <1>7, AttemptKeeps DEF Early, InWorkspace

LEMMA ReleaseKeyKeeps ==
  ASSUME SuiteInv, NEW a \in Attempts, ReleaseKey(a)
  PROVE  SuiteInv'
<1> USE DEF SuiteInv
<1>1. /\ place[a] = "release" /\ Advances(a, "over") /\ keys' = keys \ {asked[a]}
      /\ UNCHANGED <<asked, counter, hour, marker, workspace, outcome, left, crashes>>
  BY DEF ReleaseKey
<1>2. "over" \in AttemptPlaces
  BY DEF AttemptPlaces
<1>3. /\ place' \in [Attempts -> AttemptPlaces] /\ place'[a] = "over"
      /\ \A b \in Attempts : b # a => place'[b] = place[b]
  BY <1>1, <1>2, AdvancesType
<1>4. SuiteTypeOK'
  BY <1>1, <1>3 DEF SuiteTypeOK
<1>5. NamesAreCounted'
  BY <1>1, <1>3, CountKeeps
<1>6. Alone(a) /\ KeyStep(a)
  BY <1>1, <1>3 DEF Alone, KeyStep, HoldsKey
<1>7. PlaceStep(a)
  BY <1>1, <1>3 DEF PlaceStep, InWorkspace, Blamed
<1> QED BY <1>1, <1>3, <1>4, <1>5, <1>6, <1>7, AttemptKeeps DEF Early, InWorkspace

\* The runner has named as many workspaces as attempts have got past the naming.
LEMMA NameIsCounted ==
  ASSUME SuiteInv, NEW a \in Attempts, place[a] = "create", asked' = asked,
         place' = [place EXCEPT ![a] = "mkdir"],
         counter' = [counter EXCEPT ![asked[a][1]] = counter[asked[a][1]] + 1]
  PROVE  /\ NamesAreCounted'
         /\ counter' \in [Runners -> 0 .. Cardinality(Attempts)]
         /\ counter[asked[a][1]] + 1 \in 0 .. Cardinality(Attempts)
<1> DEFINE r == asked[a][1]
<1>1. /\ asked[a] \in Runners \X TrialKeys /\ r \in Runners
      /\ counter \in [Runners -> 0 .. Cardinality(Attempts)]
      /\ place \in [Attempts -> AttemptPlaces]
      /\ Cardinality(Attempts) \in Nat
  BY AttemptsAssumption, FS_CardinalityType DEF SuiteInv, SuiteTypeOK
<1>2. \A q \in Runners :
        /\ IsFiniteSet(Named(q)) /\ Cardinality(Named(q)) \in Nat
        /\ counter[q] \in Nat /\ counter[q] <= Cardinality(Named(q))
  <2> TAKE q \in Runners
  <2>1. Named(q) \subseteq Attempts
    BY DEF Named
  <2>2. IsFiniteSet(Named(q))
    BY <2>1, AttemptsAssumption, FS_Subset
  <2> QED BY <2>2, <1>1, FS_CardinalityType DEF SuiteInv, NamesAreCounted
<1>3. Named(r)' = Named(r) \cup {a} /\ a \notin Named(r)
  BY <1>1 DEF Named
<1>4. \A q \in Runners : q # r => Named(q)' = Named(q)
  BY <1>1 DEF Named
<1>5. Cardinality(Named(r)') = Cardinality(Named(r)) + 1
  BY <1>1, <1>2, <1>3, FS_AddElement
<1>6. Cardinality(Named(r)') <= Cardinality(Attempts)
  <2>1. Named(r)' \subseteq Attempts
    BY DEF Named
  <2> QED BY <2>1, AttemptsAssumption, FS_Subset
<1>7. NamesAreCounted'
  <2> SUFFICES ASSUME NEW q \in Runners PROVE counter'[q] <= Cardinality(Named(q))'
    BY DEF NamesAreCounted
  <2>1. CASE q = r
    <3>1. counter'[q] = counter[q] + 1
      BY <2>1, <1>1
    <3> QED BY <3>1, <2>1, <1>2, <1>5
  <2>2. CASE q # r
    <3>1. counter'[q] = counter[q]
      BY <2>2, <1>1
    <3> QED BY <3>1, <2>2, <1>2, <1>4
  <2> QED BY <2>1, <2>2
<1>8. counter[r] + 1 \in 0 .. Cardinality(Attempts)
  BY <1>1, <1>2, <1>5, <1>6
<1> QED BY <1>1, <1>7, <1>8

LEMMA NameWorkspaceKeeps ==
  ASSUME SuiteInv, NEW a \in Attempts, NameWorkspace(a)
  PROVE  SuiteInv'
<1> USE DEF SuiteInv
<1> DEFINE r == asked[a][1]
           label == LabelOf[asked[a][2]]
           n == IF label \in Long THEN 0 ELSE counter[r] + 1
           p == <<label, n, hour>>
<1>1. /\ place[a] = "create" /\ place' = [place EXCEPT ![a] = "mkdir"]
      /\ counter' = [counter EXCEPT ![r] = counter[r] + 1]
      /\ workspace' = [workspace EXCEPT ![a] = p]
      /\ UNCHANGED <<asked, keys, hour, marker, outcome, left, crashes>>
  BY DEF NameWorkspace, Advances
<1>2. /\ NamesAreCounted'
      /\ counter' \in [Runners -> 0 .. Cardinality(Attempts)]
      /\ counter[r] + 1 \in 0 .. Cardinality(Attempts)
  BY <1>1, NameIsCounted
<1>3. p \in Paths
  <2>1. asked[a] \in Runners \X TrialKeys /\ hour \in 0 .. Hours
    BY DEF SuiteTypeOK
  <2>2. label \in {LabelOf[k] : k \in TrialKeys}
    BY <2>1
  <2>3. n \in 0 .. Cardinality(Attempts)
    <3>1. Cardinality(Attempts) \in Nat
      BY AttemptsAssumption, FS_CardinalityType
    <3>2. 0 \in 0 .. Cardinality(Attempts)
      BY <3>1
    <3> QED BY <3>2, <1>2
  <2> HIDE DEF label, n
  <2> QED BY <2>1, <2>2, <2>3 DEF Paths
<1> HIDE DEF p, r
<1>4. "mkdir" \in AttemptPlaces
  BY DEF AttemptPlaces
<1>5. /\ place' \in [Attempts -> AttemptPlaces] /\ place'[a] = "mkdir"
      /\ \A b \in Attempts : b # a => place'[b] = place[b]
  BY <1>1, <1>4, AdvancesType DEF Advances
<1>6. /\ workspace' \in [Attempts -> Paths \cup {Nowhere}] /\ workspace'[a] = p
      /\ \A b \in Attempts : b # a => workspace'[b] = workspace[b]
  BY <1>1, <1>3 DEF SuiteTypeOK
<1>7. SuiteTypeOK'
  BY <1>1, <1>2, <1>5, <1>6 DEF SuiteTypeOK
<1>8. Alone(a) /\ KeyStep(a)
  BY <1>1, <1>5, <1>6 DEF Alone, KeyStep, HoldsKey
<1>9. outcome[a] = "none" /\ a \notin left
  BY <1>1 DEF AttemptsAdvance, Early
<1>10. PlaceStep(a)
  BY <1>1, <1>5, <1>9 DEF PlaceStep, InWorkspace, Blamed
<1> QED BY <1>1, <1>2, <1>3, <1>5, <1>6, <1>7, <1>8, <1>9, <1>10, AttemptKeeps

\* Nothing but the clock and the crash counter moves.
LEMMA StandingStill ==
  ASSUME SuiteInv, UNCHANGED <<asked, place, keys, counter, marker, workspace, outcome, left>>
  PROVE  NamesAreCounted' /\ AttemptsAdvance' /\ KeysAreKept' /\ PlacesAreKept'
<1>1. \A a \in Attempts :
        /\ (InWorkspace(a)' <=> InWorkspace(a)) /\ (HoldsKey(a)' <=> HoldsKey(a))
        /\ Blamed(a)' <=> Blamed(a)
  BY DEF InWorkspace, HoldsKey, Blamed
<1>2. NamesAreCounted'
  BY DEF SuiteInv, NamesAreCounted, Named
<1>3. AttemptsAdvance'
  BY <1>1 DEF SuiteInv, AttemptsAdvance
<1>4. KeysAreKept'
  <2>1. /\ \A a \in Attempts : HoldsKey(a)' => asked'[a] \in keys'
        /\ \A a, b \in Attempts : a # b => (HoldsKey(a)' /\ HoldsKey(b)' => asked'[a] # asked'[b])
    BY <1>1 DEF SuiteInv, KeysAreKept
  <2>2. \A k \in keys' : \E a \in Attempts :
          asked'[a] = k /\ (HoldsKey(a)' \/ outcome'[a] = "not created")
    BY <1>1 DEF SuiteInv, KeysAreKept
  <2> QED BY <2>1, <2>2 DEF KeysAreKept
<1>5. PlacesAreKept'
  <2>1. /\ \A a \in Attempts : InWorkspace(a)' => marker'[workspace'[a]] # "absent"
        /\ \A a, b \in Attempts :
             a # b => (InWorkspace(a)' /\ InWorkspace(b)' => workspace'[a] # workspace'[b])
    BY <1>1 DEF SuiteInv, PlacesAreKept
  <2>2. \A q \in Paths : marker'[q] # "absent" => \E a \in Attempts :
          workspace'[a] = q /\ Blamed(a)'
    BY <1>1 DEF SuiteInv, PlacesAreKept
  <2> QED BY <2>1, <2>2 DEF PlacesAreKept
<1> QED BY <1>2, <1>3, <1>4, <1>5

LEMMA ClockTickKeeps ==
  ASSUME SuiteInv, ClockTick
  PROVE  SuiteInv'
<1>1. /\ hour < Hours /\ hour' = hour + 1
      /\ UNCHANGED <<asked, place, keys, counter, marker, workspace, outcome, left, crashes>>
  BY DEF ClockTick
<1>2. hour' \in 0 .. Hours
  BY <1>1, SuiteAssumption DEF SuiteInv, SuiteTypeOK
<1>3. SuiteTypeOK'
  BY <1>1, <1>2 DEF SuiteInv, SuiteTypeOK
<1> QED BY <1>1, <1>3, StandingStill DEF SuiteInv

\* The keys of a runner go with its process, its directories stay and are
\* blamed on the crash.
LEMMA CrashRunnerKeeps ==
  ASSUME SuiteInv, NEW r \in Runners, CrashRunner(r)
  PROVE  SuiteInv'
<1> DEFINE dead == {a \in Attempts : asked[a][1] = r /\ place[a] \notin {"idle", "over"}}
<1>1. /\ crashes < MaxCrashes /\ crashes' = crashes + 1
      /\ keys' = {k \in keys : k[1] # r}
      /\ counter' = [counter EXCEPT ![r] = 0]
      /\ place' = [a \in Attempts |-> IF a \in dead THEN "over" ELSE place[a]]
      /\ outcome' = [a \in Attempts |-> IF a \in dead THEN "crashed" ELSE outcome[a]]
      /\ UNCHANGED <<asked, hour, marker, workspace, left>>
  BY DEF CrashRunner
<1>2. \A a \in Attempts :
        /\ a \in dead => place'[a] = "over" /\ outcome'[a] = "crashed"
        /\ a \notin dead => place'[a] = place[a] /\ outcome'[a] = outcome[a]
        /\ place'[a] \notin {"idle", "over"} => a \notin dead /\ asked[a][1] # r
  BY <1>1
<1>3. Cardinality(Attempts) \in Nat
  BY AttemptsAssumption, FS_CardinalityType
<1>4. SuiteTypeOK'
  <2>1. place' \in [Attempts -> AttemptPlaces] /\ outcome' \in [Attempts -> Outcomes]
    BY <1>1 DEF SuiteInv, SuiteTypeOK, AttemptPlaces, Outcomes
  <2>2. crashes' \in 0 .. MaxCrashes /\ counter' \in [Runners -> 0 .. Cardinality(Attempts)]
    BY <1>1, <1>3, SuiteAssumption DEF SuiteInv, SuiteTypeOK
  <2>3. keys' \subseteq Runners \X TrialKeys
    BY <1>1 DEF SuiteInv, SuiteTypeOK
  <2> QED BY <1>1, <2>1, <2>2, <2>3 DEF SuiteInv, SuiteTypeOK
<1>5. NamesAreCounted'
  <2> SUFFICES ASSUME NEW q \in Runners PROVE counter'[q] <= Cardinality(Named(q))'
    BY DEF NamesAreCounted
  <2>1. Named(q) \subseteq Named(q)' /\ Named(q)' \subseteq Attempts
    BY <1>1, <1>2 DEF Named
  <2>2. IsFiniteSet(Named(q)')
    BY <2>1, AttemptsAssumption, FS_Subset
  <2>3. /\ IsFiniteSet(Named(q)) /\ Cardinality(Named(q)) <= Cardinality(Named(q)')
        /\ Cardinality(Named(q)) \in Nat /\ Cardinality(Named(q)') \in Nat
    BY <2>1, <2>2, FS_Subset, FS_CardinalityType
  <2>4. counter[q] \in Int /\ counter[q] <= Cardinality(Named(q))
    BY <1>3 DEF SuiteInv, SuiteTypeOK, NamesAreCounted
  <2>5. counter'[q] \in {0, counter[q]}
    BY <1>1 DEF SuiteInv, SuiteTypeOK
  <2> QED BY <2>3, <2>4, <2>5
<1>6. AttemptsAdvance'
  BY <1>1, <1>2 DEF SuiteInv, AttemptsAdvance, InWorkspace, Early
<1>7. \A a \in Attempts :
        /\ HoldsKey(a)' => HoldsKey(a) /\ asked[a][1] # r
        /\ InWorkspace(a)' => InWorkspace(a)
        /\ Blamed(a) => Blamed(a)'
  BY <1>1, <1>2 DEF HoldsKey, InWorkspace, Blamed
<1>8. KeysAreKept'
  <2>1. \A a \in Attempts : HoldsKey(a)' => asked'[a] \in keys'
    BY <1>1, <1>7 DEF SuiteInv, KeysAreKept
  <2>2. \A a, b \in Attempts : a # b => (HoldsKey(a)' /\ HoldsKey(b)' => asked'[a] # asked'[b])
    BY <1>1, <1>7 DEF SuiteInv, KeysAreKept
  <2>3. ASSUME NEW k \in keys'
        PROVE  \E a \in Attempts : asked'[a] = k /\ (HoldsKey(a)' \/ outcome'[a] = "not created")
    <3>1. k \in keys /\ k[1] # r
      BY <1>1, <2>3
    <3>2. PICK a \in Attempts : asked[a] = k /\ (HoldsKey(a) \/ outcome[a] = "not created")
      BY <3>1 DEF SuiteInv, KeysAreKept
    <3>3. a \notin dead
      BY <3>1, <3>2
    <3>4. place'[a] = place[a] /\ outcome'[a] = outcome[a]
      BY <3>3, <1>2
    <3> QED BY <3>2, <3>4, <1>1 DEF HoldsKey
  <2> QED BY <2>1, <2>2, <2>3 DEF KeysAreKept
<1>9. PlacesAreKept'
  BY <1>1, <1>7 DEF SuiteInv, PlacesAreKept
<1> QED BY <1>4, <1>5, <1>6, <1>8, <1>9 DEF SuiteInv

LEMMA SuiteInvInductive == SuiteSpec => []SuiteInv
<1>1. SuiteInv /\ [SuiteNext]_suiteVars => SuiteInv'
  <2> SUFFICES ASSUME SuiteInv, [SuiteNext]_suiteVars PROVE SuiteInv'
    OBVIOUS
  <2>1. CASE UNCHANGED suiteVars
    <3>1. SuiteTypeOK'
      BY <2>1 DEF suiteVars, SuiteInv, SuiteTypeOK
    <3> QED BY <3>1, <2>1, StandingStill DEF suiteVars, SuiteInv
  <2>2. CASE ClockTick
    BY <2>2, ClockTickKeeps
  <2>3. ASSUME NEW r \in Runners, CrashRunner(r) PROVE SuiteInv'
    BY <2>3, CrashRunnerKeeps
  <2>4. ASSUME NEW a \in Attempts,
               \/ TakeKey(a) \/ NameWorkspace(a) \/ MakeWorkspace(a) \/ NotCreated(a)
               \/ RemoveWorkspace(a) \/ ReleaseKey(a)
        PROVE  SuiteInv'
    BY <2>4, TakeKeyKeeps, NameWorkspaceKeeps, MakeWorkspaceKeeps, NotCreatedKeeps,
       RemoveWorkspaceKeeps, ReleaseKeyKeeps
  <2>5. ASSUME NEW a \in Attempts,
               \/ StampOwnership(a) \/ CopyFixture(a) \/ EnterWorkspace(a) \/ Meddle(a)
               \/ RunEnds(a) \/ RunStops(a) \/ Destroy(a) \/ RemoveFails(a)
        PROVE  SuiteInv'
    BY <2>5, InWorkKeeps
  <2> QED BY <2>1, <2>2, <2>3, <2>4, <2>5 DEF SuiteNext
<1> QED BY <1>1, SuiteInitHolds, PTL DEF SuiteSpec

\* The attempts, keys, counters, paths and markers of runTask (Suite.ts:129-216)
\* have their types, and no counter passes the number of attempts.
THEOREM SuiteTypeCorrect == SuiteSpec => []SuiteTypeOK
<1>1. SuiteInv => SuiteTypeOK
  BY DEF SuiteInv
<1> QED BY <1>1, SuiteInvInductive, PTL

\* Whatever the runners, labels, fixtures and crashes, two trials at work never
\* share a directory, nor in one runner a key, and what nobody uses was left by
\* a failed creation, a crash or a refused removal (Suite.ts:129-216,
\* Env.ts:84-181).
THEOREM TrialsAreApart == SuiteSpec => []TrialsKeepApart
<1> QED BY KeptApart, SuiteInvInductive, PTL

-----------------------------------------------------------------------------

(***************************************************************************)
(* The tasks and their jobs (Tasks).  TasksInv adds to the properties what *)
(* makes them inductive: which revision of a benchmark, of a draft and of a *)
(* task an operation has read, what its rows are promised to, and whose an *)
(* operation and a job are.                                                *)
(***************************************************************************)

RowStates == {"pending"} \cup TrialEnds
Tables == UNION {[d -> RowStates] : d \in SUBSET TrialIds}
JobStatuses == {"running", "completed", "failed"}
JobEvents == {"job.started", "job.completed"}

JobRecords ==
  [task : TaskIds, revision : Revisions, status : JobStatuses, rows : Tables,
   scores : SUBSET TrialIds, leader : TrialIds \cup {Absent}, events : Seq(JobEvents)]
ToldRecords == [status : JobStatuses, rows : Tables, scores : SUBSET TrialIds]
OpRecords ==
  [at : OpSteps, task : TaskIds \cup {Absent}, read : Specs \cup {Absent},
   change : Changes \cup {Absent}, trials : Nat, judge : Profiles \cup {Absent},
   with : SUBSET Profiles, job : Nat, told : ToldRecords \cup {Absent}]

StoreFits ==
  /\ revisions \in [Revisions -> Specs \cup {Absent}]
  /\ current \in [TaskIds -> Revisions \cup {Absent}]
  /\ profiles \subseteq Profiles
  /\ jobs \in Seq(JobRecords)
  /\ op \in [Users -> OpRecords]
  /\ ops \in 0 .. MaxOps
  /\ promised \in [TaskIds -> Changes]

\* A revision is stored under its hash, and a task has a stored revision.
RevisionsFit ==
  /\ \A r \in Revisions : revisions[r] # Absent => RevisionOf[revisions[r]] = r
  /\ \A t \in TaskIds : current[t] # Absent =>
       revisions[current[t]] # Absent /\ revisions[current[t]].task = t

PromisesFit ==
  /\ \A t \in TaskIds : current[t] = Absent => promised[t] = NoPromise
  /\ UpdatesAreKept

AllPending(rows) == \A i \in DOMAIN rows : rows[i] = "pending"
NonePending(rows) == \A i \in DOMAIN rows : rows[i] # "pending"

JobFits(j) ==
  /\ revisions[jobs[j].revision] # Absent
  /\ revisions[jobs[j].revision].task = jobs[j].task
  /\ DOMAIN jobs[j].rows # {} =>
       /\ Range(revisions[jobs[j].revision].models) \subseteq profiles
       /\ \E n \in Trials :
            DOMAIN jobs[j].rows = Range(revisions[jobs[j].revision].models) \X (1 .. n)
  /\ jobs[j].events = <<>> => AllPending(jobs[j].rows)
  /\ jobs[j].status # "running" =>
       /\ Last(jobs[j].events) = "job.completed"
       /\ NonePending(jobs[j].rows)
  /\ \A i \in DOMAIN jobs[j].rows : jobs[j].rows[i] = "scored" => i \in jobs[j].scores
  /\ jobs[j].scores \subseteq DOMAIN jobs[j].rows
  /\ jobs[j].leader \in jobs[j].scores \cup {Absent}

\* A start owns the job it created, until it leaves.
Owner == {u \in Users : op[u].at \in {"trials", "history", "run"}}
Owned(u) == op[u].job \in 1 .. Len(jobs) /\ jobs[op[u].job].status = "running"

StartFits(u) ==
  /\ op[u].at \in {"resolve", "job", "trials"} =>
       /\ op[u].task \in TaskIds
       /\ op[u].read \in Specs
       /\ op[u].trials \in Trials
       /\ revisions[RevisionOf[op[u].read]] = op[u].read
  /\ op[u].at \in {"job", "trials"} =>
       /\ op[u].with = Range(op[u].read.models)
       /\ op[u].with \subseteq profiles
  /\ u \in Owner => Owned(u)
  /\ op[u].at = "trials" =>
       /\ jobs[op[u].job].revision = RevisionOf[op[u].read]
       /\ jobs[op[u].job].scores = {}
       /\ jobs[op[u].job].events = <<>>
  /\ op[u].at = "history" => AllPending(jobs[op[u].job].rows)
  /\ op[u].at = "run" => jobs[op[u].job].events # <<>>

UpdateFits(u) ==
  op[u].at = "update" =>
    /\ op[u].task \in TaskIds /\ op[u].change \in Changes
    /\ op[u].read \in Specs /\ op[u].read.task = op[u].task

\* A list tells of all trials of job i, or is cut.
TellsAll(told, i) ==
  DOMAIN told.rows = DOMAIN jobs[i].rows \/ Cardinality(DOMAIN told.rows) = ListCap
TellsScores(told) ==
  \/ \A k \in DOMAIN told.rows : told.rows[k] = "scored" => k \in told.scores
  \/ Cardinality(told.scores) = ListCap

\* What a status operation was told: a job that has ended stays as it is,
\* and a trial that was scored keeps its score.
StatusFits(u) ==
  /\ op[u].at \in {"list trials", "list scores", "answer"} => op[u].job \in 1 .. Len(jobs)
  /\ op[u].at \in {"list trials", "list scores", "answer"} => op[u].told \in ToldRecords
  /\ op[u].at = "list trials" =>
       (op[u].told.status # "running" => jobs[op[u].job].status # "running")
  /\ op[u].at \in {"list scores", "answer"} =>
       (op[u].told.status # "running" =>
          /\ jobs[op[u].job].status # "running"
          /\ NonePending(op[u].told.rows) /\ TellsAll(op[u].told, op[u].job))
  /\ op[u].at = "list scores" =>
       \A i \in DOMAIN op[u].told.rows :
         op[u].told.rows[i] = "scored" => i \in jobs[op[u].job].scores
  /\ op[u].at = "answer" => TellsScores(op[u].told)

OpFits(u) ==
  op[u].job \in 0 .. Len(jobs) /\ StartFits(u) /\ UpdateFits(u) /\ StatusFits(u)

TasksInv ==
  /\ StoreFits
  /\ RevisionsFit
  /\ PromisesFit
  /\ \A j \in 1 .. Len(jobs) : JobFits(j)
  /\ \A u \in Users : OpFits(u)
  /\ \A u, v \in Owner : u # v => op[u].job # op[v].job

-----------------------------------------------------------------------------
(* Data *)

LEMMA TablesHold ==
  /\ <<>> \in Tables /\ DOMAIN <<>> = {}
  /\ \A rows \in Tables : DOMAIN rows \subseteq TrialIds /\ rows \in [DOMAIN rows -> RowStates]
  /\ \A rows, d : d \subseteq TrialIds /\ rows \in [d -> RowStates] => rows \in Tables
<1>1. <<>> \in [{} -> RowStates] /\ DOMAIN <<>> = {}
  OBVIOUS
<1>2. \A rows, d : d \subseteq TrialIds /\ rows \in [d -> RowStates] => rows \in Tables
  BY DEF Tables
<1>3. \A rows \in Tables : DOMAIN rows \subseteq TrialIds /\ rows \in [DOMAIN rows -> RowStates]
  BY DEF Tables
<1> QED BY <1>1, <1>2, <1>3

LEMMA NoOpFits == NoOp \in OpRecords /\ NoOp.at = "idle" /\ NoOp.job = 0
BY DEF NoOp, OpRecords, OpSteps

LEMMA SpecsHaveRevisions ==
  ASSUME NEW s \in Specs
  PROVE  RevisionOf[s] \in Revisions /\ RevisionOf[s] # Absent /\ s # Absent
BY TasksAssumption DEF Revisions

LEMMA ProfilesOfSpecs ==
  ASSUME NEW s \in Specs
  PROVE  Range(s.models) \subseteq Profiles
BY DEF Specs, Profiles

LEMMA MergedFits ==
  ASSUME NEW s \in Specs, NEW change \in Changes
  PROVE  /\ Merged(s, change) \in Specs /\ Merged(s, change).task = s.task
         /\ Merged(s, change).problem =
              IF change.problem = Absent THEN s.problem ELSE change.problem
         /\ Merged(s, change).models =
              IF change.models = Absent THEN s.models ELSE change.models
BY DEF Merged, Specs, Changes

LEMMA MergedPromise ==
  ASSUME NEW p \in Changes, NEW change \in Changes
  PROVE  /\ Merged(p, change) \in Changes
         /\ Merged(p, change).problem =
              IF change.problem = Absent THEN p.problem ELSE change.problem
         /\ Merged(p, change).models =
              IF change.models = Absent THEN p.models ELSE change.models
BY DEF Merged, Changes

LEMMA TasksInitHolds == TasksInit => TasksInv
<1> SUFFICES ASSUME TasksInit PROVE TasksInv
  OBVIOUS
<1> USE DEF TasksInit
<1>1. StoreFits
  BY NoOpFits, TasksAssumption DEF StoreFits, NoPromise, Changes
<1>2. RevisionsFit /\ PromisesFit
  BY TasksAssumption DEF RevisionsFit, PromisesFit, UpdatesAreKept, NoPromise
<1>3. \A j \in 1 .. Len(jobs) : JobFits(j)
  OBVIOUS
<1>4. Owner = {}
  BY NoOpFits DEF Owner
<1>5. \A u \in Users : OpFits(u)
  <2> SUFFICES ASSUME NEW u \in Users PROVE OpFits(u)
    OBVIOUS
  <2>1. op[u].at = "idle" /\ op[u].job = 0 /\ u \notin Owner
    BY <1>4, NoOpFits
  <2>2. op[u].job \in 0 .. Len(jobs)
    BY <2>1
  <2> QED BY <2>1, <2>2 DEF OpFits, StartFits, UpdateFits, StatusFits
<1> QED BY <1>1, <1>2, <1>3, <1>4, <1>5 DEF TasksInv

-----------------------------------------------------------------------------
(* What a step leaves alone *)

\* Revisions and profiles are only added.
Grows ==
  /\ \A r \in Revisions : revisions[r] # Absent => revisions'[r] = revisions[r]
  /\ profiles \subseteq profiles'

LEMMA JobsStand ==
  ASSUME TasksInv, StoreFits', Grows, NEW j \in 1 .. Len(jobs),
         j \in 1 .. Len(jobs'), jobs'[j] = jobs[j]
  PROVE  JobFits(j)'
<1>1. JobFits(j) /\ jobs[j] \in JobRecords
  BY DEF TasksInv, StoreFits
<1>2. revisions'[jobs[j].revision] = revisions[jobs[j].revision]
  BY <1>1 DEF Grows, JobFits, JobRecords
<1> QED BY <1>1, <1>2 DEF Grows, JobFits

\* The operation of another user: the job of an owner changes only by its
\* own hand, and the scores of a job are only added.
LEMMA OpStands ==
  ASSUME TasksInv, StoreFits', Grows, NEW v \in Users, op'[v] = op[v],
         Len(jobs) <= Len(jobs'),
         v \in Owner => jobs'[op[v].job] = jobs[op[v].job],
         \A j \in 1 .. Len(jobs) :
           /\ jobs[j].status # "running" => jobs'[j] = jobs[j]
           /\ jobs[j].scores \subseteq jobs'[j].scores
  PROVE  OpFits(v)'
<1>t. OpFits(v) /\ StoreFits /\ op[v] \in OpRecords /\ Len(jobs) \in Nat /\ Len(jobs') \in Nat
  BY DEF TasksInv, StoreFits
<1>1. op'[v].job \in 0 .. Len(jobs')
  BY <1>t DEF OpFits
<1>2. (v \in Owner)' <=> v \in Owner
  BY DEF Owner
<1>3. StartFits(v)'
  <2>1. op[v].at \in {"resolve", "job", "trials"} =>
          revisions'[RevisionOf[op[v].read]] = op[v].read
    BY <1>t, SpecsHaveRevisions DEF OpFits, StartFits, Grows
  <2>2. v \in Owner => Owned(v)'
    BY <1>t DEF OpFits, StartFits, Owned
  <2>3. op[v].at \in {"trials", "history", "run"} => v \in Owner
    BY DEF Owner
  <2> QED BY <1>t, <1>2, <2>1, <2>2, <2>3 DEF OpFits, StartFits, Grows
<1>4. UpdateFits(v)'
  BY <1>t DEF OpFits, UpdateFits
<1>5. StatusFits(v)'
  <2>1. StatusFits(v)
    BY <1>t DEF OpFits
  <2>2. CASE op[v].at \in {"list trials", "list scores", "answer"}
    <3>0. op[v].job \in 1 .. Len(jobs)
      BY <2>1, <2>2 DEF StatusFits
    <3>1. op[v].job \in 1 .. Len(jobs')
      BY <1>t, <3>0
    <3>2. PICK j \in 1 .. Len(jobs) : j = op[v].job
      BY <3>0
    <3>5. /\ jobs[j].status # "running" => jobs'[j] = jobs[j]
          /\ jobs[j].scores \subseteq jobs'[j].scores
      OBVIOUS
    <3>3. CASE op[v].at = "list trials"
      BY <2>1, <3>1, <3>2, <3>5, <3>3 DEF StatusFits, NonePending
    <3>6. op[v].at \in {"list scores", "answer"} =>
            (op[v].told.status # "running" =>
               /\ jobs'[op[v].job].status # "running"
               /\ NonePending(op[v].told.rows)
               /\ \/ DOMAIN op[v].told.rows = DOMAIN jobs'[op[v].job].rows
                  \/ Cardinality(DOMAIN op[v].told.rows) = ListCap)
      BY <2>1, <3>2, <3>5 DEF StatusFits, TellsAll
    <3>4. CASE op[v].at = "list scores"
      BY <2>1, <3>1, <3>2, <3>5, <3>4, <3>6 DEF StatusFits, NonePending, TellsAll
    <3>7. CASE op[v].at = "answer"
      BY <2>1, <3>1, <3>6, <3>7 DEF StatusFits, NonePending, TellsAll, TellsScores
    <3> QED BY <2>2, <3>3, <3>4, <3>7
  <2>3. CASE op[v].at \notin {"list trials", "list scores", "answer"}
    BY <2>3 DEF StatusFits
  <2> QED BY <2>2, <2>3
<1> QED BY <1>1, <1>3, <1>4, <1>5 DEF OpFits

\* A step of one user keeps the invariant when what it writes fits.
LEMMA StepStands ==
  ASSUME TasksInv, StoreFits', RevisionsFit', PromisesFit', Grows, NEW u \in Users,
         \A v \in Users \ {u} : op'[v] = op[v],
         OpFits(u)',
         Len(jobs) <= Len(jobs'),
         \A j \in 1 .. Len(jobs) :
           \/ jobs'[j] = jobs[j]
           \/ /\ u \in Owner /\ j = op[u].job
              /\ jobs[j].scores \subseteq jobs'[j].scores
              /\ JobFits(j)',
         \A j \in (1 .. Len(jobs')) \ (1 .. Len(jobs)) : JobFits(j)',
         (u \in Owner)' =>
           \/ u \in Owner /\ op'[u].job = op[u].job
           \/ op'[u].job \notin 1 .. Len(jobs)
  PROVE  TasksInv'
<1>t. /\ Len(jobs) \in Nat /\ Len(jobs') \in Nat
      /\ \A v \in Users : OpFits(v)
      /\ \A v \in Owner : Owned(v)
  <2>1. Len(jobs) \in Nat /\ Len(jobs') \in Nat
    BY DEF TasksInv, StoreFits
  <2>2. \A v \in Users : OpFits(v)
    BY DEF TasksInv
  <2>3. \A v \in Owner : Owned(v)
    BY <2>2 DEF OpFits, StartFits, Owner
  <2> QED BY <2>1, <2>2, <2>3
<1>1. \A j \in 1 .. Len(jobs') : JobFits(j)'
  <2> SUFFICES ASSUME NEW j \in 1 .. Len(jobs') PROVE JobFits(j)'
    OBVIOUS
  <2>1. CASE j \in 1 .. Len(jobs)
    BY <2>1, JobsStand
  <2> QED BY <2>1
<1>2. \A v \in Users \ {u} : OpFits(v)'
  <2> SUFFICES ASSUME NEW v \in Users \ {u} PROVE OpFits(v)'
    OBVIOUS
  <2>1. v \in Owner => jobs'[op[v].job] = jobs[op[v].job]
    <3> SUFFICES ASSUME v \in Owner PROVE jobs'[op[v].job] = jobs[op[v].job]
      OBVIOUS
    <3>1. op[v].job \in 1 .. Len(jobs)
      BY <1>t DEF Owned
    <3>2. u \in Owner => op[v].job # op[u].job
      BY DEF TasksInv
    <3> QED BY <3>1, <3>2
  <2>2. ASSUME NEW j \in 1 .. Len(jobs)
        PROVE  /\ jobs[j].status # "running" => jobs'[j] = jobs[j]
               /\ jobs[j].scores \subseteq jobs'[j].scores
    <3>1. u \in Owner => jobs[op[u].job].status = "running"
      BY <1>t DEF Owned
    <3> QED BY <3>1
  <2> QED BY <2>1, <2>2, OpStands
<1>3. \A v \in Users \ {u} : v \in Owner' <=> v \in Owner
  BY DEF Owner
<1>4. \A v, w \in Owner' : v # w => op'[v].job # op'[w].job
  <2>1. \A v \in Owner' \ {u} : u \in Owner' => op'[v].job # op'[u].job
    <3> SUFFICES ASSUME NEW v \in Owner' \ {u}, u \in Owner' PROVE op'[v].job # op'[u].job
      OBVIOUS
    <3>1. v \in Users \ {u} /\ v \in Owner /\ op'[v] = op[v]
      BY <1>3 DEF Owner
    <3>2. op[v].job \in 1 .. Len(jobs)
      BY <1>t, <3>1 DEF Owned
    <3>3. u \in Owner => op[v].job # op[u].job
      BY <3>1 DEF TasksInv
    <3> QED BY <3>1, <3>2, <3>3
  <2>2. \A v, w \in Owner' \ {u} : v # w => op'[v].job # op'[w].job
    <3>1. \A v \in Owner' \ {u} : v \in Owner /\ op'[v] = op[v]
      BY <1>3 DEF Owner
    <3> QED BY <3>1 DEF TasksInv
  <2> QED BY <2>1, <2>2
<1> QED BY <1>1, <1>2, <1>4 DEF TasksInv

\* An operation that only moves on.
LEMMA MoveStands ==
  ASSUME TasksInv, NEW u \in Users, NEW r \in OpRecords,
         op' = [op EXCEPT ![u] = r], ops' \in 0 .. MaxOps,
         UNCHANGED <<revisions, current, jobs, promised>>,
         profiles \subseteq profiles', profiles' \subseteq Profiles,
         OpFits(u)',
         r.at \in {"trials", "history", "run"} => u \in Owner /\ r.job = op[u].job
  PROVE  TasksInv'
<1>t. StoreFits /\ RevisionsFit /\ PromisesFit
  BY DEF TasksInv
<1>1. StoreFits' /\ RevisionsFit' /\ PromisesFit' /\ Grows
  BY <1>t DEF StoreFits, RevisionsFit, PromisesFit, UpdatesAreKept, SpecOfTask, Grows
<1>2. op'[u] = r /\ \A v \in Users \ {u} : op'[v] = op[v]
  BY <1>t DEF StoreFits
<1>3. Len(jobs) \in Nat /\ Len(jobs') = Len(jobs)
  BY <1>t DEF StoreFits
<1>4. (u \in Owner)' => u \in Owner /\ op'[u].job = op[u].job
  BY <1>2 DEF Owner
<1> QED BY <1>1, <1>2, <1>3, <1>4, StepStands

LEMMA LeaveStands ==
  ASSUME TasksInv, NEW u \in Users, Leaves(u), ops' \in 0 .. MaxOps,
         UNCHANGED <<revisions, current, profiles, jobs, promised>>
  PROVE  TasksInv'
<1>1. op'[u] = NoOp /\ Len(jobs) \in Nat
  BY DEF TasksInv, StoreFits, Leaves
<1>2. op'[u].at = "idle" /\ op'[u].job = 0
  BY <1>1, NoOpFits
<1>3. OpFits(u)'
  <2>1. op'[u].job \in 0 .. Len(jobs')
    BY <1>1, <1>2
  <2> QED BY <1>2, <2>1 DEF OpFits, StartFits, UpdateFits, StatusFits, Owner
<1>4. profiles' = profiles /\ profiles \subseteq Profiles
  BY DEF TasksInv, StoreFits
<1> QED BY <1>3, <1>4, MoveStands, NoOpFits DEF Leaves

-----------------------------------------------------------------------------
(* Tasks *)

\* What upsertTask writes: a revision and the task that names it.
LEMMA StoredStands ==
  ASSUME TasksInv, NEW spec \in Specs, NEW change \in Changes, NEW fresh \in BOOLEAN,
         MayStore(spec), Stored(spec),
         change.problem # Absent => spec.problem = change.problem,
         change.models # Absent => spec.models = change.models,
         fresh /\ change.problem = Absent =>
           current[spec.task] # Absent /\ spec.problem = SpecOfTask(spec.task).problem,
         fresh /\ change.models = Absent =>
           current[spec.task] # Absent /\ spec.models = SpecOfTask(spec.task).models,
         promised' = [promised EXCEPT ![spec.task] = Promise(spec, change, fresh)]
  PROVE  /\ revisions' \in [Revisions -> Specs \cup {Absent}]
         /\ current' \in [TaskIds -> Revisions \cup {Absent}]
         /\ promised' \in [TaskIds -> Changes]
         /\ RevisionsFit' /\ PromisesFit'
         /\ \A r \in Revisions : revisions[r] # Absent => revisions'[r] = revisions[r]
<1> DEFINE r == RevisionOf[spec]
           t == spec.task
<1>t. /\ StoreFits /\ RevisionsFit /\ PromisesFit
      /\ r \in Revisions /\ r # Absent /\ spec # Absent /\ t \in TaskIds
      /\ NoPromise \in Changes
  BY SpecsHaveRevisions DEF TasksInv, Specs, NoPromise, Changes
<1>1. /\ \A q \in Revisions : revisions[q] # Absent => revisions'[q] = revisions[q]
      /\ revisions' \in [Revisions -> Specs \cup {Absent}]
      /\ current' \in [TaskIds -> Revisions \cup {Absent}]
      /\ revisions'[r] = spec
      /\ \A q \in Revisions \ {r} : revisions'[q] = revisions[q]
      /\ \A s \in TaskIds \ {t} : current'[s] = current[s]
  BY <1>t DEF StoreFits, Stored, MayStore
<1>2. Promise(spec, change, fresh) \in Changes
  BY <1>t, MergedPromise DEF Promise, StoreFits
<1>3. promised' \in [TaskIds -> Changes]
  BY <1>t, <1>2 DEF StoreFits
<1>4. current'[t] = r \/ (current'[t] = current[t] /\ revisions[r] = spec)
  BY <1>t DEF StoreFits, Stored
<1>5. RevisionsFit'
  <2>1. \A q \in Revisions : revisions'[q] # Absent => RevisionOf[revisions'[q]] = q
    BY <1>t, <1>1 DEF RevisionsFit
  <2>2. \A s \in TaskIds : current'[s] # Absent =>
          revisions'[current'[s]] # Absent /\ revisions'[current'[s]].task = s
    <3> SUFFICES ASSUME NEW s \in TaskIds, current'[s] # Absent
                 PROVE  revisions'[current'[s]] # Absent /\ revisions'[current'[s]].task = s
      OBVIOUS
    <3>1. CASE current'[s] = current[s]
      BY <1>t, <1>1, <3>1 DEF RevisionsFit, StoreFits
    <3>2. CASE current'[s] # current[s]
      BY <1>t, <1>1, <1>4, <3>2
    <3> QED BY <3>1, <3>2
  <2> QED BY <2>1, <2>2 DEF RevisionsFit
<1>6. ASSUME NEW s \in TaskIds, s # t
      PROVE  /\ current'[s] = Absent => promised'[s] = NoPromise
             /\ promised'[s].problem # Absent => SpecOfTask(s)'.problem = promised'[s].problem
             /\ promised'[s].models # Absent => SpecOfTask(s)'.models = promised'[s].models
  <2>1. current'[s] = current[s] /\ promised'[s] = promised[s]
    BY <1>t, <1>1, <1>6 DEF StoreFits
  <2>2. current[s] = Absent \/ revisions'[current[s]] = revisions[current[s]]
    BY <1>t, <1>1 DEF RevisionsFit, StoreFits
  <2> QED BY <1>t, <2>1, <2>2 DEF PromisesFit, UpdatesAreKept, SpecOfTask, NoPromise
<1>7. /\ current'[t] = Absent => promised'[t] = NoPromise
      /\ promised'[t].problem # Absent => SpecOfTask(t)'.problem = promised'[t].problem
      /\ promised'[t].models # Absent => SpecOfTask(t)'.models = promised'[t].models
  <2>0. promised'[t] = Promise(spec, change, fresh)
    BY <1>t DEF StoreFits
  <2>1. CASE revisions[r] = spec /\ current[t] # r
    BY <2>0, <2>1 DEF Promise, NoPromise
  <2>2. CASE ~(revisions[r] = spec /\ current[t] # r)
    <3>1. current'[t] = r /\ SpecOfTask(t)' = spec
      BY <1>t, <1>1, <2>2 DEF Stored, SpecOfTask, StoreFits
    <3>2. CASE ~fresh
      BY <1>t, <2>0, <2>2, <3>1, <3>2 DEF Promise
    <3>3. CASE fresh
      <4>1. promised'[t] = Merged(promised[t], change) /\ promised[t] \in Changes
        BY <1>t, <2>0, <2>2, <3>3 DEF Promise, StoreFits
      <4>2. promised[t].problem # Absent => SpecOfTask(t).problem = promised[t].problem
        BY <1>t DEF PromisesFit, UpdatesAreKept
      <4>3. promised[t].models # Absent => SpecOfTask(t).models = promised[t].models
        BY <1>t DEF PromisesFit, UpdatesAreKept
      <4>4. /\ promised'[t].problem =
                  IF change.problem = Absent THEN promised[t].problem ELSE change.problem
            /\ promised'[t].models =
                  IF change.models = Absent THEN promised[t].models ELSE change.models
        BY <4>1, MergedPromise
      <4>5. promised'[t].problem # Absent => spec.problem = promised'[t].problem
        BY <3>3, <4>2, <4>4
      <4>6. promised'[t].models # Absent => spec.models = promised'[t].models
        BY <3>3, <4>3, <4>4
      <4>7. current'[t] # Absent
        BY <1>t, <3>1
      <4> QED BY <3>1, <4>5, <4>6, <4>7
    <3> QED BY <3>2, <3>3
  <2> QED BY <2>1, <2>2
<1>8. PromisesFit'
  BY <1>6, <1>7 DEF PromisesFit, UpdatesAreKept
<1> QED BY <1>1, <1>3, <1>5, <1>8

\* The store changed and the jobs did not: the operation of the user is what
\* it was, or has left.
LEMMA StoredStepStands ==
  ASSUME TasksInv, NEW u \in Users,
         revisions' \in [Revisions -> Specs \cup {Absent}],
         current' \in [TaskIds -> Revisions \cup {Absent}],
         promised' \in [TaskIds -> Changes],
         RevisionsFit', PromisesFit',
         \A r \in Revisions : revisions[r] # Absent => revisions'[r] = revisions[r],
         op' = op \/ Leaves(u), ops' \in 0 .. MaxOps, UNCHANGED <<profiles, jobs>>
  PROVE  TasksInv'
<1>t. StoreFits /\ Len(jobs) \in Nat /\ Len(jobs') = Len(jobs)
  BY DEF TasksInv, StoreFits
<1>1. StoreFits' /\ Grows
  BY <1>t, NoOpFits DEF StoreFits, Grows, Leaves
<1>2. \A v \in Users \ {u} : op'[v] = op[v]
  BY <1>t DEF StoreFits, Leaves
<1>3. OpFits(u)'
  <2>1. CASE op' = op
    BY <1>t, <1>1, <2>1, OpStands
  <2>2. CASE Leaves(u)
    <3>1. op'[u].at = "idle" /\ op'[u].job = 0
      BY <1>t, <2>2, NoOpFits DEF Leaves, StoreFits
    <3>2. op'[u].job \in 0 .. Len(jobs')
      BY <1>t, <3>1
    <3> QED BY <3>1, <3>2 DEF OpFits, StartFits, UpdateFits, StatusFits, Owner
  <2> QED BY <2>1, <2>2
<1>4. (u \in Owner)' => u \in Owner /\ op'[u].job = op[u].job
  BY <1>t, NoOpFits DEF Owner, Leaves, StoreFits
<1> QED BY <1>t, <1>1, <1>2, <1>3, <1>4, StepStands

LEMMA OpensFits ==
  ASSUME TasksInv, NEW u \in Users, Opens(u)
  PROVE  ops' \in 0 .. MaxOps /\ op[u].at = "idle"
BY TasksAssumption DEF TasksInv, StoreFits, Opens

LEMMA TaskCreateHolds ==
  ASSUME TasksInv, NEW u \in Users, TaskCreate(u)
  PROVE  TasksInv'
<1>1. ops' \in 0 .. MaxOps /\ UNCHANGED <<profiles, jobs, op>>
  BY OpensFits DEF TaskCreate
<1>2. PICK spec \in Specs :
       IF MayStore(spec)
       THEN /\ Stored(spec)
            /\ promised' = [promised EXCEPT
                 ![spec.task] = Promise(spec, [problem |-> spec.problem, models |-> spec.models], TRUE)]
       ELSE UNCHANGED <<revisions, current, promised>>
  BY DEF TaskCreate
<1>3. CASE MayStore(spec)
  <2> DEFINE change == [problem |-> spec.problem, models |-> spec.models]
  <2>1. change \in Changes /\ change.problem = spec.problem /\ change.models = spec.models
    BY DEF Changes, Specs
  <2>2. change.problem # Absent /\ change.models # Absent
    BY <2>1, TasksAssumption DEF Specs
  <2> HIDE DEF change
  <2>3. Stored(spec) /\ promised' = [promised EXCEPT ![spec.task] = Promise(spec, change, TRUE)]
    BY <1>2, <1>3 DEF change
  <2>4. /\ revisions' \in [Revisions -> Specs \cup {Absent}]
        /\ current' \in [TaskIds -> Revisions \cup {Absent}]
        /\ promised' \in [TaskIds -> Changes]
        /\ RevisionsFit' /\ PromisesFit'
        /\ \A r \in Revisions : revisions[r] # Absent => revisions'[r] = revisions[r]
    BY <1>3, <2>1, <2>2, <2>3, StoredStands
  <2> QED BY <1>1, <2>4, StoredStepStands
<1>4. CASE ~MayStore(spec)
  <2>1. UNCHANGED <<revisions, current, promised>>
    BY <1>2, <1>4
  <2>2. /\ revisions' \in [Revisions -> Specs \cup {Absent}]
        /\ current' \in [TaskIds -> Revisions \cup {Absent}]
        /\ promised' \in [TaskIds -> Changes]
        /\ RevisionsFit' /\ PromisesFit'
        /\ \A r \in Revisions : revisions[r] # Absent => revisions'[r] = revisions[r]
    BY <2>1 DEF TasksInv, StoreFits, RevisionsFit, PromisesFit, UpdatesAreKept, SpecOfTask
  <2> QED BY <1>1, <2>2, StoredStepStands
<1> QED BY <1>3, <1>4

LEMMA UpdateTaskHolds ==
  ASSUME TasksInv, NEW u \in Users, UpdateTask(u)
  PROVE  TasksInv'
<1> DEFINE spec == Merged(op[u].read, op[u].change)
           fresh == op[u].read = SpecOfTask(spec.task)
<1>1. op[u].at = "update" /\ Leaves(u) /\ UNCHANGED <<profiles, jobs, ops>>
  BY DEF UpdateTask
<1>2. /\ op[u].read \in Specs /\ op[u].change \in Changes
      /\ op[u].read.task = op[u].task /\ ops' \in 0 .. MaxOps
  BY <1>1 DEF TasksInv, OpFits, UpdateFits, StoreFits
<1>3. /\ spec \in Specs /\ spec.task = op[u].read.task
      /\ spec.problem = IF op[u].change.problem = Absent THEN op[u].read.problem
                        ELSE op[u].change.problem
      /\ spec.models = IF op[u].change.models = Absent THEN op[u].read.models
                       ELSE op[u].change.models
  BY <1>2, MergedFits
<1>4. IF MayStore(spec)
      THEN /\ Stored(spec)
           /\ promised' = [promised EXCEPT ![spec.task] = Promise(spec, op[u].change, fresh)]
      ELSE UNCHANGED <<revisions, current, promised>>
  BY DEF UpdateTask
<1>5. fresh => current[spec.task] # Absent
  BY <1>2, SpecsHaveRevisions DEF SpecOfTask
<1>6. fresh \in BOOLEAN /\ (fresh => op[u].read = SpecOfTask(spec.task))
  OBVIOUS
<1> HIDE DEF spec, fresh
<1>7. /\ revisions' \in [Revisions -> Specs \cup {Absent}]
      /\ current' \in [TaskIds -> Revisions \cup {Absent}]
      /\ promised' \in [TaskIds -> Changes]
      /\ RevisionsFit' /\ PromisesFit'
      /\ \A r \in Revisions : revisions[r] # Absent => revisions'[r] = revisions[r]
  <2>1. CASE MayStore(spec)
    <3>1. /\ op[u].change.problem # Absent => spec.problem = op[u].change.problem
          /\ op[u].change.models # Absent => spec.models = op[u].change.models
          /\ fresh /\ op[u].change.problem = Absent =>
               current[spec.task] # Absent /\ spec.problem = SpecOfTask(spec.task).problem
          /\ fresh /\ op[u].change.models = Absent =>
               current[spec.task] # Absent /\ spec.models = SpecOfTask(spec.task).models
      BY <1>3, <1>5, <1>6
    <3>2. /\ Stored(spec)
          /\ promised' = [promised EXCEPT ![spec.task] = Promise(spec, op[u].change, fresh)]
      BY <1>4, <2>1
    <3> QED BY <1>2, <1>3, <1>6, <2>1, <3>1, <3>2, StoredStands
  <2>2. CASE ~MayStore(spec)
    <3>1. UNCHANGED <<revisions, current, promised>>
      BY <1>4, <2>2
    <3> QED BY <3>1 DEF TasksInv, StoreFits, RevisionsFit, PromisesFit, UpdatesAreKept, SpecOfTask
  <2> QED BY <2>1, <2>2
<1> QED BY <1>1, <1>2, <1>7, StoredStepStands

LEMMA TaskUpdateHolds ==
  ASSUME TasksInv, NEW u \in Users, TaskUpdate(u)
  PROVE  TasksInv'
<1>1. ops' \in 0 .. MaxOps /\ UNCHANGED <<revisions, current, profiles, jobs, promised>>
  BY OpensFits DEF TaskUpdate
<1>2. PICK t \in TaskIds, change \in Changes :
       /\ current[t] # Absent
       /\ op' = [op EXCEPT ![u] =
                   [NoOp EXCEPT !.at = "update", !.task = t, !.read = SpecOfTask(t),
                                !.change = change]]
  BY DEF TaskUpdate
<1> DEFINE r == [NoOp EXCEPT !.at = "update", !.task = t, !.read = SpecOfTask(t),
                             !.change = change]
<1>3. SpecOfTask(t) \in Specs /\ SpecOfTask(t).task = t
  BY <1>2 DEF SpecOfTask, TasksInv, StoreFits, RevisionsFit
<1>4. /\ r \in OpRecords /\ r.at = "update" /\ r.task = t /\ r.read = SpecOfTask(t)
      /\ r.change = change /\ r.job = 0
  BY <1>3, NoOpFits DEF OpRecords, OpSteps
<1> HIDE DEF r
<1>5. op'[u] = r /\ profiles \subseteq Profiles /\ Len(jobs) \in Nat
  BY <1>2 DEF TasksInv, StoreFits, r
<1>6. op'[u].job \in 0 .. Len(jobs')
  BY <1>1, <1>4, <1>5
<1>7. OpFits(u)'
  BY <1>3, <1>4, <1>5, <1>6 DEF OpFits, StartFits, UpdateFits, StatusFits, Owner
<1> QED BY <1>1, <1>2, <1>4, <1>5, <1>7, MoveStands DEF r

LEMMA ProfileAddHolds ==
  ASSUME TasksInv, NEW u \in Users, ProfileAdd(u)
  PROVE  TasksInv'
<1>1. /\ ops' \in 0 .. MaxOps /\ UNCHANGED <<revisions, current, jobs, op, promised>>
      /\ profiles \subseteq profiles' /\ profiles' \subseteq Profiles
      /\ op[u] \in OpRecords /\ op' = [op EXCEPT ![u] = op[u]]
      /\ Len(jobs) \in Nat
  BY OpensFits DEF ProfileAdd, TasksInv, StoreFits
<1>2. StoreFits' /\ Grows
  BY <1>1 DEF TasksInv, StoreFits, Grows
<1>3. OpFits(u)'
  BY <1>1, <1>2, OpStands
<1> QED BY <1>1, <1>3, MoveStands DEF Owner

-----------------------------------------------------------------------------
(* benchmark.start *)

LEMMA JudgeFits == JudgeProfile \in Profiles \cup {Absent}
<1> DEFINE Listed == UNION {Range(l) : l \in ProfileLists}
<1>1. Profiles = Listed \cup ({JudgeProfile} \ {Absent})
  BY DEF Profiles
<1> HIDE DEF Listed
<1> QED BY <1>1

LEMMA BenchmarkStartHolds ==
  ASSUME TasksInv, NEW u \in Users, BenchmarkStart(u)
  PROVE  TasksInv'
<1>1. /\ ops' \in 0 .. MaxOps /\ UNCHANGED <<revisions, current, jobs, promised>>
      /\ profiles \subseteq profiles' /\ profiles' \subseteq Profiles
      /\ Len(jobs) \in Nat
  BY OpensFits, TasksAssumption DEF BenchmarkStart, TasksInv, StoreFits
<1>2. PICK t \in TaskIds, n \in Trials, judge \in Profiles \cup {JudgeProfile} :
       op' = IF current[t] = Absent THEN op
             ELSE [op EXCEPT ![u] =
                    [NoOp EXCEPT !.at = "resolve", !.task = t, !.read = SpecOfTask(t),
                                 !.trials = n, !.judge = judge]]
  BY DEF BenchmarkStart
<1>3. CASE current[t] = Absent
  <2>1. op' = op /\ op[u] \in OpRecords /\ op' = [op EXCEPT ![u] = op[u]]
    BY <1>2, <1>3 DEF TasksInv, StoreFits
  <2>2. StoreFits' /\ Grows
    BY <1>1, <2>1 DEF TasksInv, StoreFits, Grows
  <2>3. OpFits(u)'
    BY <1>1, <2>1, <2>2, OpStands
  <2> QED BY <1>1, <2>1, <2>3, MoveStands DEF Owner
<1>4. CASE current[t] # Absent
  <2> DEFINE r == [NoOp EXCEPT !.at = "resolve", !.task = t, !.read = SpecOfTask(t),
                               !.trials = n, !.judge = judge]
  <2>1. SpecOfTask(t) \in Specs /\ revisions[RevisionOf[SpecOfTask(t)]] = SpecOfTask(t)
    BY <1>4 DEF SpecOfTask, TasksInv, StoreFits, RevisionsFit
  <2>2. judge \in Profiles \cup {Absent} /\ n \in Nat
    BY TasksAssumption, JudgeFits
  <2>3. /\ r \in OpRecords /\ r.at = "resolve" /\ r.task = t /\ r.read = SpecOfTask(t)
        /\ r.trials = n /\ r.job = 0
    BY <2>1, <2>2, NoOpFits DEF OpRecords, OpSteps
  <2>4. op' = [op EXCEPT ![u] = r]
    BY <1>2, <1>4
  <2> HIDE DEF r
  <2>5. op'[u] = r
    BY <2>4 DEF TasksInv, StoreFits
  <2>6. op'[u].job \in 0 .. Len(jobs')
    BY <1>1, <2>3, <2>5
  <2>7. OpFits(u)'
    BY <1>1, <2>1, <2>3, <2>5, <2>6 DEF OpFits, StartFits, UpdateFits, StatusFits, Owner
  <2> QED BY <1>1, <2>3, <2>4, <2>7, MoveStands
<1> QED BY <1>3, <1>4

LEMMA ResolveProfilesHolds ==
  ASSUME TasksInv, NEW u \in Users, ResolveProfiles(u)
  PROVE  TasksInv'
<1>1. /\ op[u].at = "resolve" /\ UNCHANGED <<revisions, current, profiles, jobs, ops, promised>>
      /\ ops' \in 0 .. MaxOps /\ profiles \subseteq Profiles /\ Len(jobs) \in Nat
      /\ op \in [Users -> OpRecords] /\ OpFits(u)
  BY DEF ResolveProfiles, TasksInv, StoreFits
<1>2. CASE Leaves(u)
  BY <1>1, <1>2, LeaveStands
<1>3. CASE ~Leaves(u)
  <2> DEFINE with == Range(op[u].read.models) \cap profiles
             r == [op[u] EXCEPT !.at = "job", !.with = with]
  <2>1. /\ Resolvable(op[u].read, op[u].judge)
        /\ op' = [op EXCEPT ![u].at = "job", ![u].with = with]
    BY <1>3 DEF ResolveProfiles
  <2>2. with = Range(op[u].read.models) /\ with \subseteq profiles
    BY <2>1 DEF Resolvable
  <2> HIDE DEF with
  <2>3. /\ r \in OpRecords /\ r.at = "job" /\ r.with = with /\ r.task = op[u].task
        /\ r.read = op[u].read /\ r.trials = op[u].trials /\ r.job = op[u].job
        /\ op' = [op EXCEPT ![u] = r]
    BY <1>1, <2>1, <2>2, ZenonT(40) DEF OpRecords, OpSteps
  <2> HIDE DEF r
  <2>4. op'[u] = r
    BY <1>1, <2>3
  <2>5. op'[u].job \in 0 .. Len(jobs')
    BY <1>1, <2>3, <2>4 DEF OpFits
  <2>6. OpFits(u)'
    BY <1>1, <2>2, <2>3, <2>4, <2>5 DEF OpFits, StartFits, UpdateFits, StatusFits, Owner
  <2> QED BY <1>1, <2>3, <2>6, MoveStands
<1> QED BY <1>2, <1>3

LEMMA CreateJobHolds ==
  ASSUME TasksInv, NEW u \in Users, CreateJob(u)
  PROVE  TasksInv'
<1>1. /\ op[u].at = "job" /\ UNCHANGED <<revisions, current, profiles, ops, promised>>
      /\ ops' \in 0 .. MaxOps /\ profiles \subseteq Profiles /\ Len(jobs) \in Nat
      /\ op \in [Users -> OpRecords] /\ OpFits(u) /\ jobs \in Seq(JobRecords)
      /\ StoreFits /\ RevisionsFit /\ PromisesFit
  BY DEF CreateJob, TasksInv, StoreFits
<1>2. CASE Leaves(u) /\ jobs' = jobs
  BY <1>1, <1>2, LeaveStands
<1>3. CASE ~(Leaves(u) /\ jobs' = jobs)
  <2> DEFINE rev == RevisionOf[op[u].read]
             job == [task |-> op[u].task, revision |-> rev, status |-> "running",
                     rows |-> <<>>, scores |-> {}, leader |-> Absent, events |-> <<>>]
             r == [op[u] EXCEPT !.at = "trials", !.job = Len(jobs) + 1]
  <2>1. /\ revisions[rev] # Absent /\ revisions[rev].task = op[u].task
        /\ jobs' = Append(jobs, job)
        /\ op' = [op EXCEPT ![u].at = "trials", ![u].job = Len(jobs) + 1]
    BY <1>3 DEF CreateJob
  <2>2. /\ op[u].task \in TaskIds /\ op[u].read \in Specs /\ rev \in Revisions
        /\ op[u].trials \in Trials /\ revisions[rev] = op[u].read
        /\ op[u].with = Range(op[u].read.models) /\ op[u].with \subseteq profiles
    BY <1>1, SpecsHaveRevisions DEF OpFits, StartFits
  <2>3. job \in JobRecords
    BY <2>2, TablesHold DEF JobRecords, JobStatuses
  <2>4. /\ job.task = op[u].task /\ job.revision = rev /\ job.status = "running"
        /\ DOMAIN job.rows = {} /\ job.scores = {} /\ job.leader = Absent /\ job.events = <<>>
    OBVIOUS
  <2> HIDE DEF job
  <2>5. /\ jobs' \in Seq(JobRecords) /\ Len(jobs') = Len(jobs) + 1
        /\ jobs'[Len(jobs) + 1] = job
        /\ \A j \in 1 .. Len(jobs) : jobs'[j] = jobs[j]
    BY <1>1, <2>1, <2>3, AppendProperties
  <2>6. /\ r \in OpRecords /\ r.at = "trials" /\ r.with = op[u].with /\ r.task = op[u].task
        /\ r.read = op[u].read /\ r.trials = op[u].trials /\ r.job = Len(jobs) + 1
        /\ op' = [op EXCEPT ![u] = r]
    <3>1. op[u] \in OpRecords /\ Len(jobs) + 1 \in Nat
      BY <1>1
    <3>2. op' = [op EXCEPT ![u] = r]
      BY <1>1, <2>1, <3>1
    <3> QED BY <3>1, <3>2 DEF OpRecords, OpSteps
  <2> HIDE DEF r
  <2>7. op'[u] = r /\ \A v \in Users \ {u} : op'[v] = op[v]
    BY <1>1, <2>6
  <2>8. StoreFits' /\ RevisionsFit' /\ PromisesFit' /\ Grows
    BY <1>1, <2>5, <2>6 DEF StoreFits, RevisionsFit, PromisesFit, UpdatesAreKept, SpecOfTask, Grows
  <2>9. OpFits(u)'
    <3>1. op'[u].job \in 1 .. Len(jobs') /\ op'[u].job \in 0 .. Len(jobs')
      BY <1>1, <2>5, <2>6, <2>7
    <3>2. StartFits(u)'
      BY <1>1, <2>2, <2>4, <2>5, <2>6, <2>7, <3>1 DEF StartFits, Owned, Owner
    <3> QED BY <2>6, <2>7, <3>1, <3>2 DEF OpFits, UpdateFits, StatusFits
  <2>10. \A j \in (1 .. Len(jobs')) \ (1 .. Len(jobs)) : JobFits(j)'
    <3>1. \A j \in (1 .. Len(jobs')) \ (1 .. Len(jobs)) : j = Len(jobs) + 1
      BY <1>1, <2>5
    <3>2. ASSUME NEW j \in (1 .. Len(jobs')) \ (1 .. Len(jobs)) PROVE JobFits(j)'
      <4>1. jobs'[j] = job
        BY <2>5, <3>1
      <4> QED BY <1>1, <2>1, <2>4, <4>1 DEF JobFits, AllPending
    <3> QED BY <3>2
  <2>11. op'[u].job \notin 1 .. Len(jobs) /\ Len(jobs) <= Len(jobs')
    BY <1>1, <2>5, <2>6, <2>7
  <2> QED BY <2>5, <2>7, <2>8, <2>9, <2>10, <2>11, StepStands
<1> QED BY <1>2, <1>3

\* A step of the owner of a job.
LEMMA OwnerStands ==
  ASSUME TasksInv, NEW u \in Owner, NEW job \in JobRecords, NEW r \in OpRecords,
         NEW i, i = op[u].job,
         jobs' = [jobs EXCEPT ![i] = job],
         op' = [op EXCEPT ![u] = r],
         r.at \in {"trials", "history", "run"} => r.job = op[u].job,
         UNCHANGED <<revisions, current, profiles, ops, promised>>,
         jobs[i].scores \subseteq job.scores,
         JobFits(i)', OpFits(u)'
  PROVE  TasksInv'
<1>t. /\ StoreFits /\ RevisionsFit /\ PromisesFit /\ u \in Users
      /\ op[u].job \in 1 .. Len(jobs) /\ Len(jobs) \in Nat
  BY DEF TasksInv, StoreFits, OpFits, StartFits, Owned, Owner
<1>1. /\ jobs' \in Seq(JobRecords) /\ Len(jobs') = Len(jobs)
      /\ jobs'[i] = job
      /\ \A j \in 1 .. Len(jobs) : j # i => jobs'[j] = jobs[j]
  BY <1>t, ExceptSeq DEF StoreFits
<1>2. op'[u] = r /\ \A v \in Users \ {u} : op'[v] = op[v]
  BY <1>t DEF StoreFits
<1>3. StoreFits' /\ RevisionsFit' /\ PromisesFit' /\ Grows
  BY <1>t, <1>1 DEF StoreFits, RevisionsFit, PromisesFit, UpdatesAreKept, SpecOfTask, Grows
<1>4. (u \in Owner)' => u \in Owner /\ op'[u].job = op[u].job
  BY <1>2 DEF Owner
<1>5. \A j \in 1 .. Len(jobs) :
           \/ jobs'[j] = jobs[j]
           \/ /\ u \in Owner /\ j = op[u].job
              /\ jobs[j].scores \subseteq jobs'[j].scores
              /\ JobFits(j)'
  <2>1. ASSUME NEW j \in 1 .. Len(jobs), j = i
        PROVE  jobs[j].scores \subseteq jobs'[j].scores /\ JobFits(j)'
    BY <1>1, <2>1 DEF JobFits
  <2> QED BY <1>1, <2>1, SMTT(30)
<1>6. Len(jobs) <= Len(jobs') /\ (1 .. Len(jobs')) \ (1 .. Len(jobs)) = {}
  BY <1>t, <1>1
<1> QED BY <1>t, <1>2, <1>3, <1>4, <1>5, <1>6, StepStands

\* What the owner of a job knows.
LEMMA OwnerKnows ==
  ASSUME TasksInv, NEW u \in Owner
  PROVE  /\ u \in Users /\ op \in [Users -> OpRecords] /\ op[u] \in OpRecords
         /\ jobs \in Seq(JobRecords) /\ Len(jobs) \in Nat
         /\ op[u].job \in 1 .. Len(jobs) /\ jobs[op[u].job] \in JobRecords
         /\ jobs[op[u].job].status = "running"
         /\ OpFits(u) /\ JobFits(op[u].job)
<1>1. /\ u \in Users /\ op \in [Users -> OpRecords] /\ op[u] \in OpRecords
      /\ jobs \in Seq(JobRecords) /\ Len(jobs) \in Nat
  BY DEF TasksInv, StoreFits, Owner
<1>2. OpFits(u)
  BY <1>1 DEF TasksInv
<1>3. Owned(u)
  BY <1>2 DEF OpFits, StartFits
<1> QED BY <1>1, <1>2, <1>3 DEF Owned, TasksInv

LEMMA CreateTrialsHolds ==
  ASSUME TasksInv, NEW u \in Users, CreateTrials(u)
  PROVE  TasksInv'
<1>1. /\ op[u].at = "trials" /\ UNCHANGED <<revisions, current, profiles, ops, promised>>
      /\ ops' \in 0 .. MaxOps
  BY DEF CreateTrials, TasksInv, StoreFits
<1>2. CASE Leaves(u) /\ jobs' = jobs
  BY <1>1, <1>2, LeaveStands
<1>3. CASE ~(Leaves(u) /\ jobs' = jobs)
  <2>1. u \in Owner
    BY <1>1 DEF Owner
  <2>2. PICK i \in 1 .. Len(jobs) : i = op[u].job
    BY <2>1, OwnerKnows
  <2> DEFINE rows == PendingRows(op[u].with, op[u].trials)
             job == [jobs[i] EXCEPT !.rows = rows]
             r == [op[u] EXCEPT !.at = "history"]
  <2>3. jobs' = [jobs EXCEPT ![op[u].job].rows = rows] /\ op' = [op EXCEPT ![u].at = "history"]
    BY <1>3 DEF CreateTrials
  <2>4. /\ op[u].read \in Specs /\ op[u].trials \in Trials /\ op[u].trials \in Nat
        /\ revisions[RevisionOf[op[u].read]] = op[u].read
        /\ op[u].with = Range(op[u].read.models) /\ op[u].with \subseteq profiles
        /\ jobs[i].revision = RevisionOf[op[u].read]
        /\ jobs[i].scores = {} /\ jobs[i].events = <<>> /\ jobs[i].status = "running"
        /\ jobs[i] \in JobRecords /\ JobFits(i)
    BY <1>1, <2>1, <2>2, OwnerKnows, TasksAssumption DEF OpFits, StartFits
  <2>5. profiles \subseteq Profiles
    BY DEF TasksInv, StoreFits
  <2>6. /\ DOMAIN rows = op[u].with \X (1 .. op[u].trials)
        /\ \A k \in DOMAIN rows : rows[k] = "pending"
        /\ rows \in Tables
    <3>1. op[u].with \X (1 .. op[u].trials) \subseteq TrialIds
      BY <2>4, <2>5 DEF TrialIds
    <3>2. rows \in [op[u].with \X (1 .. op[u].trials) -> RowStates]
      BY DEF PendingRows, RowStates
    <3> QED BY <3>1, <3>2, TablesHold DEF PendingRows
  <2> HIDE DEF rows
  <2>7. /\ job \in JobRecords /\ job.rows = rows /\ job.revision = jobs[i].revision
        /\ job.task = jobs[i].task /\ job.status = "running" /\ job.scores = {}
        /\ job.events = <<>> /\ job.leader = jobs[i].leader
    BY <2>4, <2>6 DEF JobRecords
  <2>8. /\ r \in OpRecords /\ r.at = "history" /\ r.job = i
        /\ op' = [op EXCEPT ![u] = r] /\ op'[u] = r
    BY <2>1, <2>2, <2>3, OwnerKnows DEF OpRecords, OpSteps
  <2>9. jobs' = [jobs EXCEPT ![i] = job] /\ jobs'[i] = job /\ Len(jobs') = Len(jobs)
        /\ Len(jobs) \in Nat
    BY <2>1, <2>2, <2>3, <2>7, OwnerKnows, ExceptSeq
  <2> HIDE DEF job, r
  <2>10. JobFits(i)'
    <3>1. \E n \in Trials : DOMAIN rows = op[u].with \X (1 .. n)
      BY <2>4, <2>6
    <3>2. jobs[i].leader \in jobs[i].scores \cup {Absent}
      BY <2>4 DEF JobFits
    <3> QED BY <1>1, <2>4, <2>6, <2>7, <2>9, <3>1, <3>2, SMTT(30) DEF JobFits, AllPending
  <2>11. OpFits(u)'
    <3>1. op'[u].job \in 0 .. Len(jobs') /\ Owned(u)'
      BY <2>2, <2>7, <2>8, <2>9 DEF Owned
    <3>2. AllPending(jobs'[op'[u].job].rows)
      BY <2>6, <2>7, <2>8, <2>9 DEF AllPending
    <3>3. StartFits(u)'
      BY <2>8, <3>1, <3>2 DEF StartFits, AllPending
    <3> QED BY <2>8, <3>1, <3>3 DEF OpFits, UpdateFits, StatusFits
  <2> QED BY <1>1, <2>1, <2>2, <2>4, <2>7, <2>8, <2>9, <2>10, <2>11, OwnerStands
<1> QED BY <1>2, <1>3

LEMMA StartHistoryHolds ==
  ASSUME TasksInv, NEW u \in Users, StartHistory(u)
  PROVE  TasksInv'
<1>1. /\ op[u].at = "history" /\ UNCHANGED <<revisions, current, profiles, ops, promised>>
      /\ jobs' = [jobs EXCEPT ![op[u].job].events = Append(@, "job.started")]
      /\ op' = [op EXCEPT ![u].at = "run"]
      /\ u \in Owner
  BY DEF StartHistory, Owner
<1>2. PICK i \in 1 .. Len(jobs) : i = op[u].job
  BY <1>1, OwnerKnows
<1> DEFINE events == Append(jobs[i].events, "job.started")
           job == [jobs[i] EXCEPT !.events = events]
           r == [op[u] EXCEPT !.at = "run"]
<1>3. jobs[i] \in JobRecords /\ jobs[i].status = "running" /\ JobFits(i) /\ Len(jobs) \in Nat
  BY <1>1, <1>2, OwnerKnows
<1>4. events \in Seq(JobEvents) /\ events # <<>>
  <2>1. jobs[i].events \in Seq(JobEvents) /\ "job.started" \in JobEvents
    BY <1>3 DEF JobRecords, JobEvents
  <2> QED BY <2>1, AppendProperties
<1> HIDE DEF events
<1>5. /\ job \in JobRecords /\ job.rows = jobs[i].rows /\ job.revision = jobs[i].revision
      /\ job.task = jobs[i].task /\ job.status = "running" /\ job.scores = jobs[i].scores
      /\ job.events = events /\ job.leader = jobs[i].leader
  BY <1>3, <1>4 DEF JobRecords
<1>6. /\ r \in OpRecords /\ r.at = "run" /\ r.job = i
      /\ op' = [op EXCEPT ![u] = r] /\ op'[u] = r
  BY <1>1, <1>2, OwnerKnows, ZenonT(40) DEF OpRecords, OpSteps
<1>7. jobs' = [jobs EXCEPT ![i] = job] /\ jobs'[i] = job /\ Len(jobs') = Len(jobs)
  <2>1. jobs' = [jobs EXCEPT ![i] = job] /\ jobs \in Seq(JobRecords)
    BY <1>1, <1>2, <1>3, OwnerKnows DEF JobRecords, events
  <2> HIDE DEF job
  <2> QED BY <1>5, <2>1, ExceptSeq
<1> HIDE DEF job, r
<1>8. JobFits(i)'
  BY <1>1, <1>3, <1>4, <1>5, <1>7 DEF JobFits, AllPending
<1>9. OpFits(u)'
  <2>1. op'[u].job \in 0 .. Len(jobs') /\ Owned(u)'
    BY <1>2, <1>3, <1>5, <1>6, <1>7 DEF Owned
  <2>2. StartFits(u)'
    BY <1>4, <1>5, <1>6, <1>7, <2>1 DEF StartFits
  <2> QED BY <1>6, <2>1, <2>2 DEF OpFits, UpdateFits, StatusFits
<1>10. /\ u \in Owner /\ UNCHANGED <<revisions, current, profiles, ops, promised>>
       /\ jobs[i].scores \subseteq job.scores
  BY <1>1, <1>5
<1> QED BY <1>2, <1>5, <1>6, <1>7, <1>8, <1>9, <1>10, OwnerStands

LEMMA CompleteTrialHolds ==
  ASSUME TasksInv, NEW u \in Users, CompleteTrial(u)
  PROVE  TasksInv'
<1>1. /\ op[u].at = "run" /\ UNCHANGED <<revisions, current, profiles, op, ops, promised>>
      /\ u \in Owner
  BY DEF CompleteTrial, Owner
<1>2. PICK i \in 1 .. Len(jobs) : i = op[u].job
  BY <1>1, OwnerKnows
<1>0. PICK k \in DOMAIN jobs[op[u].job].rows, end \in TrialEnds :
       /\ jobs[op[u].job].rows[k] = "pending"
       /\ jobs' = [jobs EXCEPT ![op[u].job].rows[k] = end,
                               ![op[u].job].scores = IF end = "scored" THEN @ \cup {k} ELSE @]
  BY DEF CompleteTrial
<1>3. /\ k \in DOMAIN jobs[i].rows
      /\ jobs[i].rows[k] = "pending"
      /\ jobs' = [jobs EXCEPT ![i].rows[k] = end,
                              ![i].scores = IF end = "scored" THEN @ \cup {k} ELSE @]
  BY <1>0, <1>2
<1> DEFINE rows == [jobs[i].rows EXCEPT ![k] = end]
           scores == IF end = "scored" THEN jobs[i].scores \cup {k} ELSE jobs[i].scores
           job == [jobs[i] EXCEPT !.rows = rows, !.scores = scores]
<1>4. /\ jobs[i] \in JobRecords /\ jobs[i].status = "running" /\ JobFits(i) /\ Len(jobs) \in Nat
      /\ op \in [Users -> OpRecords] /\ op[u] \in OpRecords /\ OpFits(u) /\ jobs \in Seq(JobRecords)
  BY <1>1, <1>2, OwnerKnows
<1>5. /\ jobs[i].rows \in Tables /\ DOMAIN jobs[i].rows \subseteq TrialIds
      /\ jobs[i].rows \in [DOMAIN jobs[i].rows -> RowStates]
  BY <1>4, TablesHold DEF JobRecords
<1>6. /\ DOMAIN rows = DOMAIN jobs[i].rows /\ rows[k] = end
      /\ \A m \in DOMAIN rows : m # k => rows[m] = jobs[i].rows[m]
      /\ rows \in [DOMAIN jobs[i].rows -> RowStates]
  BY <1>3, <1>5 DEF RowStates
<1>7. rows \in Tables
  BY <1>5, <1>6, TablesHold
<1>8. scores \in SUBSET TrialIds /\ jobs[i].scores \subseteq scores /\ scores \subseteq DOMAIN rows
      /\ (end = "scored" => k \in scores)
  <2>1. k \in DOMAIN rows /\ DOMAIN rows \subseteq TrialIds
    BY <1>3, <1>5, <1>6
  <2>2. jobs[i].scores \subseteq DOMAIN rows
    BY <1>4, <1>6 DEF JobFits
  <2> HIDE DEF rows
  <2> QED BY <2>1, <2>2
<1>9. jobs' = [jobs EXCEPT ![i] = job]
  <2>1. job = [[jobs[i] EXCEPT !.rows[k] = end] EXCEPT
                 !.scores = IF end = "scored" THEN @ \cup {k} ELSE @]
    BY <1>4 DEF JobRecords
  <2>2. jobs' = [jobs EXCEPT ![i] = [[jobs[i] EXCEPT !.rows[k] = end] EXCEPT
                 !.scores = IF end = "scored" THEN @ \cup {k} ELSE @]]
    BY <1>3, <1>4
  <2> QED BY <2>1, <2>2
<1> HIDE DEF rows, scores
<1>10. /\ job \in JobRecords /\ job.rows = rows /\ job.revision = jobs[i].revision
       /\ job.task = jobs[i].task /\ job.status = "running" /\ job.scores = scores
       /\ job.events = jobs[i].events /\ job.leader = jobs[i].leader
  BY <1>4, <1>7, <1>8 DEF JobRecords
<1>11. jobs'[i] = job /\ Len(jobs') = Len(jobs)
  <2> HIDE DEF job
  <2> QED BY <1>4, <1>9, <1>10, ExceptSeq
<1>12. op' = [op EXCEPT ![u] = op[u]] /\ op'[u] = op[u]
  BY <1>1, <1>4
<1>13. op[u].job \in 0 .. Len(jobs) /\ jobs[i].events # <<>>
  BY <1>1, <1>2, <1>4 DEF OpFits, StartFits
<1> HIDE DEF job
<1>14. JobFits(i)'
  <2>1. \A m \in DOMAIN rows : rows[m] = "scored" => m \in scores
    BY <1>4, <1>6, <1>8 DEF JobFits
  <2>2. job.leader \in scores \cup {Absent}
    BY <1>4, <1>8, <1>10 DEF JobFits
  <2> QED BY <1>1, <1>4, <1>6, <1>8, <1>10, <1>11, <1>13, <2>1, <2>2 DEF JobFits
<1>15. OpFits(u)'
  <2>1. op'[u].job \in 0 .. Len(jobs') /\ Owned(u)'
    BY <1>2, <1>4, <1>10, <1>11, <1>12, <1>13 DEF Owned
  <2>2. StartFits(u)'
    BY <1>1, <1>2, <1>10, <1>11, <1>12, <1>13, <2>1 DEF StartFits
  <2> QED BY <1>1, <1>12, <2>1, <2>2 DEF OpFits, UpdateFits, StatusFits
<1> QED BY <1>1, <1>2, <1>4, <1>8, <1>9, <1>10, <1>12, <1>14, <1>15, OwnerStands

LEMMA CompleteJobHolds ==
  ASSUME TasksInv, NEW u \in Users, CompleteJob(u)
  PROVE  TasksInv'
<1>1. /\ op[u].at = "run" /\ UNCHANGED <<revisions, current, profiles, ops, promised>>
      /\ u \in Owner /\ Leaves(u)
  BY DEF CompleteJob, Owner
<1>2. PICK i \in 1 .. Len(jobs) : i = op[u].job
  BY <1>1, OwnerKnows
<1>3. NonePending(jobs[i].rows)
  BY <1>2, SMTT(30) DEF CompleteJob, NonePending
<1>4. PICK status \in {"completed", "failed"}, leader \in jobs[i].scores \cup {Absent} :
        jobs' = [jobs EXCEPT ![i].status = status, ![i].leader = leader,
                             ![i].events = Append(@, "job.completed")]
  BY <1>2 DEF CompleteJob
<1> DEFINE events == Append(jobs[i].events, "job.completed")
           job == [jobs[i] EXCEPT !.status = status, !.leader = leader, !.events = events]
<1>5. /\ jobs[i] \in JobRecords /\ JobFits(i) /\ Len(jobs) \in Nat /\ jobs \in Seq(JobRecords)
      /\ op \in [Users -> OpRecords]
  BY <1>1, <1>2, OwnerKnows
<1>6. events \in Seq(JobEvents) /\ events # <<>> /\ Last(events) = "job.completed"
  <2>1. jobs[i].events \in Seq(JobEvents) /\ "job.completed" \in JobEvents
    BY <1>5 DEF JobRecords, JobEvents
  <2> QED BY <2>1, AppendProperties DEF Last
<1>7. jobs' = [jobs EXCEPT ![i] = job]
  BY <1>4, <1>5 DEF JobRecords
<1> HIDE DEF events
<1>8. /\ job \in JobRecords /\ job.rows = jobs[i].rows /\ job.revision = jobs[i].revision
      /\ job.task = jobs[i].task /\ job.status = status /\ job.scores = jobs[i].scores
      /\ job.events = events /\ job.leader = leader
  BY <1>5, <1>6 DEF JobRecords, JobStatuses
<1>9. jobs'[i] = job /\ Len(jobs') = Len(jobs)
  <2> HIDE DEF job
  <2> QED BY <1>5, <1>7, <1>8, ExceptSeq
<1> HIDE DEF job
<1>10. JobFits(i)'
  BY <1>1, <1>3, <1>5, <1>6, <1>8, <1>9 DEF JobFits, NonePending
<1>11. op'[u] = NoOp /\ op' = [op EXCEPT ![u] = NoOp]
  BY <1>1, <1>5 DEF Leaves, Owner
<1>12. OpFits(u)'
  <2>1. op'[u].at = "idle" /\ op'[u].job = 0
    BY <1>11, NoOpFits
  <2>2. op'[u].job \in 0 .. Len(jobs')
    BY <1>5, <1>9, <2>1
  <2> QED BY <2>1, <2>2 DEF OpFits, StartFits, UpdateFits, StatusFits, Owner
<1> QED BY <1>1, <1>2, <1>7, <1>8, <1>10, <1>11, <1>12, NoOpFits, OwnerStands

LEMMA OpEndsHolds ==
  ASSUME TasksInv, NEW u \in Users, OpEnds(u)
  PROVE  TasksInv'
<1>1. Leaves(u) /\ UNCHANGED <<revisions, current, profiles, jobs, ops, promised>>
  BY DEF OpEnds
<1>2. ops' \in 0 .. MaxOps
  BY <1>1 DEF TasksInv, StoreFits
<1> QED BY <1>1, <1>2, LeaveStands

-----------------------------------------------------------------------------
(* benchmark.status and benchmark.trial *)

LEMMA StoreKnows ==
  ASSUME TasksInv
  PROVE  /\ op \in [Users -> OpRecords] /\ profiles \subseteq Profiles
         /\ jobs \in Seq(JobRecords) /\ DOMAIN jobs = 1 .. Len(jobs) /\ Len(jobs) \in Nat
         /\ \A j \in 1 .. Len(jobs) : jobs[j] \in JobRecords /\ JobFits(j)
         /\ \A u \in Users : op[u] \in OpRecords /\ OpFits(u)
BY DEF TasksInv, StoreFits

\* What the operation r on job i was told fits the job.
ToldFits(r, i) ==
  /\ r.at \in {"list trials", "list scores", "answer"}
  /\ r.told \in ToldRecords
  /\ r.at = "list trials" => (r.told.status # "running" => jobs[i].status # "running")
  /\ r.at # "list trials" =>
       (r.told.status # "running" =>
          jobs[i].status # "running" /\ NonePending(r.told.rows) /\ TellsAll(r.told, i))
  /\ r.at = "list scores" => \A k \in DOMAIN r.told.rows :
                               r.told.rows[k] = "scored" => k \in jobs[i].scores
  /\ r.at = "answer" => TellsScores(r.told)

\* A cut is a part of the rows, and all of them unless it has as many as a
\* list may answer.
LEMMA CutsFit ==
  ASSUME NEW all, NEW cut \in Cuts(all)
  PROVE  cut \subseteq all /\ (cut = all \/ Cardinality(cut) = ListCap)
BY DEF Cuts

\* A list of trials is a part of the table.
LEMMA ListedFits ==
  ASSUME NEW rows \in Tables, NEW cut \in FirstTrials(rows), NEW list,
         list = [i \in cut |-> rows[i]]
  PROVE  /\ list \in Tables
         /\ DOMAIN list = DOMAIN rows \/ Cardinality(DOMAIN list) = ListCap
         /\ \A i \in DOMAIN list : i \in DOMAIN rows /\ list[i] = rows[i]
<1>1. cut \subseteq DOMAIN rows /\ (cut = DOMAIN rows \/ Cardinality(cut) = ListCap)
  BY CutsFit DEF FirstTrials
<1>2. DOMAIN rows \subseteq TrialIds /\ \A i \in DOMAIN rows : rows[i] \in RowStates
  BY TablesHold
<1>3. DOMAIN list = cut /\ \A i \in cut : list[i] = rows[i]
  OBVIOUS
<1>4. cut \subseteq TrialIds /\ list \in [cut -> RowStates]
  BY <1>1, <1>2
<1>5. list \in Tables
  BY <1>4, TablesHold
<1> QED BY <1>1, <1>3, <1>5

\* A status operation that moves on.
LEMMA StatusMoveStands ==
  ASSUME TasksInv, NEW u \in Users, NEW r \in OpRecords, NEW i \in 1 .. Len(jobs),
         op' = [op EXCEPT ![u] = r], ops' \in 0 .. MaxOps,
         UNCHANGED <<revisions, current, profiles, jobs, promised>>,
         r.job = i, ToldFits(r, i)
  PROVE  TasksInv'
<1>1. op \in [Users -> OpRecords] /\ profiles \subseteq Profiles /\ Len(jobs) \in Nat
  BY StoreKnows
<1>2. /\ op'[u] = r /\ profiles \subseteq Profiles /\ profiles' = profiles
      /\ jobs' = jobs
  BY <1>1
<1>3. i \in 0 .. Len(jobs)
  BY <1>1
<1>4. r.at \in {"list trials", "list scores", "answer"}
  BY DEF ToldFits
<1>5. StatusFits(u)'
  BY <1>2 DEF StatusFits, ToldFits, NonePending, TellsAll, TellsScores
<1>6. OpFits(u)'
  BY <1>2, <1>3, <1>4, <1>5 DEF OpFits, StartFits, UpdateFits, Owner
<1> QED BY <1>2, <1>4, <1>6, MoveStands

LEMMA StatusOfJobHolds ==
  ASSUME TasksInv, NEW u \in Users, StatusOfJob(u)
  PROVE  TasksInv'
<1>1. ops' \in 0 .. MaxOps /\ UNCHANGED <<revisions, current, profiles, jobs, promised>>
  BY OpensFits DEF StatusOfJob
<1>2. PICK j \in 1 .. Len(jobs) :
       op' = [op EXCEPT ![u] = [NoOp EXCEPT !.at = "list trials", !.job = j,
                !.told = [status |-> jobs[j].status, rows |-> <<>>, scores |-> {}]]]
  BY StoreKnows DEF StatusOfJob
<1> DEFINE told == [status |-> jobs[j].status, rows |-> <<>>, scores |-> {}]
           r == [NoOp EXCEPT !.at = "list trials", !.job = j, !.told = told]
<1>3. told \in ToldRecords /\ told.status = jobs[j].status
  <2>1. jobs[j].status \in JobStatuses
    BY StoreKnows DEF JobRecords
  <2> QED BY <2>1, TablesHold DEF ToldRecords
<1>4. op' = [op EXCEPT ![u] = r] /\ Len(jobs) \in Nat
  BY <1>2, StoreKnows
<1> HIDE DEF told
<1>5. r \in OpRecords /\ r.at = "list trials" /\ r.job = j /\ r.told = told
  <2>1. j \in Nat
    BY <1>4
  <2> QED BY <1>3, <2>1, NoOpFits DEF OpRecords, OpSteps
<1> HIDE DEF r
<1>6. ToldFits(r, j)
  BY <1>3, <1>5 DEF ToldFits
<1> QED BY <1>1, <1>4, <1>5, <1>6, StatusMoveStands

LEMMA ListTrialsHolds ==
  ASSUME TasksInv, NEW u \in Users, ListTrials(u)
  PROVE  TasksInv'
<1>1. /\ op[u].at = "list trials" /\ UNCHANGED <<revisions, current, profiles, jobs, ops, promised>>
      /\ \E cut \in FirstTrials(jobs[op[u].job].rows) :
           op' = [op EXCEPT ![u].at = "list scores",
                            ![u].told.rows = [i \in cut |-> jobs[op[u].job].rows[i]]]
      /\ ops' \in 0 .. MaxOps /\ op \in [Users -> OpRecords] /\ op[u] \in OpRecords
      /\ jobs \in Seq(JobRecords) /\ OpFits(u)
  BY DEF ListTrials, TasksInv, StoreFits
<1> DEFINE j == op[u].job
<1>2. j \in 1 .. Len(jobs)
  BY <1>1 DEF OpFits, StatusFits
<1>14. jobs[j] \in JobRecords /\ JobFits(j) /\ StatusFits(u)
  BY <1>1, <1>2, StoreKnows DEF OpFits
<1>3. /\ op[u].told \in ToldRecords /\ jobs[j].rows \in Tables /\ JobFits(j)
      /\ op[u].told.status # "running" => jobs[j].status # "running"
  BY <1>1, <1>14 DEF StatusFits, JobRecords
<1>11. PICK cut \in FirstTrials(jobs[j].rows) :
         op' = [op EXCEPT ![u].at = "list scores", ![u].told.rows = [i \in cut |-> jobs[j].rows[i]]]
  BY <1>1
<1> DEFINE list == [i \in cut |-> jobs[j].rows[i]]
<1>12. /\ list \in Tables
       /\ DOMAIN list = DOMAIN jobs[j].rows \/ Cardinality(DOMAIN list) = ListCap
       /\ \A i \in DOMAIN list : i \in DOMAIN jobs[j].rows /\ list[i] = jobs[j].rows[i]
  BY <1>3, ListedFits
<1>13. op' = [op EXCEPT ![u].at = "list scores", ![u].told.rows = list]
  BY <1>11
<1> HIDE DEF list
<1> DEFINE told == [op[u].told EXCEPT !.rows = list]
           r == [op[u] EXCEPT !.at = "list scores", !.told = told]
<1>4. told \in ToldRecords /\ told.status = op[u].told.status /\ told.rows = list
  BY <1>3, <1>12 DEF ToldRecords
<1>5. op' = [op EXCEPT ![u] = r]
  BY <1>1, <1>13 DEF OpRecords
<1> HIDE DEF told
<1>6. r \in OpRecords /\ r.at = "list scores" /\ r.job = j /\ r.told = told
  BY <1>1, <1>2, <1>4 DEF OpRecords, OpSteps
<1> HIDE DEF r
<1>7. /\ told.status # "running" =>
           jobs[j].status # "running" /\ NonePending(told.rows) /\ TellsAll(told, j)
      /\ \A k \in DOMAIN told.rows : told.rows[k] = "scored" => k \in jobs[j].scores
  <2>1. JobFits(j)
    BY <1>3, SMTT(30)
  <2>2. told.status # "running" => NonePending(jobs[j].rows)
    BY <1>3, <1>4, <2>1 DEF JobFits
  <2>3. told.status # "running" => NonePending(told.rows)
    BY <1>4, <1>12, <2>2 DEF NonePending
  <2>4. TellsAll(told, j)
    BY <1>4, <1>12, SMTT(30) DEF TellsAll
  <2>5. \A k \in DOMAIN told.rows : told.rows[k] = "scored" => k \in jobs[j].scores
    BY <1>4, <1>12, <2>1 DEF JobFits
  <2> QED BY <1>3, <1>4, <2>3, <2>4, <2>5
<1>8. /\ r.told \in ToldRecords
      /\ r.told.status # "running" =>
           jobs[j].status # "running" /\ NonePending(r.told.rows) /\ TellsAll(r.told, j)
      /\ \A k \in DOMAIN r.told.rows : r.told.rows[k] = "scored" => k \in jobs[j].scores
  BY <1>4, <1>6, <1>7
<1>9. ops' \in 0 .. MaxOps /\ UNCHANGED <<revisions, current, profiles, jobs, promised>>
  BY <1>1
<1>10. ToldFits(r, j)
  BY <1>6, <1>8 DEF ToldFits
<1> HIDE DEF j
<1> QED BY <1>2, <1>5, <1>6, <1>9, <1>10, StatusMoveStands

LEMMA TrialOfJobHolds ==
  ASSUME TasksInv, NEW u \in Users, TrialOfJob(u)
  PROVE  TasksInv'
<1>1. ops' \in 0 .. MaxOps /\ UNCHANGED <<revisions, current, profiles, jobs, promised>>
  BY OpensFits, SMTT(30) DEF TrialOfJob
<1>2. PICK j \in 1 .. Len(jobs) :
       \E cut \in FirstTrials(jobs[j].rows) :
         op' = [op EXCEPT ![u] = [NoOp EXCEPT !.at = "list scores", !.job = j,
                  !.told = [status |-> "running", rows |-> [i \in cut |-> jobs[j].rows[i]],
                            scores |-> {}]]]
  BY StoreKnows DEF TrialOfJob
<1>8. PICK cut \in FirstTrials(jobs[j].rows) :
         op' = [op EXCEPT ![u] = [NoOp EXCEPT !.at = "list scores", !.job = j,
                  !.told = [status |-> "running", rows |-> [i \in cut |-> jobs[j].rows[i]],
                            scores |-> {}]]]
  BY <1>2
<1> DEFINE list == [i \in cut |-> jobs[j].rows[i]]
<1>9. list \in Tables /\ \A i \in DOMAIN list : i \in DOMAIN jobs[j].rows /\ list[i] = jobs[j].rows[i]
  <2>1. jobs[j].rows \in Tables
    BY StoreKnows DEF JobRecords
  <2> QED BY <2>1, ListedFits
<1>10. op' = [op EXCEPT ![u] = [NoOp EXCEPT !.at = "list scores", !.job = j,
                 !.told = [status |-> "running", rows |-> list, scores |-> {}]]]
  BY <1>8
<1> HIDE DEF list
<1> DEFINE told == [status |-> "running", rows |-> list, scores |-> {}]
           r == [NoOp EXCEPT !.at = "list scores", !.job = j, !.told = told]
<1>3. /\ told \in ToldRecords /\ told.status = "running" /\ told.rows = list
      /\ JobFits(j)
  <2>1. JobFits(j)
    BY StoreKnows
  <2> QED BY <1>9, <2>1 DEF ToldRecords, JobStatuses
<1>4. op' = [op EXCEPT ![u] = r] /\ Len(jobs) \in Nat
  BY <1>10, StoreKnows
<1> HIDE DEF told
<1>5. r \in OpRecords /\ r.at = "list scores" /\ r.job = j /\ r.told = told
  <2>1. j \in Nat
    BY <1>4
  <2> QED BY <1>3, <2>1, NoOpFits DEF OpRecords, OpSteps
<1> HIDE DEF r
<1>6. \A k \in DOMAIN told.rows : told.rows[k] = "scored" => k \in jobs[j].scores
  BY <1>3, <1>9 DEF JobFits
<1>7. ToldFits(r, j)
  BY <1>3, <1>5, <1>6 DEF ToldFits
<1> QED BY <1>1, <1>4, <1>5, <1>7, StatusMoveStands

LEMMA ListScoresHolds ==
  ASSUME TasksInv, NEW u \in Users, ListScores(u)
  PROVE  TasksInv'
<1>1. /\ op[u].at = "list scores" /\ UNCHANGED <<revisions, current, profiles, jobs, ops, promised>>
      /\ \E cut \in Cuts(jobs[op[u].job].scores) :
           op' = [op EXCEPT ![u].at = "answer", ![u].told.scores = cut]
      /\ ops' \in 0 .. MaxOps /\ op \in [Users -> OpRecords] /\ op[u] \in OpRecords
      /\ jobs \in Seq(JobRecords) /\ OpFits(u)
  BY DEF ListScores, TasksInv, StoreFits
<1>2. PICK j \in 1 .. Len(jobs) : j = op[u].job
  BY <1>1 DEF OpFits, StatusFits
<1>3. /\ op[u].told \in ToldRecords /\ jobs[j].scores \in SUBSET TrialIds
      /\ op[u].told.status # "running" =>
           jobs[j].status # "running" /\ NonePending(op[u].told.rows) /\ TellsAll(op[u].told, j)
      /\ \A k \in DOMAIN op[u].told.rows :
           op[u].told.rows[k] = "scored" => k \in jobs[j].scores
  <2>1. jobs[j] \in JobRecords /\ StatusFits(u)
    BY StoreKnows DEF OpFits
  <2> QED BY <1>1, <1>2, <2>1 DEF StatusFits, JobRecords
<1>11. PICK cut \in Cuts(jobs[j].scores) :
         op' = [op EXCEPT ![u].at = "answer", ![u].told.scores = cut]
  BY <1>1, <1>2
<1>12. /\ cut \in SUBSET TrialIds
       /\ cut = jobs[j].scores \/ Cardinality(cut) = ListCap
  BY <1>3, CutsFit
<1> DEFINE told == [op[u].told EXCEPT !.scores = cut]
           r == [op[u] EXCEPT !.at = "answer", !.told = told]
<1>4. /\ told \in ToldRecords /\ told.status = op[u].told.status
      /\ told.rows = op[u].told.rows /\ told.scores = cut
  BY <1>3, <1>12 DEF ToldRecords
<1>5. op' = [op EXCEPT ![u] = r]
  BY <1>1, <1>11 DEF OpRecords
<1> HIDE DEF told
<1>6. r \in OpRecords /\ r.at = "answer" /\ r.job = j /\ r.told = told
  BY <1>1, <1>2, <1>4 DEF OpRecords, OpSteps
<1> HIDE DEF r
<1>7. /\ told.status # "running" =>
           jobs[j].status # "running" /\ NonePending(told.rows) /\ TellsAll(told, j)
      /\ TellsScores(told)
  <2>1. told.rows = op[u].told.rows => (TellsAll(told, j) <=> TellsAll(op[u].told, j))
    BY DEF TellsAll
  <2> QED BY <1>3, <1>4, <1>12, <2>1 DEF TellsScores
<1>8. /\ r.told \in ToldRecords
      /\ r.told.status # "running" =>
           jobs[j].status # "running" /\ NonePending(r.told.rows) /\ TellsAll(r.told, j)
      /\ TellsScores(r.told)
  BY <1>4, <1>6, <1>7
<1>9. ops' \in 0 .. MaxOps /\ UNCHANGED <<revisions, current, profiles, jobs, promised>>
  BY <1>1
<1>10. ToldFits(r, j)
  BY <1>6, <1>8 DEF ToldFits
<1> QED BY <1>5, <1>6, <1>9, <1>10, StatusMoveStands

LEMMA TasksInvInductive == TasksInv /\ [TasksNext]_taskVars => TasksInv'
<1> SUFFICES ASSUME TasksInv, [TasksNext]_taskVars PROVE TasksInv'
  OBVIOUS
<1>1. ASSUME NEW u \in Users,
             \/ TaskCreate(u) \/ TaskUpdate(u) \/ UpdateTask(u) \/ ProfileAdd(u)
             \/ BenchmarkStart(u) \/ ResolveProfiles(u) \/ CreateJob(u) \/ CreateTrials(u)
             \/ StartHistory(u) \/ CompleteTrial(u) \/ CompleteJob(u) \/ OpEnds(u)
             \/ StatusOfJob(u) \/ TrialOfJob(u) \/ ListTrials(u) \/ ListScores(u)
      PROVE  TasksInv'
  BY <1>1, TaskCreateHolds, TaskUpdateHolds, UpdateTaskHolds, ProfileAddHolds,
     BenchmarkStartHolds, ResolveProfilesHolds, CreateJobHolds, CreateTrialsHolds,
     StartHistoryHolds, CompleteTrialHolds, CompleteJobHolds, OpEndsHolds,
     StatusOfJobHolds, TrialOfJobHolds, ListTrialsHolds, ListScoresHolds
<1>2. CASE UNCHANGED taskVars
  <2>1. UNCHANGED <<revisions, current, profiles, jobs, op, ops, promised>>
    BY <1>2 DEF taskVars
  <2>2. /\ StoreFits' /\ RevisionsFit' /\ PromisesFit' /\ Grows /\ Len(jobs') = Len(jobs)
        /\ Len(jobs) \in Nat
    BY <2>1 DEF TasksInv, StoreFits, RevisionsFit, PromisesFit, UpdatesAreKept, SpecOfTask, Grows
  <2>3. \A j \in 1 .. Len(jobs') : JobFits(j)'
    BY <2>1, <2>2, JobsStand
  <2>4. \A u \in Users : OpFits(u)'
    BY <2>1, <2>2, OpStands
  <2>5. \A u, v \in Owner' : u # v => op'[u].job # op'[v].job
    BY <2>1 DEF TasksInv, Owner
  <2> QED BY <2>2, <2>3, <2>4, <2>5 DEF TasksInv
<1> QED BY <1>1, <1>2 DEF TasksNext

LEMMA TasksInvAlways == TasksSpec => []TasksInv
BY TasksInitHolds, TasksInvInductive, PTL DEF TasksSpec

(* The tables and the operations under way keep their types                *)
(* (src/benchmark/Tool.ts:337-533, bench-store/src/Store.ts:460-900).      *)
THEOREM TasksTypeCorrect == TasksSpec => []TasksTypeOK
<1>1. TasksInv => TasksTypeOK
  <2> SUFFICES ASSUME TasksInv PROVE TasksTypeOK
    OBVIOUS
  <2>1. StoreFits /\ Len(jobs) \in Nat /\ DOMAIN jobs = 1 .. Len(jobs)
    BY DEF TasksInv, StoreFits
  <2>2. ASSUME NEW j \in DOMAIN jobs
        PROVE  /\ jobs[j].task \in TaskIds
               /\ jobs[j].revision \in Revisions
               /\ jobs[j].status \in {"running", "completed", "failed"}
               /\ \A i \in DOMAIN jobs[j].rows :
                    i \in TrialIds /\ jobs[j].rows[i] \in {"pending"} \cup TrialEnds
               /\ jobs[j].scores \subseteq DOMAIN jobs[j].rows
               /\ jobs[j].leader \in jobs[j].scores \cup {Absent}
    <3>1. jobs[j] \in JobRecords /\ JobFits(j)
      BY <2>1 DEF StoreFits, TasksInv
    <3>2. /\ jobs[j].rows \in [DOMAIN jobs[j].rows -> RowStates]
          /\ DOMAIN jobs[j].rows \subseteq TrialIds
      BY <3>1, TablesHold DEF JobRecords
    <3>3. jobs[j].scores \subseteq DOMAIN jobs[j].rows /\ jobs[j].leader \in jobs[j].scores \cup {Absent}
      BY <3>1 DEF JobFits
    <3>4. jobs[j].task \in TaskIds /\ jobs[j].revision \in Revisions /\ jobs[j].status \in JobStatuses
      BY <3>1 DEF JobRecords
    <3> QED BY <3>2, <3>3, <3>4 DEF RowStates, JobStatuses
  <2>3. \A u \in Users : op[u].at \in OpSteps /\ op[u].job \in 0 .. Len(jobs)
    <3>1. \A u \in Users : op[u] \in OpRecords /\ OpFits(u)
      BY DEF TasksInv, StoreFits
    <3> QED BY <3>1 DEF OpRecords, OpFits
  <2> QED BY <2>1, <2>2, <2>3 DEF TasksTypeOK, StoreFits
<1> QED BY <1>1, TasksInvAlways, PTL

(* What task.create and task.update answered stays in the task, field by   *)
(* field, until another answer replaces it, however the reads and the      *)
(* transactions of any number of users interleave                          *)
(* (bench-store/src/Store.ts:506-590, src/benchmark/Tool.ts:337-420).      *)
THEOREM UpdatesStay == TasksSpec => []UpdatesAreKept
<1>1. TasksInv => UpdatesAreKept
  BY DEF TasksInv, PromisesFit
<1> QED BY <1>1, TasksInvAlways, PTL

(* A job runs exactly the profiles of the revision it names, all stored and *)
(* each as often, whatever is updated meanwhile; and a status that tells of *)
(* an ended job tells how each of its trials ended, with every score, for   *)
(* any number of users, profiles and trials and any limit of the lists,     *)
(* unless a list was cut at the limit                                       *)
(* (src/benchmark/Tool.ts:243-321, bench-store/src/Store.ts:640-900).       *)
THEOREM JobsKeepTheirRevision == TasksSpec => []JobsRunTheirRevision
<1>1. TasksInv => JobsRunTheirRevision
  <2> SUFFICES ASSUME TasksInv PROVE JobsRunTheirRevision
    OBVIOUS
  <2>1. StoreFits /\ Len(jobs) \in Nat /\ DOMAIN jobs = 1 .. Len(jobs)
    BY DEF TasksInv, StoreFits
  <2>2. ASSUME NEW j \in DOMAIN jobs
        PROVE  /\ revisions[jobs[j].revision] # Absent
               /\ revisions[jobs[j].revision].task = jobs[j].task
               /\ DOMAIN jobs[j].rows # {} =>
                    /\ {i[1] : i \in DOMAIN jobs[j].rows} = Range(revisions[jobs[j].revision].models)
                    /\ {i[1] : i \in DOMAIN jobs[j].rows} \subseteq profiles
                    /\ \E n \in Trials : \A p \in {i[1] : i \in DOMAIN jobs[j].rows} :
                         {i[2] : i \in {k \in DOMAIN jobs[j].rows : k[1] = p}} = 1 .. n
               /\ jobs[j].events = <<>> => \A i \in DOMAIN jobs[j].rows : jobs[j].rows[i] = "pending"
               /\ jobs[j].status # "running" => Last(jobs[j].events) = "job.completed"
    <3>1. JobFits(j)
      BY <2>1 DEF TasksInv
    <3>2. ASSUME DOMAIN jobs[j].rows # {}
          PROVE  /\ {i[1] : i \in DOMAIN jobs[j].rows} = Range(revisions[jobs[j].revision].models)
                 /\ {i[1] : i \in DOMAIN jobs[j].rows} \subseteq profiles
                 /\ \E n \in Trials : \A p \in {i[1] : i \in DOMAIN jobs[j].rows} :
                      {i[2] : i \in {k \in DOMAIN jobs[j].rows : k[1] = p}} = 1 .. n
      <4> DEFINE models == Range(revisions[jobs[j].revision].models)
                 rows == DOMAIN jobs[j].rows
      <4>1. models \subseteq profiles
        BY <3>1, <3>2 DEF JobFits
      <4>2. PICK n \in Trials : rows = models \X (1 .. n)
        BY <3>1, <3>2 DEF JobFits
      <4>3. n \in Nat \ {0} /\ 1 \in 1 .. n
        BY TasksAssumption
      <4> HIDE DEF models, rows
      <4>4. {i[1] : i \in rows} = models
        <5>1. \A i \in rows : i[1] \in models
          BY <4>2
        <5>2. \A p \in models : <<p, 1>> \in rows /\ <<p, 1>>[1] = p
          BY <4>2, <4>3
        <5> QED BY <5>1, <5>2
      <4>5. ASSUME NEW p \in models
            PROVE  {i[2] : i \in {k \in rows : k[1] = p}} = 1 .. n
        <5>1. \A i \in {k \in rows : k[1] = p} : i[2] \in 1 .. n
          BY <4>2
        <5>2. \A m \in 1 .. n : <<p, m>> \in {k \in rows : k[1] = p} /\ <<p, m>>[2] = m
          BY <4>2, <4>5
        <5> QED BY <5>1, <5>2
      <4> QED BY <4>1, <4>4, <4>5 DEF models, rows
    <3> QED BY <3>1, <3>2 DEF JobFits, AllPending
  <2>3. ASSUME NEW u \in Users, op[u].at = "answer"
        PROVE  LET told == op[u].told IN
               /\ told.status # "running" =>
                    /\ \A i \in DOMAIN told.rows : told.rows[i] # "pending"
                    /\ \/ DOMAIN told.rows = DOMAIN jobs[op[u].job].rows
                       \/ Cardinality(DOMAIN told.rows) = ListCap
               /\ \/ \A i \in DOMAIN told.rows : told.rows[i] = "scored" => i \in told.scores
                  \/ Cardinality(told.scores) = ListCap
    <3>1. StatusFits(u)
      BY DEF TasksInv, OpFits
    <3> QED BY <2>3, <3>1 DEF StatusFits, NonePending, TellsAll, TellsScores
  <2> QED BY <2>2, <2>3 DEF JobsRunTheirRevision
<1> QED BY <1>1, TasksInvAlways, PTL
=============================================================================
