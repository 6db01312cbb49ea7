------------------------------- MODULE Claim -------------------------------
(***************************************************************************)
(* The claim kernel (src/Claim.ts) for one piece of work.  Every operation *)
(* reads the clock first and changes the store in a later step, one        *)
(* Ref.modify: what it decides with may be old by then.                    *)
(***************************************************************************)
EXTENDS Integers

CONSTANTS
  Callers,   \* fibers that call the kernel, one call at a time each
  HolderOf,  \* caller -> the holder it calls for
  Ttl,       \* CLAIM_TTL
  MaxClock,  \* the clock stops here (bound)
  MaxId,     \* claims made (bound)
  NoClaim    \* nothing

ASSUME TtlAssumption == Ttl \in Nat /\ MaxClock \in Nat /\ MaxId \in Nat

Holders == {HolderOf[c] : c \in Callers}
Operations == {"acquire", "heartbeat", "release", "purge"}
Ids == 1 .. MaxId
Claims == [id : Ids, holder : Holders, expiresAt : Nat]

VARIABLES
  clock,
  store,     \* the claim of the work, or NoClaim
  made,      \* ids drawn so far
  call,      \* caller -> its call: the operation, the clock it read, its arguments
  held       \* caller -> the claim its last successful call returned (history)

claimVars == <<clock, store, made, call, held>>

NoCall == [op |-> "none", now |-> 0, id |-> 0]
ClaimCalls == [op : Operations \cup {"none"}, now : Nat, id : 0 .. MaxId]

ClaimInit ==
  /\ clock = 0
  /\ store = NoClaim
  /\ made = 0
  /\ call = [c \in Callers |-> NoCall]
  /\ held = [c \in Callers |-> NoClaim]

Live(claim, now) == claim.expiresAt > now

Tick ==
  /\ clock < MaxClock
  /\ clock' = clock + 1
  /\ UNCHANGED <<store, made, call, held>>

\* An acquire draws the id it may need; a heartbeat names a claim.
StartCall(c) ==
  /\ call[c] = NoCall
  /\ \E op \in Operations, id \in 0 .. MaxId :
       /\ op = "acquire" => id = made + 1
       /\ op = "heartbeat" => id \in 1 .. made
       /\ op \in {"release", "purge"} => id = 0
       /\ call' = [call EXCEPT ![c] = [op |-> op, now |-> clock, id |-> id]]
       /\ made' = IF op = "acquire" THEN id ELSE made
  /\ UNCHANGED <<clock, store, held>>

Done(c) == call' = [call EXCEPT ![c] = NoCall]
Fails(c) == Done(c) /\ UNCHANGED <<store, held>>
Returns(c, claim) ==
  /\ store' = claim
  /\ held' = [held EXCEPT ![c] = claim]
  /\ Done(c)

ClaimFor(c, id) == [id |-> id, holder |-> HolderOf[c], expiresAt |-> call[c].now + Ttl]

\* A mutant: the claim is compared with the expiry of the next one.
TakeBeforeNextExpiry(claim, now) == ~Live(claim, now + Ttl)

\* The claim of another holder may be taken once it has expired.
MayTake(claim, now) == ~Live(claim, now)

Acquire(c) ==
  /\ call[c].op = "acquire"
  /\ \/ /\ store = NoClaim
        /\ Returns(c, ClaimFor(c, call[c].id))
     \/ /\ store # NoClaim
        /\ MayTake(store, call[c].now)
        /\ Returns(c, ClaimFor(c, call[c].id))
     \/ /\ store # NoClaim
        /\ ~MayTake(store, call[c].now)
        /\ store.holder = HolderOf[c]
        /\ Returns(c, ClaimFor(c, store.id))
     \/ /\ store # NoClaim
        /\ ~MayTake(store, call[c].now)
        /\ store.holder # HolderOf[c]
        /\ Fails(c)
  /\ UNCHANGED <<clock, made>>

\* NotFound, NotHolder and ClaimExpired leave the store as it is.
Heartbeat(c) ==
  /\ call[c].op = "heartbeat"
  /\ LET mine == /\ store # NoClaim
                 /\ store.id = call[c].id
                 /\ store.holder = HolderOf[c]
                 /\ Live(store, call[c].now)
     IN  \/ mine /\ Returns(c, ClaimFor(c, store.id))
         \/ ~mine /\ Fails(c)
  /\ UNCHANGED <<clock, made>>

\* An expired claim is removed and reported as not found.
Release(c) ==
  /\ call[c].op = "release"
  /\ \/ /\ store # NoClaim
        /\ Live(store, call[c].now) => store.holder = HolderOf[c]
        /\ store' = NoClaim
        /\ held' = IF Live(store, call[c].now) THEN [held EXCEPT ![c] = NoClaim] ELSE held
        /\ Done(c)
     \/ /\ store # NoClaim => Live(store, call[c].now) /\ store.holder # HolderOf[c]
        /\ Fails(c)
  /\ UNCHANGED <<clock, made>>

Purge(c) ==
  /\ call[c].op = "purge"
  /\ store' = IF store # NoClaim /\ ~Live(store, call[c].now) THEN NoClaim ELSE store
  /\ Done(c)
  /\ UNCHANGED <<clock, made, held>>

Serve(c) == Acquire(c) \/ Heartbeat(c) \/ Release(c) \/ Purge(c)

ClaimNext == Tick \/ \E c \in Callers : StartCall(c) \/ Serve(c)

ClaimSpec == ClaimInit /\ [][ClaimNext]_claimVars

ClaimTypeOK ==
  /\ clock \in Nat
  /\ store \in Claims \cup {NoClaim}
  /\ made \in 0 .. MaxId
  /\ call \in [Callers -> ClaimCalls]
  /\ held \in [Callers -> Claims \cup {NoClaim}]

\* A caller is the only one that calls for its holder.
Solo(c) == \A d \in Callers : HolderOf[d] = HolderOf[c] => d = c

(* A claim returned to a holder is the claim of the work until it expires  *)
(* by the clock, however old the times the other callers decide with: no   *)
(* acquire, release or purge takes it away (Claim.ts:61-107).  It is stated *)
(* for a holder that calls from one fiber: two fibers of one holder may    *)
(* refresh in the other order and shorten the claim.                       *)
LeaseHolds ==
  \A c \in Callers :
    Solo(c) /\ held[c] # NoClaim /\ Live(held[c], clock) => store = held[c]
=============================================================================
