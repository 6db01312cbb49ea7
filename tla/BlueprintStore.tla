--------------------------- MODULE BlueprintStore ---------------------------
(***************************************************************************)
(* The files of one blueprint (compound-kit/src/Store.ts): the markdown    *)
(* with a block for every version, and the pointer to the current one.     *)
(* A writer holds the lock directory of the blueprint, and may crash       *)
(* between its writes.                                                     *)
(***************************************************************************)
EXTENDS Integers, SequencesExt

CONSTANTS
  Writers,     \* processes that call the store, one call at a time each
  MaxVersion,  \* versions asked for (bound)
  MaxBlocks,   \* blocks of the markdown (bound)
  Foreign,     \* the block of a file without frontmatter
  NoWriter

ASSUME StoreAssumption == MaxVersion \in Nat /\ MaxBlocks \in Nat /\ NoWriter \notin Writers

Versions == 1 .. MaxVersion
CallPhases ==
  {"idle", "append: lock", "append: read", "append: write",
   "point: lock", "point: read", "write pointer", "leave"}

VARIABLES
  blocks,     \* <id>.md: the versions of its blocks, in order
  pointer,    \* <id>.current.json: a version, or 0
  lock,       \* the writer that made the lock directory, or NoWriter
  phase,      \* writer -> where its call is
  version,    \* writer -> the version of its call
  read,       \* writer -> the blocks its call read
  dropped     \* a failing exists() was taken for an absent file (history)

storeVars == <<blocks, pointer, lock, phase, version, read, dropped>>

StoreInit ==
  /\ blocks \in {<<>>, <<Foreign>>}
  /\ pointer = 0
  /\ lock = NoWriter
  /\ phase = [w \in Writers |-> "idle"]
  /\ version = [w \in Writers |-> 0]
  /\ read = [w \in Writers |-> <<>>]
  /\ dropped = FALSE

Steps(w, from, to) == phase[w] = from /\ phase' = [phase EXCEPT ![w] = to]

\* The arguments are checked before anything else: the id is a slug, the
\* version positive, the markdown without a version header.
StartWrite(w) ==
  /\ \/ Steps(w, "idle", "append: lock")
     \/ Steps(w, "idle", "point: lock")
  /\ \E v \in Versions : version' = [version EXCEPT ![w] = v]
  /\ UNCHANGED <<blocks, pointer, lock, read, dropped>>

\* A mutant: the lock directory of another writer is taken over.
LockOver(w) ==
  /\ lock' = w
  /\ \/ Steps(w, "append: lock", "append: read")
     \/ Steps(w, "point: lock", "point: read")
  /\ UNCHANGED <<blocks, pointer, version, read, dropped>>

\* Another writer, alive or not, owns the lock: the call fails at once.
Lock(w) ==
  /\ \/ /\ lock = NoWriter
        /\ lock' = w
        /\ \/ Steps(w, "append: lock", "append: read")
           \/ Steps(w, "point: lock", "point: read")
     \/ /\ lock # NoWriter
        /\ lock' = lock
        /\ \/ Steps(w, "append: lock", "idle")
           \/ Steps(w, "point: lock", "idle")
  /\ UNCHANGED <<blocks, pointer, version, read, dropped>>

\* A failing exists() counts as a file that is not there.
ReadBlocks(w) ==
  /\ \/ /\ Foreign \notin ToSet(blocks)
        /\ Steps(w, "append: read", "append: write")
        /\ read' = [read EXCEPT ![w] = blocks]
        /\ UNCHANGED dropped
     \/ /\ Steps(w, "append: read", "append: write")
        /\ read' = [read EXCEPT ![w] = <<>>]
        /\ dropped' = (dropped \/ blocks # <<>>)
     \/ /\ blocks # <<>>    \* unreadable, or without frontmatter
        /\ Steps(w, "append: read", "leave")
        /\ UNCHANGED <<read, dropped>>
  /\ UNCHANGED <<blocks, pointer, lock, version>>

\* The whole file is written aside and renamed.
WriteBlocks(w) ==
  /\ \/ /\ Len(read[w]) < MaxBlocks
        /\ Steps(w, "append: write", "write pointer")
        /\ blocks' = Append(read[w], version[w])
     \/ /\ Steps(w, "append: write", "leave")
        /\ UNCHANGED blocks
  /\ UNCHANGED <<pointer, lock, version, read, dropped>>

\* setPointer looks for the header of its version.
FindVersion(w) ==
  /\ \/ /\ version[w] \in ToSet(blocks)
        /\ Steps(w, "point: read", "write pointer")
     \/ Steps(w, "point: read", "leave")
  /\ UNCHANGED <<blocks, pointer, lock, version, read, dropped>>

WritePointer(w) ==
  /\ Steps(w, "write pointer", "leave")
  /\ pointer' \in {pointer, version[w]}    \* the write may fail
  /\ UNCHANGED <<blocks, lock, version, read, dropped>>

\* A failure to remove the lock directory is ignored.
Unlock(w) ==
  /\ Steps(w, "leave", "idle")
  /\ lock' \in {NoWriter, lock}
  /\ UNCHANGED <<blocks, pointer, version, read, dropped>>

\* The process dies and another takes its place; a lock it held stays.
Crash(w) ==
  /\ phase[w] # "idle"
  /\ phase' = [phase EXCEPT ![w] = "idle"]
  /\ UNCHANGED <<blocks, pointer, lock, version, read, dropped>>

StoreNext ==
  \E w \in Writers :
    \/ StartWrite(w) \/ Lock(w) \/ ReadBlocks(w) \/ WriteBlocks(w)
    \/ FindVersion(w) \/ WritePointer(w) \/ Unlock(w) \/ Crash(w)

StoreSpec == StoreInit /\ [][StoreNext]_storeVars

StoreTypeOK ==
  /\ blocks \in Seq(Versions \cup {Foreign})
  /\ pointer \in 0 .. MaxVersion
  /\ lock \in Writers \cup {NoWriter}
  /\ phase \in [Writers -> CallPhases]
  /\ version \in [Writers -> 0 .. MaxVersion]
  /\ read \in [Writers -> Seq(Versions)]
  /\ dropped \in BOOLEAN

(* A block that was written stays: an append only adds, also after a crash *)
(* and a lock that was left behind (Store.ts:171-216; the header comment   *)
(* at Store.ts:6 promises it).  The pointer moves only to a version that   *)
(* has a block, wherever a writer dies between the two writes and whoever  *)
(* moves it meanwhile (Store.ts:209-221, 266-279).  Stated while no        *)
(* exists() has failed on a file that is there, which Store.ts:173 takes   *)
(* for an absent one.                                                      *)
BlocksAreKept ==
  [][~dropped =>
       /\ IsPrefix(blocks, blocks')
       /\ pointer' # pointer => pointer' \in ToSet(blocks')]_storeVars
=============================================================================
