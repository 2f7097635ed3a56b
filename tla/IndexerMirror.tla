--------------------------- MODULE IndexerMirror ----------------------------
(***************************************************************************)
(* zkapi-indexerd: the log poller (poller.rs) that replays the events of   *)
(* the vault contract into a mirror of its note tree (tree_mirror.rs) and  *)
(* persists cursor and mirror together, and the readiness flag that guards *)
(* the HTTP endpoints (service.rs, http.rs).                               *)
(*                                                                         *)
(* A Merkle root is represented by the set of notes whose leaf is not      *)
(* zero: a note has one leaf value for life, and the root determines the   *)
(* leaves.  The chain is external: it does not reorganise, and one RPC     *)
(* endpoint answers consistently.                                          *)
(***************************************************************************)
EXTENDS Integers, Sequences, FiniteSets

CONSTANTS
  Notes,            \* note ids, 0..n
  MaxBlockRange,    \* MAX_BLOCK_RANGE
  Checkpointing,    \* cursor_path is configured
  MaxHeight,        \* bound on the blocks
  MaxEvents,        \* bound on the vault events
  MaxCrashes,       \* bound on the restarts of the indexer
  MaxTorn,          \* bound on the batches that fail to decode
  MaxDiskFaults     \* bound on the checkpoints that cannot be written

ASSUME IndexerAssumption ==
  /\ IsFiniteSet(Notes) /\ Notes = 0..(Cardinality(Notes) - 1)
  /\ MaxBlockRange \in Nat \ {0}
  /\ Checkpointing \in BOOLEAN
  /\ MaxHeight \in Nat /\ MaxEvents \in Nat /\ MaxCrashes \in Nat
  /\ MaxTorn \in Nat /\ MaxDiskFaults \in Nat

VARIABLES
  height,             \* external: the latest block
  chain,              \* external: the vault's events, in order
  vault,              \* external: what the vault holds for each note
  mirror,             \* the TreeMirror
  ready,              \* IndexerService.ready
  next_from_block,    \* the poller's cursor
  poll,               \* how far poll_once is
  checkpoint,         \* the checkpoint file
  faults,             \* how often each fault has happened
  bootHeight          \* history: the latest block when the process started

vars == <<height, chain, vault, mirror, ready, next_from_block, poll, checkpoint, faults, bootHeight>>

EventKind == {"NoteDeposited", "MutualClose", "EscapeWithdrawalInitiated",
              "EscapeWithdrawalChallenged", "EscapeWithdrawalFinalized", "ExpiredClaimed"}

\* A log entry, with the tree of the vault after it.
VaultEvent == [block : Nat, kind : EventKind, note : Notes, root : SUBSET Notes]

TreeMirror == [leaves : SUBSET Notes, original_leaves : SUBSET Notes,
               next_note_id : 0..Cardinality(Notes)]
EmptyMirror == [leaves |-> {}, original_leaves |-> {}, next_note_id |-> 0]

\* last_processed_block + 1, so that 0 is a missing file
Checkpoint == [next : Nat, mirror : TreeMirror]
NoCheckpoint == [next |-> 0, mirror |-> EmptyMirror]

Poll == [pc : {"idle", "logs", "apply", "stopped"}, latest : Nat, to : Nat, todo : Seq(VaultEvent)]
NotPolling == [pc |-> "idle", latest |-> 0, to |-> 0, todo |-> <<>>]

FromBlock == 0

IndexerTypeOK ==
  /\ height \in 0..MaxHeight
  /\ chain \in Seq(VaultEvent) /\ Len(chain) <= MaxEvents
  /\ vault \in [Notes -> {"none", "active", "escaping", "closed"}]
  /\ mirror \in TreeMirror
  /\ ready \in BOOLEAN
  /\ next_from_block \in 0..(MaxHeight + 1)
  /\ poll \in Poll
  /\ checkpoint \in Checkpoint
  /\ faults \in [crashes : 0..MaxCrashes, torn : 0..MaxTorn, disk : 0..MaxDiskFaults]
  /\ bootHeight \in 0..MaxHeight

IndexerInit ==
  /\ height = 0
  /\ chain = <<>>
  /\ vault = [n \in Notes |-> "none"]
  /\ mirror = EmptyMirror
  /\ ready = FALSE
  /\ next_from_block = FromBlock
  /\ poll = NotPolling
  /\ checkpoint = NoCheckpoint
  /\ faults = [crashes |-> 0, torn |-> 0, disk |-> 0]
  /\ bootHeight = 0

-----------------------------------------------------------------------------
(* The chain, external *)

ActiveNotes(v) == {n \in Notes : v[n] = "active"}

\* How many events the blocks before b hold.
EventsBefore(b) == Cardinality({i \in 1..Len(chain) : chain[i].block < b})

\* eth_getLogs: the events of the blocks from..to, in their order.
LogsOf(from, to) == SubSeq(chain, EventsBefore(from) + 1, EventsBefore(to + 1))

Emit(kind, n, from, to) ==
  /\ Len(chain) < MaxEvents /\ height < MaxHeight
  /\ vault[n] \in from
  /\ vault' = [vault EXCEPT ![n] = to]
  /\ chain' = Append(chain, [block |-> height + 1, kind |-> kind, note |-> n,
                             root |-> ActiveNotes(vault')])
  /\ UNCHANGED <<height, mirror, ready, next_from_block, poll, checkpoint, faults, bootHeight>>

\* Note ids are handed out in order.
VaultStep ==
  \E n \in Notes :
    \/ (\A m \in Notes : m < n => vault[m] # "none") /\ Emit("NoteDeposited", n, {"none"}, "active")
    \/ Emit("MutualClose", n, {"active"}, "closed")
    \/ Emit("EscapeWithdrawalInitiated", n, {"active"}, "escaping")
    \/ Emit("EscapeWithdrawalChallenged", n, {"escaping"}, "active")
    \/ Emit("EscapeWithdrawalFinalized", n, {"escaping"}, "closed")
    \/ Emit("ExpiredClaimed", n, {"active"}, "closed")

\* The block with the events emitted so far is mined.
Mine ==
  /\ height < MaxHeight
  /\ height' = height + 1
  /\ UNCHANGED <<chain, vault, mirror, ready, next_from_block, poll, checkpoint, faults, bootHeight>>

-----------------------------------------------------------------------------
(* TreeMirror *)

\* Mutants: a challenged withdrawal leaves the leaf zeroed; deposits are counted.
process_event_NoRestore(m, e) ==
  CASE e.kind = "NoteDeposited" ->
         [leaves |-> m.leaves \cup {e.note},
          original_leaves |-> m.original_leaves \cup {e.note},
          next_note_id |-> IF m.next_note_id > e.note THEN m.next_note_id ELSE e.note + 1]
    [] e.kind \in {"EscapeWithdrawalChallenged", "EscapeWithdrawalFinalized"} -> m
    [] OTHER -> [m EXCEPT !.leaves = @ \ {e.note}]

process_event_Counts(m, e) ==
  IF e.kind = "NoteDeposited"
    THEN [leaves |-> m.leaves \cup {e.note},
          original_leaves |-> m.original_leaves \cup {e.note},
          next_note_id |-> m.next_note_id + 1]
    ELSE process_event_NoRestore(m, e)

process_event(m, e) ==
  CASE e.kind = "NoteDeposited" ->
         [leaves |-> m.leaves \cup {e.note},
          original_leaves |-> m.original_leaves \cup {e.note},
          next_note_id |-> IF m.next_note_id > e.note THEN m.next_note_id ELSE e.note + 1]
    [] e.kind = "EscapeWithdrawalChallenged" ->
         [m EXCEPT !.leaves = @ \cup (m.original_leaves \cap {e.note})]
    [] e.kind = "EscapeWithdrawalFinalized" -> m
    [] OTHER -> [m EXCEPT !.leaves = @ \ {e.note}]

\* snapshot and from_snapshot: the leaves below next_note_id are kept.
snapshot(m) == [m EXCEPT !.leaves = {n \in @ : n < m.next_note_id}]

-----------------------------------------------------------------------------
(* poll_once *)

PollFrame == UNCHANGED <<height, chain, vault, bootHeight>>

\* A batch has at most MaxBlockRange blocks and ends no later than the latest.
ToBlock(latest) ==
  LET last == next_from_block + MaxBlockRange - 1 IN IF latest <= last THEN latest ELSE last

\* fetch_block_number: nothing new, or a batch to fetch
fetch_block_number ==
  /\ poll.pc = "idle"
  /\ \/ /\ height < next_from_block
        /\ ready' = TRUE
        /\ UNCHANGED poll
     \/ /\ height >= next_from_block
        /\ poll' = [pc |-> "logs", latest |-> height, to |-> ToBlock(height), todo |-> <<>>]
        /\ UNCHANGED ready
  /\ PollFrame /\ UNCHANGED <<mirror, next_from_block, checkpoint, faults>>

\* fetch_logs
fetch_logs ==
  /\ poll.pc = "logs"
  /\ poll' = [poll EXCEPT !.pc = "apply", !.todo = LogsOf(next_from_block, poll.to)]
  /\ PollFrame /\ UNCHANGED <<mirror, ready, next_from_block, checkpoint, faults>>

\* Mutant: the poller's task ends with the first error.
RpcFails_Stops ==
  /\ poll.pc = "logs"
  /\ poll' = [NotPolling EXCEPT !.pc = "stopped"]
  /\ PollFrame /\ UNCHANGED <<mirror, ready, next_from_block, checkpoint, faults>>

\* An RPC error is logged and the next tick polls again.
RpcFails ==
  /\ poll.pc = "logs"
  /\ poll' = NotPolling
  /\ PollFrame /\ UNCHANGED <<mirror, ready, next_from_block, checkpoint, faults>>

\* The events are applied one by one: readers run between them.
ApplyEvent ==
  /\ poll.pc = "apply" /\ poll.todo # <<>>
  /\ mirror' = process_event(mirror, Head(poll.todo))
  /\ poll' = [poll EXCEPT !.todo = Tail(@)]
  /\ PollFrame /\ UNCHANGED <<ready, next_from_block, checkpoint, faults>>

\* decode_log fails: the events before it stay applied, the cursor stays.
DecodeFails ==
  /\ poll.pc = "apply" /\ poll.todo # <<>>
  /\ faults.torn < MaxTorn
  /\ faults' = [faults EXCEPT !.torn = @ + 1]
  /\ poll' = NotPolling
  /\ PollFrame /\ UNCHANGED <<mirror, ready, next_from_block, checkpoint>>

\* Mutant: ready after the first batch.
CaughtUp_Always(to, latest) == TRUE

CaughtUp(to, latest) == to = latest

\* A temporary file and a rename: the old checkpoint or the new one.
persist_checkpoint ==
  IF Checkpointing THEN [next |-> poll.to + 1, mirror |-> snapshot(mirror)] ELSE checkpoint

BatchDone ==
  /\ poll.pc = "apply" /\ poll.todo = <<>>
  /\ next_from_block' = poll.to + 1
  /\ checkpoint' = persist_checkpoint
  /\ ready' = (ready \/ CaughtUp(poll.to, poll.latest))
  /\ poll' = NotPolling
  /\ PollFrame /\ UNCHANGED <<mirror, faults>>

\* The cursor in memory has moved on when the write fails.
PersistFails ==
  /\ poll.pc = "apply" /\ poll.todo = <<>>
  /\ Checkpointing /\ faults.disk < MaxDiskFaults
  /\ faults' = [faults EXCEPT !.disk = @ + 1]
  /\ next_from_block' = poll.to + 1
  /\ poll' = NotPolling
  /\ PollFrame /\ UNCHANGED <<mirror, ready, checkpoint>>

-----------------------------------------------------------------------------
RestoredMirror == IF checkpoint.next > 0 THEN snapshot(checkpoint.mirror) ELSE EmptyMirror

\* The process dies, and run_indexer and JsonRpcLogPoller::new start again.
Restart ==
  /\ faults.crashes < MaxCrashes
  /\ faults' = [faults EXCEPT !.crashes = @ + 1]
  /\ mirror' = RestoredMirror
  /\ next_from_block' = IF checkpoint.next > 0 THEN checkpoint.next ELSE FromBlock
  /\ ready' = FALSE
  /\ poll' = NotPolling
  /\ bootHeight' = height
  /\ UNCHANGED <<height, chain, vault, checkpoint>>

-----------------------------------------------------------------------------
(* The endpoints *)

ensure_ready == ready

\* What a reader may be given now: nothing (503) while the mirror is catching
\* up, else the tree and the next id under one lock.
Served ==
  IF ensure_ready THEN {[leaves |-> mirror.leaves, next_note_id |-> mirror.next_note_id]} ELSE {}

-----------------------------------------------------------------------------
PollStep == fetch_block_number \/ fetch_logs \/ ApplyEvent \/ BatchDone

IndexerNext ==
  \/ VaultStep \/ Mine
  \/ PollStep
  \/ RpcFails \/ DecodeFails \/ PersistFails
  \/ Restart

IndexerSpec == IndexerInit /\ [][IndexerNext]_vars

\* The ticker keeps polling, the endpoint answers in the end, blocks are mined.
LiveIndexerSpec ==
  /\ IndexerSpec
  /\ WF_vars(PollStep)
  /\ SF_vars(fetch_logs)
  /\ WF_vars(Mine)

-----------------------------------------------------------------------------
(* Properties *)

\* The vault's tree, and the notes deposited, after k events.
RootAfter(k) == IF k = 0 THEN {} ELSE chain[k].root
DepositsUpTo(k) == {chain[i].note : i \in {j \in 1..k : chain[j].kind = "NoteDeposited"}}

(***************************************************************************)
(* Cursor and mirror on disk always agree: the stored tree is the vault's  *)
(* after exactly the blocks before the stored cursor, with the leaf of     *)
(* every deposit kept for a later challenge, although batches may be       *)
(* applied twice after a decoding error and the cursor moves on in memory  *)
(* when a write fails.                                                     *)
(***************************************************************************)
CheckpointMatchesVault ==
  checkpoint.next > 0 =>
    LET k == EventsBefore(checkpoint.next) IN
      /\ checkpoint.mirror.leaves = RootAfter(k)
      /\ checkpoint.mirror.original_leaves = DepositsUpTo(k)

(***************************************************************************)
(* A tree the endpoints serve is one the vault had, with the next note id  *)
(* it had then, and no older than the latest block when the process        *)
(* started: ensure_ready holds readers back while a restart catches up,    *)
(* also over several batches.  (A batch that failed to decode half-way and *)
(* is applied again is excepted: README.)                                  *)
(***************************************************************************)
ServedRootExisted ==
  faults.torn = 0 =>
    \A answer \in Served :
      \E k \in EventsBefore(bootHeight + 1)..Len(chain) :
        /\ answer.leaves = RootAfter(k)
        /\ answer.next_note_id = Cardinality(DepositsUpTo(k))

(***************************************************************************)
(* The mirror reaches the vault's tree in the end and stays there, after   *)
(* any restarts, RPC errors, undecodable answers and failed writes.        *)
(***************************************************************************)
MirrorCatchesUp ==
  <>[](ready /\ mirror.leaves = RootAfter(EventsBefore(height + 1)))

-----------------------------------------------------------------------------
(* The inductive invariant: what makes the properties above true together *)

\* An event that may change the leaf of n.
Touches(e, n) == e.note = n /\ e.kind # "EscapeWithdrawalFinalized"

\* The log is in block order, up to the block that is being filled; EventsBefore(b)
\* is the index of the last event before block b.
LogIsOrdered ==
  /\ \A i \in 1..Len(chain) : 0 < chain[i].block /\ chain[i].block <= height + 1
  /\ \A b \in 0..(MaxHeight + 1) :
       /\ EventsBefore(b) \in 0..Len(chain)
       /\ \A i \in 1..Len(chain) : chain[i].block < b <=> i <= EventsBefore(b)

\* What an event of the vault does to its tree: a deposit is of the next note, other
\* events are of notes deposited before.
RootsFollowEvents ==
  \A i \in 1..Len(chain) :
    LET e == chain[i]
        before == RootAfter(i - 1) IN
      /\ e.root =
           CASE e.kind \in {"NoteDeposited", "EscapeWithdrawalChallenged"} -> before \cup {e.note}
             [] e.kind = "EscapeWithdrawalFinalized" -> before
             [] OTHER -> before \ {e.note}
      /\ IF e.kind = "NoteDeposited" THEN DepositsUpTo(i - 1) = 0..(e.note - 1)
                                     ELSE e.note \in DepositsUpTo(i - 1)

\* The tree differs after j and after k events only in notes an event between them touches.
RootsDifferByEvents ==
  \A j, k \in 0..Len(chain) : \A n \in Notes :
    j <= k => \/ n \in RootAfter(j) <=> n \in RootAfter(k)
              \/ \E i \in (j + 1)..k : Touches(chain[i], n)

\* The vault holds what its log says, and gave out the ids in order.
VaultMatchesLog ==
  /\ RootAfter(Len(chain)) = ActiveNotes(vault)
  /\ DepositsUpTo(Len(chain)) = {n \in Notes : vault[n] # "none"}
  /\ \A m, n \in Notes : m < n /\ vault[n] # "none" => vault[m] # "none"

\* The mirror knows the leaf of every note below next_note_id.
Coherent(m) == m.original_leaves = 0..(m.next_note_id - 1) /\ m.leaves \subseteq m.original_leaves

(***************************************************************************)
(* The mirror has the leaves of the vault after k events, except of notes  *)
(* that one of the events up to q touches: those will be applied again.    *)
(***************************************************************************)
Follows(m, k, q) ==
  /\ k <= q
  /\ DepositsUpTo(k) \subseteq m.original_leaves /\ m.original_leaves \subseteq DepositsUpTo(q)
  /\ \A n \in Notes : \/ n \in m.leaves <=> n \in RootAfter(k)
                      \/ \E i \in (k + 1)..q : Touches(chain[i], n)

\* Only a batch that failed half-way leaves the mirror ahead of the events it has applied.
Mirrors(k, q) == Follows(mirror, k, IF faults.torn = 0 THEN k ELSE q)

\* A file written after all of its blocks were applied.
CheckpointFollows ==
  checkpoint.next > 0 =>
    /\ checkpoint.next <= height + 1
    /\ Coherent(checkpoint.mirror)
    /\ Follows(checkpoint.mirror, EventsBefore(checkpoint.next), EventsBefore(checkpoint.next))

\* The cursor is behind the chain, and a ready mirror not behind the start of the process.
CursorIsSound ==
  /\ next_from_block <= height + 1
  /\ bootHeight <= height
  /\ ready => bootHeight < next_from_block

\* What is left of a batch is the rest of its blocks' events.
PollFollows ==
  LET cursor == EventsBefore(next_from_block)
      last == EventsBefore(poll.to + 1) IN
    /\ poll.pc \in {"idle", "stopped"} => Mirrors(cursor, EventsBefore(ToBlock(height) + 1))
    /\ poll.pc \in {"logs", "apply"} =>
         /\ bootHeight <= poll.latest /\ poll.latest <= height
         /\ poll.to = ToBlock(poll.latest) /\ next_from_block <= poll.to
    /\ poll.pc = "logs" => Mirrors(cursor, last)
    /\ poll.pc = "apply" =>
         \E k \in cursor..last :
           /\ Len(poll.todo) = last - k
           /\ \A j \in 1..Len(poll.todo) : poll.todo[j] = chain[k + j]
           /\ Mirrors(k, last)

(***************************************************************************)
(* The chain, the mirror, the cursor and the file agree at every step of a *)
(* poll, whatever failed before: applied twice or once, the events up to   *)
(* the end of a batch give the vault's tree.                               *)
(***************************************************************************)
IndexerInv ==
  /\ IndexerTypeOK
  /\ LogIsOrdered /\ RootsFollowEvents /\ RootsDifferByEvents /\ VaultMatchesLog
  /\ Coherent(mirror)
  /\ CheckpointFollows
  /\ CursorIsSound
  /\ PollFollows

=============================================================================
