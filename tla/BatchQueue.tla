----------------------------- MODULE BatchQueue -----------------------------
(***************************************************************************)
(* What the calendar's BatchManager promises, with real time left out: one *)
(* bounded FIFO queue per batch mode, one "batch is open" mark per mode,   *)
(* and a poll that takes the whole queue of every mode whose window is     *)
(* over.  Which windows are over is the caller's choice here; module       *)
(* BatchManager decides it with a clock and implements this module.        *)
(***************************************************************************)
EXTENDS Naturals, Sequences, Functions

CONSTANTS
  Stamps,      \* stamp identifiers (the ids submit_stamp generates)
  Modes,       \* batch modes, numbered in the order get_ready_batches visits them
  MaxPending   \* MAX_PENDING_PER_MODE

VARIABLES
  pending,     \* pending[m]: the mode's queue; <<>> stands for an absent map entry
  batchOpen,   \* modes that have a batch_start entry
  ready        \* ready[m]: the mode's batch in the last poll's result, <<>> if none

queueVars == <<pending, batchOpen, ready>>

Queued == UNION {Range(pending[m]) : m \in Modes}
InReady == UNION {Range(ready[m]) : m \in Modes}

Init ==
  /\ pending = [m \in Modes |-> <<>>]
  /\ batchOpen = {}
  /\ ready = [m \in Modes |-> <<>>]

-----------------------------------------------------------------------------

HasRoom(m) == Len(pending[m]) < MaxPending

(* add_digest when it returns true: the first stamp of a mode opens the    *)
(* mode's batch.                                                           *)
AddDigest(s, m) ==
  /\ HasRoom(m)
  /\ batchOpen' = IF pending[m] = <<>> THEN batchOpen \cup {m} ELSE batchOpen
  /\ pending' = [pending EXCEPT ![m] = Append(@, s)]

(* get_ready_batches, for the set of modes whose window is over. *)
GetReadyBatches(due) ==
  /\ due \subseteq batchOpen
  /\ ready' = [m \in Modes |-> IF m \in due THEN pending[m] ELSE <<>>]
  /\ pending' = [m \in Modes |-> IF m \in due THEN <<>> ELSE pending[m]]
  /\ batchOpen' = batchOpen \ due

-----------------------------------------------------------------------------

(* Callers never add a stamp that is still queued: submit_stamp adds a     *)
(* fresh id and the batch loop requeues only stamps it took out.           *)
Next ==
  \/ \E s \in Stamps \ Queued, m \in Modes :
       AddDigest(s, m) /\ UNCHANGED ready
  \/ \E due \in SUBSET Modes : GetReadyBatches(due)

Spec == Init /\ [][Next]_queueVars

=============================================================================
