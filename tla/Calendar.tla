------------------------------ MODULE Calendar ------------------------------
(***************************************************************************)
(* The calendar server: submit_stamp request tasks, the batch processing   *)
(* loop, the stamps table, the queue they share, and the commitments on    *)
(* the chain, with restarts and graceful shutdown.  A step ends where the  *)
(* code awaits, so request tasks and the loop interleave at every await.   *)
(* The node and the wallet appear through the outcomes of                  *)
(* submit_commitment; the windows through the queue of module BatchQueue.  *)
(***************************************************************************)
EXTENDS Naturals, Sequences, FiniteSets, Functions

CONSTANTS
  Stamps,        \* the submissions; each is given a fresh id
  Modes,         \* batch modes, numbered in polling order
  Worlds,        \* what a behaviour may meet: see below
  MaxPending,    \* MAX_PENDING_PER_MODE
  MaxLost,       \* bound on commitments whose success was not seen
  MaxRestarts    \* bound on restarts

(* A world gives each submission its batch_mode and says what may go wrong: *)
(* "db"        a write to the stamps table fails                           *)
(* "node"      submit_commitment fails with nothing sent                   *)
(* "lost"      submit_commitment fails though the commitment is on chain   *)
(* "crash"     the process dies and is started again                       *)
(* "shutdown"  the process is asked to stop, and is started again          *)
ASSUME CalendarAssumption ==
  /\ Modes \subseteq Nat \ {0}
  /\ \A w \in Worlds :
       /\ w.modeOf \in [Stamps -> Modes]
       /\ w.faults \subseteq {"db", "node", "lost", "crash", "shutdown"}
  /\ MaxPending \in Nat \ {0}
  /\ MaxLost \in Nat /\ MaxRestarts \in Nat

VARIABLES
  pending, batchOpen, ready,  \* the BatchManager and the last poll's result
  db,          \* db[s]: the row of the stamps table, status "absent" if none
  request,     \* progress and answer of POST /v1/stamp for each submission
  pc,          \* where the batch loop is
  batch,       \* the batch the loop holds, and its position in it
  leftOut,     \* the stamps counted as not put back after a failure
  chain,       \* the commitments on chain: each the leaves of its Merkle tree
  lost,        \* commitments made whose success the server did not see
  lastEvent,   \* last WebSocket event broadcast about each stamp
  signalled,   \* the shutdown signal was sent
  restarts,
  world        \* the behaviour's member of Worlds

queueVars == <<pending, batchOpen, ready>>
loopVars == <<pc, batch, leftOut>>
serverVars == <<signalled, restarts, world>>
vars == <<queueVars, db, request, loopVars, chain, lost, lastEvent, serverVars>>

Q == INSTANCE BatchQueue

MayFail(f) == f \in world.faults

-----------------------------------------------------------------------------

(* Stored proofs.  A Kaspa attestation names the commitment and the leaf   *)
(* its Merkle path leads from.                                             *)
NoProof == [kind |-> "none", tx |-> 0, leaf |-> 0]
PendingProof == [kind |-> "pending", tx |-> 0, leaf |-> 0]
KaspaProof(tx, leaf) == [kind |-> "kaspa", tx |-> tx, leaf |-> leaf]

NoRow == [status |-> "absent", proof |-> NoProof]
NoBatch == [mode |-> 0, stamps |-> <<>>, i |-> 0, tx |-> 0]

Current == batch.stamps[batch.i]
IsLast == batch.i = Len(batch.stamps)
NothingReady == \A m \in Modes : ready[m] = <<>>

Init ==
  /\ Q!Init
  /\ db = [s \in Stamps |-> NoRow]
  /\ request = [s \in Stamps |-> "new"]
  /\ pc = "idle"
  /\ batch = NoBatch
  /\ leftOut = {}
  /\ chain = <<>>
  /\ lost = 0
  /\ lastEvent = [s \in Stamps |-> "none"]
  /\ signalled = FALSE
  /\ restarts = 0
  /\ world \in Worlds

-----------------------------------------------------------------------------
(* submit_stamp *)

(* The row is saved before the stamp is queued.  A failed save answers 500. *)
SaveStamp(s) ==
  /\ request[s] = "new"
  /\ \/ /\ db' = [db EXCEPT ![s] = [status |-> "pending", proof |-> PendingProof]]
        /\ request' = [request EXCEPT ![s] = "saved"]
     \/ /\ MayFail("db")
        /\ request' = [request EXCEPT ![s] = "error"]
        /\ UNCHANGED db
  /\ UNCHANGED <<queueVars, loopVars, chain, lost, lastEvent, serverVars>>

(* add_digest, then 200 if there was room. *)
Enqueue(s) ==
  /\ request[s] = "saved"
  /\ \/ /\ Q!AddDigest(s, world.modeOf[s])
        /\ request' = [request EXCEPT ![s] = "accepted"]
     \/ /\ ~Q!HasRoom(world.modeOf[s])
        /\ request' = [request EXCEPT ![s] = "full"]
        /\ UNCHANGED <<pending, batchOpen>>
  /\ UNCHANGED <<ready, db, loopVars, chain, lost, lastEvent, serverVars>>

(* delete_stamp and 503; a failed delete is only logged. *)
Refuse(s) ==
  /\ request[s] = "full"
  /\ request' = [request EXCEPT ![s] = "busy"]
  /\ \/ db' = [db EXCEPT ![s] = NoRow]
     \/ MayFail("db") /\ UNCHANGED db
  /\ UNCHANGED <<queueVars, loopVars, chain, lost, lastEvent, serverVars>>

-----------------------------------------------------------------------------
(* batch_processing_loop *)

(* A tick of the interval: take the batches whose window is over.  A tick  *)
(* that finds none changes nothing.                                        *)
Poll(due) ==
  /\ pc = "idle" /\ NothingReady
  /\ due # {}
  /\ Q!GetReadyBatches(due)
  /\ UNCHANGED <<db, request, loopVars, chain, lost, lastEvent, serverVars>>

(* The poll's result without the batch just begun; the slip leaves it in.  *)
RestOfReadyAll(m) == ready
RestOfReady(m) == [ready EXCEPT ![m] = <<>>]

(* The next batch of the poll's result, in mode order: broadcast "batched" *)
(* for each stamp and build the Merkle tree over their digests.            *)
StartBatch(m) ==
  /\ pc = "idle"
  /\ ready[m] # <<>>
  /\ \A n \in Modes : n < m => ready[n] = <<>>
  /\ batch' = [mode |-> m, stamps |-> ready[m], i |-> 1, tx |-> 0]
  /\ ready' = RestOfReady(m)
  /\ lastEvent' = [s \in Stamps |->
                     IF s \in Range(ready[m]) THEN "batched" ELSE lastEvent[s]]
  /\ pc' = "submit"
  /\ UNCHANGED <<pending, batchOpen, leftOut, db, request, chain, lost, serverVars>>

(* submit_commitment returned Ok: the transaction is in a block. *)
SubmitOk ==
  /\ pc = "submit"
  /\ chain' = Append(chain, batch.stamps)
  /\ batch' = [batch EXCEPT !.tx = Len(chain) + 1]
  /\ pc' = "status"
  /\ UNCHANGED <<queueVars, db, request, leftOut, lost, lastEvent, serverVars>>

(* Where an Err from submit_commitment leads; the slip goes on as after Ok. *)
AfterErrIgnored == "status"
AfterErr == "requeue"

(* submit_commitment returned Err before anything reached the node. *)
SubmitFails ==
  /\ MayFail("node")
  /\ pc = "submit"
  /\ pc' = AfterErr
  /\ UNCHANGED <<queueVars, db, request, batch, leftOut, chain, lost, lastEvent, serverVars>>

(* submit_commitment returned Err (no answer, or no confirmation in time)  *)
(* although the node has, or will have, the transaction in a block.        *)
SubmitLost ==
  /\ MayFail("lost") /\ lost < MaxLost
  /\ pc = "submit"
  /\ chain' = Append(chain, batch.stamps)
  /\ lost' = lost + 1
  /\ pc' = AfterErr
  /\ UNCHANGED <<queueVars, db, request, batch, leftOut, lastEvent, serverVars>>

(* On to the batch's next stamp at step `step`, or to `done` after the last. *)
Advance(step, done) ==
  \/ ~IsLast /\ batch' = [batch EXCEPT !.i = @ + 1] /\ pc' = step
  \/ IsLast /\ batch' = NoBatch /\ pc' = done

(* Put one stamp back with add_digest, in its batch's mode.  Other tasks   *)
(* may queue stamps between two of these, and a stamp that finds the queue *)
(* full is counted and left out.  The slip discards every stamp instead.    *)
PutBackNever(s, m) == UNCHANGED <<pending, batchOpen, leftOut>>
PutBack(s, m) ==
  \/ Q!AddDigest(s, m) /\ UNCHANGED leftOut
  \/ ~Q!HasRoom(m) /\ leftOut' = leftOut \cup {s} /\ UNCHANGED <<pending, batchOpen>>

Requeue ==
  /\ pc = "requeue"
  /\ PutBack(Current, batch.mode)
  /\ Advance("requeue", "backoff")
  /\ UNCHANGED <<ready, db, request, chain, lost, lastEvent, serverVars>>

(* The end of the five seconds' sleep after a failed submission. *)
Wake ==
  /\ pc = "backoff"
  /\ pc' = "idle"
  /\ UNCHANGED <<queueVars, db, request, batch, leftOut, chain, lost, lastEvent, serverVars>>

(* update_stamp_status: an UPDATE, which does nothing without a row; an    *)
(* error is only logged.                                                   *)
UpdateStatus ==
  /\ pc = "status"
  /\ \/ db' = IF db[Current].status = "absent" THEN db
              ELSE [db EXCEPT ![Current].status = "confirmed"]
     \/ MayFail("db") /\ UNCHANGED db
  /\ pc' = "proof"
  /\ UNCHANGED <<queueVars, request, batch, leftOut, chain, lost, lastEvent, serverVars>>

(* The proof of the batch's i-th stamp: the path of leaf i, the attestation *)
(* of the batch's transaction.  The slip counts leaves from the other end.  *)
ProofOfCurrentReversed ==
  KaspaProof(batch.tx, Len(batch.stamps) + 1 - batch.i)
ProofOfCurrent == KaspaProof(batch.tx, batch.i)

(* update_stamp_proof, likewise.  The slip only logs. *)
UpdateProofSkipped ==
  /\ pc = "proof"
  /\ pc' = "notify"
  /\ UNCHANGED <<queueVars, db, request, batch, leftOut, chain, lost, lastEvent, serverVars>>
UpdateProof ==
  /\ pc = "proof"
  /\ \/ db' = IF db[Current].status = "absent" THEN db
              ELSE [db EXCEPT ![Current].proof = ProofOfCurrent]
     \/ MayFail("db") /\ UNCHANGED db
  /\ pc' = "notify"
  /\ UNCHANGED <<queueVars, request, batch, leftOut, chain, lost, lastEvent, serverVars>>

(* broadcast_confirmation, whatever became of the two updates. *)
Notify ==
  /\ pc = "notify"
  /\ lastEvent' = [lastEvent EXCEPT ![Current] = "confirmed"]
  /\ Advance("status", "idle")
  /\ UNCHANGED <<queueVars, leftOut, db, request, chain, lost, serverVars>>

-----------------------------------------------------------------------------
(* get_stamp: the answer to GET /v1/stamp/:id.  Only a confirmed row's     *)
(* proof is returned, and the attestation fields are read out of it.       *)

GetStamp(s) ==
  IF db[s].status = "absent"
    THEN [code |-> 404, status |-> "none", proof |-> NoProof]
    ELSE [code |-> 200, status |-> db[s].status,
          proof |-> IF db[s].status = "confirmed" THEN db[s].proof ELSE NoProof]

-----------------------------------------------------------------------------
(* Maintenance, shutdown, restart *)

(* delete_old_stamps: confirmed for thirty days, which is after the batch  *)
(* that confirmed it is done with.                                         *)
DeleteOldStamp(s) ==
  /\ db[s].status = "confirmed"
  /\ s \notin Range(batch.stamps)
  /\ db' = [db EXCEPT ![s] = NoRow]
  /\ UNCHANGED <<queueVars, request, loopVars, chain, lost, lastEvent, serverVars>>

(* Ctrl-C: the signal is sent to the loop; requests are still served. *)
Signal ==
  /\ MayFail("shutdown") /\ restarts < MaxRestarts
  /\ ~signalled
  /\ signalled' = TRUE
  /\ UNCHANGED <<queueVars, db, request, loopVars, chain, lost, lastEvent, restarts, world>>

(* The loop sees the signal at its select: it takes the ready batches,     *)
(* logs how many there are, and returns.                                   *)
LoopShutdown(due) ==
  /\ signalled
  /\ pc = "idle" /\ NothingReady
  /\ due \subseteq batchOpen
  /\ pending' = [m \in Modes |-> IF m \in due THEN <<>> ELSE pending[m]]
  /\ batchOpen' = batchOpen \ due
  /\ pc' = "stopped"
  /\ UNCHANGED <<ready, db, request, batch, leftOut, chain, lost, lastEvent, serverVars>>

(* The process ends (a crash, or the server's exit after the signal) and   *)
(* starts again: BatchManager::new(), a new loop, and the old table.       *)
(* Requests in progress are never answered.                                *)
Restart ==
  /\ MayFail("crash") \/ signalled
  /\ restarts < MaxRestarts
  /\ restarts' = restarts + 1
  /\ signalled' = FALSE
  /\ pending' = [m \in Modes |-> <<>>]
  /\ batchOpen' = {}
  /\ ready' = [m \in Modes |-> <<>>]
  /\ request' = [s \in Stamps |->
                   IF request[s] \in {"saved", "full"} THEN "broken" ELSE request[s]]
  /\ pc' = "idle"
  /\ batch' = NoBatch
  /\ leftOut' = {}
  /\ UNCHANGED <<db, chain, lost, lastEvent, world>>

-----------------------------------------------------------------------------

Request(s) == SaveStamp(s) \/ Enqueue(s) \/ Refuse(s)

Loop ==
  \/ \E due \in SUBSET Modes : Poll(due)
  \/ \E m \in Modes : StartBatch(m)
  \/ SubmitOk \/ SubmitFails \/ SubmitLost
  \/ Requeue \/ Wake
  \/ UpdateStatus \/ UpdateProof \/ Notify

Next ==
  \/ \E s \in Stamps : Request(s) \/ DeleteOldStamp(s)
  \/ Loop
  \/ Signal
  \/ \E due \in SUBSET Modes : LoopShutdown(due)
  \/ Restart

Spec == Init /\ [][Next]_vars

(* Request tasks and the loop run.  A mode with a batch open is due at     *)
(* every poll once its window is over, so not at every poll but at some.   *)
(* The node may fail, but not for ever.  Nothing obliges a client to       *)
(* submit, a row to expire or the process to stop.                         *)
Fairness ==
  /\ \A s \in Stamps : WF_vars(Enqueue(s)) /\ WF_vars(Refuse(s))
  /\ \A m \in Modes : SF_vars(\E due \in SUBSET Modes : m \in due /\ Poll(due))
  /\ WF_vars(\E m \in Modes : StartBatch(m))
  /\ SF_vars(SubmitOk)
  /\ WF_vars(Requeue) /\ WF_vars(Wake)
  /\ WF_vars(UpdateStatus) /\ WF_vars(UpdateProof) /\ WF_vars(Notify)

FairSpec == Spec /\ Fairness

-----------------------------------------------------------------------------
(* Where a stamp is *)

(* The part of the current batch the loop has not dealt with yet. *)
InHand == {batch.stamps[j] : j \in {k \in DOMAIN batch.stamps : k >= batch.i}}

(* The stamps some task will still deal with. *)
Held == Q!Queued \cup Q!InReady \cup InHand

Attested(s) == db[s].proof.kind = "kaspa"
Anchored == UNION {Range(chain[tx]) : tx \in DOMAIN chain}

(* A stamp is never in two places at once (twice in the queues, in a       *)
(* poll's result and back in a queue, in a queue and in the batch in       *)
(* hand) and nowhere before its submission was accepted.  Were it, two     *)
(* batches would commit it.                                                *)
OnePlace ==
  /\ \A m \in Modes : IsInjective(pending[m]) /\ IsInjective(ready[m])
  /\ \A m, n \in Modes : m # n =>
       /\ Range(pending[m]) \cap Range(pending[n]) = {}
       /\ Range(ready[m]) \cap Range(ready[n]) = {}
  /\ IsInjective(batch.stamps)
  /\ Q!Queued \cap Q!InReady = {}
  /\ InHand \cap (Q!Queued \cup Q!InReady) = {}
  /\ \A s \in Held : request[s] = "accepted"

(* A stamp answered 200 and not confirmed is held by some task, unless it  *)
(* was counted as having found its queue full when it was put back.        *)
KeptOrCounted ==
  \A s \in Stamps : request[s] = "accepted" =>
    s \in Held \cup leftOut \/ lastEvent[s] = "confirmed"

(* No interleaving of requests, polls, retries and the requeue loop drops  *)
(* an accepted stamp unseen, as long as the process runs.                  *)
NoAcceptedStampLost == restarts = 0 /\ pc # "stopped" => KeptOrCounted

(* Every stored attestation is true: its transaction is on chain and the   *)
(* leaf its path leads from is this stamp's, and no stamp is called        *)
(* confirmed before a commitment covers it, after any sequence of lost     *)
(* answers, retries and restarts.                                          *)
ProofsAnchored ==
  \A s \in Stamps :
    /\ Attested(s) =>
         /\ db[s].proof.tx \in DOMAIN chain
         /\ db[s].proof.leaf \in DOMAIN chain[db[s].proof.tx]
         /\ chain[db[s].proof.tx][db[s].proof.leaf] = s
    /\ db[s].status = "confirmed" => s \in Anchored

(* A confirmation is broadcast only about a stamp whose row already        *)
(* carries the status and the attestation, so a client that asks for the   *)
(* stamp on the event gets the proof (until the row expires), unless the   *)
(* table refused a write.                                                  *)
EventBacked ==
  ~MayFail("db") => \A s \in Stamps : lastEvent[s] = "confirmed" =>
    GetStamp(s).code = 404 \/ GetStamp(s).proof.kind = "kaspa"

(* The only way to pay for a second commitment of a stamp is a commitment  *)
(* whose success the server did not see.                                   *)
CommitmentsBounded ==
  \A s \in Stamps : Cardinality({tx \in DOMAIN chain : s \in Range(chain[tx])}) <= 1 + lost

(* Every accepted stamp is eventually confirmed, its attestation stored,   *)
(* whatever submissions fail on the way, where only submissions fail and   *)
(* unless it was counted as left out.                                      *)
OnlySubmissionsFail == world.faults \subseteq {"node", "lost"}
AcceptedConfirmed ==
  \A s \in Stamps :
    (OnlySubmissionsFail /\ request[s] = "accepted" /\ db[s].status = "pending") ~>
      (s \in leftOut \/ (db[s].status = "confirmed" /\ Attested(s)))

(* The abstract service this module implements. *)
Service == INSTANCE StampService
  WITH status <- [s \in Stamps |->
                    IF db[s].status = "absent" THEN "unknown" ELSE db[s].status],
       anchored <- Anchored,
       attestation <- [s \in Stamps |-> IF Attested(s) THEN db[s].proof ELSE NoProof],
       None <- NoProof

(* What a client has been given stays true, under every fault: every step  *)
(* is a step the service allows.                                           *)
ImplementsService == Service!Spec

-----------------------------------------------------------------------------
(* What the documentation says, checked against the code *)

(* The stamps table lets the server "survive restarts without losing data" *)
(* (database.rs): no accepted stamp is lost to a restart.                  *)
SurvivesRestart == KeptOrCounted

=============================================================================
