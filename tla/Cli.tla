-------------------------------- MODULE Cli ---------------------------------
(***************************************************************************)
(* The ktcs command line and its proof files: stamp (asking a calendar, or *)
(* direct: prepare, sign, submit, wait, save), complete, and what verify   *)
(* says of a file, run from several terminals over files that collide,     *)
(* beside a calendar that has just had a batch confirmed and a network     *)
(* that mines.                                                             *)
(* A file is written in two steps, and a command can be killed anywhere.   *)
(***************************************************************************)
EXTENDS ProofFile, FiniteSets

CONSTANTS
  Terminals,   \* commands that can run at once
  Inputs,      \* files to stamp, <<stem, extension>>
  Submitted,   \* the files in the calendar's batch, other people's among them
  MaxStamps,   \* bound on stamp commands and downloads
  MaxKills     \* bound on commands killed

ASSUME CliAssumption ==
  /\ {MaxStamps, MaxKills} \subseteq Nat
  /\ Submitted \in Seq({Submitted[i] : i \in DOMAIN Submitted}) /\ Submitted # <<>>

VARIABLES
  kts,       \* kts[path]: the tokens of the proof file, none when it is not there
  rows,      \* rows[i]: what the calendar says of the i-th submission, one of ours
  mempool,   \* transactions submitted and not in a block
  chain,     \* blocks, each the set of its transactions
  cmd,       \* cmd[t]: the command running in a terminal
  stamps, kills,
  mixed,     \* files with bytes of more than one write in them (history)
  excused    \* direct transactions whose proof was lost for a known reason (history)

vars == <<kts, rows, mempool, chain, cmd, stamps, kills, mixed, excused>>

Data(input) == Piece("data", input)
Digest(input) == Sha256(Data(input))

(* determine_output_path: set_extension replaces the input's extension.    *)
DetermineOutputPath(input) == <<input[1], "kts">>
Paths == {DetermineOutputPath(f) : f \in Inputs}

-----------------------------------------------------------------------------
(* The calendar, whose batch is in the first block as transaction 0; a     *)
(* direct one has its nonce's number.  Of each row the status is written   *)
(* first and the proof then.                                               *)

CalendarUrl(i) == <<"calendar", i>>
GuessedUrl(input) == <<"guess", input>>     \* ktcs_<16 digits of the digest>: no row's id
DirectUrl(tx) == <<"direct", tx>>

Ours == {i \in DOMAIN Submitted : Submitted[i] \in Inputs}
Digests == [i \in DOMAIN Submitted |-> Digest(Submitted[i])]
Transaction(tx, commitment) == [tx |-> tx, commitment |-> commitment]
BatchTx == Transaction(0, Root(Digests))

BlockOf(tx) == {b \in DOMAIN chain : \E t \in chain[b] : t.tx = tx}
Attestation(tx, b) == [tx |-> tx, block |-> b, daa_score |-> b]
OnTheChain == UNION {{[tx |-> t.tx, commitment |-> t.commitment, block |-> b, daa_score |-> b] :
                        t \in chain[b]} : b \in DOMAIN chain}

PendingProofs ==
  [i \in DOMAIN Submitted |-> Proof(Digests[i], <<>>, <<Pending(CalendarUrl(i))>>)]
ConfirmedProofs ==
  [i \in DOMAIN Submitted |->
     Proof(Digests[i], ToOperations(GetProof(Digests, i - 1)), <<Kaspa(Attestation(0, 1))>>)]

(* GET /v1/stamp/:id: only a confirmed row answers with its proof, which   *)
(* is still the pending one until it is replaced.  The slip forgets to.    *)
RowProofStale(i) == PendingProofs[i]
RowProof(i) == IF rows[i] = "confirmed" THEN ConfirmedProofs[i] ELSE PendingProofs[i]

(* The task that confirmed the batch goes through its stamps in order.     *)
UpdateRow ==
  /\ \E i \in DOMAIN rows :
       /\ rows[i] # "confirmed" /\ \A j \in 1..(i - 1) : (j \in Ours => rows[j] = "confirmed")
       /\ rows' = [rows EXCEPT ![i] = IF @ = "pending" THEN "status" ELSE "confirmed"]
  /\ UNCHANGED <<kts, mempool, chain, cmd, stamps, kills, mixed, excused>>

Mine ==
  /\ mempool # {}
  /\ chain' = Append(chain, mempool) /\ mempool' = {}
  /\ UNCHANGED <<kts, rows, cmd, stamps, kills, mixed, excused>>

-----------------------------------------------------------------------------
(* Commands *)

Idle == [at |-> "idle", kind |-> "none", path |-> <<>>, read |-> <<>>,
         proof |-> Unreadable, tx |-> 0]

Running(kind, at, path, read, proof, tx) ==
  [at |-> at, kind |-> kind, path |-> path, read |-> read, proof |-> proof, tx |-> tx]

Becomes(t, c) == cmd' = [cmd EXCEPT ![t] = c]
Moves(t, at, proof) == cmd' = [cmd EXCEPT ![t].at = at, ![t].proof = proof]

StartsStamp == stamps < MaxStamps /\ stamps' = stamps + 1

CommitmentOf(proof) == ApplyOperations(proof.digest, proof.operations)

(* The direct transactions a file is the record of.                        *)
Recorded(tokens) ==
  {n \in 1..MaxStamps : CommitmentOf(Deserialize(tokens)) \in
                         {Sha256(Piece("nonce", n) \o Digest(f)) : f \in Inputs}}

(* cmd_stamp through a calendar submits nothing: it makes a pending proof  *)
(* with the address it guesses, and saves it, at once (--async) or when no *)
(* poll of that address has found a row.                                   *)
StampByCalendar(t, f, async) ==
  /\ cmd[t] = Idle /\ StartsStamp
  /\ Becomes(t, Running("stamp", IF async THEN "writing" ELSE "polling",
                        DetermineOutputPath(f), <<>>,
                        Proof(Digest(f), <<>>, <<Pending(GuessedUrl(f))>>), 0))
  /\ UNCHANGED <<kts, rows, mempool, chain, kills, mixed, excused>>

PollTimeout(t) ==
  /\ cmd[t].at = "polling"
  /\ Moves(t, "writing", cmd[t].proof)
  /\ UNCHANGED <<kts, rows, mempool, chain, stamps, kills, mixed, excused>>

(* cmd_stamp --direct: create_pending_stamp draws the nonce.               *)
StampDirect(t, f) ==
  /\ cmd[t] = Idle /\ StartsStamp
  /\ Becomes(t, Running("stamp", "signed", DetermineOutputPath(f), <<>>,
                        Proof(Digest(f),
                              <<Op("prepend", Piece("nonce", stamps')), Op("sha256", <<>>)>>,
                              <<>>),
                        stamps'))
  /\ UNCHANGED <<kts, rows, mempool, chain, kills, mixed, excused>>

(* submit_transaction: accepted and answered, refused, or accepted with    *)
(* the answer lost; after an error the command ends and saves nothing.     *)
DirectTx(c) == Transaction(c.tx, CommitmentOf(c.proof))

Submit(t) ==
  /\ cmd[t].at = "signed"
  /\ \/ /\ mempool' = mempool \cup {DirectTx(cmd[t])}
        /\ Moves(t, "waiting", cmd[t].proof)
        /\ UNCHANGED excused
     \/ /\ mempool' = mempool
        /\ Becomes(t, Idle)
        /\ UNCHANGED excused
     \/ /\ mempool' = mempool \cup {DirectTx(cmd[t])}
        /\ Becomes(t, Idle)
        /\ excused' = excused \cup {cmd[t].tx}
  /\ UNCHANGED <<kts, rows, chain, stamps, kills, mixed>>

(* wait_for_confirmation finds the block among the tips and their parents, *)
(* or passes over it and runs out of time.  complete_stamp then adds the   *)
(* attestation.                                                            *)
Confirmed(t) ==
  /\ cmd[t].at = "waiting"
  /\ \E b \in BlockOf(cmd[t].tx) :
       Moves(t, "writing",
             [cmd[t].proof EXCEPT !.attestations = <<Kaspa(Attestation(cmd[t].tx, b))>>])
  /\ UNCHANGED <<kts, rows, mempool, chain, stamps, kills, mixed, excused>>

(* The time is over, mined or not: the proof is saved as pending.  The     *)
(* slip ends the command with the error.                                   *)
WaitTimeoutUnsaved(t) ==
  /\ cmd[t].at = "waiting"
  /\ Becomes(t, Idle)
  /\ UNCHANGED <<kts, rows, mempool, chain, stamps, kills, mixed, excused>>
WaitTimeout(t) ==
  /\ cmd[t].at = "waiting"
  /\ Moves(t, "writing",
           [cmd[t].proof EXCEPT !.attestations = <<Pending(DirectUrl(cmd[t].tx))>>])
  /\ UNCHANGED <<kts, rows, mempool, chain, stamps, kills, mixed, excused>>

(* cmd_complete: an unreadable file, a complete proof and one without an   *)
(* address end it; else it asks the first address.                         *)
StartComplete(t, path) ==
  LET proof == Deserialize(kts[path])
  IN
  /\ cmd[t] = Idle
  /\ proof # Unreadable /\ ~IsComplete(proof) /\ PendingAt(proof) # {}
  /\ Becomes(t, Running("complete", "fetching", path, kts[path], proof, 0))
  /\ UNCHANGED <<kts, rows, mempool, chain, stamps, kills, mixed, excused>>

(* The answer is used if a row is behind the address, its status is        *)
(* confirmed and the proof has the digest; it may still be a pending one.  *)
Usable(proof) ==
  {i \in DOMAIN rows : /\ PendingUrl(proof) = CalendarUrl(i)
                       /\ rows[i] # "pending"
                       /\ RowProof(i).digest = proof.digest}

Fetched(t) ==
  /\ cmd[t].at = "fetching"
  /\ LET usable == Usable(cmd[t].proof)
     IN  IF usable = {} THEN Becomes(t, Idle)
         ELSE \E i \in usable : Moves(t, "writing", RowProof(i))
  /\ UNCHANGED <<kts, rows, mempool, chain, stamps, kills, mixed, excused>>

(* No answer, one that says something went wrong, or one that cannot be    *)
(* read: the command ends, whatever the row is.                            *)
RequestFails(t) ==
  /\ cmd[t].at = "fetching"
  /\ Becomes(t, Idle)
  /\ UNCHANGED <<kts, rows, mempool, chain, stamps, kills, mixed, excused>>

(* fs::write empties the file and then writes it from the start.  A stamp  *)
(* replaces whatever is there; so does complete when the file is not what  *)
(* it read any more.                                                       *)
Truncate(t) ==
  LET c == cmd[t]
  IN
  /\ c.at = "writing"
  /\ kts' = [kts EXCEPT ![c.path] = <<>>]
  /\ mixed' = mixed \ {c.path}
  /\ Moves(t, "opened", c.proof)
  /\ excused' = IF c.kind = "stamp" \/ c.read # kts[c.path] \/ c.path \in mixed
                THEN excused \cup Recorded(kts[c.path]) ELSE excused
  /\ UNCHANGED <<rows, mempool, chain, stamps, kills>>

(* What another command wrote after that is overwritten as far as this     *)
(* proof goes, and the rest of it stays.                                   *)
Write(t) ==
  LET c == cmd[t]
      old == kts[c.path]
      written == Serialize(c.proof)
  IN
  /\ c.at = "opened"
  /\ \E left \in Overlays(written, old) :
       /\ kts' = [kts EXCEPT ![c.path] = left]
       /\ mixed' = IF left = written THEN mixed \ {c.path} ELSE mixed \cup {c.path}
       /\ excused' = excused \cup Recorded(old) \cup
                     (IF left = written THEN {} ELSE Recorded(written))
  /\ Becomes(t, Idle)
  /\ UNCHANGED <<rows, mempool, chain, stamps, kills>>

(* A kill leaves of what was being written a beginning, to the end of a    *)
(* token or into one, alone or over what another command wrote; or it      *)
(* leaves the file as it was.                                              *)
Beginnings(tokens) ==
  {SubSeq(tokens, 1, k) : k \in 0..Len(tokens)} \cup
  {Append(SubSeq(tokens, 1, k), Cut) : k \in 0..(Len(tokens) - 1)}

Begun(written, old) ==
  UNION {Overlays(SubSeq(written, 1, k), old) \cup StopsIn(k, written, old) :
           k \in DOMAIN written}

Kill(t) ==
  LET c == cmd[t]
      old == kts[c.path]
      written == Serialize(c.proof)
  IN
  /\ c # Idle /\ kills < MaxKills /\ kills' = kills + 1
  /\ \E left \in {old} \cup (IF c.at = "opened" THEN Begun(written, old) ELSE {}) :
       /\ kts' = [kts EXCEPT ![c.path] = left]
       /\ mixed' = IF left = old THEN mixed
                   ELSE IF left \in Beginnings(written) THEN mixed \ {c.path}
                   ELSE mixed \cup {c.path}
  /\ excused' = excused \cup Recorded(written) \cup
                (IF c.at = "opened" THEN Recorded(old) ELSE {})
  /\ Becomes(t, Idle)
  /\ UNCHANGED <<rows, mempool, chain, stamps>>

(* The proof another client of the calendar was answered, saved by hand.   *)
Download(i) ==
  LET path == DetermineOutputPath(Submitted[i])
  IN
  /\ StartsStamp
  /\ kts' = [kts EXCEPT ![path] = Serialize(PendingProofs[i])]
  /\ mixed' = mixed \ {path}
  /\ excused' = excused \cup Recorded(kts[path])
  /\ UNCHANGED <<rows, mempool, chain, cmd, kills>>
-----------------------------------------------------------------------------
Init ==
  /\ kts = [path \in Paths |-> <<>>]
  /\ rows = [i \in Ours |-> "pending"]
  /\ mempool = {} /\ chain = <<{BatchTx}>>
  /\ cmd = [t \in Terminals |-> Idle]
  /\ stamps = 0 /\ kills = 0 /\ mixed = {} /\ excused = {}

Step(t) ==
  \/ PollTimeout(t)
  \/ Submit(t)
  \/ Confirmed(t)
  \/ WaitTimeout(t)
  \/ Fetched(t)
  \/ RequestFails(t)
  \/ Truncate(t)
  \/ Write(t)

Next ==
  \/ UpdateRow
  \/ \E i \in Ours : Download(i)
  \/ Mine
  \/ \E t \in Terminals :
       \/ \E f \in Inputs : StampDirect(t, f) \/ \E async \in BOOLEAN : StampByCalendar(t, f, async)
       \/ \E path \in Paths : StartComplete(t, path)
       \/ Step(t)
       \/ Kill(t)

Spec == Init /\ [][Next]_vars

(* The calendar and a running command go on, and their user runs ktcs      *)
(* complete over and over on every pending file; of the requests it makes  *)
(* for a file some are answered again and again, not lost for ever.        *)
Fairness ==
  /\ WF_vars(UpdateRow)
  /\ \A t \in Terminals : WF_vars(Step(t))
  /\ \A path \in Paths :
       /\ SF_vars(\E t \in Terminals : StartComplete(t, path))
       /\ SF_vars(\E t \in Terminals : cmd[t].path = path /\ Fetched(t))

FairSpec == Spec /\ Fairness

-----------------------------------------------------------------------------
(* A file that verify calls VALID for some input, which it says without    *)
(* asking any node, is about a commitment that is on the chain, in the     *)
(* block and the transaction its attestations name: after kills in the     *)
(* middle of a write, after one write over another that left nothing of    *)
(* it, for every leaf of a batch, and with an input stamped in the batch   *)
(* twice.  A mixture of two writes is excepted: two direct proofs have one *)
(* layout, and a beginning of one over the other is VALID and nowhere.     *)
ValidIsOnChain ==
  \A path \in Paths \ mixed :
    LET proof == Deserialize(kts[path])
    IN  \A f \in Inputs : Valid(proof, Data(f)) =>
          /\ KaspaAttestations(proof) # {}
          /\ \A attestation \in KaspaAttestations(proof) :
               OnChain(attestation, CommitmentOf(proof), OnTheChain)

(* A commitment that was paid for keeps the nonce that leads to it, in a   *)
(* file or in the command still at work on it, also when the confirmation  *)
(* is never seen; only a lost answer to the submission, a kill, a stamp    *)
(* that takes the same file name, or two commands at one file can lose it. *)
Paid == {n \in 1..MaxStamps : BlockOf(n) # {} \/ \E t \in mempool : t.tx = n}

PaidIsRecorded ==
  \A n \in Paid \ excused :
    \/ \E path \in Paths : n \in Recorded(kts[path])
    \/ \E t \in Terminals : cmd[t].tx = n

(* A pending file whose address is a row's is upgraded in the end, also    *)
(* when complete came while the row said confirmed with its pending proof, *)
(* and when requests fail; a mixture may have a row's address below        *)
(* another's digest, which complete refuses.                               *)
Upgradable(path) ==
  LET proof == Deserialize(kts[path])
  IN  /\ path \notin mixed
      /\ KaspaAttestations(proof) = {} /\ PendingAt(proof) # {}
      /\ \E i \in DOMAIN rows : PendingUrl(proof) = CalendarUrl(i)

PendingIsUpgraded == \A path \in Paths : <>[]~Upgradable(path)

(* The claim of the command's own words, "Run 'ktcs complete'": a pending  *)
(* file it leaves has an address complete can get an answer from.          *)
PendingCanComplete ==
  \A path \in Paths :
    LET proof == Deserialize(kts[path])
    IN  proof # Unreadable /\ ~IsComplete(proof) /\ PendingAt(proof) # {}
          => Upgradable(path)

=============================================================================
