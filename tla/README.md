# A TLA+ model of kasTime

kasTime (KTCS) gives a file's digest a timestamp on the Kaspa chain. A *calendar*
server collects digests, commits the Merkle root of each batch in a Kaspa
transaction and hands out proofs; a browser application and a command-line tool
submit digests, follow them and verify proofs. This directory models the program's
concurrent core, its transactions from coin to signature, the search for their blocks
and the life of its proof files in TLA+, checks them with TLC on small instances, and
proves theorems about them with TLAPS. Paths below are relative to the repository.

- [The system](#the-system): components, state, operations, what is hard
- [Modules](#modules): which module models what
- [Runs](#runs): what is checked, with which bounds, and what it shows
- [Fairness](#fairness)
- [Proofs](#proofs)
- [Disagreements between code and documentation](#disagreements-between-code-and-documentation)
- [What is not modelled](#what-is-not-modelled)
- [Plan](#plan)

## The system

    browser page --HTTP--> submit_stamp ----+            +--> node (mempool, blocks)
       |                                    v            |
       |                  stamps table <-> batch loop --> KaspaService --RPC client--+
       |                        ^           ^    |         ^   two UTXO caches
       |                        |      BatchManager        |
       |                   get_stamp        |          RecycleService, refresh tasks
       +---WebSocket--- session tasks <-- broadcast

| Component | State it keeps | Operations | What makes it correct |
|---|---|---|---|
| Batch manager (`ktcs-calendar/src/services/batch_manager.rs`) | queue and timer per mode, behind one mutex | `add_digest`, `get_ready_batches` | a queue has a timer and a timer a queue; no batch early, none left overdue; the limit holds |
| Calendar (`ktcs-calendar/src/main.rs`) | the batch in the loop's hand, the shutdown channel | `submit_stamp`, `get_stamp`, the batch loop, the cleanup task, shutdown, restart | an accepted stamp is in exactly one place until it is confirmed; stored attestations are true and stable |
| Stamp table (`services/database.rs`) | one row per stamp: status and proof | save, update status, update proof, delete, delete old | a confirmed row is complete; a refused submission leaves none |
| WebSocket registry (`routes/websocket.rs`, `WsState`) | subscribers per proof, count per session, connections per address; a lock each | subscribe, unsubscribe, unsubscribe_all, track, release | limits hold; a session that is gone leaves nothing; no lock cycle |
| WebSocket session (`handle_socket`) | local subscriptions, a bounded channel, two broadcast receivers, a cancellation token | receive loop, two forwarding tasks, a send task | events and acknowledgements in an order the client can rely on; the tasks never wait in a circle and end together |
| Kaspa service (`services/kaspa_service.rs`) | the STAMP and RETURN UTXO caches, `connected` | `submit_commitment`, retries, refreshes, `connect` | Ok means mined; nothing is paid for twice; the two wallets never compete |
| Recycle service (`services/recycle_service.rs`) | none of its own: the RETURN cache | `check_and_recycle` | money comes back, so that commitments go on |
| RPC client (`ktcs-core/src/kaspa.rs`) | connection state, sender, table of waiting requests, request id | `connect`, `send_request`, read and write tasks, `wait_for_confirmation` | an answer reaches its call and only its call; every call returns; the state is the socket's |
| Core algorithms (`ktcs-core/src`: `merkle`, `tx_builder`, `tx`, `direct`, `ops`, `proof`, `verify`, `wallet`) | none | pure functions, and the direct stamping flow | paths lead to the root; inputs = outputs + fee; a signature is over what the node is sent; the block found is one that holds the transaction; a verdict follows from the proof and the chain |
| Browser clients (`src/api/calendar.ts`, `src/api/kaspa.ts`) | sockets with their handlers, subscriptions, timers, request tables | subscribe, unsubscribe, reconnect; RPC | a wanted subscription is regained; an unwanted connection is closed |
| Pages and store (`src/pages`, `src/stores/stamp.ts`) | the answer shown, the step shown | poll, event, submit, direct stamping | the page shows its own proof, and a confirmed one as confirmed in the end |
| Command line (`ktcs-cli/src/main.rs`) | proof files, named after the input | stamp (through a calendar or direct), complete, verify, info, status | what verify calls valid is on chain; a paid commitment keeps its proof |
| WASM bindings, UI components, deployment | — | conversions, rendering, configuration | — |

**How they interact.** Request tasks and the batch loop share the batch manager (a
mutex) and the table (single SQL statements). The loop calls `submit_commitment`,
which uses the caches that the refresh tasks and the recycle service write, and the
one RPC connection that all of them share. The loop broadcasts events; every session
has its own receiver and its own four tasks; the registry is shared by all sessions.
The browser holds one socket at a time, polls besides, and may be on any page.

**What is hard.** Interleavings at every `await` (the clock read before the lock, the
row before the queue, status before proof, a cache read before a build); failures in
the middle (one statement of two, one stamp of a batch, an upgrade after the charge);
answers that are lost or late (a submission on chain that was reported as failed, an
RPC answer after its timeout); restarts and shutdown with the queue in memory; bounded
channels and queues at their limit; a read guard kept across a blocking send; handlers
of an old socket acting on a new one, answers of an old page coming to a new one; a
DAG that grows while it is searched through calls that fail; files written in two steps, under names that
collide, by commands that can be killed. `PROJECT.json` lists each as a hazard at its
line, with the properties that would catch it going wrong.

## Modules

| Module | Models | Notes |
|---|---|---|
| `BatchQueue` | the batch manager without its clock | abstract specification; `BatchManager` implements it and `Calendar` is built on it |
| `BatchManager` | the batch manager with its clock; `BeginPoll` is the clock reading of `get_ready_batches`, `GetReadyBatches` the part under the lock | `MCBatchManager` for TLC, `ServiceProofs` for TLAPS |
| `StampService` | what a calendar promises about a stamp: unknown, pending, confirmed; anchored on chain; attested | abstract specification that `Calendar` implements |
| `Calendar` | request tasks, batch loop, table, cleanup, signal, restart; a step ends where the code awaits | composes `BatchQueue` (INSTANCE `Q`); the outcomes of `submit_commitment` are those `Wallets` produces: success, failure with nothing sent, failure although it is on chain; `CalendarProofs` for TLAPS |
| `WsState` | the registry: each call takes its first lock, its second lock, then acts | `WsStateProofs` for TLAPS |
| `WsSession` | one connection's four tasks, the channel to the send task, the two broadcast receivers, the guard on the local set | registry calls are single steps here; `WsState` shows that they do not block each other; `WsSessionProofs` for TLAPS |
| `Wallets` | `submit_commitment`, `submit_with_retry`, confirmation wait, refreshes, recycling, the mempool and UTXO set of the node | coins are records of owner and amount; the RPCs are single steps here (`RpcClient` shows when they return); `ServiceProofs` for TLAPS |
| `RpcClient` | `KaspaService::connect`, `KaspaClient::connect`, `send_request`, the write and read tasks, a peer that may stop reading | `ClientProofs` for TLAPS |
| `CalendarClient` | the WebSocket half of the browser's client, with every socket not yet closed and the handlers it keeps; the server's side of each socket | no specification of its own: `ProofPage` extends it |
| `ProofPage` | the page of a stamp: effect and cleanup, `fetchStamp` and its poll, the event's handler, the store's answer | extends `CalendarClient`; calls its operations inside its own steps; `ClientProofs` for TLAPS |
| `Funding` | coin selection and the three builders (`tx_builder.rs` twice, `tx.rs`), for the calendar, the recycle service, the browser and the command line; a step takes one coin | `Payment` extends it; `PaymentProofs` for TLAPS |
| `Addresses` | Bech32 addresses: `convert_bits`, the checksum, `encode_address`, `decode_address`, `address_to_script` | operators; a byte is a number, a key a short sequence of bytes |
| `Sighash` | Kaspa's signature hash with its partial hashes | operators; a hash is the term it was computed from |
| `Payment` | from a built transaction to the one the node gets: wallets of `KaspaService::new`, scripts, the three signing paths, the RPC form of coins and transactions | extends `Funding`, `Addresses` and `Sighash`; `MCPayment` gives the keys; `PaymentProofs` for TLAPS |
| `Confirmation` | `wait_for_confirmation` and the browser's `waitForTransactionAcceptance` over a growing block DAG, one step per call to the node; the later verification of the attestation | `ConfirmationProofs` for TLAPS |
| `ProofFile` | Merkle tree, operations, the `.kts` format, what a file is when one write lies over another, `verify_proof` and the on-chain verdict, as operators | a hash is the term it was computed from; a file is a sequence of tokens with their lengths in bytes; `CliProofs` for TLAPS |
| `Cli` | `stamp`, `stamp --async`, `stamp --direct`, `complete`, from several terminals, beside a calendar that writes its rows and a network that mines | extends `ProofFile`; `MCCli` gives the inputs and the batch; `CliProofs` for TLAPS |
| `MC*` | definitions the configurations give to constants (modes, windows, symmetry) | |

Variables carry the names of the Rust or TypeScript fields where those exist; their
declarations say which field each stands for. Variables marked *(history)* belong to
properties and influence nothing. A definition whose name extends another's
(`DueEarly` beside `Due`, `PutBackNever` beside `PutBack`) is a plausible slip of that
code: putting it in the other's place must make the property it is listed with in
`PROJECT.json` fail, which shows that the property can fail at all.

Correspondences worth knowing:

- `Calendar.SaveStamp`/`Enqueue`/`Refuse` are the two awaits of `submit_stamp`;
  `UpdateStatus`/`UpdateProof`/`Notify` the three of the success branch, per stamp;
  `Requeue` the loop of the failure branch, which holds no await between stamps that
  matters to others, with its per-stamp refusal (`PutBack`).
- An attestation is abstracted to the commitment it names and the leaf its Merkle
  path starts from: what can be wrong about it is that the transaction is not on chain
  or the path is another stamp's.
- In `Wallets` the mempool accepts a transaction whose inputs are unspent on chain and
  in the mempool, so that the retry of a submission whose answer was lost conflicts
  with itself; an attempt that fails on the way to the node leaves the mempool as it
  was, and its retry may succeed; a confirmation wait may end before its transaction is
  mined.
- In `RpcClient` the socket may be *stalled*: open, with a peer that does not read, so
  that `ws_write.send` and with it the write task stay where they are and the channel
  fills. `send_request`'s timeout is around the wait for the answer only, not around the
  send into the channel (kaspa.rs:327). `CallsReturn` therefore says two things: a call
  that has handed its request over always returns, and one that has not returns unless
  the peer has stopped reading for good. The modules above (`Wallets`, `Confirmation`)
  take the returning of calls from it and so assume a peer that goes on reading.
- In `WsSession` a forwarding task is *receive, check, send*: between check and send
  it holds the read guard, which is what orders the last event before
  `unsubscribed`.
- In `Cli` the file on disk is what matters: `Truncate` and `Write` are the two halves
  of `fs::write`, and a kill between them leaves any beginning of what was to be written.
  If another command wrote in between, its bytes beyond what is written stay. The format
  has no length, so `ProofFile` counts bytes (`Length`): what stays is parsed as further
  operations and attestations when it begins with a token, and makes the file unreadable
  when it begins inside one (`Overlays`); a write that stops inside a token leaves a token
  made of both (`StopsIn`, `Blended`). Bytes from the middle of a token are taken as
  unreadable: the last bytes of an address are hexadecimal digits, which are no tags, and
  those of a hash are tags only by chance.
- `mixed`, a history variable, is the set of files in which such a mixture is: what is
  true of files of one write is not true of these. Two direct proofs have the same layout (header
  of 58 bytes, nonce of 18, `sha256` of 1), so that a beginning of one over the other
  reads as a complete proof that `verify` calls VALID and that no chain bears out; a
  header over another file's pending attestation leaves a row's address below a foreign
  digest, which `complete` refuses for ever (main.rs:1354). `ValidIsOnChain` and
  `PendingIsUpgraded` are about files of one write and leave mixtures out; they are
  violated when the exception is dropped, the first even with no kill at all.
  `PaidIsRecorded` covers mixtures too.
- `RequestFails` is the three error returns of `complete`'s request (main.rs:1307-1329),
  which can come at any time, also for a confirmed row.
- `determine_output_path` replaces the extension, so that the two inputs of the run have one proof file. A
  stamp through a calendar never reaches it (the code says so itself: "actual calendar
  submission would go here"), so its poll of a guessed address can only run out: the
  confirmed branch of that poll is not an action. `wait_for_confirmation` is abstracted
  to what it can return: the block of the transaction once there is one, or a time-out
  at any moment, mined or not. The proof that reaches a file with a row behind its
  address is one that another client of the calendar was answered and that was saved
  under the same name (`Download`).
- `Calendar`'s constant `Worlds` gives each behaviour the batch mode of every submission
  and the set of things that may go wrong in it; `MayFail` reads it. One run so covers
  the harsh world and those in which liveness can be expected.
- In `ProofPage` each run of the page's effect has a number, and `isMounted` of a closure
  is the comparison with it; React runs an effect twice in development, which is
  `Navigate` to the same proof. The server's confirmation is one step, row and event
  together: `EventBacked` of `Calendar` justifies it for a server whose table works.
- In `Confirmation` the node lists some of the DAG's tips, its virtual parents; `missed` records why a block was passed over (a failed call, a timestamp
  refused), and `offered` what was there to be seen.
- In `Payment` addresses are computed, checksum and padding included, for keys of two
  bytes, which leave one bit of padding like the real 264 bits; the proofs cover every
  length. `PrefixOf` knows the networks the code names.
- In `Funding` each caller has its own selection target, rate and builder; sums are
  checked against `MaxU64` where the code uses `checked_add`.
- In `CalendarClient` a handler acts on `this.ws`, not on its own socket, as the code
  does; a message for a connecting socket throws before anything is cleared.

## Runs

Every property is listed with a run and a slip that breaks it.

| Run | Question | Instance |
|---|---|---|
| `batch` | timers, windows, hand-over, refinement of the untimed queue | 3 stamps, 2 modes with windows 1 and 2, limit 2, clock to 4; 85 000 states |
| `calendar` | one place, true attestations, bounded commitments, nothing accepted lost, events backed by the row, every accepted stamp confirmed, refinement of `StampService` | 3 stamps, limit 2, one lost answer, one restart; three worlds: *harsh* (database, node and answers fail, a crash, a shutdown, one queue), *busy* (two modes, submissions fail), *crowded* (one queue, submissions fail); 306 000 states |
| `ws_registry` | limits, accounts, no lock cycle | 3 sessions of one address, 3 proofs of which one is malformed, 2 connections, 2 subscriptions; 168 000 states |
| `ws_session` | order of acknowledgements and events; no circular wait; tasks end | 2 proofs of which the client asks for one, channel of 1, lag of 1, 2 requests; 210 000 states |
| `wallets` | spenders do not compete, nothing paid twice, commitments continue, with one wallet and with two | money for four commitments with one wallet; with two, for two and a rest that would pay for a third but stays below the threshold; one retry, two faults (an answer lost, an attempt that fails); 276 000 states |
| `rpc` | answers reach their calls, calls return, also with a peer that stops reading | 2 callers, 3 requests, channel of 1, 2 dials; 18 000 states |
| `client` | the page keeps to its proof and ends up showing it confirmed, the open socket knows its subscriptions, a subscription is regained | 2 proofs, any answer in the store, 2 runs of the effect, one dropped connection, 4 sockets at a time; 306 000 states |
| `payment` | money is conserved, who can pay is not refused, where the fee falls short of the mass, signatures are over what is sent, change stays held | wallets of up to 3 coins worth 12 different amounts around each threshold, 4 callers, rates from 0, sums beyond `MaxU64`, three keys; 725 000 states |
| `confirmation` | what was offered is found, the attestation stands, the wait ends | DAGs of 4 blocks, both programs, any call failing; 588 000 states |
| `cli` | what verify calls valid is on chain, a paid commitment keeps its nonce, pending files are upgraded | 2 terminals, 2 inputs with one proof name in a batch of 3, 2 stamps, one kill, addresses of 36 and 37 bytes before their path; 148 000 states |
| `calendar_restart`, `cli_pending` | one documented claim each, which the code violates: see below | the smallest instance that shows it |

**Why the bounds are enough.** The bounds are chosen so that each interesting case
happens at least once with room around it: three stamps let one be in a queue, one in
a poll's result and one in hand, or two share a batch while a third arrives; two modes
let one poll return two batches, of which the first may fail; a limit below the number
of stamps makes refusals and failed requeues happen; the stamps a requeue could not put
back are counted in `leftOut`, as the code counts them, and no others may be lost. A channel of one place is full after
one message, so every blocking path is taken; a lag of one drops events. Windows of one
and two ticks separate "less than", "equal" and "more than" a window. Two callers and
three request ids let one caller's late answer meet its own next request and another's.
Named bounds in guards: `MaxClock`, `MaxLost`, `MaxRestarts`, `MaxInbox`,
`MaxRequests`, `MaxBatched`, `MaxFaults`, `MaxId`, `MaxSockets`,
`MaxEffects`, `MaxDrops`, `MaxBlocks`, `MaxStamps`, `MaxKills`. Two runs of the effect let an answer
be older than the page's address, and let the page go from one proof to another and
be gone; with them and one drop four sockets are never all in use when another is
needed. Four blocks let the transaction be in a tip, in a parent, in two parallel
blocks, and below two tips that share a parent, and let a chain of three pass between
two polls. The amounts of `payment` lie at, one below and one
above each threshold (burn, dust, fee for one and for two outputs), and `MaxU64` is a
sum that three coins can exceed. The batch of `cli` has three leaves, so that a layer is
padded, and holds both inputs, so that one proof file can be taken for the
other's. Its address lengths are those at which one proof ends on a token of another: with
a base address of 36 bytes a guessed pending proof ends before the last `sha256` of a
confirmed proof of two siblings, with one of 37 a calendar's ends before its attestation.
The threshold of `wallets` (5) is above what a commitment and a recycle cost (4), so that
the RETURN wallet can hold the price of a further commitment and keep it.
Runs say `CHECK_DEADLOCK FALSE` where a bound or the end of the
environment's inputs stops the system.

## Fairness

- `BatchManager`: the clock advances and the loop polls (its 100 ms interval). No
  client is obliged to submit.
- `Calendar`: the loop's own steps are weakly fair. `SubmitOk` is strongly fair: the
  node does not fail every one of infinitely many submissions. Requests, failures and
  restarts are not fair.
- `WsSession`: steps that wait for a tokio lock or for room in an `mpsc` channel are
  strongly fair, because both serve waiters in arrival order; other task steps are
  weakly fair. The client reads or hangs up. `WsState` needs no fairness: that its
  calls are not stopped by each other is the invariant `NoLockCycle`.
- `Wallets`: tasks run, and the node mines what it has accepted; faults are bounded.
- `RpcClient`: tasks run and timers fire; a message the peer is ready for again and again
  is written in the end (strong fairness of the write task, as the peer may stall in
  between). That the peer reads, answers or closes is not assumed.
- `ProofPage`: handlers and timers run and an undropped connection opens (weak
  fairness, the browser's event loop). Of the requests of the page that is shown some
  are answered and received (strong fairness: the request before may have failed, and
  the page asks again). The user, the server's confirmations and drops are free.
- `Confirmation`: the clock and the polling loop go on: every call to the node returns,
  if with an error. This is `CallsReturn` of `RpcClient` for a node that goes on reading
  its end of the socket; a call that waits in a full channel for one that does not is
  outside every timeout, and the wait for the confirmation with it. The DAG need not grow.
- `Cli`: a running command goes on, the calendar finishes writing the rows of its batch,
  and somebody runs `ktcs complete` again and again on every file that is pending
  (strong fairness: the file may be in another command's hands now and then). Requests
  may fail any number of times, but of those made for one file some are answered (strong
  fairness of `Fetched` per path): if none ever is, nothing can be upgraded. Nobody
  has to stamp, and the network need not mine. `Funding` and `Payment` have no liveness.

## Proofs

`ServiceProofs` is about two services of the calendar. Of `BatchManager` it proves, for any sets of stamps and modes, any windows and any
limit (assumption `ManagerAssumption`), that

- `ManagerTypeCorrect`: every reachable state has its types and no queue exceeds the limit;
- `TimerCorrect`: a mode has a timer exactly while it has a queue, and the timer shows
  the arrival of the oldest stamp;
- `CutOnTimeHolds`: no batch is cut before its window is over (lemma `PollNotEarly`),
  and a poll leaves nothing overdue behind (lemma `PollNoneOverdue`);
- `ImplementsQueueHolds`: the timed manager implements `BatchQueue`.

The argument is the inductive invariant `ManagerInv`, the conjunction of `TypeOK`,
`TimerIffPending`, `TimerIsOldest` and `NotAhead`. None of the first three is enough:
that a batch is not early needs the timer to be the arrival of the *first* stamp in the
queue, and because a poll uses a clock reading taken before the lock, it needs that no
timer and no reading is ahead of the clock (`NotAhead`). Each operation has its own
lemma (`AddDigestManagerInv`, `GetReadyBatchesManagerInv`); the action properties follow
from `ManagerInv` and the step; the refinement maps `batchOpen` to the set of modes with a timer.

`PaymentProofs` proves first about `Funding`, for any finite set of coins, any amounts, rates, masses and any
`MaxU64` (assumption `FundingAssumption`: amounts and masses are positive, the burn is
no dust, the commitment's output is not lighter than another), that

- `FundingTypes`: the sums stay natural numbers, and no field of a transaction is ever
  negative: none of the subtractions of the builders underflows;
- `BalancedHolds`: input = burn + change + fee, and no output is dust;
- `AffordableHolds`: the calendar and the browser are refused only for want of money or
  for sums that do not fit;
- `FeeShortHolds`: the fee covers the mass, or falls short by exactly one output's fee
  with change in the window above the dust threshold.

The invariant is `IInv`: the four together with `ReadyToBuild`, which carries what a
selection knows when it stops (its target and fee are covered, or every coin was taken)
to the step that builds. Without it a build could start from any total. The arithmetic
is in two lemmas (`FeeType`, `FeeOfOutput`); products of two variables are given to the
prover as facts, because its arithmetic is linear.

It then proves about `Payment`, for keys of any length (assumption `PaymentAssumption`):

- `NodeTakesItHolds`: every input is signed by the owner of its coin, over the script,
  amount, inputs and outputs that the node is sent. The invariant `PayInv` says that what
  was sent is what one of the services' functions makes of the transaction that was
  built; the lemmas before it, that on each of the three ways (the core's, the calendar's,
  the browser's) coins, inputs and signatures run in parallel, and that the script that is
  signed is the chain's, its two bytes of version taken off and put back;
- `PaymentIsFunded`: every behaviour of `Payment` is one of `Funding`, so that the four
  theorems above hold of what is sent as well as of what is built;
- `MoneyStaysHeldHolds`: an output is the burn or pays a key the program holds, the other
  wallet's where there are two.

The last two rest on the program reading its own addresses, which the same module proves
first, for keys and payloads of any length:

- `AddressRoundTrip`: `decode_address` takes the address that `encode_address` makes of a
  key, and gives the key back. It has two halves. *Words*: `convert_bits` pads the bits of
  the bytes with at most four zeros (`ToWords`), and on the way back finds the same bits
  in the words (`WordsOfBits`), a rest that is shorter than a word and zero, as it
  demands, and the bytes it started from (`WordsConvertBack`). *Checksum*
  (`ChecksumVerifies`): eight digits put in place of the eight zeros that
  `create_checksum` appends reach the register's top digit only after the last of them is
  in, so the feedback is that of the zeros and the digits come out added to the register
  (`DigitsDiffer`); they were chosen to make it 1. This holds whatever the generators are;
  that they detect errors is not claimed.

What the number of a group of bits and the checksum of a list of digits are is given by
recursive functions (`Gathered`, `Checks`); each gets its equation (`GatheredDef`,
`ChecksDef`) and from there on what is proved about it goes by `NatSetInduction`.

`ConfirmationProofs` proves `OfferedFound`, for a DAG of any size and shape and both
programs: when a poll is over, every block with the transaction that the node has
offered, as a tip or as a parent of a tip, has ended the search or was passed over for
a known reason. What could go wrong is the set of checked blocks, which grows through
every poll and hides blocks from later ones. The invariant has a part per way a block
can be dealt with: what is checked is clear (`CheckedClear`), what was offered is still
ahead or clear (`OfferedAhead`), the parents of a checked tip are clear but for those
still to look at (`CheckedParents`), a checked block that is listed again has nothing
left (`KnownTips`), with the order of blocks by age (`Ordered`) and where the scan
stands (`Position`). `CheckedParents` has an exception, for a block checked as a parent:
its own parents were never looked at, and they need not be, because it has a child and
so cannot be offered as a tip again; that is why marking parents is safe.

The same module proves `AttestationHolds`: the attestation made of what was found stands
when it is verified later. Its invariant `Founded` follows the block from the place it is
seen to the result: what the scan remembers and what it returns are blocks that hold the
transaction, and since the DAG only grows they go on holding it.

`CalendarProofs` proves, for any number of stamps and modes, any number of lost answers
and restarts and any world of faults (assumption `CalendarAssumption`), all five
invariants of the run `calendar` and the refinement of `StampService`. The invariant has
a part per question:

- `LoopShape`, `Places`: what the loop has in hand at each of its steps, and that queues,
  poll result and batch are disjoint and without repetition. The queues are reasoned
  about as whole families (`Elems`, `Once`), with a lemma for each thing that is done to
  them: a stamp appended, a queue taken out, a family divided by a poll (`OnceAppend`,
  `OnceWithout`, `OnceDivided`), a batch advancing by a stamp (`HandAdvance`);
- `RowsFollow`, `CurrentRow`: a row stays as `submit_stamp` saved it until the loop
  updates it, and how far the update of the current one has come. Without the first a
  requeued stamp could find its row confirmed already; the second is what makes the
  event come last (`EventBacked`);
- `LoopShape` again: from the commitment on, the batch in hand carries the leaves of its
  transaction, which is why a stored attestation is true (`ProofsAnchored`);
- `Counted`: a stamp that is still owed a commitment has been in no more commitments than
  there were lost answers, and any other in one more. The bound of `CommitmentsBounded`
  alone is not inductive, as it does not say which stamps may be committed again;
- `Kept`: `NoAcceptedStampLost` itself, once the places are known.

`ImplementsServiceHolds` maps each step to one of the service: `SaveStamp` to *submit*,
`Refuse` to *refuse*, both outcomes of `submit_commitment` that reach the chain to
*anchor*, `UpdateStatus` to *confirm*, `UpdateProof` to *attest*, the cleanup's deletion
to *expire*, and everything else, failures and restarts included, to a stutter.

`WsSessionProofs` proves, for any proofs, any subscription limit and channels of any
capacity, `RegistryAgreesHolds`, `NoConfirmationLostHolds` and, as an action property,
`QuietHolds`. The registry part needs where the receive loop is (`Books`): between its two
calls the registry and the local set differ by exactly the proof of the message at hand.
The other two are about a channel of any length with answers and events of two tasks in
it. Their invariant `Told` is about the *last answer* on a proof that is in the channel or
in the loop's hand: if it is "subscribed", the session has the proof; if "unsubscribed",
it has not, no event on it comes after in the channel, and no forwarding task holds one
between its check and its send, which the read guard kept across the send achieves. Once
the last answer has been delivered, `KnowsSubscribed` and `KnowsUnsubscribed` say the same
of what the client knows and of its own messages still under way; `Located` says where a
confirmation that is owed is. `AppendFacts`, `TailFacts` and the lemmas after them say
what putting in and taking out a message does to "last" and "after".

`ClientProofs` is about both programs at the end of a socket. Of the core's `RpcClient` it
proves, for any number of callers and requests and any capacity,
`OwnAnswerHolds` and `WaiterIsServedHolds`. The table is keyed by a number and its
entries outlive the calls that time out, so the invariant must speak of every id ever
given out, wherever it is now (in the channel, at the node, in an answer, in the table):
each belongs to one request and lies below the counter (`OneOwner`). A waiting call is
registered before it is sent (`Registered`) and its request or answer is on the way while
the socket is open (`Travelling`), which holds because nobody calls before the connection
is made and there is only one (`Dialling`).

Of the browser's `ProofPage` and the `CalendarClient` under it the same module proves, for
any proofs and any number of sockets, drops and runs of the effect (assumptions
`ClientAssumption`, `PageAssumption`), `OpenSocketKnowsHolds` and
`PageKeepsToItsProofHolds`. The first needs of the sockets only their types
(`ClientTyped`), but a lemma per handler, because a handler of any socket acts on
`this.ws`: `Said`, `Heard` and `Greeted` say what a word put in, a word heard and the
greeting of `onopen` do to the last word on a proof, and a new or closed `this.ws` is
never an open one. The second needs, besides, that a run of the effect has the requests
with its number, that they ask for the proof in the address if the run is the present
one, and that whatever is subscribed to can be unsubscribed (`PageShape`): if the page
could be subscribed without holding the function that unsubscribes, the cleanup would
leave the old proof's subscription to the new page.

Of `Wallets` the module `ServiceProofs` proves, for any amounts, fees, retries and faults, with one wallet and with
two, `NeverInEachOthersWayHolds` and `PaidOnceHolds`. That two transactions never share a
coin follows from whose coins they are: every cache, and every answer on its way to one,
holds coins of one wallet only (`RightWallets`; the recycle service asks after both in
turn, so that its answer's owner depends on where it is), and a transaction spends coins
of the wallet it is paid from (`AllSound`), through the mempool into blocks. `Accounted`
counts what has been paid against what is reported, in hand, or unseen: a retry conflicts
with its own lost first attempt, so that a step adds at most one.

`WsStateProofs` proves, for any finite number of sessions and proofs and any limits
(assumption `WsAssumption`), that

- `LimitAlwaysHolds`: no session is charged less than it is subscribed to or more than
  the limit;
- `AccountsAlwaysExact`: a session that is gone has left nothing behind, and the address
  is charged for what it has (and for upgrades that failed);
- `NeverALockCycle`: whoever holds a lock another session needs is not itself waiting.

A subscription is allowed under the first lock and made under both. What makes the limit
hold is that nobody can change a session's charge in between: `RoomKept` says that there
is still room when both locks are held, and `Locked` that a lock belongs to exactly the
call that took it. `CallsInTime` says that a connection is released only after its last
call, so that nothing is subscribed for a session that is gone. Each kind of step has a
lemma for this part of the invariant (`...Synchronised`) and one for limits and accounts,
which count elements of finite sets.

`CliProofs` is about the proof files, in two parts. The first is about what `ProofFile`'s
recursive functions compute, for inputs of every size. Induction as a theorem with an
operator for a parameter is out of the provers' reach, but the argument behind it is not:
`NatSetInduction` says of a *set* of numbers that it has 0, is closed under successor and
so has every number, since a least one outside it cannot be; it is proved from the
library's fact that the order of the natural numbers is well founded. Each recursive
function then has a lemma that its equations hold (`ResultsDef`, `LayersDef`, `ClimbDef`,
`TaggedDef`), and an induction of its own:

- `PathLeadsToRoot`: for a tree of any size and each of its leaves, odd layers and
  repeated last nodes included, the operations made of `get_proof`'s siblings compute the
  root. The invariant of the climb is `OnTheWay`: so far the operations compute the node
  the climb stands at, and every layer is a real one that shrinks until it is the root
  (`OneLayerUp`, `TopIsReached`);
- `RoundTrip`: what was written is read back as it was, for any operations and attestation
  (`TaggedStretch`: what a stretch of tokens of one kind adds to what has been kept);
- `NoHalfProof`: a beginning of a file, to the end of a token or into one, reads as the
  whole proof or as one without attestation. It is about one write; of one over another
  nothing of the kind is true.

The second part is about `Cli`, for any inputs, any batch, any number of terminals, stamps
and kills, and any lengths of addresses and attestations (assumptions `CliAssumption`,
`ProofFileAssumption`). `CliInvHolds` is type correctness and more: a file of one write
is read as one of the five kinds of proof the program makes, or as one without attestation
(`FilesAreRead`, by the two theorems before), and a command is, in each of its states,
what its kind makes it (`CommandsAreKnown`). A direct stamp has a number no other command
has (`NumbersDiffer`) and no transaction has before it is submitted (`SentWereStamped`);
what a `complete` saves is a row's proof, whatever it read, a mixture included
(`NamesRow`); over a file of one write that was a row's it destroys no nonce.
`OneCommand` says once what a step of one command leaves alone. From it follow

- `ValidHolds`: a complete proof in a file of one write is a confirmed row's, whose path
  leads to the root the batch's transaction carries (`PathLeadsToRoot`), or a direct one
  that was seen in the block it names;
- `PaidHolds`: each step that could drop a nonce from a file or from a command has an
  excuse. A `complete` needs none when the file it truncates is the one it read and of
  one write, which records nothing.

Only model-checked: liveness (fairness and ENABLED are out of the prover's reach). Every
invariant, action property and refinement of the runs has its theorem.

## Disagreements between code and documentation

Two are runs that TLC must find violated, with the quoted text in `PROJECT.json`:

| Run | What the code does |
|---|---|
| `calendar_restart` | the queue is rebuilt from nothing: accepted stamps stay pending after a restart |
| `cli_pending` | `ktcs stamp` submits nothing and writes an address the calendar never gave, and a direct stamp that timed out writes a `direct://` address: `ktcs complete`, which both tell the user to run, can get an answer from neither |

The models also contain these, noticed while modelling and left without a run of their
own. The properties are stated so as to be true of the code as it is, and their
comments say where this matters:

- the shutdown branch takes ready batches out of the queue and drops them, although its
  comment says it processes them (main.rs:1077);
- `auto_reconnect` is read nowhere (kaspa.rs:52): a lost connection is never made again;
- stamps of a failed batch are dropped when submissions have filled the queue
  meanwhile (main.rs:1142): they are counted in `leftOut`, and `NoAcceptedStampLost` and
  `AcceptedConfirmed` except them;
- between `update_stamp_status` and `update_stamp_proof` (main.rs:1213), GET answers
  `confirmed` with the pending proof; `EventBacked` holds because the event comes last,
  and `complete` saves that pending proof and has to be run again (`PendingIsUpgraded`);
- the status `batched` is announced and documented (docs/api/reference.md:78) but never
  stored;
- a repeated subscription is charged twice (websocket.rs:199): `LimitHolds` and
  `RegistryAgrees` have an inequality;
- an upgrade that fails leaves the address charged (websocket.rs:322): `AccountsExact`
  counts the failed upgrades;
- recycle_service.rs:3-5 promises "a self-sustaining loop where KAS circulates between
  wallets", "only losing transaction fees over time". Each commitment spends every coin of
  the STAMP wallet and sends the change to the RETURN wallet, which gives nothing back
  below the threshold (recycle_service.rs:116; 100,000,000 sompi by default): a rest that
  would pay for further commitments stays there and commitments stop. `CommitmentsContinue`
  ends in `Stuck`, which says just that, and the run `wallets` has such a rest;
- a node that stops reading with its socket open holds up the write task (kaspa.rs:240);
  once the channel of 32 is full, further calls wait outside their timeout
  (kaspa.rs:327): the second case of `CallsReturn`;
- two commands that write one file at the same time can leave bytes of both, which
  `verify`, who is given no length, may read as a complete proof and call VALID
  (proof.rs:94-123): hence `mixed` in `ValidIsOnChain` and `PendingIsUpgraded`;
- a close during `connect` leaves `KaspaClient` in state `Connected` (kaspa.rs:276);
- a stale `onclose` makes the browser client forget a live socket, which is then never
  closed (calendar.ts:271), and a confirmation announced while the client is not
  subscribed is never reported to its callback: `ConfirmedStays` holds because the page
  polls besides;
- both programs look at the tips and their parents only: a block that is two levels below
  every tip when they next ask is never offered to them, and the wait runs out on a mined
  transaction (`OfferedIsFound` is about blocks that were offered); a parent whose fetch
  failed is not asked for again (kaspa.rs:1482), the browser gives up a block whose second
  fetch failed (kaspa.ts:703), and both take the transaction's being in a block for its
  acceptance;
- `DagInfo.current_blue_work` is always zero (kaspa.rs:811), so that the accumulated work
  that docs/concepts/proof-format.md:262 describes is `0` in every answer;
- `address_to_script` has a case for 33-byte ECDSA keys that `decode_address` never lets
  through, and gives a script-hash address a pay-to-public-key script; neither occurs for
  the addresses the program makes (`MoneyStaysHeld`);
- the core client reads the version of a script little-endian and writes it big-endian,
  which only its being 0 makes harmless (`NodeTakesIt`);
- the page of a stamp shows the store's answer to an earlier page, under the other id,
  until its own first answer comes (ProofPage.tsx:45), which is for ever if none does:
  `PageKeepsToItsProof` begins with the first answer. `setConfirmedProof` is not tagged
  with an id (ProofPage.tsx:86), so that after a visit to a calendar stamp's page the
  page of a direct stamp shows its own block with the other's proof;
- change just above the dust threshold is paid with the fee of one output
  (tx_builder.rs:219): hence the second case of `FeeShortByOneOutput`;
- the command line selects coins for the fee only, though the builder also needs the
  burn (direct.rs:101): a wallet that could pay may be refused, and `AffordableIsBuilt`
  leaves the command line out;
- `set_extension` gives `a.pdf` and `a.txt` one proof file, `a.kts`, which the later
  stamp overwrites, while the command's documentation (docs/components/cli.md:289) shows
  `important-document.pdf.kts`: `PaidIsRecorded` excuses a stamp that takes the name.

## What is not modelled

- The content of digests and proofs, except as far as attestations, coins and messages
  distinguish them; the inside of SHA-256 and BLAKE2b (hashes are terms) and of Schnorr
  signatures (a signature is a key and what it signs); simnet and devnet addresses.
- The RIPEMD-160, Keccak and fork operations and the Bitcoin attestation, which no part
  of the program produces; the size limits of the proof reader.
- `ktcs` with an explicit `--output`, `hash`, `wallet`, `config`; the wording of `info`,
  `status` and of `verify`, which exits with 0 for an invalid proof too.
- Request validation, API keys, rate limits and CORS of the calendar, and its verify
  handler, which parses and reads out one proof; mock mode.
- The other HTTP requests of the browser's calendar client (one request, one answer);
  the reconnect backoff's delays; the socket, request table and node probing of the
  browser's node client (`kaspa.ts`), of which only the search for a block and the coins
  it lists are modelled.
- The home page and its steps, the page of a direct stamp, UI components, deployment
  files; the WASM conversions of proofs and keys.
- The PNN resolver: requests to a list of public endpoints until one answers.
- `CalendarClient.close` and `KaspaClient::disconnect`, which no part of the program
  calls (tests do).

## Plan

Done, in this order: batch manager and its proofs; calendar with its two abstract
specifications; registry, its proofs, and session; wallets; RPC client; transaction building and its
proofs; proof files and the command line; addresses, signatures and the way to the node;
the search for a block and its proof; the browser's page over its calendar client; the
proofs about the calendar and its refinement, the session, the wallets, both clients, the
payments, and the command line with its files.

Next, the most important first. The list of runs is meant to stay short: a new question
replaces a weaker one or joins the run of the module it is about.

1. `BrowserRpc` — `src/api/kaspa.ts`: its socket, request table and resolver.
2. `HomePage` and the stamp store: submission and direct stamping in the browser.
3. The verify handler of the calendar, API keys and rate limits.
