---------------------------- MODULE ServiceProofs ----------------------------
(***************************************************************************)
(* Theorems about two services of the calendar.                            *)
(*   BatchManager, for any stamps, modes, windows and limit: all rest on   *)
(* the inductive invariant ManagerInv: types, a timer exactly where there  *)
(* is a queue, timers that date from the oldest queued stamp, and nothing  *)
(* dated after the clock.                                                  *)
(*   Wallets, for any amounts, fees and thresholds and any number of       *)
(* retries and faults, with and without a RETURN wallet: these rest on     *)
(* the inductive invariant IInv.                                           *)
(***************************************************************************)
EXTENDS BatchManager, Wallets, FiniteSetTheorems, TLAPS

(* The invariant holds initially: no queue, no timer, clock at zero. *)
LEMMA InitManagerInv == InitManager => ManagerInv
  BY ManagerAssumption
  DEF InitManager, ManagerInv, TypeOK, TimerIffPending, TimerIsOldest, NotAhead, NoStart, NotPolling

(* add_digest preserves the invariant: the timer it may start and the push *)
(* it makes carry the same clock reading.                                  *)
LEMMA AddDigestManagerInv ==
  ASSUME ManagerInv, NEW s \in Stamps, NEW m \in Modes, AddDigest(s, m)
  PROVE  ManagerInv'
<1> USE ManagerAssumption DEF ManagerInv, NoStart, NotPolling
<1>1. TypeOK'
  BY DEF TypeOK, AddDigest, StartTimer, HasRoom
<1>2. \A n \in Modes \ {m} : pending'[n] = pending[n] /\ batchStart'[n] = batchStart[n]
  BY DEF TypeOK, AddDigest, StartTimer
<1>3. /\ pending'[m] = Append(pending[m], s)
      /\ batchStart'[m] = IF pending[m] = <<>> THEN clock ELSE batchStart[m]
      /\ addedAt'[s] = clock
      /\ \A r \in Stamps \ {s} : addedAt'[r] = addedAt[r]
  BY DEF TypeOK, AddDigest, StartTimer
<1>4. TimerIffPending'
  BY <1>2, <1>3 DEF TypeOK, TimerIffPending
<1>5. \A n \in Modes : \A i \in DOMAIN pending[n] :
         /\ pending[n][i] \in Stamps \ {s}
         /\ addedAt'[pending[n][i]] = addedAt[pending[n][i]]
  BY <1>3 DEF TypeOK, AddDigest, Queued, Range
<1>6. TimerIsOldest'
  <2> SUFFICES ASSUME NEW n \in Modes, pending'[n] # <<>>
               PROVE  /\ batchStart'[n] = addedAt'[pending'[n][1]]
                      /\ \A i \in DOMAIN pending'[n] :
                           addedAt'[pending'[n][i]] >= batchStart'[n]
    BY DEF TimerIsOldest
  <2>1. CASE n # m
    <3>1. /\ pending'[n] = pending[n] /\ batchStart'[n] = batchStart[n]
          /\ 1 \in DOMAIN pending[n]
      BY <2>1, <1>2 DEF TypeOK
    <3> QED BY <3>1, <1>5 DEF TimerIsOldest
  <2>2. CASE n = m /\ pending[m] = <<>>
    BY <2>2, <1>3 DEF TypeOK
  <2>3. CASE n = m /\ pending[m] # <<>>
    <3>1. \A i \in DOMAIN pending'[m] :
            pending'[m][i] = IF i <= Len(pending[m]) THEN pending[m][i] ELSE s
      BY <2>3, <1>3 DEF TypeOK
    <3>2. /\ batchStart'[m] = batchStart[m]
          /\ pending'[m][1] = pending[m][1]
          /\ 1 \in DOMAIN pending[m]
      BY <2>3, <1>3, <3>1 DEF TypeOK
    <3>3. batchStart[m] <= clock /\ batchStart[m] = addedAt[pending[m][1]]
      BY <2>3 DEF TimerIsOldest, NotAhead
    <3>4. batchStart[m] \in Int /\ clock \in Int
      BY DEF TypeOK
    <3>5. ASSUME NEW i \in DOMAIN pending'[m]
          PROVE  addedAt'[pending'[m][i]] >= batchStart'[m]
      <4>1. CASE i \in DOMAIN pending[m]
        <5>1. pending'[m][i] = pending[m][i]
          BY <4>1, <3>1, <3>5 DEF TypeOK
        <5> QED BY <5>1, <4>1, <1>5, <3>2, <2>3 DEF TimerIsOldest
      <4>2. CASE i \notin DOMAIN pending[m]
        <5>1. pending'[m][i] = s
          BY <4>2, <3>1, <3>5, <1>3 DEF TypeOK
        <5> QED BY <5>1, <1>3, <3>2, <3>3, <3>4
      <4> QED BY <4>1, <4>2
    <3>6. batchStart'[m] = addedAt'[pending'[m][1]]
      BY <3>2, <3>3, <1>5
    <3> QED BY <2>3, <3>5, <3>6
  <2> QED BY <2>1, <2>2, <2>3
<1>7. NotAhead'
  BY DEF TypeOK, NotAhead, AddDigest, StartTimer
<1> QED BY <1>1, <1>4, <1>6, <1>7

(* A poll preserves the invariant: it clears a timer with its queue. *)
LEMMA GetReadyBatchesManagerInv == ManagerInv /\ GetReadyBatches => ManagerInv'
  BY ManagerAssumption
  DEF ManagerInv, TypeOK, TimerIffPending, TimerIsOldest, NotAhead, GetReadyBatches,
      QueuesAfterPoll, TimersAfterPoll, NoStart, NotPolling

(* Every step preserves the invariant. *)
LEMMA NextManagerInv == ManagerInv /\ [NextManager]_managerVars => ManagerInv'
<1> SUFFICES ASSUME ManagerInv, [NextManager]_managerVars PROVE ManagerInv'
  OBVIOUS
<1>1. ASSUME NEW s \in Stamps, NEW m \in Modes, AddDigest(s, m) PROVE ManagerInv'
  BY <1>1, AddDigestManagerInv
<1>2. CASE BeginPoll
  BY <1>2 DEF ManagerInv, TypeOK, TimerIffPending, TimerIsOldest, NotAhead, BeginPoll,
              NoStart, NotPolling
<1>3. CASE GetReadyBatches
  BY <1>3, GetReadyBatchesManagerInv
<1>4. CASE Tick
  BY <1>4 DEF ManagerInv, TypeOK, TimerIffPending, TimerIsOldest, NotAhead, Tick,
              NoStart, NotPolling
<1>5. CASE UNCHANGED managerVars
  BY <1>5 DEF ManagerInv, TypeOK, TimerIffPending, TimerIsOldest, NotAhead, managerVars
<1> QED BY <1>1, <1>2, <1>3, <1>4, <1>5 DEF NextManager

(* ManagerInv is an invariant of the manager. *)
LEMMA ManagerInductive == ManagerSpec => []ManagerInv
  BY InitManagerInv, NextManagerInv, PTL DEF ManagerSpec

(* Types and the queue limit hold for any parameters: no interleaving of   *)
(* add_digest calls takes a queue past MAX_PENDING_PER_MODE.               *)
THEOREM ManagerTypeCorrect == ManagerSpec => []TypeOK
<1>1. ManagerInv => TypeOK
  BY DEF ManagerInv
<1> QED BY <1>1, ManagerInductive, PTL

(* A queue without a timer, which no poll would ever take, is unreachable, *)
(* and so is a timer without a queue.                                      *)
THEOREM TimerCorrect == ManagerSpec => [](TimerIffPending /\ TimerIsOldest)
<1>1. ManagerInv => TimerIffPending /\ TimerIsOldest
  BY DEF ManagerInv
<1> QED BY <1>1, ManagerInductive, PTL

(* The oldest stamp of a batch has waited the mode's window, although the  *)
(* poll reads the clock before it takes the lock.                          *)
LEMMA PollNotEarly ==
  ASSUME ManagerInv, [NextManager]_managerVars, GetReadyBatches, NEW m \in Modes
  PROVE  NotEarly(m)
<1> SUFFICES ASSUME ready'[m] # <<>>
             PROVE  clock - addedAt[ready'[m][1]] >= Window[m]
  BY DEF NotEarly
<1>1. m \in Due /\ ready'[m] = pending[m]
  BY DEF GetReadyBatches
<1>2. batchStart[m] = addedAt[ready'[m][1]] /\ batchStart[m] \in Nat
  BY <1>1 DEF ManagerInv, TypeOK, TimerIsOldest, Due, NoStart
<1>3. Elapsed(batchStart[m]) >= Window[m] /\ Window[m] \in Nat \ {0}
  BY <1>1, ManagerAssumption DEF Due
<1> QED BY <1>2, <1>3 DEF ManagerInv, TypeOK, NotAhead, Elapsed, NotPolling, GetReadyBatches

(* A poll leaves no stamp queued that was pushed a window or more before   *)
(* the poll read the clock: no stamp waits for a second poll too long.     *)
LEMMA PollNoneOverdue ==
  ASSUME ManagerInv, [NextManager]_managerVars, GetReadyBatches, NEW m \in Modes
  PROVE  NoneOverdue(m)
<1> SUFFICES ASSUME NEW i \in DOMAIN pending'[m]
             PROVE  pollNow - addedAt[pending'[m][i]] < Window[m]
  BY DEF NoneOverdue
<1>1. m \notin Due /\ pending'[m] = pending[m] /\ pending[m] # <<>>
  BY DEF GetReadyBatches, QueuesAfterPoll, ManagerInv, TypeOK
<1>2. batchStart[m] # NoStart /\ batchStart[m] \in Nat
  BY <1>1 DEF ManagerInv, TypeOK, TimerIffPending, NoStart
<1>3. ~(Elapsed(batchStart[m]) >= Window[m])
  BY <1>1, <1>2 DEF Due
<1>4. addedAt[pending[m][i]] >= batchStart[m]
  BY <1>1 DEF ManagerInv, TimerIsOldest
<1>5. addedAt[pending[m][i]] \in Nat /\ Window[m] \in Nat \ {0} /\ pollNow \in Nat
  BY <1>1, ManagerAssumption DEF ManagerInv, TypeOK, GetReadyBatches, NotPolling
<1> QED BY <1>1, <1>2, <1>3, <1>4, <1>5 DEF Elapsed

(* Batches are cut on time, for any windows, stamps and interleaving.      *)
THEOREM CutOnTimeHolds == ManagerSpec => CutOnTime
<1>1. ManagerInv /\ [NextManager]_managerVars =>
        [GetReadyBatches => \A m \in Modes : NotEarly(m) /\ NoneOverdue(m)]_managerVars
  BY PollNotEarly, PollNoneOverdue
<1> QED BY <1>1, ManagerInductive, PTL DEF ManagerSpec, CutOnTime

(* The timed manager implements the untimed queue the Calendar module is   *)
(* built on: adding and polling map to the queue's operations, the clock   *)
(* and a poll's clock reading to stuttering.                               *)
THEOREM ImplementsQueueHolds == ManagerSpec => ImplementsQueue
<1> DEFINE open == {m \in Modes : batchStart[m] # NoStart}
<1>1. InitManager => BQ!Init
  BY DEF InitManager, BQ!Init
<1>2. ManagerInv /\ [NextManager]_managerVars => [BQ!Next]_(BQ!queueVars)
  <2> SUFFICES ASSUME ManagerInv, [NextManager]_managerVars PROVE [BQ!Next]_(BQ!queueVars)
    OBVIOUS
  <2>1. ASSUME NEW s \in Stamps, NEW m \in Modes, AddDigest(s, m)
        PROVE  BQ!Next
    <3>1. s \in Stamps \ BQ!Queued
      BY <2>1 DEF AddDigest, Queued, BQ!Queued, Range, BQ!Range
    <3>2. clock # NoStart /\ batchStart \in [Modes -> Nat \cup {NoStart}]
      BY DEF ManagerInv, TypeOK, NoStart
    <3>3. open' = IF pending[m] = <<>> THEN open \cup {m} ELSE open
      BY <2>1, <3>2 DEF AddDigest, StartTimer
    <3>4. BQ!AddDigest(s, m)
      BY <2>1, <3>3 DEF AddDigest, HasRoom, BQ!AddDigest, BQ!HasRoom
    <3> QED BY <2>1, <3>1, <3>4 DEF BQ!Next, AddDigest
  <2>2. ASSUME GetReadyBatches PROVE BQ!Next
    <3>1. PICK due \in SUBSET Modes : due = Due
      BY DEF Due
    <3>2. due \subseteq open /\ open' = open \ due
      BY <2>2, <3>1 DEF Due, GetReadyBatches, TimersAfterPoll
    <3>3. BQ!GetReadyBatches(due)
      BY <2>2, <3>1, <3>2 DEF GetReadyBatches, QueuesAfterPoll, BQ!GetReadyBatches
    <3> QED BY <3>3 DEF BQ!Next
  <2>3. ASSUME BeginPoll \/ Tick \/ UNCHANGED managerVars
        PROVE  UNCHANGED BQ!queueVars
    BY <2>3 DEF BeginPoll, Tick, managerVars, BQ!queueVars
  <2> QED BY <2>1, <2>2, <2>3, Zenon DEF NextManager
<1> QED BY <1>1, <1>2, ManagerInductive, PTL DEF ManagerSpec, ImplementsQueue, BQ!Spec

-----------------------------------------------------------------------------
(* Wallets *)

(* A call in hand is a record whatever it holds.                           *)
Shaped ==
  /\ commit = [at |-> commit.at, tx |-> commit.tx, tries |-> commit.tries]
  /\ recycle = [at |-> recycle.at, tx |-> recycle.tx]
  /\ answers = [t \in Tasks |-> answers[t]]
  /\ IsFiniteSet(mempool) /\ IsFiniteSet(mined)
  /\ committed \in Nat /\ unseen \in Nat

AllOf(owner, coins) == \A c \in coins : c.owner = owner

(* The wallet a task's answer is about: the recycle service asks after     *)
(* both in turn.                                                           *)
RightWallets ==
  /\ AllOf("stamp", stampCache) /\ AllOf("return", returnCache)
  /\ \A t \in {"commit", "poller"} : answers[t] = NoAnswer \/ AllOf("stamp", answers[t])
  /\ answers["returnPoller"] = NoAnswer \/ AllOf("return", answers["returnPoller"])
  /\ recycle.at = "store" => AllOf("return", answers["recycle"])
  /\ recycle.at = "write" => AllOf("stamp", answers["recycle"])

(* A transaction spends coins of the wallet it is paid from.               *)
Sound(tx) ==
  \/ tx.kind = "none" /\ tx.inputs = {}
  \/ tx.kind = "commit" /\ AllOf("stamp", tx.inputs)
  \/ tx.kind = "recycle" /\ AllOf("return", tx.inputs)

AllSound ==
  /\ \A tx \in mempool \cup mined : Sound(tx)
  /\ Sound(commit.tx) /\ commit.tx.kind # "recycle"
  /\ Sound(recycle.tx) /\ recycle.tx.kind # "commit"

Paid == {t \in mempool \cup mined : t.kind = "commit"}
InHand == IF commit.at \in {"wait", "confirmed", "last", "ok"} THEN 1 ELSE 0
Accounted == Cardinality(Paid) <= committed + InHand + unseen

IInv == Shaped /\ RightWallets /\ AllSound /\ Accounted

-----------------------------------------------------------------------------

(* What is paid can be counted, and one transaction adds one at most.      *)
LEMMA PaidFinite ==
  ASSUME Shaped
  PROVE  /\ IsFiniteSet(Paid) /\ Cardinality(Paid) \in Nat
         /\ \A tx : Cardinality(Paid \cup {tx}) <= Cardinality(Paid) + 1
                    /\ Cardinality(Paid \cup {tx}) \in Nat
<1>1. IsFiniteSet(mempool \cup mined)
  BY FS_Union DEF Shaped
<1>2. IsFiniteSet(Paid)
  BY <1>1, FS_Subset DEF Paid
<1>3. Cardinality(Paid) \in Nat
  BY <1>2, FS_CardinalityType
<1>4. ASSUME NEW tx
      PROVE  Cardinality(Paid \cup {tx}) <= Cardinality(Paid) + 1 /\ Cardinality(Paid \cup {tx}) \in Nat
  <2>1. Cardinality(Paid \cup {tx}) = IF tx \in Paid THEN Cardinality(Paid) ELSE Cardinality(Paid) + 1
    BY <1>2, FS_AddElement
  <2> QED
    BY <1>3, <2>1
<1> QED
  BY <1>2, <1>3, <1>4

(* A UTXO query answers with coins of the wallet that was asked after.     *)
LEMMA QueryOwned ==
  ASSUME Shaped, NEW t \in Tasks, NEW owner, Query(t, owner)
  PROVE  /\ answers' = [u \in Tasks |-> answers'[u]]
         /\ AllOf(owner, answers'[t]) /\ \A u \in Tasks \ {t} : answers'[u] = answers[u]
  BY DEF Query, Shaped, OwnedBy, AllOf

(* The answer is written to one of the caches, and is gone.                *)
LEMMA WriteOwned ==
  ASSUME Shaped, NEW t \in Tasks, WriteStamp(t) \/ WriteReturn(t)
  PROVE  /\ answers' = [u \in Tasks |-> answers'[u]]
         /\ answers[t] # NoAnswer /\ answers'[t] = NoAnswer
         /\ \A u \in Tasks \ {t} : answers'[u] = answers[u]
  BY DEF WriteStamp, WriteReturn, Shaped

-----------------------------------------------------------------------------

(* A transaction goes from the mempool into a block.                       *)
LEMMA MineIInv ==
  ASSUME IInv, NEW tx \in mempool, Mine(tx)
  PROVE  IInv'
<1> USE DEF IInv
<1>1. /\ mempool' = mempool \ {tx} /\ mined' = mined \cup {tx}
      /\ UNCHANGED <<cacheVars, commit, recycle, counters>>
  BY DEF Mine
<1>2. mempool' \cup mined' = mempool \cup mined
  BY <1>1
<1>3. IsFiniteSet(mempool') /\ IsFiniteSet(mined')
  BY <1>1, FS_AddElement, FS_RemoveElement DEF Shaped
<1>4. Shaped'
  BY <1>1, <1>3 DEF Shaped, cacheVars, counters
<1>5. RightWallets' /\ AllSound' /\ Accounted'
  BY <1>1, <1>2 DEF RightWallets, AllSound, Accounted, Paid, InHand, cacheVars, counters
<1> QED
  BY <1>4, <1>5

(* The pollers write what the node said of their wallet.                   *)
LEMMA PollerIInv ==
  ASSUME IInv, PollerQuery \/ PollerWrite
  PROVE  IInv'
<1> USE DEF IInv
<1>1. UNCHANGED <<nodeVars, commit, recycle, counters>>
  BY DEF PollerQuery, PollerWrite
<1>2. Accounted' /\ AllSound'
  BY <1>1 DEF Accounted, Paid, InHand, AllSound, nodeVars, counters
<1>3. CASE PollerQuery
  <2>1. UNCHANGED <<stampCache, returnCache>>
    BY <1>3 DEF PollerQuery
  <2>2. CASE Query("poller", "stamp")
    <3>1. Shaped' /\ RightWallets'
      BY <1>1, <2>1, <2>2, QueryOwned DEF Shaped, RightWallets, Tasks, nodeVars, counters
    <3> QED
      BY <1>2, <3>1
  <2>3. CASE Query("returnPoller", "return")
    <3>1. Shaped' /\ RightWallets'
      BY <1>1, <2>1, <2>3, QueryOwned DEF Shaped, RightWallets, Tasks, nodeVars, counters
    <3> QED
      BY <1>2, <3>1
  <2> QED
    BY <1>3, <2>2, <2>3 DEF PollerQuery
<1>4. CASE WriteStamp("poller") /\ UNCHANGED returnCache
  <2>1. Shaped' /\ RightWallets'
    BY <1>1, <1>4, WriteOwned DEF WriteStamp, Shaped, RightWallets, Tasks, nodeVars, counters
  <2> QED
    BY <1>2, <2>1
<1>5. CASE WriteReturn("returnPoller") /\ UNCHANGED stampCache
  <2>1. Shaped' /\ RightWallets'
    BY <1>1, <1>5, WriteOwned DEF WriteReturn, Shaped, RightWallets, Tasks, nodeVars, counters
  <2> QED
    BY <1>2, <2>1
<1> QED
  BY <1>3, <1>4, <1>5 DEF PollerWrite

-----------------------------------------------------------------------------
(* submit_commitment *)

(* The refreshes around a commitment                                       *)
LEMMA CommitRefreshIInv ==
  ASSUME IInv, CommitQuery \/ CommitWrite
  PROVE  IInv'
<1> USE DEF IInv
<1>1. /\ UNCHANGED <<nodeVars, returnCache, recycle, committed, unseen>>
      /\ commit' = [commit EXCEPT !.at = commit'.at]
      /\ InHand' = InHand
  BY DEF CommitQuery, CommitWrite, AfterFailedRefresh, counters, Shaped, InHand
<1>2. /\ commit'.tx = commit.tx
      /\ commit' = [at |-> commit'.at, tx |-> commit'.tx, tries |-> commit'.tries]
  BY <1>1 DEF Shaped
<1>3. Accounted' /\ AllSound'
  BY <1>1, <1>2 DEF Accounted, Paid, AllSound, nodeVars
<1>4. CASE UNCHANGED <<answers, stampCache>>
  <2>1. Shaped' /\ RightWallets'
    BY <1>1, <1>2, <1>4 DEF Shaped, RightWallets, nodeVars
  <2> QED
    BY <1>3, <2>1
<1>5. CASE Query("commit", "stamp") /\ UNCHANGED stampCache
  <2>1. Shaped' /\ RightWallets'
    BY <1>1, <1>2, <1>5, QueryOwned DEF Shaped, RightWallets, Tasks, nodeVars
  <2> QED
    BY <1>3, <2>1
<1>6. CASE WriteStamp("commit")
  <2>1. Shaped' /\ RightWallets'
    BY <1>1, <1>2, <1>6, WriteOwned DEF WriteStamp, Shaped, RightWallets, Tasks, nodeVars
  <2> QED
    BY <1>3, <2>1
<1> QED
  BY <1>4, <1>5, <1>6 DEF CommitQuery, CommitWrite

(* A commitment is built from the STAMP wallet's cache, and only that.     *)
LEMMA BuildIInv ==
  ASSUME IInv, Build
  PROVE  IInv'
<1> USE DEF IInv
<1>1. /\ UNCHANGED <<nodeVars, cacheVars, recycle, counters>> /\ commit.at = "build"
      /\ \/ commit' = IdleCommit
         \/ commit' = [at |-> "submit", tries |-> 0,
                       tx |-> [kind |-> "commit", inputs |-> stampCache, change |-> Change(stampCache)]]
  BY DEF Build, CommitCoins
<1>2. /\ commit' = [at |-> commit'.at, tx |-> commit'.tx, tries |-> commit'.tries]
      /\ commit'.at \in {"idle", "submit"}
      /\ Sound(commit'.tx) /\ commit'.tx.kind # "recycle"
  BY <1>1 DEF IdleCommit, NoTx, Sound, RightWallets
<1>3. Shaped' /\ RightWallets'
  BY <1>1, <1>2 DEF Shaped, RightWallets, nodeVars, cacheVars, counters
<1>4. AllSound' /\ Accounted'
  BY <1>1, <1>2 DEF AllSound, Accounted, Paid, InHand, nodeVars, counters
<1> QED
  BY <1>3, <1>4

(* An attempt puts one transaction into the mempool at most, and counts it *)
(* as in hand or as unseen.                                                *)
LEMMA SubmitIInv ==
  ASSUME IInv, Submit
  PROVE  IInv'
<1> USE DEF IInv
<1>1. /\ UNCHANGED <<mined, cacheVars, recycle, committed>> /\ commit.at = "submit"
      /\ \/ mempool' = mempool \cup {commit.tx} /\ commit' = [commit EXCEPT !.at = "wait"] /\ unseen' = unseen
         \/ mempool' = mempool \cup {commit.tx} /\ commit' = Retry /\ unseen' = unseen + 1
         \/ mempool' = mempool /\ commit' = Retry /\ unseen' = unseen
  BY DEF Submit, Unseen
<1>2. /\ Retry = [at |-> Retry.at, tx |-> Retry.tx, tries |-> Retry.tries]
      /\ Retry.at \in {"submit", "idle"} /\ Retry.tx \in {commit.tx, NoTx}
  BY <1>1 DEF Retry, IdleCommit, Shaped
<1>3. /\ commit' = [at |-> commit'.at, tx |-> commit'.tx, tries |-> commit'.tries]
      /\ commit'.tx \in {commit.tx, NoTx}
      /\ commit'.at = "wait" \/ commit'.at \in {"submit", "idle"}
  BY <1>1, <1>2 DEF Shaped
<1>4. Sound(commit'.tx) /\ commit'.tx.kind # "recycle"
  BY <1>3 DEF AllSound, Sound, NoTx
<1>5. mempool' \subseteq mempool \cup {commit.tx} /\ IsFiniteSet(mempool') /\ unseen' \in Nat
  <2>1. IsFiniteSet(mempool \cup {commit.tx})
    BY FS_AddElement DEF Shaped
  <2> QED
    BY <1>1, <2>1 DEF Shaped
<1>6. Shaped' /\ RightWallets'
  BY <1>1, <1>3, <1>5 DEF Shaped, RightWallets, cacheVars
<1>7. AllSound'
  BY <1>1, <1>4, <1>5 DEF AllSound
<1>8. Accounted'
  <2>1. Cardinality(Paid) <= committed + unseen /\ committed \in Nat /\ unseen \in Nat
    BY <1>1 DEF Accounted, InHand, Shaped
  <2>2. CASE mempool' = mempool
    <3>1. Paid' = Paid /\ committed' = committed /\ unseen' \in Nat /\ unseen' >= unseen /\ InHand' \in {0, 1}
      BY <1>1, <2>1, <2>2 DEF Paid, InHand
    <3> QED
      BY <2>1, <3>1, PaidFinite DEF Accounted
  <2>3. CASE mempool' = mempool \cup {commit.tx}
    <3>1. /\ committed' = committed
          /\ \/ InHand' = 1 /\ unseen' = unseen
             \/ InHand' \in {0, 1} /\ unseen' = unseen + 1
             \/ mempool' = mempool
      BY <1>1 DEF InHand, Shaped
    <3>2. Cardinality(Paid') <= Cardinality(Paid) + 1 /\ Cardinality(Paid') \in Nat
      <4>1. Paid' = Paid \/ Paid' = Paid \cup {commit.tx}
        BY <1>1, <2>3 DEF Paid
      <4>2. Cardinality(Paid \cup {commit.tx}) <= Cardinality(Paid) + 1
            /\ Cardinality(Paid \cup {commit.tx}) \in Nat /\ Cardinality(Paid) \in Nat
        <5> HIDE DEF IInv
        <5>1. Shaped
          BY DEF IInv
        <5> QED
          BY <5>1, PaidFinite
      <4>3. CASE Paid' = Paid
        BY <4>2, <4>3
      <4>4. CASE Paid' = Paid \cup {commit.tx}
        BY <4>2, <4>4
      <4> QED
        BY <4>1, <4>3, <4>4
    <3> QED
      BY <2>1, <2>2, <3>1, <3>2, PaidFinite DEF Accounted
  <2> QED
    BY <1>1, <2>2, <2>3
<1> QED
  BY <1>6, <1>7, <1>8

(* The end of a call that was sent: confirmed, reported, or not seen       *)
LEMMA AwaitIInv ==
  ASSUME IInv, Await \/ ReturnOk
  PROVE  IInv'
<1> USE DEF IInv
<1>1. /\ UNCHANGED <<nodeVars, cacheVars, recycle>> /\ commit.at \in {"wait", "ok"}
      /\ \/ commit' = [commit EXCEPT !.at = "confirmed"] /\ UNCHANGED <<committed, unseen>>
         \/ commit' = IdleCommit /\ unseen' = unseen + 1 /\ committed' = committed
         \/ commit' = IdleCommit /\ unseen' = unseen /\ committed' = committed + 1
  BY DEF Await, ReturnOk, Unseen
<1>2. /\ commit' = [at |-> commit'.at, tx |-> commit'.tx, tries |-> commit'.tries]
      /\ commit'.tx \in {commit.tx, NoTx}
      /\ committed' \in Nat /\ unseen' \in Nat
  BY <1>1 DEF IdleCommit, Shaped
<1>3. Shaped' /\ RightWallets'
  BY <1>1, <1>2 DEF Shaped, RightWallets, nodeVars, cacheVars
<1>4. AllSound'
  BY <1>1, <1>2 DEF AllSound, Sound, NoTx, nodeVars
<1>5. Accounted'
  <2>1. Cardinality(Paid) <= committed + 1 + unseen /\ committed \in Nat /\ unseen \in Nat
    BY <1>1 DEF Accounted, InHand, Shaped
  <2>2. Paid' = Paid
    BY <1>1 DEF Paid, nodeVars
  <2>3. \/ InHand' = 1 /\ committed' = committed /\ unseen' = unseen
        \/ InHand' = 0 /\ committed' = committed /\ unseen' = unseen + 1
        \/ InHand' = 0 /\ committed' = committed + 1 /\ unseen' = unseen
    BY <1>1 DEF InHand, IdleCommit, Shaped
  <2> QED
    BY <2>1, <2>2, <2>3, PaidFinite DEF Accounted
<1> QED
  BY <1>3, <1>4, <1>5

-----------------------------------------------------------------------------
(* try_recycle *)

(* The recycle service asks after the RETURN wallet before it builds, and  *)
(* after the STAMP wallet when it is done.                                 *)
LEMMA RecycleRefreshIInv ==
  ASSUME IInv, RecycleQuery \/ RecycleStore \/ RecycleRefresh
  PROVE  IInv'
<1> USE DEF IInv
<1>1. UNCHANGED <<nodeVars, commit, counters>>
  BY DEF RecycleQuery, RecycleStore, RecycleRefresh
<1>2. \/ /\ Query("recycle", "return") /\ recycle' = [recycle EXCEPT !.at = "store"]
         /\ UNCHANGED <<stampCache, returnCache>>
      \/ /\ WriteReturn("recycle") /\ recycle.at = "store" /\ recycle' = [recycle EXCEPT !.at = "balance"]
         /\ UNCHANGED stampCache
      \/ /\ Query("recycle", "stamp") /\ recycle' = [recycle EXCEPT !.at = "write"]
         /\ UNCHANGED <<stampCache, returnCache>>
      \/ /\ WriteStamp("recycle") /\ recycle.at = "write" /\ recycle' = IdleRecycle
         /\ UNCHANGED returnCache
  BY DEF RecycleQuery, RecycleStore, RecycleRefresh
<1>3. /\ recycle' = [at |-> recycle'.at, tx |-> recycle'.tx]
      /\ recycle'.tx \in {recycle.tx, NoTx}
  BY <1>2 DEF IdleRecycle, Shaped
<1>4. Shaped'
  BY <1>1, <1>2, <1>3, QueryOwned, WriteOwned DEF Shaped, Tasks, nodeVars, counters
<1>5. RightWallets'
  <2>1. CASE Query("recycle", "return") /\ recycle' = [recycle EXCEPT !.at = "store"]
             /\ UNCHANGED <<stampCache, returnCache>>
    BY <2>1, QueryOwned DEF RightWallets, Tasks, Shaped
  <2>2. CASE WriteReturn("recycle") /\ recycle.at = "store" /\ recycle' = [recycle EXCEPT !.at = "balance"]
             /\ UNCHANGED stampCache
    BY <2>2, WriteOwned DEF RightWallets, Tasks, Shaped, WriteReturn
  <2>3. CASE Query("recycle", "stamp") /\ recycle' = [recycle EXCEPT !.at = "write"]
             /\ UNCHANGED <<stampCache, returnCache>>
    BY <2>3, QueryOwned DEF RightWallets, Tasks, Shaped
  <2>4. CASE WriteStamp("recycle") /\ recycle.at = "write" /\ recycle' = IdleRecycle
             /\ UNCHANGED returnCache
    BY <2>4, WriteOwned DEF RightWallets, Tasks, Shaped, WriteStamp, IdleRecycle
  <2> QED
    BY <1>2, <2>1, <2>2, <2>3, <2>4
<1>6. AllSound'
  BY <1>1, <1>3 DEF AllSound, Sound, NoTx, nodeVars
<1>7. Accounted'
  BY <1>1 DEF Accounted, Paid, InHand, nodeVars, counters
<1> QED
  BY <1>4, <1>5, <1>6, <1>7

(* A recycle transaction is built from the RETURN wallet's cache.          *)
LEMMA RecycleBuildIInv ==
  ASSUME IInv, RecycleBalance \/ RecycleBuild
  PROVE  IInv'
<1> USE DEF IInv
<1>1. /\ UNCHANGED <<nodeVars, cacheVars, commit, counters>>
      /\ \/ recycle' = [recycle EXCEPT !.at = "build"]
         \/ recycle' = IdleRecycle
         \/ \E rest : recycle' = [at |-> "submit",
                                  tx |-> [kind |-> "recycle", inputs |-> returnCache, change |-> rest]]
  BY DEF RecycleBalance, RecycleBuild, RecycledCoins
<1>2. /\ recycle' = [at |-> recycle'.at, tx |-> recycle'.tx]
      /\ recycle'.at \notin {"store", "write"}
      /\ Sound(recycle'.tx) /\ recycle'.tx.kind # "commit"
  BY <1>1 DEF IdleRecycle, NoTx, Sound, RightWallets, AllSound, Shaped
<1>3. Shaped' /\ RightWallets'
  BY <1>1, <1>2 DEF Shaped, RightWallets, nodeVars, cacheVars, counters
<1>4. AllSound' /\ Accounted'
  BY <1>1, <1>2 DEF AllSound, Accounted, Paid, InHand, nodeVars, counters
<1> QED
  BY <1>3, <1>4

(* A recycle transaction in the mempool is no commitment.                  *)
LEMMA RecycleSubmitIInv ==
  ASSUME IInv, RecycleSubmit
  PROVE  IInv'
<1> USE DEF IInv
<1>1. /\ UNCHANGED <<mined, cacheVars, commit, committed, unseen>>
      /\ mempool' \in {mempool, mempool \cup {recycle.tx}}
      /\ recycle' = [recycle EXCEPT !.at = "refresh"] \/ recycle' = IdleRecycle
  BY DEF RecycleSubmit
<1>2. /\ recycle' = [at |-> recycle'.at, tx |-> recycle'.tx]
      /\ recycle'.at \notin {"store", "write"}
      /\ recycle'.tx \in {recycle.tx, NoTx}
      /\ IsFiniteSet(mempool')
  BY <1>1, FS_AddElement DEF IdleRecycle, Shaped
<1>3. Shaped' /\ RightWallets'
  BY <1>1, <1>2 DEF Shaped, RightWallets, cacheVars
<1>4. AllSound'
  BY <1>1, <1>2 DEF AllSound, Sound, NoTx
<1>5. Paid' = Paid
  BY <1>1 DEF Paid, AllSound
<1>6. Accounted'
  BY <1>1, <1>5 DEF Accounted, InHand
<1> QED
  BY <1>3, <1>4, <1>6

-----------------------------------------------------------------------------
(* The invariant holds *)

(* Every behaviour starts with empty caches and nothing sent.              *)
LEMMA InitIInv == Init => IInv
<1> SUFFICES ASSUME Init PROVE IInv
  OBVIOUS
<1>1. Cardinality({}) = 0 /\ IsFiniteSet({})
  BY FS_EmptySet
<1>2. Shaped /\ RightWallets /\ AllSound
  BY <1>1 DEF Init, Shaped, RightWallets, AllSound, AllOf, Sound, IdleCommit, IdleRecycle, NoTx, Tasks
<1>3. Paid = {}
  BY DEF Init, Paid
<1>4. Accounted
  BY <1>1, <1>3 DEF Init, Accounted, InHand, IdleCommit
<1> QED
  BY <1>2, <1>4 DEF IInv

(* Every step keeps the invariant.                                         *)
LEMMA NextIInv == IInv /\ [Next]_vars => IInv'
<1> SUFFICES ASSUME IInv, [Next]_vars PROVE IInv'
  OBVIOUS
<1>1. ASSUME NEW tx \in mempool, Mine(tx) PROVE IInv'
  BY <1>1, MineIInv
<1>2. CASE PollerQuery \/ PollerWrite
  BY <1>2, PollerIInv
<1>3. CASE Commit
  BY <1>3, CommitRefreshIInv, BuildIInv, SubmitIInv, AwaitIInv DEF Commit
<1>4. CASE Recycle
  BY <1>4, RecycleRefreshIInv, RecycleBuildIInv, RecycleSubmitIInv DEF Recycle
<1>5. CASE UNCHANGED vars
  BY <1>5 DEF vars, nodeVars, cacheVars, counters, IInv, Shaped, RightWallets, AllSound, Accounted,
     Paid, InHand
<1> QED
  BY <1>1, <1>2, <1>3, <1>4, <1>5 DEF Next

(* The inductive invariant holds in every state of every behaviour.        *)
THEOREM Inductive == Spec => []IInv
  BY InitIInv, NextIInv, PTL DEF Spec

(* Commitments and recycles never spend the same coin, however stale the   *)
(* caches they were built from.                                            *)
THEOREM NeverInEachOthersWayHolds == Spec => []NeverInEachOthersWay
<1>1. IInv => NeverInEachOthersWay
  <2> SUFFICES ASSUME IInv,
                      NEW t \in mempool \cup mined \cup {commit.tx, recycle.tx},
                      NEW u \in mempool \cup mined \cup {commit.tx, recycle.tx},
                      t.kind # u.kind
               PROVE  t.inputs \cap u.inputs = {}
    BY DEF NeverInEachOthersWay, Spends
  <2>1. Sound(t) /\ Sound(u)
    BY DEF IInv, AllSound
  <2> QED
    BY <2>1 DEF Sound, AllOf
<1> QED
  BY <1>1, Inductive, PTL

(* What is paid is reported, in hand, or was not seen: no retry pays for a *)
(* commitment that nobody answers for.                                     *)
THEOREM PaidOnceHolds == Spec => []PaidOnce
<1>1. IInv => PaidOnce
  BY DEF IInv, Accounted, Paid, InHand, PaidOnce
<1> QED
  BY <1>1, Inductive, PTL

=============================================================================
