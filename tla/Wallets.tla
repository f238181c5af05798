------------------------------ MODULE Wallets -------------------------------
(***************************************************************************)
(* How the calendar pays: submit_commitment as the batch loop calls it,    *)
(* the recycle service, the UTXO refresh tasks, the two UTXO caches they   *)
(* share, and the node's mempool and UTXO set.  Every RPC is a step, and   *)
(* the answer to a UTXO query is written to the cache in a later one.  The *)
(* fee of each kind of transaction is a constant; module Calendar has what *)
(* the batch loop does with the result.                                    *)
(***************************************************************************)
EXTENDS Integers, FiniteSets, FiniteSetsExt

CONSTANTS
  WalletModes,   \* which of the two modes the service is started in
  Funding,       \* what the STAMP wallet starts with
  CommitFee,     \* fee and commitment output of a commitment transaction
  RecycleFee,    \* fee of a recycle transaction
  Dust,          \* DUST_THRESHOLD
  Threshold,     \* RECYCLE_THRESHOLD_SOMPI
  MaxRetries,    \* retries of a submission (3)
  MaxFaults      \* bound on failed queries, lost answers and timeouts

ASSUME WalletAssumption ==
  /\ WalletModes \subseteq BOOLEAN
  /\ {CommitFee, RecycleFee, Dust} \subseteq Nat \ {0}
  /\ {Funding, Threshold, MaxRetries, MaxFaults} \subseteq Nat

VARIABLES
  dualWallet,   \* a RETURN wallet is configured
  utxos,        \* the node's UTXO set, restricted to the two wallets
  mempool,      \* accepted transactions not yet in a block
  mined,        \* transactions in a block
  stampCache,   \* KaspaService.utxos
  returnCache,  \* KaspaService.return_utxos
  answers,      \* answers[t]: the UTXO answer task t has in hand
  commit,       \* submit_commitment: step, transaction, attempts
  recycle,      \* try_recycle: step, transaction
  committed,    \* calls that returned Ok (history)
  unseen,       \* commitments whose answer or confirmation was missed (history)
  faults        \* faults so far

counters == <<committed, unseen, faults>>
nodeVars == <<dualWallet, utxos, mempool, mined>>   \* and the mode, which no step changes
cacheVars == <<stampCache, returnCache, answers>>
vars == <<nodeVars, cacheVars, commit, recycle, counters>>

Coin(id, owner, amount) == [id |-> id, owner |-> owner, amount |-> amount]
Total(coins) == MapThenSumSet(LAMBDA c : c.amount, coins)
OwnedBy(owner) == {c \in utxos : c.owner = owner}
NoAnswer == {Coin(-1, "none", 0)}

NoTx == [kind |-> "none", inputs |-> {}, change |-> 0]
IdleCommit == [at |-> "idle", tx |-> NoTx, tries |-> 0]
IdleRecycle == [at |-> "idle", tx |-> NoTx]

Tasks == {"commit", "recycle", "poller", "returnPoller"}

Init ==
  /\ dualWallet \in WalletModes
  /\ utxos = {Coin(0, "stamp", Funding)}
  /\ mempool = {} /\ mined = {}
  /\ stampCache = {} /\ returnCache = {}
  /\ answers = [t \in Tasks |-> NoAnswer]
  /\ commit = IdleCommit /\ recycle = IdleRecycle
  /\ committed = 0 /\ unseen = 0 /\ faults = 0

-----------------------------------------------------------------------------
(* The node *)

Spends(t, u) == t.inputs \cap u.inputs # {}

(* A transaction is accepted if its inputs are unspent, on chain and in    *)
(* the mempool; submitting it twice is a conflict with itself.             *)
Acceptable(tx) == tx.inputs \subseteq utxos /\ \A t \in mempool : ~Spends(tx, t)

(* get_change_address: change goes to the RETURN wallet if there is one.   *)
ChangeOwner == IF dualWallet THEN "return" ELSE "stamp"

OutputOwner(tx) == IF tx.kind = "commit" THEN ChangeOwner ELSE "stamp"

Mine(tx) ==
  /\ tx \in mempool
  /\ mempool' = mempool \ {tx}
  /\ mined' = mined \cup {tx}
  /\ utxos' = (utxos \ tx.inputs) \cup
       (IF tx.change = 0 THEN {}
        ELSE {Coin(Cardinality(mined) + 1, OutputOwner(tx), tx.change)})
  /\ UNCHANGED <<dualWallet, cacheVars, commit, recycle, counters>>

Fault == faults < MaxFaults /\ faults' = faults + 1
Unseen == Fault /\ unseen' = unseen + 1

-----------------------------------------------------------------------------
(* refresh_utxos: the query, then the write of its answer.                 *)

Query(t, owner) ==
  /\ answers[t] = NoAnswer
  /\ answers' = [answers EXCEPT ![t] = OwnedBy(owner)]

WriteStamp(t) ==
  /\ answers[t] # NoAnswer
  /\ stampCache' = answers[t]
  /\ answers' = [answers EXCEPT ![t] = NoAnswer]

WriteReturn(t) ==
  /\ answers[t] # NoAnswer
  /\ returnCache' = answers[t]
  /\ answers' = [answers EXCEPT ![t] = NoAnswer]

(* The tasks that refresh the wallets every ten seconds. *)
PollerQuery ==
  /\ Query("poller", "stamp") \/ (dualWallet /\ Query("returnPoller", "return"))
  /\ UNCHANGED <<nodeVars, stampCache, returnCache, commit, recycle, counters>>

PollerWrite ==
  /\ \/ WriteStamp("poller") /\ UNCHANGED returnCache
     \/ WriteReturn("returnPoller") /\ UNCHANGED stampCache
  /\ UNCHANGED <<nodeVars, commit, recycle, counters>>

-----------------------------------------------------------------------------
(* refresh_utxos and submit_commitment, as the batch loop calls them *)

(* Where a failed refresh leaves the call: it is only logged, before the   *)
(* batch and after the confirmation.  The slip makes it the call's error.  *)
AfterFailedRefreshErr ==
  IF commit.at = "idle" THEN [commit EXCEPT !.at = "build"] ELSE IdleCommit
AfterFailedRefresh == [commit EXCEPT !.at = IF @ = "idle" THEN "build" ELSE "ok"]

CommitQuery ==
  /\ commit.at \in {"idle", "confirmed"}
  /\ \/ /\ Query("commit", "stamp")
        /\ commit' = [commit EXCEPT !.at = IF @ = "idle" THEN "write" ELSE "last"]
        /\ UNCHANGED faults
     \/ /\ Fault
        /\ commit' = AfterFailedRefresh
        /\ UNCHANGED answers
  /\ UNCHANGED <<nodeVars, stampCache, returnCache, recycle, committed, unseen>>

CommitWrite ==
  /\ commit.at \in {"write", "last"}
  /\ WriteStamp("commit")
  /\ commit' = [commit EXCEPT !.at = IF @ = "write" THEN "build" ELSE "ok"]
  /\ UNCHANGED <<nodeVars, returnCache, recycle, counters>>

(* The change of a commitment that spends these coins; dust is left to the *)
(* fee.                                                                    *)
Change(coins) ==
  LET rest == Total(coins) - CommitFee IN IF rest < Dust THEN 0 ELSE rest

(* The coins a commitment spends: all of the STAMP wallet's cache. *)
CommitCoins == stampCache

(* No coins, or too little, is an error; so is a failure of the build, and *)
(* either ends the call.                                                   *)
Build ==
  /\ commit.at = "build"
  /\ commit' = IF CommitCoins = {} \/ Total(CommitCoins) < CommitFee THEN IdleCommit
               ELSE [at |-> "submit", tries |-> 0,
                     tx |-> [kind |-> "commit", inputs |-> CommitCoins,
                             change |-> Change(CommitCoins)]]
  /\ UNCHANGED <<nodeVars, cacheVars, recycle, counters>>

(* retry_with_backoff: another attempt, or an error after the last.  The   *)
(* slip never gives up.                                                    *)
RetryForever == commit
Retry == IF commit.tries < MaxRetries THEN [commit EXCEPT !.tries = @ + 1]
                                      ELSE IdleCommit

(* One attempt: accepted and answered, accepted with the answer lost,      *)
(* rejected, or failed on the way before the node has it.                  *)
Submit ==
  /\ commit.at = "submit"
  /\ \/ /\ Acceptable(commit.tx)
        /\ mempool' = mempool \cup {commit.tx}
        /\ \/ commit' = [commit EXCEPT !.at = "wait"] /\ UNCHANGED <<faults, unseen>>
           \/ commit' = Retry /\ Unseen
     \/ /\ ~Acceptable(commit.tx)
        /\ commit' = Retry
        /\ UNCHANGED <<mempool, faults, unseen>>
     \/ /\ Fault
        /\ commit' = Retry
        /\ UNCHANGED <<mempool, unseen>>
  /\ UNCHANGED <<dualWallet, utxos, mined, cacheVars, recycle, committed>>

(* wait_for_confirmation: the block is found, or the time is over, whether *)
(* or not the transaction is in a block by then.                           *)
Await ==
  /\ commit.at = "wait"
  /\ \/ /\ commit.tx \in mined
        /\ commit' = [commit EXCEPT !.at = "confirmed"]
        /\ UNCHANGED <<faults, unseen>>
     \/ commit' = IdleCommit /\ Unseen
  /\ UNCHANGED <<nodeVars, cacheVars, recycle, committed>>

ReturnOk ==
  /\ commit.at = "ok"
  /\ commit' = IdleCommit
  /\ committed' = committed + 1
  /\ UNCHANGED <<nodeVars, cacheVars, recycle, unseen, faults>>

-----------------------------------------------------------------------------
(* try_recycle *)

RecycleQuery ==
  /\ dualWallet /\ recycle.at = "idle"
  /\ Query("recycle", "return")
  /\ recycle' = [recycle EXCEPT !.at = "store"]
  /\ UNCHANGED <<nodeVars, stampCache, returnCache, commit, counters>>

RecycleStore ==
  /\ recycle.at = "store"
  /\ WriteReturn("recycle")
  /\ recycle' = [recycle EXCEPT !.at = "balance"]
  /\ UNCHANGED <<nodeVars, stampCache, commit, counters>>

RecycleBalance ==
  /\ recycle.at = "balance"
  /\ recycle' = IF Total(returnCache) >= Threshold
                  THEN [recycle EXCEPT !.at = "build"] ELSE IdleRecycle
  /\ UNCHANGED <<nodeVars, cacheVars, commit, counters>>

(* The coins a recycle spends; the slip takes the other wallet's cache. *)
RecycledCoinsStamp == stampCache
RecycledCoins == returnCache

(* The cache is read a second time for the build, which fails when the     *)
(* output would be dust.                                                   *)
RecycleBuild ==
  /\ recycle.at = "build"
  /\ LET rest == Total(RecycledCoins) - RecycleFee IN
     recycle' = IF rest >= Dust
                  THEN [at |-> "submit",
                        tx |-> [kind |-> "recycle", inputs |-> RecycledCoins, change |-> rest]]
                  ELSE IdleRecycle
  /\ UNCHANGED <<nodeVars, cacheVars, commit, counters>>

(* One attempt, without retries; then a refresh of the STAMP wallet.       *)
RecycleSubmit ==
  /\ recycle.at = "submit"
  /\ \/ /\ Acceptable(recycle.tx)
        /\ mempool' = mempool \cup {recycle.tx}
        /\ \/ recycle' = [recycle EXCEPT !.at = "refresh"] /\ UNCHANGED faults
           \/ recycle' = IdleRecycle /\ Fault
     \/ /\ ~Acceptable(recycle.tx)
        /\ recycle' = IdleRecycle
        /\ UNCHANGED <<mempool, faults>>
     \/ /\ Fault
        /\ recycle' = IdleRecycle
        /\ UNCHANGED mempool
  /\ UNCHANGED <<dualWallet, utxos, mined, cacheVars, commit, committed, unseen>>

RecycleRefresh ==
  /\ \/ /\ recycle.at = "refresh"
        /\ Query("recycle", "stamp")
        /\ recycle' = [recycle EXCEPT !.at = "write"]
        /\ UNCHANGED stampCache
     \/ /\ recycle.at = "write"
        /\ WriteStamp("recycle")
        /\ recycle' = IdleRecycle
  /\ UNCHANGED <<nodeVars, returnCache, commit, counters>>

-----------------------------------------------------------------------------

Commit == CommitQuery \/ CommitWrite \/ Build \/ Submit \/ Await \/ ReturnOk
Recycle == RecycleQuery \/ RecycleStore \/ RecycleBalance \/ RecycleBuild \/ RecycleSubmit \/ RecycleRefresh

Next ==
  \/ \E tx \in mempool : Mine(tx)
  \/ PollerQuery \/ PollerWrite
  \/ Commit
  \/ Recycle

Spec == Init /\ [][Next]_vars

(* The tasks run, the node mines what it accepts, and there is always a    *)
(* batch to commit.                                                        *)
Fairness ==
  /\ WF_vars(\E tx \in mempool : Mine(tx))
  /\ WF_vars(PollerQuery) /\ WF_vars(PollerWrite)
  /\ WF_vars(Commit) /\ WF_vars(Recycle)

FairSpec == Spec /\ Fairness

-----------------------------------------------------------------------------

(* Commitments and recycles never compete for a coin, so neither makes the *)
(* node reject the other, however stale the caches they are built from.    *)
NeverInEachOthersWay ==
  \A t \in mempool \cup mined \cup {commit.tx, recycle.tx},
     u \in mempool \cup mined \cup {commit.tx, recycle.tx} :
    t.kind # u.kind => ~Spends(t, u)

(* The service pays for a commitment it does not report only where an      *)
(* answer or a confirmation was not seen: retries never pay twice.         *)
PaidOnce ==
  LET paid == Cardinality({t \in mempool \cup mined : t.kind = "commit"})
      inHand == IF commit.at \in {"wait", "confirmed", "last", "ok"} THEN 1 ELSE 0
  IN  paid <= committed + inHand + unseen

(* The STAMP wallet cannot pay for a commitment, and nothing comes back of *)
(* the RETURN wallet, if there is one: it holds less than the threshold,   *)
(* or too little for a recycle to send.                                    *)
Stuck ==
  LET returned == Total(OwnedBy("return"))
  IN  /\ Total(OwnedBy("stamp")) < CommitFee
      /\ returned < Threshold \/ returned < RecycleFee + Dust

(* Commitments go on, through failures, stale caches and retries, until    *)
(* the STAMP wallet cannot pay for one and the RETURN wallet is below the  *)
(* threshold, even if what it holds would do for another commitment: with  *)
(* a batch always waiting, nothing else ends them, and this ends them for  *)
(* good.                                                                   *)
CommitmentsContinue == <>[]Stuck

=============================================================================
