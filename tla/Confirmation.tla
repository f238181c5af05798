---------------------------- MODULE Confirmation -----------------------------
(***************************************************************************)
(* How a program finds the block its transaction is in: the polling of     *)
(* wait_for_confirmation (ktcs-core) and of waitForTransactionAcceptance   *)
(* (browser) over a block DAG that grows meanwhile, and the verification   *)
(* of the attestation that is made of what they found.                     *)
(*                                                                         *)
(* Every call to the node is a step of its own and may fail.  The order in *)
(* which tips and parents are gone through is the node's, hence any.       *)
(* Blocks are numbered as they are mined; 1 is there from the start.       *)
(***************************************************************************)
EXTENDS Integers, FiniteSets

CONSTANT MaxBlocks   \* how far the DAG grows: bound

ASSUME ConfirmationAssumption == MaxBlocks \in Nat \ {0}

Blocks == 1..MaxBlocks
Clients == {"core", "browser"}
None == 0

VARIABLES
  count,     \* blocks mined
  parents,   \* of each block, on level 0
  past,      \* of each block, all its ancestors
  holders,   \* blocks that carry the transaction
  ahead,     \* those of them whose timestamp is over an hour in the future
  client,    \* which of the two programs polls
  pc,        \* head, dag, scan, second, sleep, done
  late,      \* the timeout has passed
  todo,      \* tips of the last reading still to look at
  tip,       \* the tip whose parents are looked at, or None
  ups,       \* those of its parents still to look at
  found,     \* browser: the block it fetches once more
  checked,   \* checked_blocks
  result,    \* the block returned, or None
  offered,   \* history: tips read, and their parents
  missed,    \* history: blocks passed over, see PassOver
  verdict    \* of the later verification

dag == <<count, parents, past, holders, ahead>>
scan == <<pc, todo, tip, ups, found, checked, result, offered, missed>>
vars == <<count, parents, past, holders, ahead, client, pc, late, todo, tip, ups, found, checked,
          result, offered, missed, verdict>>

NotVerified == [error |-> FALSE, block |-> TRUE, tx |-> TRUE, commitment |-> TRUE, since |-> 0]

Init ==
  /\ count = 1
  /\ parents = [b \in Blocks |-> {}] /\ past = [b \in Blocks |-> {}]
  /\ holders = {} /\ ahead = {}
  /\ client \in Clients
  /\ pc = "head" /\ late = FALSE
  /\ todo = {} /\ tip = None /\ ups = {} /\ found = None /\ checked = {} /\ result = None
  /\ offered = {} /\ missed = {}
  /\ verdict = NotVerified

-----------------------------------------------------------------------------
(* The DAG *)

Mined == 1..count
Tips == {b \in Mined : \A c \in Mined : b \notin parents[c]}

(* A block has parents none of which is an ancestor of another, and brings *)
(* the transaction only when none of its ancestors did.  Blocks mined      *)
(* apart may bring it both.  Only of such a block is the timestamp looked  *)
(* at.                                                                     *)
Mine(ps, brings, future) ==
  /\ count < MaxBlocks
  /\ ps # {} /\ \A p, q \in ps : p \notin past[q]
  /\ future => brings
  /\ LET b == count + 1
         ancestors == ps \cup UNION {past[p] : p \in ps}
     IN  /\ count' = b
         /\ parents' = [parents EXCEPT ![b] = ps]
         /\ past' = [past EXCEPT ![b] = ancestors]
         /\ holders' = (IF brings THEN holders \cup {b} ELSE holders)
         /\ ahead' = (IF future THEN ahead \cup {b} ELSE ahead)
         /\ brings => ancestors \cap holders = {}
  /\ UNCHANGED <<client, late, scan, verdict>>

Daa(b) == 1 + Cardinality(past[b])
VirtualDaa == count

Tick ==
  /\ ~late /\ late' = TRUE
  /\ UNCHANGED <<dag, client, scan, verdict>>

-----------------------------------------------------------------------------
(* The polling loop *)

(* The timeout is looked at here only. *)
Head ==
  /\ pc = "head"
  /\ pc' = (IF late THEN "done" ELSE "dag")
  /\ UNCHANGED <<dag, client, late, todo, tip, ups, found, checked, result, offered, missed, verdict>>

(* get_block_dag_info: the virtual parents, some of the tips *)
VirtualParents == SUBSET Tips \ {{}}

ReadTips(tips) ==
  /\ pc = "dag"
  /\ todo' = tips
  /\ offered' = offered \cup tips \cup UNION {parents[t] : t \in tips}
  /\ pc' = "scan"
  /\ UNCHANGED <<dag, client, late, tip, ups, found, checked, result, missed, verdict>>

ReadTipsFails ==
  /\ pc = "dag"
  /\ pc' = "sleep"
  /\ UNCHANGED <<dag, client, late, todo, tip, ups, found, checked, result, offered, missed, verdict>>

(* get_block_by_hash: the transaction is among the ids the block lists. *)
Carries(b) == b \in holders

(* A block that holds the transaction is the result; the browser fetches   *)
(* it once more for its header.  The slip returns the tip in hand.         *)
ResultTip(b) == IF tip = None THEN b ELSE tip
ResultBlock(b) == b

Hit(b) ==
  IF client = "core"
    THEN pc' = "done" /\ result' = ResultBlock(b) /\ UNCHANGED found
    ELSE pc' = "second" /\ found' = ResultBlock(b) /\ UNCHANGED result

(* A block is marked once it is fetched.  The slip marks the parents along *)
(* with a tip.                                                             *)
MarkFamily(b) == checked \cup {b} \cup parents[b]
Mark(b) == checked \cup {b}

(* Tips seen before are left out, and when no parent is left to look at it *)
(* is the next tip's turn.  The parents are looked at when the tip does    *)
(* not hold the transaction.  A tip with a timestamp far ahead is passed   *)
(* over by the core client, and its parents with it.                       *)
FetchTip(t) ==
  /\ pc = "scan" /\ ups \ checked = {}
  /\ t \in todo \ checked
  /\ todo' = todo \ {t}
  /\ checked' = Mark(t)
  /\ IF ~Carries(t)
       THEN ups' = parents[t] /\ tip' = t /\ UNCHANGED <<pc, found, result, missed>>
     ELSE /\ ups' = {} /\ tip' = None
          /\ IF client = "core" /\ t \in ahead
               THEN missed' = missed \cup {t} \cup parents[t] /\ UNCHANGED <<pc, found, result>>
               ELSE Hit(t) /\ UNCHANGED missed
  /\ UNCHANGED <<dag, client, late, offered, verdict>>

(* A tip that could not be fetched is tried again if it is still a tip     *)
(* then.                                                                   *)
FetchTipFails(t) ==
  /\ pc = "scan" /\ ups \ checked = {}
  /\ t \in todo \ checked
  /\ todo' = todo \ {t}
  /\ missed' = missed \cup {t} \cup parents[t]
  /\ UNCHANGED <<dag, client, late, pc, tip, ups, found, checked, result, offered, verdict>>

(* The timestamp of a parent is not looked at. *)
FetchParent(p) ==
  /\ pc = "scan" /\ p \in ups \ checked
  /\ ups' = ups \ {p}
  /\ checked' = Mark(p)
  /\ IF Carries(p) THEN Hit(p) ELSE UNCHANGED <<pc, found, result>>
  /\ UNCHANGED <<dag, client, late, todo, tip, offered, missed, verdict>>

(* The tip is checked by now, so that this parent is not tried again. *)
FetchParentFails(p) ==
  /\ pc = "scan" /\ p \in ups \ checked
  /\ ups' = ups \ {p}
  /\ missed' = missed \cup {p}
  /\ UNCHANGED <<dag, client, late, pc, todo, tip, found, checked, result, offered, verdict>>

(* Browser: the second fetch of the block that holds the transaction.  It  *)
(* has been marked checked already: when the fetch fails it is never       *)
(* looked at again, and if it was a tip nor are its parents.               *)
FetchAgain ==
  /\ pc = "second"
  /\ result' = found /\ pc' = "done"
  /\ UNCHANGED <<dag, client, late, todo, tip, ups, found, checked, offered, missed, verdict>>

FetchAgainFails ==
  /\ pc = "second"
  /\ missed' = missed \cup {found} \cup (IF tip = None THEN parents[found] ELSE {})
  /\ found' = None /\ pc' = "scan"
  /\ UNCHANGED <<dag, client, late, todo, tip, ups, checked, result, offered, verdict>>

(* Every tip and every parent has had its turn. *)
Sleep ==
  /\ pc = "scan" /\ ups \ checked = {} /\ todo \ checked = {}
  /\ pc' = "sleep" /\ todo' = {} /\ ups' = {} /\ tip' = None
  /\ UNCHANGED <<dag, client, late, found, checked, result, offered, missed, verdict>>

(* The 100 ms between polls are over.  The slip asks the node again        *)
(* without a look at the clock.                                            *)
AfterSleepDag == "dag"
AfterSleep == "head"

Wake ==
  /\ pc = "sleep" /\ pc' = AfterSleep
  /\ UNCHANGED <<dag, client, late, todo, tip, ups, found, checked, result, offered, missed, verdict>>

-----------------------------------------------------------------------------
(* Verification of the attestation made of the result *)

(* get_block_with_transactions: the score, whether the transaction is      *)
(* there, and whether one of its outputs has the commitment, which is so   *)
(* wherever the transaction is.                                            *)
BlockWithTransactions(b) == [daa |-> Daa(b), tx |-> b \in holders, commitment |-> b \in holders]

(* verify_attestation_on_chain: the block by its hash, its score, the      *)
(* transaction among its ids and the commitment in an output of the        *)
(* transaction.  Any call that fails is an error.                          *)
VerdictOf(b, daa) ==
  LET block == BlockWithTransactions(b)
  IN  [error |-> FALSE, block |-> block.daa = daa, tx |-> block.tx,
       commitment |-> block.tx /\ block.commitment,
       since |-> IF VirtualDaa >= daa THEN VirtualDaa - daa ELSE 0]

(* verifyOnBlockchain: another score is only a warning in the log, and     *)
(* without the DAG's state there is no age.                                *)
BrowserVerdictOf(b, knows_age) ==
  LET block == BlockWithTransactions(b)
  IN  [error |-> FALSE, block |-> TRUE, tx |-> block.tx,
       commitment |-> block.tx /\ block.commitment,
       since |-> IF knows_age THEN VirtualDaa - block.daa ELSE 0]

Verify(knows_age) ==
  /\ pc = "done" /\ result # None /\ verdict = NotVerified
  /\ verdict' = (IF client = "core" THEN VerdictOf(result, Daa(result))
                 ELSE BrowserVerdictOf(result, knows_age))
  /\ UNCHANGED <<dag, client, late, scan>>

(* The browser may know by then that there is such a block. *)
VerifyFails(block_exists) ==
  /\ pc = "done" /\ result # None /\ verdict = NotVerified
  /\ block_exists => client = "browser"
  /\ verdict' = [error |-> TRUE, block |-> block_exists, tx |-> FALSE, commitment |-> FALSE, since |-> 0]
  /\ UNCHANGED <<dag, client, late, scan>>

-----------------------------------------------------------------------------

Poll ==
  \/ Head \/ ReadTipsFails \/ Sleep \/ Wake \/ FetchAgain \/ FetchAgainFails
  \/ \E tips \in VirtualParents : ReadTips(tips)
  \/ \E b \in Blocks : FetchTip(b) \/ FetchTipFails(b) \/ FetchParent(b) \/ FetchParentFails(b)

Next ==
  \/ \E ps \in SUBSET Mined, brings, future \in BOOLEAN : Mine(ps, brings, future)
  \/ Tick
  \/ Poll
  \/ \E known \in BOOLEAN : Verify(known) \/ VerifyFails(known)

(* Time passes, and every call to the node returns, if with an error: of a *)
(* node that goes on reading its end of the socket this is CallsReturn of  *)
(* module RpcClient; here it is assumed.                                   *)
Spec == Init /\ [][Next]_vars /\ WF_vars(Tick) /\ WF_vars(Poll)

-----------------------------------------------------------------------------

(* When a poll is over, every block with the transaction that the node has *)
(* offered as a tip or as a parent of a tip has ended the search, unless a *)
(* call to the node failed or a timestamp was refused while it was looked  *)
(* at: marking blocks as checked never hides one.                          *)
OfferedIsFound == pc = "sleep" => offered \cap holders \subseteq missed

(* The attestation made of what was found stands: whenever the chain is    *)
(* asked about it again, the block has the score, the transaction and the  *)
(* commitment, unless the node cannot be asked.                            *)
AttestationStands ==
  verdict.error \/ (verdict.block /\ verdict.tx /\ verdict.commitment)

(* The wait ends, however often the node fails. *)
WaitReturns == <>(pc = "done")

=============================================================================
