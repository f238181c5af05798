--------------------------- MODULE CalendarProofs ---------------------------
(***************************************************************************)
(* Proofs about module Calendar, for any number of stamps, modes, lost     *)
(* answers and restarts, in any world.                                     *)
(***************************************************************************)
EXTENDS Calendar, FiniteSetTheorems, TLAPS

-----------------------------------------------------------------------------
(* Families of queues *)

(* What a family of queues holds, and that it holds everything once.       *)
Elems(q) == UNION {Range(q[m]) : m \in Modes}
Once(q) == \A m, n \in Modes : \A i \in DOMAIN q[m], j \in DOMAIN q[n] :
             q[m][i] = q[n][j] => m = n /\ i = j

(* The stamps a batch still holds *)
Hand(b) == {b.stamps[j] : j \in {k \in DOMAIN b.stamps : k >= b.i}}

(* Element by element *)
LEMMA ElemsDef ==
  ASSUME NEW q
  PROVE  \A x : x \in Elems(q) <=> \E m \in Modes : \E i \in DOMAIN q[m] : q[m][i] = x
  BY DEF Elems, Range

(* A stamp that is in no queue may be put into one.                        *)
LEMMA OnceAppend ==
  ASSUME NEW q \in [Modes -> Seq(Stamps)], NEW m \in Modes, NEW s \in Stamps
  PROVE  /\ [q EXCEPT ![m] = Append(@, s)] \in [Modes -> Seq(Stamps)]
         /\ Elems([q EXCEPT ![m] = Append(@, s)]) = Elems(q) \cup {s}
         /\ Once(q) /\ s \notin Elems(q) => Once([q EXCEPT ![m] = Append(@, s)])
<1> DEFINE r == [q EXCEPT ![m] = Append(@, s)]
<1>1. /\ r \in [Modes -> Seq(Stamps)]
      /\ \A n \in Modes \ {m} : r[n] = q[n]
      /\ r[m] = Append(q[m], s)
  OBVIOUS
<1>2. /\ Len(q[m]) \in Nat /\ DOMAIN q[m] = 1..Len(q[m])
      /\ DOMAIN r[m] = 1..(Len(q[m]) + 1)
      /\ r[m][Len(q[m]) + 1] = s
      /\ \A i \in 1..Len(q[m]) : r[m][i] = q[m][i]
  BY <1>1
<1> HIDE DEF r
<1>3. \A n \in Modes : \A i \in DOMAIN q[n] : i \in DOMAIN r[n] /\ r[n][i] = q[n][i]
  <2> TAKE n \in Modes
  <2>1. CASE n = m
    BY <2>1, <1>2
  <2>2. CASE n # m
    BY <2>2, <1>1
  <2> QED BY <2>1, <2>2
<1>4. \A n \in Modes : \A i \in DOMAIN r[n] :
         \/ n = m /\ i = Len(q[m]) + 1 /\ r[n][i] = s
         \/ i \in DOMAIN q[n] /\ r[n][i] = q[n][i]
  <2> TAKE n \in Modes
  <2>1. CASE n = m
    BY <2>1, <1>2
  <2>2. CASE n # m
    BY <2>2, <1>1
  <2> QED BY <2>1, <2>2
<1>5. /\ \A x : x \in Elems(q) <=> \E n \in Modes : \E i \in DOMAIN q[n] : q[n][i] = x
      /\ \A x : x \in Elems(r) <=> \E n \in Modes : \E i \in DOMAIN r[n] : r[n][i] = x
  BY ElemsDef
<1>6. s \in Elems(r)
  <2>1. Len(q[m]) + 1 \in DOMAIN r[m]
    BY <1>2
  <2> QED BY <2>1, <1>2, <1>5
<1>7. ASSUME NEW x PROVE x \in Elems(r) <=> x \in Elems(q) \/ x = s
  BY <1>3, <1>4, <1>5, <1>6
<1>8. ASSUME Once(q), s \notin Elems(q) PROVE Once(r)
  BY <1>4, <1>5, <1>8 DEF Once
<1> QED BY <1>1, <1>7, <1>8 DEF r

(* The queues of the modes that are due, and the others                    *)
Taken(q, due) == [m \in Modes |-> IF m \in due THEN q[m] ELSE <<>>]
Left(q, due) == [m \in Modes |-> IF m \in due THEN <<>> ELSE q[m]]

(* A family is divided into the queues taken and the queues left.          *)
LEMMA OnceDivided ==
  ASSUME NEW q \in [Modes -> Seq(Stamps)], NEW due \in SUBSET Modes
  PROVE  /\ Taken(q, due) \in [Modes -> Seq(Stamps)] /\ Left(q, due) \in [Modes -> Seq(Stamps)]
         /\ Elems(Taken(q, due)) \cup Elems(Left(q, due)) = Elems(q)
         /\ Once(q) => /\ Once(Taken(q, due)) /\ Once(Left(q, due))
                       /\ Elems(Taken(q, due)) \cap Elems(Left(q, due)) = {}
<1> DEFINE taken == Taken(q, due)
           left == Left(q, due)
<1>1. taken \in [Modes -> Seq(Stamps)] /\ left \in [Modes -> Seq(Stamps)]
  BY DEF Taken, Left
<1>2. \A m \in Modes :
        \/ m \in due /\ taken[m] = q[m] /\ DOMAIN left[m] = {}
        \/ m \notin due /\ left[m] = q[m] /\ DOMAIN taken[m] = {}
  BY DEF Taken, Left
<1> HIDE DEF taken, left
<1>3. /\ \A x : x \in Elems(q) <=> \E n \in Modes : \E i \in DOMAIN q[n] : q[n][i] = x
      /\ \A x : x \in Elems(taken) <=> \E n \in Modes : \E i \in DOMAIN taken[n] : taken[n][i] = x
      /\ \A x : x \in Elems(left) <=> \E n \in Modes : \E i \in DOMAIN left[n] : left[n][i] = x
  BY ONLY ElemsDef
<1>4. ASSUME NEW x PROVE x \in Elems(q) <=> x \in Elems(taken) \/ x \in Elems(left)
  BY <1>2, <1>3
<1>5. ASSUME Once(q) PROVE Once(taken) /\ Once(left)
  BY <1>2, <1>5 DEF Once
<1>6. ASSUME Once(q), NEW x, x \in Elems(taken), x \in Elems(left) PROVE FALSE
  BY <1>2, <1>3, <1>6 DEF Once
<1> QED BY <1>1, <1>4, <1>5, <1>6 DEF taken, left

(* One queue is taken out.                                                 *)
LEMMA OnceWithout ==
  ASSUME NEW q \in [Modes -> Seq(Stamps)], NEW m \in Modes
  PROVE  /\ [q EXCEPT ![m] = <<>>] \in [Modes -> Seq(Stamps)]
         /\ Elems([q EXCEPT ![m] = <<>>]) \cup Range(q[m]) = Elems(q)
         /\ Once(q) => /\ Once([q EXCEPT ![m] = <<>>])
                       /\ Elems([q EXCEPT ![m] = <<>>]) \cap Range(q[m]) = {}
<1> DEFINE r == [q EXCEPT ![m] = <<>>]
<1>1. /\ r \in [Modes -> Seq(Stamps)]
      /\ \A n \in Modes : \/ n = m /\ DOMAIN r[n] = {}
                          \/ n # m /\ r[n] = q[n]
  OBVIOUS
<1> HIDE DEF r
<1>2. /\ \A x : x \in Range(q[m]) <=> \E i \in DOMAIN q[m] : q[m][i] = x
      /\ \A x : x \in Elems(q) <=> \E n \in Modes : \E i \in DOMAIN q[n] : q[n][i] = x
      /\ \A x : x \in Elems(r) <=> \E n \in Modes : \E i \in DOMAIN r[n] : r[n][i] = x
  BY ElemsDef DEF Range
<1>6. \A n \in Modes : \A i \in DOMAIN r[n] : n # m /\ i \in DOMAIN q[n] /\ r[n][i] = q[n][i]
  BY <1>1
<1>3. ASSUME NEW x PROVE x \in Elems(q) <=> x \in Elems(r) \/ x \in Range(q[m])
  <2>1. ASSUME x \in Elems(q), x \notin Range(q[m]) PROVE x \in Elems(r)
    <3>1. PICK n \in Modes : \E i \in DOMAIN q[n] : q[n][i] = x
      BY <1>2, <2>1
    <3>2. n # m
      BY <1>2, <2>1, <3>1
    <3>3. r[n] = q[n]
      BY <1>1, <3>2
    <3>4. \E i \in DOMAIN r[n] : r[n][i] = x
      BY <3>1, <3>3
    <3> QED BY <1>2, <3>4
  <2>2. ASSUME x \in Elems(r) PROVE x \in Elems(q)
    <3>1. PICK n \in Modes : \E i \in DOMAIN r[n] : r[n][i] = x
      BY <1>2, <2>2
    <3>2. \E i \in DOMAIN q[n] : q[n][i] = x
      BY <1>6, <3>1
    <3> QED BY <1>2, <3>2
  <2>3. ASSUME x \in Range(q[m]) PROVE x \in Elems(q)
    BY <1>2, <2>3
  <2> QED BY <2>1, <2>2, <2>3
<1>4. ASSUME Once(q) PROVE Once(r)
  BY <1>6, <1>4 DEF Once
<1>5. ASSUME Once(q), NEW x, x \in Elems(r), x \in Range(q[m]) PROVE FALSE
  BY <1>6, <1>2, <1>5 DEF Once
<1> QED BY <1>1, <1>3, <1>4, <1>5 DEF r

(* A batch lets its stamps go one by one.                                  *)
LEMMA HandAdvance ==
  ASSUME NEW b \in [mode : Nat, stamps : Seq(Stamps), i : Nat, tx : Nat],
         IsInjective(b.stamps), b.i \in DOMAIN b.stamps
  PROVE  /\ b.stamps[b.i] \in Hand(b) /\ Hand(b) \subseteq Stamps
         /\ b.i # Len(b.stamps) =>
              /\ [b EXCEPT !.i = @ + 1].i \in DOMAIN b.stamps
              /\ Hand([b EXCEPT !.i = @ + 1]) = Hand(b) \ {b.stamps[b.i]}
         /\ b.i = Len(b.stamps) => Hand(b) = {b.stamps[b.i]}
<1>1. DOMAIN b.stamps = 1..Len(b.stamps) /\ Len(b.stamps) \in Nat /\ b.i \in 1..Len(b.stamps)
  OBVIOUS
<1>2. \A x : x \in Hand(b) <=> \E k \in 1..Len(b.stamps) : k >= b.i /\ b.stamps[k] = x
  BY <1>1 DEF Hand
<1>3. ASSUME b.i # Len(b.stamps)
      PROVE  /\ [b EXCEPT !.i = @ + 1].i \in DOMAIN b.stamps
             /\ Hand([b EXCEPT !.i = @ + 1]) = Hand(b) \ {b.stamps[b.i]}
  <2>1. [b EXCEPT !.i = @ + 1].i = b.i + 1 /\ [b EXCEPT !.i = @ + 1].stamps = b.stamps
    OBVIOUS
  <2>2. \A x : x \in Hand([b EXCEPT !.i = @ + 1]) <=>
                 \E k \in 1..Len(b.stamps) : k >= b.i + 1 /\ b.stamps[k] = x
    BY <1>1, <2>1 DEF Hand
  <2>3. \A x : x \in Hand([b EXCEPT !.i = @ + 1]) <=> x \in Hand(b) /\ x # b.stamps[b.i]
    BY <1>1, <1>2, <2>2 DEF IsInjective
  <2> QED BY <1>1, <1>3, <2>1, <2>3
<1>4. ASSUME b.i = Len(b.stamps) PROVE Hand(b) = {b.stamps[b.i]}
  BY <1>1, <1>2, <1>4
<1> QED BY <1>1, <1>2, <1>3, <1>4

-----------------------------------------------------------------------------
(* The invariant *)

Rows == [status : {"absent", "pending", "confirmed"},
         proof : [kind : {"none", "pending", "kaspa"}, tx : Nat, leaf : Nat]]
Answers == {"new", "saved", "accepted", "full", "busy", "error", "broken"}
Batches == [mode : Nat, stamps : Seq(Stamps), i : Nat, tx : Nat]
Committed == {"status", "proof", "notify"}
Retryable == {"submit", "requeue"}
Resting == {"idle", "backoff", "stopped"}

Typed ==
  /\ pending \in [Modes -> Seq(Stamps)] /\ ready \in [Modes -> Seq(Stamps)]
  /\ batchOpen \subseteq Modes
  /\ db \in [Stamps -> Rows] /\ request \in [Stamps -> Answers]
  /\ batch \in Batches
  /\ chain \in Seq(Seq(Stamps)) /\ lost \in Nat /\ restarts \in Nat
  /\ lastEvent \in [Stamps -> {"none", "batched", "confirmed"}]
  /\ world \in Worlds

(* What the loop has in hand at each of its steps; once the batch is       *)
(* committed its leaves are the stamps in hand.                            *)
LoopShape ==
  \/ pc \in Resting /\ batch = NoBatch
  \/ /\ pc \in Retryable \cup Committed
     /\ batch.mode \in Modes /\ batch.i \in DOMAIN batch.stamps
     /\ pc = "submit" => batch.i = 1
     /\ pc \in Committed => batch.tx \in DOMAIN chain /\ chain[batch.tx] = batch.stamps

(* OnePlace, in terms of whole families of queues                          *)
Places ==
  /\ Once(pending) /\ Once(ready) /\ IsInjective(batch.stamps)
  /\ Elems(pending) \cap Elems(ready) = {}
  /\ Hand(batch) \cap (Elems(pending) \cup Elems(ready)) = {}
  /\ \A s \in Elems(pending) \cup Elems(ready) \cup Hand(batch) : request[s] = "accepted"

Shape == Typed /\ LoopShape /\ Places

(* The stamp in hand whose row the loop has begun to update                *)
Begun == IF pc \in {"proof", "notify"} THEN {Current} ELSE {}
Waiting == (Elems(pending) \cup Elems(ready) \cup Hand(batch)) \ Begun
Fresh(s) == db[s] = [status |-> "pending", proof |-> PendingProof]

(* The row of a stamp is as submit_stamp saved it until the loop updates   *)
(* it, and only accepted stamps are ever committed.                        *)
RowsFollow == \A s \in Stamps :
  /\ request[s] = "new" => db[s] = NoRow /\ lastEvent[s] = "none"
  /\ request[s] \in {"saved", "full"} \/ s \in Waiting => Fresh(s)
  /\ s \in Anchored => request[s] = "accepted"

(* How far the update of the current row has come *)
CurrentRow ==
  /\ pc = "proof" =>
       /\ db[Current].status # "absent" /\ ~Attested(Current)
       /\ MayFail("db") \/ db[Current].status = "confirmed"
  /\ pc = "notify" =>
       MayFail("db") \/ (db[Current].status = "confirmed" /\ Attested(Current))

(* A stamp that will be committed again has been committed only by         *)
(* commitments whose success was not seen.                                 *)
Commitments(s) == {tx \in DOMAIN chain : s \in Range(chain[tx])}
Owed == Elems(pending) \cup Elems(ready) \cup (IF pc \in Retryable THEN Hand(batch) ELSE {})
Counted ==
  /\ \A s \in Stamps : Cardinality(Commitments(s)) <= 1 + lost
  /\ \A s \in Owed : Cardinality(Commitments(s)) <= lost

(* NoAcceptedStampLost *)
Kept ==
  restarts = 0 /\ pc # "stopped" =>
    \A s \in Stamps : request[s] = "accepted" =>
      \/ s \in Elems(pending) \cup Elems(ready) \cup Hand(batch) \cup leftOut
      \/ lastEvent[s] = "confirmed"

IInv == Shape /\ RowsFollow /\ CurrentRow /\ ProofsAnchored /\ EventBacked /\ Counted /\ Kept

-----------------------------------------------------------------------------
(* Facts that every step needs *)

(* A row as submit_stamp saves it, and no row *)
LEMMA RowTypes ==
  /\ [status |-> "pending", proof |-> PendingProof] \in Rows /\ NoRow \in Rows
  /\ \A tx, leaf \in Nat : KaspaProof(tx, leaf) \in [kind : {"none", "pending", "kaspa"}, tx : Nat, leaf : Nat]
  BY DEF Rows, PendingProof, NoRow, NoProof, KaspaProof

(* Nothing is in hand without a batch.                                     *)
LEMMA NothingInHand == Hand(NoBatch) = {} /\ NoBatch \in Batches /\ IsInjective(NoBatch.stamps)
  BY DEF Hand, NoBatch, Batches, IsInjective

(* Only stamps are queued or in hand.                                      *)
LEMMA HeldStamps ==
  ASSUME Shape
  PROVE  /\ Elems(pending) \cup Elems(ready) \cup Hand(batch) \subseteq Stamps
         /\ \A m \in Modes : Range(ready[m]) \subseteq Stamps
<1>1. /\ pending \in [Modes -> Seq(Stamps)] /\ ready \in [Modes -> Seq(Stamps)]
      /\ batch.stamps \in Seq(Stamps)
  BY DEF Shape, Typed, Batches
<1>2. Elems(pending) \subseteq Stamps /\ Elems(ready) \subseteq Stamps
  BY <1>1, ElemsDef
<1>3. Hand(batch) \subseteq Stamps
  BY <1>1 DEF Hand
<1>4. \A m \in Modes : Range(ready[m]) \subseteq Stamps
  BY <1>1 DEF Range
<1> QED BY <1>2, <1>3, <1>4

(* The stamp in hand, while there is one *)
LEMMA CurrentInHand ==
  ASSUME Shape, pc \notin Resting
  PROVE  /\ batch.i \in DOMAIN batch.stamps /\ batch.i \in 1..Len(batch.stamps)
         /\ batch.mode \in Modes
         /\ Current \in Hand(batch) /\ Current \in Stamps /\ Hand(batch) \subseteq Stamps
         /\ request[Current] = "accepted"
<1>1. batch \in Batches /\ IsInjective(batch.stamps) /\ batch.i \in DOMAIN batch.stamps /\ batch.mode \in Modes
  BY DEF Shape, Typed, Places, LoopShape, Resting
<1>2. Current \in Hand(batch) /\ Hand(batch) \subseteq Stamps
  BY <1>1, HandAdvance DEF Batches, Current
<1> QED BY <1>1, <1>2 DEF Shape, Places, Batches

(* A commitment is added to the chain.                                     *)
LEMMA ChainGrows ==
  ASSUME Typed, NEW c \in Seq(Stamps), chain' = Append(chain, c)
  PROVE  /\ chain' \in Seq(Seq(Stamps))
         /\ Len(chain) + 1 \in DOMAIN chain' /\ chain'[Len(chain) + 1] = c
         /\ Len(chain) + 1 \notin DOMAIN chain
         /\ \A tx \in DOMAIN chain : tx \in DOMAIN chain' /\ chain'[tx] = chain[tx]
         /\ \A tx \in DOMAIN chain' : tx \in DOMAIN chain \/ tx = Len(chain) + 1
         /\ Anchored' = Anchored \cup Range(c)
<1>1. chain \in Seq(Seq(Stamps))
  BY DEF Typed
<1>2. /\ chain' \in Seq(Seq(Stamps)) /\ Len(chain) \in Nat
      /\ DOMAIN chain = 1..Len(chain) /\ DOMAIN chain' = 1..(Len(chain) + 1)
      /\ chain'[Len(chain) + 1] = c
      /\ \A tx \in 1..Len(chain) : chain'[tx] = chain[tx]
  BY <1>1
<1>3. \A tx \in DOMAIN chain : tx \in DOMAIN chain' /\ chain'[tx] = chain[tx]
  BY <1>2
<1>4. \A tx \in DOMAIN chain' : tx \in DOMAIN chain \/ tx = Len(chain) + 1
  BY <1>2
<1>5. Len(chain) + 1 \in DOMAIN chain' /\ Len(chain) + 1 \notin DOMAIN chain
  BY <1>2
<1>6. \A x : x \in Anchored <=> \E tx \in DOMAIN chain : x \in Range(chain[tx])
  BY DEF Anchored
<1>7. \A x : x \in Anchored' <=> \E tx \in DOMAIN chain' : x \in Range(chain'[tx])
  BY DEF Anchored
<1>8. Anchored' = Anchored \cup Range(c)
  BY <1>2, <1>3, <1>4, <1>5, <1>6, <1>7
<1> QED BY <1>2, <1>3, <1>4, <1>5, <1>8

(* The commitments of a stamp can be counted.                              *)
LEMMA CommitmentsFinite ==
  ASSUME Typed, NEW s
  PROVE  IsFiniteSet(Commitments(s)) /\ Cardinality(Commitments(s)) \in Nat
<1>1. Commitments(s) \in SUBSET (1..Len(chain)) /\ Len(chain) \in Nat
  BY DEF Typed, Commitments
<1>2. IsFiniteSet(1..Len(chain))
  BY <1>1, FS_Interval
<1>3. IsFiniteSet(Commitments(s))
  BY <1>1, <1>2, FS_Subset
<1> QED BY <1>3, FS_CardinalityType

-----------------------------------------------------------------------------
(* submit_stamp *)

(* The row that is saved is the one the stamp keeps until it is committed. *)
LEMMA SaveStampIInv ==
  ASSUME IInv, NEW s \in Stamps, SaveStamp(s)
  PROVE  IInv'
<1> USE DEF IInv
<1>1. /\ UNCHANGED <<queueVars, loopVars, chain, lost, lastEvent, serverVars>>
      /\ request[s] = "new" /\ request' \in [Stamps -> Answers] /\ db' \in [Stamps -> Rows]
      /\ \A r \in Stamps \ {s} : request'[r] = request[r] /\ db'[r] = db[r]
      /\ \/ request'[s] = "saved" /\ Fresh(s)'
         \/ request'[s] = "error" /\ db'[s] = db[s]
  BY RowTypes DEF SaveStamp, Shape, Typed, Answers, Fresh
<1>2. Shape'
  <2>1. Typed'
    BY <1>1 DEF Shape, Typed, queueVars, loopVars, serverVars
  <2>2. LoopShape'
    BY <1>1 DEF Shape, LoopShape, loopVars
  <2>3. \A r \in Elems(pending) \cup Elems(ready) \cup Hand(batch) : r # s /\ r \in Stamps
    BY <1>1, HeldStamps DEF Shape, Places
  <2>4. pending' = pending /\ ready' = ready /\ batch' = batch
    BY <1>1 DEF queueVars, loopVars
  <2>5. Places'
    BY <1>1, <2>3, <2>4 DEF Shape, Places
  <2> QED BY <2>1, <2>2, <2>5 DEF Shape
<1>3. Waiting' = Waiting /\ Anchored' = Anchored /\ s \notin Waiting /\ s \notin Anchored
  BY <1>1 DEF Waiting, Begun, Current, Anchored, Shape, Places, RowsFollow, queueVars, loopVars
<1>4. RowsFollow'
  BY <1>1, <1>3 DEF RowsFollow, Fresh, Shape, Typed
<1>5. pc \notin Resting => Current # s /\ Current \in Stamps
  BY <1>1, CurrentInHand
<1>6. CurrentRow'
  BY <1>1, <1>5 DEF CurrentRow, Current, Attested, MayFail, Resting, loopVars, serverVars
<1>7. ProofsAnchored'
  BY <1>1, <1>3 DEF ProofsAnchored, Attested, RowsFollow, Fresh, PendingProof, Shape, Typed
<1>8. EventBacked'
  BY <1>1 DEF EventBacked, RowsFollow, GetStamp, MayFail, serverVars
<1>9. Counted' /\ Kept'
  BY <1>1 DEF Counted, Commitments, Owed, Kept, queueVars, loopVars, serverVars
<1> QED BY <1>2, <1>4, <1>6, <1>7, <1>8, <1>9

(* A stamp is queued that was nowhere before.                              *)
LEMMA EnqueueIInv ==
  ASSUME IInv, NEW s \in Stamps, Enqueue(s)
  PROVE  IInv'
<1> USE DEF IInv
<1> DEFINE m == world.modeOf[s]
<1>1. /\ UNCHANGED <<ready, db, loopVars, chain, lost, lastEvent, serverVars>>
      /\ request[s] = "saved" /\ request' \in [Stamps -> Answers]
      /\ \A r \in Stamps \ {s} : request'[r] = request[r]
      /\ m \in Modes
  BY CalendarAssumption DEF Enqueue, Shape, Typed, Answers
<1>2. s \notin Elems(pending) \cup Elems(ready) \cup Hand(batch) /\ s \notin Anchored
  BY <1>1 DEF Shape, Places, RowsFollow
<1>3. /\ pending' \in [Modes -> Seq(Stamps)] /\ batchOpen' \subseteq Modes /\ Once(pending')
      /\ \/ request'[s] = "accepted" /\ Elems(pending') = Elems(pending) \cup {s}
         \/ request'[s] = "full" /\ pending' = pending
  <2>1. CASE Q!AddDigest(s, m) /\ request' = [request EXCEPT ![s] = "accepted"]
    <3>1. /\ pending' = [pending EXCEPT ![m] = Append(@, s)]
          /\ batchOpen' \subseteq batchOpen \cup {m}
      BY <2>1 DEF Q!AddDigest
    <3>2. pending \in [Modes -> Seq(Stamps)] /\ batchOpen \subseteq Modes /\ Once(pending) /\ request \in [Stamps -> Answers]
      BY DEF Shape, Typed, Places
    <3>3. /\ pending' \in [Modes -> Seq(Stamps)] /\ Elems(pending') = Elems(pending) \cup {s}
          /\ Once(pending')
      <4>1. m \in Modes /\ s \notin Elems(pending) /\ pending' = [pending EXCEPT ![m] = Append(@, s)]
        BY <1>1, <1>2, <3>1
      <4> HIDE DEF m, IInv
      <4> QED BY <3>2, <4>1, OnceAppend
    <3> QED BY <1>1, <2>1, <3>1, <3>2, <3>3
  <2>2. CASE UNCHANGED <<pending, batchOpen>> /\ request' = [request EXCEPT ![s] = "full"]
    BY <1>1, <2>2 DEF Shape, Typed, Places
  <2> QED BY <2>1, <2>2 DEF Enqueue
<1>4. Shape'
  <2>1. Typed'
    BY <1>1, <1>3 DEF Shape, Typed, loopVars, serverVars
  <2>2. LoopShape'
    BY <1>1 DEF Shape, LoopShape, loopVars
  <2>3. Places'
    <3>1. ready' = ready /\ batch' = batch
      BY <1>1 DEF loopVars
    <3>2. Elems(pending') \subseteq Elems(pending) \cup {s}
      BY <1>3
    <3>3. \A r \in Elems(pending') \cup Elems(ready) \cup Hand(batch) : request'[r] = "accepted"
      <4>1. \A r \in Elems(pending) \cup Elems(ready) \cup Hand(batch) :
               r # s /\ r \in Stamps /\ request[r] = "accepted"
        BY <1>2, HeldStamps DEF Shape, Places
      <4> QED BY <1>1, <1>3, <4>1
    <3> QED BY <1>2, <1>3, <3>1, <3>2, <3>3 DEF Shape, Places
  <2> QED BY <2>1, <2>2, <2>3 DEF Shape
<1>5. /\ Waiting' \subseteq Waiting \cup {s} /\ Anchored' = Anchored /\ Fresh(s)
      /\ request'[s] \in {"accepted", "full"}
  BY <1>1, <1>3 DEF Waiting, Begun, Current, Anchored, RowsFollow, loopVars
<1>6. RowsFollow'
  BY <1>1, <1>5 DEF RowsFollow, Fresh
<1>7. CurrentRow' /\ ProofsAnchored' /\ EventBacked'
  BY <1>1, <1>5 DEF CurrentRow, Current, Attested, MayFail, ProofsAnchored, EventBacked, GetStamp,
                    loopVars, serverVars
<1>8. Cardinality(Commitments(s)) = 0
  <2>1. Commitments(s) = {}
    BY <1>2 DEF Commitments, Anchored
  <2> QED BY <2>1, FS_EmptySet
<1>9. Counted'
  <2>1. Owed' \subseteq Owed \cup {s} /\ lost' = lost /\ \A r : Commitments(r)' = Commitments(r)
    BY <1>1, <1>3 DEF Owed, Commitments, loopVars
  <2> QED BY <1>8, <2>1 DEF Counted, Shape, Typed
<1>10. Kept'
  BY <1>1, <1>3 DEF Kept, loopVars, serverVars
<1> QED BY <1>4, <1>6, <1>7, <1>9, <1>10

(* A submission that is turned away is in no queue.                        *)
LEMMA RefuseIInv ==
  ASSUME IInv, NEW s \in Stamps, Refuse(s)
  PROVE  IInv'
<1> USE DEF IInv
<1>1. /\ UNCHANGED <<queueVars, loopVars, chain, lost, lastEvent, serverVars>>
      /\ request[s] = "full" /\ request'[s] = "busy"
      /\ request' \in [Stamps -> Answers] /\ db' \in [Stamps -> Rows]
      /\ \A r \in Stamps \ {s} : request'[r] = request[r] /\ db'[r] = db[r]
      /\ db'[s] = NoRow \/ db'[s] = db[s]
  BY RowTypes DEF Refuse, Shape, Typed, Answers
<1>2. Shape'
  <2>1. Typed'
    BY <1>1 DEF Shape, Typed, queueVars, loopVars, serverVars
  <2>2. LoopShape'
    BY <1>1 DEF Shape, LoopShape, loopVars
  <2>3. \A r \in Elems(pending) \cup Elems(ready) \cup Hand(batch) : r # s /\ r \in Stamps
    BY <1>1, HeldStamps DEF Shape, Places
  <2>4. pending' = pending /\ ready' = ready /\ batch' = batch
    BY <1>1 DEF queueVars, loopVars
  <2>5. Places'
    BY <1>1, <2>3, <2>4 DEF Shape, Places
  <2> QED BY <2>1, <2>2, <2>5 DEF Shape
<1>3. Waiting' = Waiting /\ Anchored' = Anchored /\ s \notin Waiting /\ s \notin Anchored
  BY <1>1 DEF Waiting, Begun, Current, Anchored, Shape, Places, RowsFollow, queueVars, loopVars
<1>4. RowsFollow'
  BY <1>1, <1>3 DEF RowsFollow, Fresh, Shape, Typed
<1>5. pc \notin Resting => Current # s /\ Current \in Stamps
  BY <1>1, CurrentInHand
<1>6. CurrentRow'
  BY <1>1, <1>5 DEF CurrentRow, Current, Attested, MayFail, Resting, loopVars, serverVars
<1>7. ProofsAnchored'
  BY <1>1, <1>3 DEF ProofsAnchored, Attested, NoRow, NoProof
<1>8. EventBacked'
  BY <1>1 DEF EventBacked, GetStamp, MayFail, NoRow, serverVars
<1>9. Counted' /\ Kept'
  BY <1>1 DEF Counted, Commitments, Owed, Kept, queueVars, loopVars, serverVars
<1> QED BY <1>2, <1>4, <1>6, <1>7, <1>8, <1>9

-----------------------------------------------------------------------------
(* The batch loop *)

(* A poll takes whole queues.                                              *)
LEMMA PollIInv ==
  ASSUME IInv, NEW due \in SUBSET Modes, Poll(due)
  PROVE  IInv'
<1> USE DEF IInv
<1>1. /\ UNCHANGED <<db, request, loopVars, chain, lost, lastEvent, serverVars>>
      /\ pc = "idle" /\ batch = NoBatch /\ \A m \in Modes : ready[m] = <<>>
      /\ ready' = [m \in Modes |-> IF m \in due THEN pending[m] ELSE <<>>]
      /\ pending' = [m \in Modes |-> IF m \in due THEN <<>> ELSE pending[m]]
      /\ batchOpen' = batchOpen \ due
  BY DEF Poll, NothingReady, Q!GetReadyBatches, Shape, LoopShape, Retryable, Committed
<1>2. /\ ready' \in [Modes -> Seq(Stamps)] /\ pending' \in [Modes -> Seq(Stamps)]
      /\ Elems(ready') \cup Elems(pending') = Elems(pending)
      /\ Once(ready') /\ Once(pending') /\ Elems(ready') \cap Elems(pending') = {}
  <2>1. pending \in [Modes -> Seq(Stamps)] /\ Once(pending)
    BY DEF Shape, Typed, Places
  <2> HIDE DEF IInv
  <2>2. ready' = Taken(pending, due) /\ pending' = Left(pending, due)
    BY <1>1 DEF Taken, Left
  <2> QED BY <2>1, <2>2, OnceDivided
<1>3. Elems(ready) = {} /\ Hand(batch) = {}
  BY <1>1, NothingInHand, ElemsDef
<1>4. Shape'
  <2>1. Typed'
    BY <1>1, <1>2 DEF Shape, Typed, loopVars, serverVars
  <2>2. LoopShape'
    BY <1>1 DEF Shape, LoopShape, loopVars
  <2>3. Places'
    BY <1>1, <1>2, <1>3 DEF Shape, Places, loopVars
  <2> QED BY <2>1, <2>2, <2>3 DEF Shape
<1>5. /\ Waiting' = Waiting /\ Anchored' = Anchored
      /\ Elems(pending') \cup Elems(ready') \cup Hand(batch') =
           Elems(pending) \cup Elems(ready) \cup Hand(batch)
  BY <1>1, <1>2, <1>3 DEF Waiting, Begun, Current, Anchored, loopVars
<1>6. RowsFollow'
  BY <1>1, <1>5 DEF RowsFollow, Fresh
<1>7. CurrentRow' /\ ProofsAnchored' /\ EventBacked'
  BY <1>1, <1>5 DEF CurrentRow, Current, Attested, MayFail, ProofsAnchored, EventBacked, GetStamp,
                    loopVars, serverVars
<1>8. Counted'
  <2>1. Owed' = Owed /\ lost' = lost /\ \A r : Commitments(r)' = Commitments(r)
    BY <1>1, <1>2, <1>3 DEF Owed, Commitments, loopVars
  <2> QED BY <2>1 DEF Counted
<1>9. Kept'
  BY <1>1, <1>5 DEF Kept, loopVars, serverVars
<1> QED BY <1>4, <1>6, <1>7, <1>8, <1>9

(* The batch in hand is one of those the poll took.                        *)
LEMMA StartBatchIInv ==
  ASSUME IInv, NEW m \in Modes, StartBatch(m)
  PROVE  IInv'
<1> USE DEF IInv
<1>1. /\ UNCHANGED <<pending, batchOpen, leftOut, db, request, chain, lost, serverVars>>
      /\ pc = "idle" /\ pc' = "submit" /\ batch = NoBatch
      /\ ready[m] # <<>> /\ ready' = [ready EXCEPT ![m] = <<>>]
      /\ batch' = [mode |-> m, stamps |-> ready[m], i |-> 1, tx |-> 0]
      /\ lastEvent' = [s \in Stamps |-> IF s \in Range(ready[m]) THEN "batched" ELSE lastEvent[s]]
  BY DEF StartBatch, RestOfReady, Shape, LoopShape, Retryable, Committed
<1>2. /\ ready' \in [Modes -> Seq(Stamps)] /\ Once(ready')
      /\ Elems(ready') \cup Range(ready[m]) = Elems(ready)
      /\ Elems(ready') \cap Range(ready[m]) = {}
  BY <1>1, OnceWithout DEF Shape, Typed, Places
<1>3. /\ Hand(batch) = {} /\ Hand(batch') = Range(ready[m]) /\ IsInjective(batch'.stamps)
      /\ 1 \in DOMAIN ready[m] /\ ready[m] \in Seq(Stamps) /\ batch' \in Batches
  <2>1. ready[m] \in Seq(Stamps) /\ 1 \in DOMAIN ready[m] /\ m \in Nat
    BY <1>1, CalendarAssumption DEF Shape, Typed
  <2>2. batch'.stamps = ready[m] /\ batch'.i = 1 /\ batch' \in Batches
    BY <1>1, <2>1 DEF Batches
  <2>3. Hand(batch') = Range(ready[m])
    BY <2>1, <2>2 DEF Hand, Range
  <2>4. IsInjective(ready[m])
    BY DEF Shape, Places, Once, IsInjective
  <2> QED BY <1>1, <2>1, <2>2, <2>3, <2>4, NothingInHand
<1>6. \A s \in Range(ready[m]) : s \in Stamps /\ request[s] = "accepted"
  BY <1>2, HeldStamps DEF Shape, Places
<1>4. Shape'
  <2>1. Typed'
    BY <1>1, <1>2, <1>3 DEF Shape, Typed, serverVars
  <2>2. LoopShape'
    BY <1>1, <1>3 DEF LoopShape, Retryable, Committed
  <2>3. Places'
    <3>1. /\ Once(pending) /\ Elems(pending) \cap Elems(ready) = {}
          /\ \A s \in Elems(pending) \cup Elems(ready) : request[s] = "accepted"
      BY DEF Shape, Places
    <3>2. pending' = pending /\ request' = request
      BY <1>1
    <3>3. Elems(ready') \subseteq Elems(ready) /\ Hand(batch') \subseteq Elems(ready)
      BY <1>2, <1>3
    <3>4. Hand(batch') \cap (Elems(pending) \cup Elems(ready')) = {}
      BY <1>2, <1>3, <3>1
    <3> QED BY <1>2, <1>3, <3>1, <3>2, <3>3, <3>4 DEF Places
  <2> QED BY <2>1, <2>2, <2>3 DEF Shape
<1>5. /\ Waiting' = Waiting /\ Anchored' = Anchored
      /\ Elems(pending') \cup Elems(ready') \cup Hand(batch') =
           Elems(pending) \cup Elems(ready) \cup Hand(batch)
  BY <1>1, <1>2, <1>3 DEF Waiting, Begun, Anchored
<1>7. RowsFollow'
  BY <1>1, <1>5, <1>6 DEF RowsFollow, Fresh
<1>8. CurrentRow' /\ ProofsAnchored' /\ EventBacked'
  BY <1>1, <1>5 DEF CurrentRow, Attested, MayFail, ProofsAnchored, EventBacked, GetStamp, serverVars
<1>9. Counted'
  <2>1. Owed' = Owed /\ lost' = lost /\ \A r : Commitments(r)' = Commitments(r)
    BY <1>1, <1>2, <1>3 DEF Owed, Commitments, Retryable
  <2> QED BY <2>1 DEF Counted
<1>10. Kept'
  BY <1>1, <1>2, <1>3, <1>5 DEF Kept, serverVars
<1> QED BY <1>4, <1>7, <1>8, <1>9, <1>10

(* A commitment is made, seen or not: the batch is its leaves.             *)
LEMMA CommitIInv ==
  ASSUME IInv, SubmitOk \/ SubmitLost
  PROVE  IInv'
<1> USE DEF IInv
<1> DEFINE tx == Len(chain) + 1
<1>1. /\ UNCHANGED <<queueVars, db, request, leftOut, lastEvent, serverVars>>
      /\ pc = "submit" /\ chain' = Append(chain, batch.stamps)
      /\ \/ pc' = "status" /\ batch' = [batch EXCEPT !.tx = tx] /\ lost' = lost
         \/ pc' = "requeue" /\ batch' = batch /\ lost' = lost + 1
      /\ batch \in Batches /\ lost \in Nat
  BY DEF SubmitOk, SubmitLost, AfterErr, Shape, Typed
<1>2. /\ batch'.stamps = batch.stamps /\ batch'.i = batch.i /\ batch'.mode = batch.mode
      /\ batch' \in Batches /\ (pc' = "status" => batch'.tx = tx)
      /\ batch.stamps \in Seq(Stamps)
  BY <1>1 DEF Batches, Shape, Typed
<1>3. /\ chain' \in Seq(Seq(Stamps))
      /\ tx \in DOMAIN chain' /\ chain'[tx] = batch.stamps /\ tx \notin DOMAIN chain
      /\ \A t \in DOMAIN chain : t \in DOMAIN chain' /\ chain'[t] = chain[t]
      /\ \A t \in DOMAIN chain' : t \in DOMAIN chain \/ t = tx
      /\ Anchored' = Anchored \cup Range(batch.stamps)
  BY <1>1, <1>2, ChainGrows DEF Shape
<1>4. Hand(batch') = Hand(batch) /\ Range(batch.stamps) = Hand(batch)
  <2>1. batch.i = 1
    BY <1>1 DEF Shape, LoopShape, Resting
  <2>2. Hand(batch') = Hand(batch)
    BY <1>2 DEF Hand
  <2>3. Hand(batch) = Range(batch.stamps)
    BY <1>2, <2>1 DEF Hand, Range
  <2> QED BY <2>2, <2>3
<1>5. Shape'
  <2>1. Typed'
    <3>1. lost' \in Nat
      BY <1>1
    <3>2. UNCHANGED <<pending, ready, batchOpen, db, request, restarts, lastEvent, world>>
      BY <1>1 DEF queueVars, serverVars
    <3>3. /\ pending \in [Modes -> Seq(Stamps)] /\ ready \in [Modes -> Seq(Stamps)]
          /\ batchOpen \subseteq Modes /\ db \in [Stamps -> Rows] /\ request \in [Stamps -> Answers]
          /\ restarts \in Nat /\ lastEvent \in [Stamps -> {"none", "batched", "confirmed"}]
          /\ world \in Worlds
      BY DEF Shape, Typed
    <3> HIDE DEF IInv
    <3> QED BY <1>2, <1>3, <3>1, <3>2, <3>3 DEF Typed
  <2>2. LoopShape'
    <3>1. batch.mode \in Modes /\ batch.i \in DOMAIN batch.stamps
      BY <1>1 DEF Shape, LoopShape, Resting
    <3> HIDE DEF IInv
    <3>2. CASE pc' = "status" /\ batch' = [batch EXCEPT !.tx = tx] /\ lost' = lost
      BY <1>2, <1>3, <3>1, <3>2 DEF LoopShape, Retryable, Committed
    <3>3. CASE pc' = "requeue" /\ batch' = batch /\ lost' = lost + 1
      BY <3>1, <3>3 DEF LoopShape, Retryable, Committed
    <3> QED BY <1>1, <3>2, <3>3
  <2>3. Places'
    BY <1>1, <1>2, <1>4 DEF Shape, Places, queueVars
  <2> QED BY <2>1, <2>2, <2>3 DEF Shape
<1>6. Waiting' = Waiting
  BY <1>1, <1>4 DEF Waiting, Begun, queueVars
<1>7. RowsFollow'
  BY <1>1, <1>3, <1>4, <1>6 DEF RowsFollow, Fresh, Shape, Places
<1>8. ProofsAnchored'
  BY <1>1, <1>3 DEF ProofsAnchored, Attested
<1>9. CurrentRow' /\ EventBacked'
  BY <1>1 DEF CurrentRow, EventBacked, GetStamp, MayFail, serverVars
<1>10. Counted'
  <2>1. ASSUME NEW s \in Stamps
        PROVE  /\ Cardinality(Commitments(s)) \in Nat
               /\ Cardinality(Commitments(s)') <= Cardinality(Commitments(s)) + 1
               /\ s \notin Hand(batch) => Cardinality(Commitments(s)') = Cardinality(Commitments(s))
               /\ Cardinality(Commitments(s)') \in Nat
    <3>1. Commitments(s)' = IF s \in Hand(batch) THEN Commitments(s) \cup {tx} ELSE Commitments(s)
      <4>1. \A t : t \in Commitments(s)' <=> t \in DOMAIN chain' /\ s \in Range(chain'[t])
        BY DEF Commitments
      <4>2. \A t : t \in Commitments(s) <=> t \in DOMAIN chain /\ s \in Range(chain[t])
        BY DEF Commitments
      <4> QED BY <1>3, <1>4, <4>1, <4>2
    <3>2. IsFiniteSet(Commitments(s)) /\ Cardinality(Commitments(s)) \in Nat
      BY CommitmentsFinite DEF Shape
    <3>3. /\ IsFiniteSet(Commitments(s) \cup {tx})
          /\ Cardinality(Commitments(s) \cup {tx}) =
               IF tx \in Commitments(s) THEN Cardinality(Commitments(s)) ELSE Cardinality(Commitments(s)) + 1
      BY <3>2, FS_AddElement
    <3> QED BY <3>1, <3>2, <3>3
  <2>2. Hand(batch) \subseteq Owed /\ Owed \subseteq Stamps
    BY <1>1, HeldStamps DEF Owed, Retryable
  <2>3. Owed' = IF pc' = "requeue" THEN Owed ELSE Elems(pending) \cup Elems(ready)
    BY <1>1, <1>4 DEF Owed, Retryable, queueVars
  <2>4. (Elems(pending) \cup Elems(ready)) \cap Hand(batch) = {} /\ Elems(pending) \cup Elems(ready) \subseteq Owed
    BY DEF Shape, Places, Owed
  <2>5. ASSUME NEW s \in Stamps PROVE Cardinality(Commitments(s)') <= 1 + lost'
    BY <1>1, <2>1, <2>2 DEF Counted
  <2>6. ASSUME NEW s \in Owed' PROVE Cardinality(Commitments(s)') <= lost'
    BY <1>1, <2>1, <2>2, <2>3, <2>4 DEF Counted
  <2> QED BY <2>5, <2>6 DEF Counted
<1>11. Kept'
  BY <1>1, <1>4 DEF Kept, queueVars, serverVars
<1> QED BY <1>5, <1>7, <1>8, <1>9, <1>10, <1>11

(* A failure with nothing sent, the end of the sleep and the signal move   *)
(* no stamp.                                                               *)
LEMMA IdleIInv ==
  ASSUME IInv, SubmitFails \/ Wake \/ Signal
  PROVE  IInv'
<1> USE DEF IInv
<1>1. /\ UNCHANGED <<queueVars, db, request, batch, leftOut, chain, lost, lastEvent, restarts, world>>
      /\ \/ pc = "submit" /\ pc' = "requeue"
         \/ pc = "backoff" /\ pc' = "idle"
         \/ pc' = pc
  BY DEF SubmitFails, Wake, Signal, AfterErr, serverVars, loopVars
<1>2. Shape'
  <2>1. Typed'
    BY <1>1 DEF Shape, Typed, queueVars
  <2>2. LoopShape'
    BY <1>1 DEF Shape, LoopShape, Retryable, Committed, Resting
  <2>3. Places'
    BY <1>1 DEF Shape, Places, queueVars
  <2> QED BY <2>1, <2>2, <2>3 DEF Shape
<1>3. Waiting' = Waiting /\ Anchored' = Anchored
  BY <1>1 DEF Waiting, Begun, Current, Anchored, queueVars
<1>4. RowsFollow' /\ ProofsAnchored' /\ EventBacked' /\ CurrentRow'
  BY <1>1, <1>3 DEF RowsFollow, Fresh, ProofsAnchored, EventBacked, GetStamp, CurrentRow, Current,
                    Attested, MayFail
<1>5. Counted'
  <2>1. Owed' = Owed /\ lost' = lost /\ \A r : Commitments(r)' = Commitments(r)
    BY <1>1 DEF Owed, Commitments, Retryable, queueVars
  <2> QED BY <2>1 DEF Counted
<1>6. Kept'
  BY <1>1 DEF Kept, queueVars
<1> QED BY <1>2, <1>4, <1>5, <1>6

(* On to the next stamp of the batch, or to the end of it                  *)
LEMMA AdvanceHand ==
  ASSUME Shape, pc \notin Resting, NEW step, NEW done, Advance(step, done)
  PROVE  /\ Hand(batch') = Hand(batch) \ {Current}
         /\ batch' \in Batches /\ IsInjective(batch'.stamps)
         /\ \/ /\ pc' = step /\ batch'.i \in DOMAIN batch'.stamps
               /\ batch'.stamps = batch.stamps /\ batch'.mode = batch.mode /\ batch'.tx = batch.tx
            \/ pc' = done /\ batch' = NoBatch
<1>1. batch \in Batches /\ IsInjective(batch.stamps) /\ batch.i \in DOMAIN batch.stamps
  BY CurrentInHand DEF Shape, Typed, Places
<1>2. CASE ~IsLast /\ batch' = [batch EXCEPT !.i = @ + 1] /\ pc' = step
  <2>1. batch'.stamps = batch.stamps /\ batch'.mode = batch.mode /\ batch'.tx = batch.tx /\ batch' \in Batches
    BY <1>1, <1>2 DEF Batches
  <2>2. Hand(batch') = Hand(batch) \ {Current} /\ batch'.i \in DOMAIN batch.stamps
    BY <1>1, <1>2, HandAdvance DEF Batches, IsLast, Current
  <2> QED BY <1>1, <1>2, <2>1, <2>2
<1>3. CASE IsLast /\ batch' = NoBatch /\ pc' = done
  <2>1. Hand(batch) = {Current}
    BY <1>1, <1>3, HandAdvance DEF Batches, IsLast, Current
  <2> QED BY <1>3, <2>1, NothingInHand
<1> QED BY <1>2, <1>3 DEF Advance

(* A stamp that is put back leaves the hand for its queue, or is counted.  *)
LEMMA RequeueIInv ==
  ASSUME IInv, Requeue
  PROVE  IInv'
<1> USE DEF IInv
<1>1. /\ UNCHANGED <<ready, db, request, chain, lost, lastEvent, serverVars>>
      /\ pc = "requeue" /\ pc \notin Resting
      /\ PutBack(Current, batch.mode) /\ Advance("requeue", "backoff")
  BY DEF Requeue, Resting
<1>2. /\ Current \in Hand(batch) /\ Current \in Stamps /\ batch.mode \in Modes
      /\ request[Current] = "accepted"
  BY <1>1, CurrentInHand
<1>3. /\ Hand(batch') = Hand(batch) \ {Current}
      /\ batch' \in Batches /\ IsInjective(batch'.stamps)
      /\ \/ pc' = "requeue" /\ batch'.i \in DOMAIN batch'.stamps /\ batch'.mode = batch.mode
         \/ pc' = "backoff" /\ batch' = NoBatch
  BY <1>1, AdvanceHand
<1>4. /\ Once(pending) /\ Once(ready) /\ pending \in [Modes -> Seq(Stamps)] /\ batchOpen \subseteq Modes
      /\ Elems(pending) \cap Elems(ready) = {}
      /\ Hand(batch) \cap (Elems(pending) \cup Elems(ready)) = {}
      /\ \A s \in Elems(pending) \cup Elems(ready) \cup Hand(batch) : request[s] = "accepted"
  BY DEF Shape, Typed, Places
<1>5. /\ pending' \in [Modes -> Seq(Stamps)] /\ batchOpen' \subseteq Modes /\ Once(pending')
      /\ \/ Elems(pending') = Elems(pending) \cup {Current} /\ leftOut' = leftOut
         \/ Elems(pending') = Elems(pending) /\ leftOut' = leftOut \cup {Current}
  <2>1. CASE Q!AddDigest(Current, batch.mode) /\ UNCHANGED leftOut
    <3>1. /\ pending' = [pending EXCEPT ![batch.mode] = Append(@, Current)]
          /\ batchOpen' \subseteq batchOpen \cup {batch.mode}
      BY <2>1 DEF Q!AddDigest
    <3>2. Current \notin Elems(pending)
      BY <1>2, <1>4
    <3>3. /\ pending' \in [Modes -> Seq(Stamps)] /\ Elems(pending') = Elems(pending) \cup {Current}
          /\ Once(pending')
      <4> DEFINE s == Current
      <4>1. s \in Stamps /\ s \notin Elems(pending) /\ pending' = [pending EXCEPT ![batch.mode] = Append(@, s)]
        BY <1>2, <3>1, <3>2
      <4> HIDE DEF s
      <4>2. /\ pending' \in [Modes -> Seq(Stamps)] /\ Elems(pending') = Elems(pending) \cup {s}
            /\ Once(pending')
        BY <1>2, <1>4, <4>1, OnceAppend
      <4> QED BY <4>2 DEF s
    <3>4. batchOpen' \subseteq Modes /\ leftOut' = leftOut
      BY <1>2, <1>4, <2>1, <3>1
    <3> QED BY <3>3, <3>4
  <2>2. CASE leftOut' = leftOut \cup {Current} /\ UNCHANGED <<pending, batchOpen>>
    BY <1>4, <2>2
  <2> QED BY <1>1, <2>1, <2>2 DEF PutBack
<1>6. Shape'
  <2>1. Typed'
    BY <1>1, <1>3, <1>5 DEF Shape, Typed, serverVars
  <2>2. LoopShape'
    BY <1>2, <1>3 DEF LoopShape, Resting, Retryable, Committed
  <2>3. Places'
    BY <1>1, <1>2, <1>3, <1>4, <1>5 DEF Places
  <2> QED BY <2>1, <2>2, <2>3 DEF Shape
<1>7. /\ Waiting' \subseteq Waiting /\ Anchored' = Anchored
      /\ pc' \notin {"proof", "notify", "stopped"}
  BY <1>1, <1>2, <1>3, <1>5 DEF Waiting, Begun, Anchored
<1>8. RowsFollow' /\ ProofsAnchored' /\ EventBacked' /\ CurrentRow'
  BY <1>1, <1>7 DEF RowsFollow, Fresh, ProofsAnchored, EventBacked, GetStamp, CurrentRow,
                    Attested, MayFail, serverVars
<1>9. Counted'
  <2>1. Owed' \subseteq Owed /\ lost' = lost /\ \A r : Commitments(r)' = Commitments(r)
    BY <1>1, <1>2, <1>3, <1>5 DEF Owed, Commitments, Retryable
  <2> QED BY <2>1 DEF Counted
<1>10. Kept'
  BY <1>1, <1>3, <1>5 DEF Kept, serverVars
<1> QED BY <1>6, <1>8, <1>9, <1>10

(* The row of the stamp in hand is called confirmed: it is in the batch's  *)
(* commitment.                                                             *)
LEMMA UpdateStatusIInv ==
  ASSUME IInv, UpdateStatus
  PROVE  IInv'
<1> USE DEF IInv
<1>1. /\ UNCHANGED <<queueVars, request, batch, leftOut, chain, lost, lastEvent, serverVars>>
      /\ pc = "status" /\ pc' = "proof" /\ pc \notin Resting
      /\ \/ db' = IF db[Current].status = "absent" THEN db
                  ELSE [db EXCEPT ![Current].status = "confirmed"]
         \/ MayFail("db") /\ db' = db
  BY DEF UpdateStatus, Resting
<1>2. /\ Current \in Hand(batch) /\ Current \in Stamps /\ request[Current] = "accepted"
      /\ batch.i \in DOMAIN batch.stamps
      /\ batch.tx \in DOMAIN chain /\ chain[batch.tx] = batch.stamps
  BY <1>1, CurrentInHand DEF Shape, LoopShape, Committed
<1>3. Fresh(Current) /\ Current' = Current
  BY <1>1, <1>2 DEF RowsFollow, Waiting, Begun, Current
<1>4. /\ db' \in [Stamps -> Rows]
      /\ \A s \in Stamps \ {Current} : db'[s] = db[s]
      /\ db'[Current].proof = PendingProof
      /\ \/ db'[Current].status = "confirmed"
         \/ db'[Current].status = "pending" /\ MayFail("db")
  <2>1. db \in [Stamps -> Rows] /\ db[Current].status = "pending" /\ db[Current].proof = PendingProof
    BY <1>3 DEF Fresh, Shape, Typed
  <2>2. CASE db' = [db EXCEPT ![Current].status = "confirmed"]
    BY <1>2, <2>1, <2>2 DEF Rows
  <2>3. CASE MayFail("db") /\ db' = db
    BY <2>1, <2>3
  <2> QED BY <1>1, <2>1, <2>2, <2>3
<1>5. Shape'
  <2>1. Typed'
    BY <1>1, <1>4 DEF Shape, Typed, queueVars, serverVars
  <2>2. LoopShape'
    BY <1>1 DEF Shape, LoopShape, Retryable, Committed, Resting
  <2>3. Places'
    BY <1>1 DEF Shape, Places, queueVars
  <2> QED BY <2>1, <2>2, <2>3 DEF Shape
<1>6. Waiting' = Waiting \ {Current} /\ Anchored' = Anchored
  BY <1>1, <1>3 DEF Waiting, Begun, Anchored, queueVars
<1>7. RowsFollow'
  BY <1>1, <1>2, <1>4, <1>6 DEF RowsFollow, Fresh
<1>8. CurrentRow'
  BY <1>1, <1>3, <1>4 DEF CurrentRow, Attested, PendingProof, MayFail, serverVars
<1>9. ProofsAnchored'
  <2>1. Current \in Anchored
    BY <1>2 DEF Anchored, Range, Current
  <2> QED BY <1>1, <1>4, <1>6, <2>1 DEF ProofsAnchored, Attested, PendingProof
<1>10. EventBacked'
  <2>1. ~MayFail("db") => lastEvent[Current] # "confirmed"
    BY <1>2, <1>3 DEF EventBacked, GetStamp, Fresh, NoProof
  <2> QED BY <1>1, <1>2, <1>4, <2>1 DEF EventBacked, GetStamp, MayFail, serverVars
<1>11. Counted' /\ Kept'
  BY <1>1 DEF Counted, Commitments, Owed, Kept, queueVars, serverVars, Retryable
<1> QED BY <1>5, <1>7, <1>8, <1>9, <1>10, <1>11

(* The row is given its attestation: leaf i of the batch's commitment is   *)
(* the stamp in hand.                                                      *)
LEMMA UpdateProofIInv ==
  ASSUME IInv, UpdateProof
  PROVE  IInv'
<1> USE DEF IInv
<1>1. /\ UNCHANGED <<queueVars, request, batch, leftOut, chain, lost, lastEvent, serverVars>>
      /\ pc = "proof" /\ pc' = "notify" /\ pc \notin Resting
      /\ \/ db' = IF db[Current].status = "absent" THEN db
                  ELSE [db EXCEPT ![Current].proof = ProofOfCurrent]
         \/ MayFail("db") /\ db' = db
  BY DEF UpdateProof, Resting
<1>2. /\ Current \in Hand(batch) /\ Current \in Stamps /\ request[Current] = "accepted"
      /\ batch.i \in DOMAIN batch.stamps
      /\ batch.tx \in DOMAIN chain /\ chain[batch.tx] = batch.stamps
  BY <1>1, CurrentInHand DEF Shape, LoopShape, Committed
<1>3. /\ db[Current].status # "absent" /\ ~Attested(Current) /\ Current' = Current
      /\ MayFail("db") \/ db[Current].status = "confirmed"
  BY <1>1 DEF CurrentRow, Current
<1>4. /\ db' \in [Stamps -> Rows]
      /\ \A s \in Stamps \ {Current} : db'[s] = db[s]
      /\ db'[Current].status = db[Current].status
      /\ \/ db'[Current].proof = KaspaProof(batch.tx, batch.i)
         \/ db'[Current] = db[Current] /\ MayFail("db")
  <2>1. db \in [Stamps -> Rows]
    BY DEF Shape, Typed
  <2>2. KaspaProof(batch.tx, batch.i) \in [kind : {"none", "pending", "kaspa"}, tx : Nat, leaf : Nat]
    BY RowTypes DEF Shape, Typed, Batches
  <2>3. CASE db' = [db EXCEPT ![Current].proof = KaspaProof(batch.tx, batch.i)]
    BY <1>2, <2>1, <2>2, <2>3 DEF Rows
  <2>4. CASE MayFail("db") /\ db' = db
    BY <2>1, <2>4
  <2> QED BY <1>1, <1>3, <2>3, <2>4 DEF ProofOfCurrent
<1>5. Shape'
  <2>1. Typed'
    BY <1>1, <1>4 DEF Shape, Typed, queueVars, serverVars
  <2>2. LoopShape'
    BY <1>1 DEF Shape, LoopShape, Retryable, Committed, Resting
  <2>3. Places'
    BY <1>1 DEF Shape, Places, queueVars
  <2> QED BY <2>1, <2>2, <2>3 DEF Shape
<1>6. Waiting' = Waiting /\ Anchored' = Anchored /\ Current \notin Waiting
  BY <1>1, <1>3 DEF Waiting, Begun, Anchored, queueVars
<1>7. RowsFollow'
  BY <1>1, <1>2, <1>4, <1>6 DEF RowsFollow, Fresh
<1>8. CurrentRow'
  BY <1>1, <1>3, <1>4 DEF CurrentRow, Attested, KaspaProof, MayFail, serverVars
<1>9. ProofsAnchored'
  <2>1. Current = chain[batch.tx][batch.i] /\ batch.i \in DOMAIN chain[batch.tx]
    BY <1>2 DEF Current
  <2>2. ASSUME NEW s \in Stamps, Attested(s)'
        PROVE  /\ db'[s].proof.tx \in DOMAIN chain
               /\ db'[s].proof.leaf \in DOMAIN chain[db'[s].proof.tx]
               /\ chain[db'[s].proof.tx][db'[s].proof.leaf] = s
    <3>1. CASE s = Current /\ db'[s].proof = KaspaProof(batch.tx, batch.i)
      BY <1>2, <2>1, <3>1 DEF KaspaProof
    <3>2. CASE db'[s] = db[s]
      BY <2>2, <3>2 DEF ProofsAnchored, Attested
    <3> QED BY <1>4, <3>1, <3>2
  <2>3. \A s \in Stamps : db'[s].status = db[s].status
    BY <1>4
  <2> QED BY <1>1, <1>6, <2>2, <2>3 DEF ProofsAnchored
<1>10. EventBacked'
  <2>1. \A s \in Stamps : db'[s] = db[s] \/ s = Current
    BY <1>4
  <2>2. ~MayFail("db") => db'[Current].status = "confirmed" /\ db'[Current].proof.kind = "kaspa"
    BY <1>3, <1>4 DEF KaspaProof
  <2> QED BY <1>1, <2>1, <2>2 DEF EventBacked, GetStamp, MayFail, serverVars
<1>11. Counted' /\ Kept'
  BY <1>1 DEF Counted, Commitments, Owed, Kept, queueVars, serverVars, Retryable
<1> QED BY <1>5, <1>7, <1>8, <1>9, <1>10, <1>11

(* The event goes out when the row is done with, and the hand lets go.     *)
LEMMA NotifyIInv ==
  ASSUME IInv, Notify
  PROVE  IInv'
<1> USE DEF IInv
<1>1. /\ UNCHANGED <<queueVars, leftOut, db, request, chain, lost, serverVars>>
      /\ pc = "notify" /\ pc \notin Resting /\ Advance("status", "idle")
      /\ lastEvent' = [lastEvent EXCEPT ![Current] = "confirmed"]
  BY DEF Notify, Resting
<1>2. /\ Current \in Hand(batch) /\ Current \in Stamps /\ request[Current] = "accepted"
      /\ batch.mode \in Modes /\ batch.tx \in DOMAIN chain /\ chain[batch.tx] = batch.stamps
  BY <1>1, CurrentInHand DEF Shape, LoopShape, Committed
<1>3. /\ Hand(batch') = Hand(batch) \ {Current}
      /\ batch' \in Batches /\ IsInjective(batch'.stamps)
      /\ \/ /\ pc' = "status" /\ batch'.i \in DOMAIN batch'.stamps
            /\ batch'.stamps = batch.stamps /\ batch'.mode = batch.mode /\ batch'.tx = batch.tx
         \/ pc' = "idle" /\ batch' = NoBatch
  BY <1>1, AdvanceHand
<1>4. /\ lastEvent \in [Stamps -> {"none", "batched", "confirmed"}]
      /\ lastEvent' \in [Stamps -> {"none", "batched", "confirmed"}]
      /\ lastEvent'[Current] = "confirmed"
      /\ \A s \in Stamps \ {Current} : lastEvent'[s] = lastEvent[s]
  BY <1>1, <1>2 DEF Shape, Typed
<1>5. Shape'
  <2>1. Typed'
    BY <1>1, <1>3, <1>4 DEF Shape, Typed, queueVars, serverVars
  <2>2. LoopShape'
    BY <1>1, <1>2, <1>3 DEF LoopShape, Retryable, Committed, Resting
  <2>3. Places'
    BY <1>1, <1>3 DEF Shape, Places, queueVars
  <2> QED BY <2>1, <2>2, <2>3 DEF Shape
<1>6. Waiting' = Waiting /\ Anchored' = Anchored
  <2>1. Waiting = (Elems(pending) \cup Elems(ready) \cup Hand(batch)) \ {Current}
    BY <1>1 DEF Waiting, Begun
  <2>2. Current \notin Elems(pending) \cup Elems(ready)
    BY <1>2 DEF Shape, Places
  <2>3. Waiting' = Elems(pending) \cup Elems(ready) \cup (Hand(batch) \ {Current})
    BY <1>1, <1>3 DEF Waiting, Begun, queueVars
  <2> QED BY <1>1, <2>1, <2>2, <2>3 DEF Anchored
<1>7. RowsFollow'
  BY <1>1, <1>2, <1>4, <1>6 DEF RowsFollow, Fresh
<1>8. CurrentRow' /\ ProofsAnchored'
  BY <1>1, <1>3, <1>6 DEF CurrentRow, ProofsAnchored, Attested
<1>9. EventBacked'
  BY <1>1, <1>4 DEF EventBacked, CurrentRow, Attested, GetStamp, MayFail, serverVars
<1>10. Counted'
  <2>1. Owed' = Owed /\ lost' = lost /\ \A r : Commitments(r)' = Commitments(r)
    BY <1>1, <1>3 DEF Owed, Commitments, Retryable, queueVars
  <2> QED BY <2>1 DEF Counted
<1>11. Kept'
  BY <1>1, <1>3, <1>4 DEF Kept, queueVars, serverVars
<1> QED BY <1>5, <1>7, <1>8, <1>9, <1>10, <1>11

-----------------------------------------------------------------------------
(* Maintenance, shutdown, restart *)

(* A row that expires belongs to a stamp nobody holds.                     *)
LEMMA DeleteOldStampIInv ==
  ASSUME IInv, NEW s \in Stamps, DeleteOldStamp(s)
  PROVE  IInv'
<1> USE DEF IInv
<1>1. /\ UNCHANGED <<queueVars, request, loopVars, chain, lost, lastEvent, serverVars>>
      /\ db[s].status = "confirmed" /\ s \notin Range(batch.stamps)
      /\ db' \in [Stamps -> Rows] /\ db'[s] = NoRow
      /\ \A r \in Stamps \ {s} : db'[r] = db[r]
  BY RowTypes DEF DeleteOldStamp, Shape, Typed
<1>2. Shape'
  <2>1. Typed'
    BY <1>1 DEF Shape, Typed, queueVars, loopVars, serverVars
  <2>2. LoopShape'
    BY <1>1 DEF Shape, LoopShape, loopVars
  <2>3. Places'
    BY <1>1 DEF Shape, Places, queueVars, loopVars
  <2> QED BY <2>1, <2>2, <2>3 DEF Shape
<1>3. s \notin Waiting /\ request[s] \notin {"saved", "full"}
  BY <1>1 DEF RowsFollow, Fresh
<1>4. Waiting' = Waiting /\ Anchored' = Anchored
  BY <1>1 DEF Waiting, Begun, Current, Anchored, queueVars, loopVars
<1>5. RowsFollow'
  <2>1. request' = request /\ lastEvent' = lastEvent
    BY <1>1
  <2> QED BY <1>1, <1>3, <1>4, <2>1 DEF RowsFollow, Fresh
<1>6. pc \notin Resting => Current # s /\ Current \in Stamps
  <2>1. ASSUME pc \notin Resting PROVE Current \in Range(batch.stamps) /\ Current \in Stamps
    BY <2>1, CurrentInHand DEF Current, Range
  <2> QED BY <1>1, <2>1
<1>7. CurrentRow'
  BY <1>1, <1>6 DEF CurrentRow, Current, Attested, MayFail, Resting, loopVars, serverVars
<1>8. ProofsAnchored'
  BY <1>1, <1>4 DEF ProofsAnchored, Attested, NoRow, NoProof
<1>9. EventBacked'
  BY <1>1 DEF EventBacked, GetStamp, MayFail, NoRow, serverVars
<1>10. Counted' /\ Kept'
  BY <1>1 DEF Counted, Commitments, Owed, Kept, queueVars, loopVars, serverVars
<1> QED BY <1>2, <1>5, <1>7, <1>8, <1>9, <1>10

(* The batches the stopping loop takes are gone; the rest is as it was.    *)
LEMMA LoopShutdownIInv ==
  ASSUME IInv, NEW due \in SUBSET Modes, LoopShutdown(due)
  PROVE  IInv'
<1> USE DEF IInv
<1>1. /\ UNCHANGED <<ready, db, request, batch, leftOut, chain, lost, lastEvent, serverVars>>
      /\ pc = "idle" /\ pc' = "stopped" /\ batch = NoBatch
      /\ pending' = Left(pending, due) /\ batchOpen' = batchOpen \ due
  BY DEF LoopShutdown, Left, Shape, LoopShape, Retryable, Committed
<1>2. /\ pending' \in [Modes -> Seq(Stamps)] /\ Once(pending') /\ Elems(pending') \subseteq Elems(pending)
  <2>1. pending \in [Modes -> Seq(Stamps)] /\ Once(pending)
    BY DEF Shape, Typed, Places
  <2> HIDE DEF IInv
  <2>2. Elems(Taken(pending, due)) \cup Elems(Left(pending, due)) = Elems(pending)
    BY <2>1, OnceDivided
  <2> QED BY <1>1, <2>1, <2>2, OnceDivided
<1>3. Shape'
  <2>1. Typed'
    BY <1>1, <1>2 DEF Shape, Typed, serverVars
  <2>2. LoopShape'
    BY <1>1 DEF LoopShape, Resting
  <2>3. Places'
    BY <1>1, <1>2 DEF Shape, Places
  <2> QED BY <2>1, <2>2, <2>3 DEF Shape
<1>4. Waiting' \subseteq Waiting /\ Anchored' = Anchored
  BY <1>1, <1>2 DEF Waiting, Begun, Anchored
<1>5. RowsFollow' /\ ProofsAnchored' /\ EventBacked' /\ CurrentRow'
  BY <1>1, <1>4 DEF RowsFollow, Fresh, ProofsAnchored, EventBacked, GetStamp, CurrentRow,
                    Attested, MayFail, serverVars
<1>6. Counted'
  <2>1. Owed' \subseteq Owed /\ lost' = lost /\ \A r : Commitments(r)' = Commitments(r)
    BY <1>1, <1>2 DEF Owed, Commitments, Retryable
  <2> QED BY <2>1 DEF Counted
<1>7. Kept'
  BY <1>1 DEF Kept
<1> QED BY <1>3, <1>5, <1>6, <1>7

(* Nothing is queued, polled or in hand.                                   *)
LEMMA EmptyQueues ==
  ASSUME NEW q, \A m \in Modes : q[m] = <<>>
  PROVE  Elems(q) = {} /\ Once(q)
<1>1. \A m \in Modes : DOMAIN q[m] = {}
  OBVIOUS
<1>2. Elems(q) = {}
  BY <1>1, ElemsDef
<1>3. Once(q)
  BY <1>1 DEF Once
<1> QED BY <1>2, <1>3

(* A restart empties the memory; the table and the chain stay.             *)
LEMMA RestartIInv ==
  ASSUME IInv, Restart
  PROVE  IInv'
<1> USE DEF IInv
<1>1. /\ UNCHANGED <<db, chain, lost, lastEvent, world>>
      /\ restarts' = restarts + 1 /\ restarts \in Nat
      /\ pending' = [m \in Modes |-> <<>>] /\ ready' = [m \in Modes |-> <<>>]
      /\ batchOpen' = {} /\ pc' = "idle" /\ batch' = NoBatch
      /\ request' = [s \in Stamps |->
                       IF request[s] \in {"saved", "full"} THEN "broken" ELSE request[s]]
  BY DEF Restart, Shape, Typed
<1>2. /\ Elems(pending') = {} /\ Once(pending') /\ Elems(ready') = {} /\ Once(ready')
      /\ Hand(batch') = {} /\ IsInjective(batch'.stamps) /\ batch' \in Batches
  BY <1>1, EmptyQueues, NothingInHand
<1>3. Shape'
  <2>1. /\ request' \in [Stamps -> Answers] /\ restarts' \in Nat /\ batchOpen' \subseteq Modes
        /\ pending' \in [Modes -> Seq(Stamps)] /\ ready' \in [Modes -> Seq(Stamps)]
    BY <1>1 DEF Shape, Typed, Answers
  <2>2. /\ db \in [Stamps -> Rows] /\ chain \in Seq(Seq(Stamps)) /\ lost \in Nat
        /\ lastEvent \in [Stamps -> {"none", "batched", "confirmed"}] /\ world \in Worlds
    BY DEF Shape, Typed
  <2> HIDE DEF IInv
  <2>3. Typed'
    BY <1>1, <1>2, <2>1, <2>2 DEF Typed
  <2>4. LoopShape'
    BY <1>1 DEF LoopShape, Resting
  <2>5. Places'
    BY <1>2 DEF Places
  <2> QED BY <2>3, <2>4, <2>5 DEF Shape
<1>4. Waiting' = {} /\ Owed' = {} /\ Anchored' = Anchored
  BY <1>1, <1>2 DEF Waiting, Owed, Retryable, Anchored
<1>5. \A s \in Stamps :
        /\ request'[s] \notin {"saved", "full"}
        /\ request'[s] = "new" => request[s] = "new"
        /\ request[s] = "accepted" => request'[s] = "accepted"
  BY <1>1
<1>6. RowsFollow'
  BY <1>1, <1>4, <1>5 DEF RowsFollow
<1>7. ProofsAnchored' /\ EventBacked' /\ CurrentRow'
  BY <1>1, <1>4 DEF ProofsAnchored, EventBacked, GetStamp, CurrentRow, Attested, MayFail
<1>8. Counted'
  BY <1>1, <1>4 DEF Counted, Commitments
<1>9. Kept'
  BY <1>1 DEF Kept
<1> QED BY <1>3, <1>6, <1>7, <1>8, <1>9

-----------------------------------------------------------------------------
(* The invariant holds *)

(* Every behaviour starts in it.                                           *)
LEMMA InitIInv == Init => IInv
<1> SUFFICES ASSUME Init PROVE IInv
  OBVIOUS
<1>1. /\ pending = [m \in Modes |-> <<>>] /\ ready = [m \in Modes |-> <<>>] /\ batchOpen = {}
      /\ db = [s \in Stamps |-> NoRow] /\ request = [s \in Stamps |-> "new"]
      /\ pc = "idle" /\ batch = NoBatch /\ chain = <<>> /\ lost = 0
      /\ lastEvent = [s \in Stamps |-> "none"] /\ restarts = 0 /\ world \in Worlds
  BY DEF Init, Q!Init
<1>2. /\ Elems(pending) = {} /\ Once(pending) /\ Elems(ready) = {} /\ Once(ready)
      /\ Hand(batch) = {} /\ IsInjective(batch.stamps) /\ batch \in Batches
  BY <1>1, EmptyQueues, NothingInHand
<1>3. Shape
  <2>1. Typed
    <3>1. db \in [Stamps -> Rows] /\ request \in [Stamps -> Answers]
      BY <1>1, RowTypes DEF Answers
    <3> QED BY <1>1, <1>2, <3>1 DEF Typed
  <2>2. LoopShape
    BY <1>1 DEF LoopShape, Resting
  <2>3. Places
    BY <1>2 DEF Places
  <2> QED BY <2>1, <2>2, <2>3 DEF Shape
<1>4. Waiting = {} /\ Owed = {} /\ Anchored = {} /\ \A s : Commitments(s) = {}
  BY <1>1, <1>2 DEF Waiting, Owed, Retryable, Anchored, Commitments
<1>5. RowsFollow /\ CurrentRow /\ Kept
  BY <1>1, <1>4 DEF RowsFollow, CurrentRow, Kept
<1>6. ProofsAnchored /\ EventBacked
  BY <1>1 DEF ProofsAnchored, EventBacked, Attested, NoRow, NoProof
<1>7. Counted
  <2>1. Cardinality({}) = 0
    BY FS_EmptySet
  <2>2. \A s : Cardinality(Commitments(s)) = 0
    BY <1>4, <2>1
  <2> QED BY <1>1, <1>4, <2>2 DEF Counted
<1> QED BY <1>3, <1>5, <1>6, <1>7 DEF IInv

(* Every step keeps it.                                                    *)
LEMMA NextIInv == IInv /\ [Next]_vars => IInv'
<1> SUFFICES ASSUME IInv, [Next]_vars PROVE IInv'
  OBVIOUS
<1>1. ASSUME NEW s \in Stamps, Request(s) \/ DeleteOldStamp(s) PROVE IInv'
  BY <1>1, SaveStampIInv, EnqueueIInv, RefuseIInv, DeleteOldStampIInv DEF Request
<1>2. CASE Loop
  BY <1>2, PollIInv, StartBatchIInv, CommitIInv, IdleIInv, RequeueIInv, UpdateStatusIInv,
     UpdateProofIInv, NotifyIInv DEF Loop
<1>3. CASE Signal
  BY <1>3, IdleIInv
<1>4. ASSUME NEW due \in SUBSET Modes, LoopShutdown(due) PROVE IInv'
  BY <1>4, LoopShutdownIInv
<1>5. CASE Restart
  BY <1>5, RestartIInv
<1>6. CASE UNCHANGED vars
  BY <1>6 DEF IInv, Shape, Typed, LoopShape, Places, RowsFollow, Waiting, Begun, Current, Fresh,
     Anchored, CurrentRow, Attested, MayFail, ProofsAnchored, EventBacked, GetStamp, Counted,
     Commitments, Owed, Kept, vars, queueVars, loopVars, serverVars
<1> QED BY <1>1, <1>2, <1>3, <1>4, <1>5, <1>6 DEF Next

(* The inductive invariant holds in every state of every behaviour.        *)
THEOREM Inductive == Spec => []IInv
  BY InitIInv, NextIInv, PTL DEF Spec

(* A stamp is in one place at a time, and only accepted stamps are: two    *)
(* batches never hold it, whatever polls, retries and requests do.         *)
THEOREM OnePlaceHolds == Spec => []OnePlace
<1>1. IInv => OnePlace
  <2> SUFFICES ASSUME IInv PROVE OnePlace
    OBVIOUS
  <2>1. /\ Q!Queued = Elems(pending) /\ Q!InReady = Elems(ready) /\ InHand = Hand(batch)
    BY DEF Q!Queued, Q!InReady, Q!Range, Range, InHand, Elems, Hand
  <2>2. Places
    BY DEF IInv, Shape
  <2>3. ASSUME NEW q, Once(q)
        PROVE  /\ \A m \in Modes : IsInjective(q[m])
               /\ \A m, n \in Modes : m # n => Range(q[m]) \cap Range(q[n]) = {}
    BY <2>3 DEF Once, IsInjective, Range
  <2>4. /\ \A m \in Modes : IsInjective(pending[m]) /\ IsInjective(ready[m])
        /\ \A m, n \in Modes : m # n =>
             Range(pending[m]) \cap Range(pending[n]) = {} /\ Range(ready[m]) \cap Range(ready[n]) = {}
    BY <2>2, <2>3 DEF Places
  <2> QED BY <2>1, <2>2, <2>4 DEF OnePlace, Places, Held
<1> QED BY <1>1, Inductive, PTL

(* A stored attestation is true, and no stamp is called confirmed before   *)
(* a commitment covers it.                                                 *)
THEOREM ProofsAnchoredHolds == Spec => []ProofsAnchored
<1>1. IInv => ProofsAnchored
  BY DEF IInv
<1> QED BY <1>1, Inductive, PTL

(* A confirmation is broadcast only when the row carries the proof.        *)
THEOREM EventBackedHolds == Spec => []EventBacked
<1>1. IInv => EventBacked
  BY DEF IInv
<1> QED BY <1>1, Inductive, PTL

(* A stamp is committed once more than the commitments whose success the   *)
(* server did not see, at most.                                            *)
THEOREM CommitmentsBoundedHolds == Spec => []CommitmentsBounded
<1>1. IInv => CommitmentsBounded
  BY DEF IInv, Counted, Commitments, CommitmentsBounded
<1> QED BY <1>1, Inductive, PTL

(* While the process runs, an accepted stamp is held by some task, counted *)
(* as left out, or confirmed.                                              *)
THEOREM NoAcceptedStampLostHolds == Spec => []NoAcceptedStampLost
<1>1. IInv => NoAcceptedStampLost
  <2>1. Q!Queued = Elems(pending) /\ Q!InReady = Elems(ready) /\ InHand = Hand(batch)
    BY DEF Q!Queued, Q!InReady, Q!Range, Range, InHand, Elems, Hand
  <2> QED BY <2>1 DEF IInv, Kept, NoAcceptedStampLost, KeptOrCounted, Held
<1> QED BY <1>1, Inductive, PTL

-----------------------------------------------------------------------------
(* The calendar implements StampService *)

(* The refinement mapping, by name                                         *)
StatusMap == [s \in Stamps |-> IF db[s].status = "absent" THEN "unknown" ELSE db[s].status]
AttestationMap == [s \in Stamps |-> IF Attested(s) THEN db[s].proof ELSE NoProof]

(* One entry of a function is changed.                                     *)
LEMMA OneChanged ==
  ASSUME NEW f, NEW g, NEW s \in Stamps, NEW v,
         f = [r \in Stamps |-> f[r]], g = [r \in Stamps |-> g[r]],
         g[s] = v, \A r \in Stamps \ {s} : g[r] = f[r]
  PROVE  g = [f EXCEPT ![s] = v]
  OBVIOUS

(* Both maps are functions of the stamps, in the next state too.           *)
LEMMA Maps ==
  /\ StatusMap = [r \in Stamps |-> StatusMap[r]] /\ StatusMap' = [r \in Stamps |-> StatusMap'[r]]
  /\ AttestationMap = [r \in Stamps |-> AttestationMap[r]]
  /\ AttestationMap' = [r \in Stamps |-> AttestationMap'[r]]
  /\ \A r \in Stamps : StatusMap[r] = IF db[r].status = "absent" THEN "unknown" ELSE db[r].status
  /\ \A r \in Stamps : StatusMap'[r] = IF db'[r].status = "absent" THEN "unknown" ELSE db'[r].status
  /\ \A r \in Stamps : AttestationMap[r] = IF db[r].proof.kind = "kaspa" THEN db[r].proof ELSE NoProof
  /\ \A r \in Stamps : AttestationMap'[r] = IF db'[r].proof.kind = "kaspa" THEN db'[r].proof ELSE NoProof
  BY DEF StatusMap, AttestationMap, Attested

(* A step that changes neither the rows nor what is anchored is a stutter. *)
LEMMA Stutters ==
  ASSUME db' = db, Anchored' = Anchored
  PROVE  UNCHANGED Service!serviceVars
  BY DEF Service!serviceVars, Attested

(* submit_stamp's row is a submission of the service.                      *)
LEMMA SaveStampRefines ==
  ASSUME IInv, NEW s \in Stamps, SaveStamp(s)
  PROVE  Service!Submit(s) \/ UNCHANGED Service!serviceVars
<1>1. request[s] = "new" /\ chain' = chain
  BY DEF SaveStamp
<1>2. db[s] = NoRow /\ s \notin Anchored /\ Anchored' = Anchored /\ db \in [Stamps -> Rows]
  BY <1>1 DEF IInv, Shape, Typed, RowsFollow, Anchored
<1>3. CASE db' = [db EXCEPT ![s] = [status |-> "pending", proof |-> PendingProof]]
  <2>1. /\ db'[s].status = "pending" /\ ~Attested(s)' /\ ~Attested(s)
        /\ \A r \in Stamps \ {s} : db'[r] = db[r]
    BY <1>2, <1>3 DEF Attested, PendingProof, NoRow, NoProof
  <2>2. StatusMap[s] = "unknown" /\ StatusMap' = [StatusMap EXCEPT ![s] = "pending"]
    <3>1. StatusMap[s] = "unknown" /\ StatusMap'[s] = "pending" /\ \A r \in Stamps \ {s} : StatusMap'[r] = StatusMap[r]
      BY <1>2, <2>1, Maps DEF NoRow
    <3> QED BY <3>1, Maps, OneChanged
  <2>3. AttestationMap' = AttestationMap
    BY <2>1 DEF AttestationMap, Attested
  <2> QED BY <1>2, <2>2, <2>3 DEF Service!Submit, StatusMap, AttestationMap
<1>4. CASE db' = db
  BY <1>2, <1>4, Stutters
<1> QED BY <1>3, <1>4 DEF SaveStamp

(* A submission turned away leaves no trace, or is left as it is.          *)
LEMMA RefuseRefines ==
  ASSUME IInv, NEW s \in Stamps, Refuse(s)
  PROVE  Service!Refuse(s) \/ UNCHANGED Service!serviceVars
<1>1. request[s] = "full" /\ chain' = chain
  BY DEF Refuse
<1>2. Fresh(s) /\ s \notin Anchored /\ Anchored' = Anchored /\ db \in [Stamps -> Rows]
  BY <1>1 DEF IInv, Shape, Typed, RowsFollow, Anchored
<1>3. CASE db' = [db EXCEPT ![s] = NoRow]
  <2>1. /\ db'[s].status = "absent" /\ ~Attested(s)' /\ ~Attested(s)
        /\ \A r \in Stamps \ {s} : db'[r] = db[r]
    BY <1>2, <1>3 DEF Attested, Fresh, PendingProof, NoRow, NoProof
  <2>2. StatusMap[s] = "pending" /\ StatusMap' = [StatusMap EXCEPT ![s] = "unknown"]
    <3>1. StatusMap[s] = "pending" /\ StatusMap'[s] = "unknown" /\ \A r \in Stamps \ {s} : StatusMap'[r] = StatusMap[r]
      BY <1>2, <2>1, Maps DEF Fresh
    <3> QED BY <3>1, Maps, OneChanged
  <2>3. AttestationMap' = AttestationMap
    BY <2>1 DEF AttestationMap, Attested
  <2> QED BY <1>2, <2>2, <2>3 DEF Service!Refuse, StatusMap, AttestationMap
<1>4. CASE db' = db
  BY <1>2, <1>4, Stutters
<1> QED BY <1>3, <1>4 DEF Refuse

(* A commitment covers a batch of stamps that are all still pending.       *)
LEMMA CommitRefines ==
  ASSUME IInv, SubmitOk \/ SubmitLost
  PROVE  \E b \in SUBSET Stamps : Service!Anchor(b)
<1>1. pc = "submit" /\ chain' = Append(chain, batch.stamps) /\ db' = db
  BY DEF SubmitOk, SubmitLost
<1>2. /\ batch.i = 1 /\ batch.i \in DOMAIN batch.stamps /\ batch.stamps \in Seq(Stamps)
      /\ Hand(batch) \subseteq Stamps
  BY <1>1, HeldStamps DEF IInv, Shape, Typed, LoopShape, Batches, Resting
<1>3. Range(batch.stamps) = Hand(batch) /\ Current \in Hand(batch)
  BY <1>2 DEF Range, Hand, Current
<1>4. \A s \in Hand(batch) : Fresh(s)
  BY <1>1, <1>2 DEF IInv, RowsFollow, Waiting, Begun
<1>5. Anchored' = Anchored \cup Hand(batch)
  BY <1>1, <1>2, <1>3, ChainGrows DEF IInv, Shape
<1>6. \A s \in Hand(batch) : StatusMap[s] = "pending" /\ AttestationMap[s] = NoProof
  BY <1>2, <1>4 DEF StatusMap, AttestationMap, Fresh, Attested, PendingProof
<1>7. StatusMap' = StatusMap /\ AttestationMap' = AttestationMap
  BY <1>1 DEF StatusMap, AttestationMap, Attested
<1>8. Service!Anchor(Hand(batch))
  BY <1>3, <1>5, <1>6, <1>7 DEF Service!Anchor, StatusMap, AttestationMap
<1> QED BY <1>2, <1>8

(* The status is changed once the stamp is covered.                        *)
LEMMA UpdateStatusRefines ==
  ASSUME IInv, UpdateStatus
  PROVE  \/ \E s \in Stamps : Service!Confirm(s)
         \/ UNCHANGED Service!serviceVars
<1>1. pc = "status" /\ chain' = chain
  BY DEF UpdateStatus
<1>2. /\ Current \in Hand(batch) /\ Current \in Stamps
      /\ batch.i \in DOMAIN batch.stamps
      /\ batch.tx \in DOMAIN chain /\ chain[batch.tx] = batch.stamps
  BY <1>1, CurrentInHand DEF IInv, Shape, LoopShape, Committed, Resting
<1>3. /\ Fresh(Current) /\ Current \in Anchored /\ Anchored' = Anchored
      /\ db \in [Stamps -> Rows]
  <2>1. Fresh(Current)
    BY <1>1, <1>2 DEF IInv, RowsFollow, Waiting, Begun
  <2>2. Current \in Range(chain[batch.tx])
    BY <1>2 DEF Range, Current
  <2> QED BY <1>1, <1>2, <2>1, <2>2 DEF IInv, Shape, Typed, Anchored
<1>4. CASE db' = [db EXCEPT ![Current].status = "confirmed"]
  <2>5. PICK s \in Stamps : s = Current
    BY <1>2
  <2>1. /\ db'[s].status = "confirmed" /\ db'[s].proof = db[s].proof
        /\ \A r \in Stamps \ {s} : db'[r] = db[r]
    BY <1>3, <1>4, <2>5 DEF Rows
  <2>2. StatusMap[s] = "pending" /\ StatusMap' = [StatusMap EXCEPT ![s] = "confirmed"]
    <3>1. StatusMap[s] = "pending" /\ StatusMap'[s] = "confirmed" /\ \A r \in Stamps \ {s} : StatusMap'[r] = StatusMap[r]
      BY <1>3, <2>5, <2>1, Maps DEF Fresh
    <3> QED BY <3>1, Maps, OneChanged
  <2>3. AttestationMap' = AttestationMap
    <3>1. \A r \in Stamps : db'[r].proof = db[r].proof
      BY <2>1
    <3> QED BY <3>1 DEF AttestationMap, Attested
  <2>4. Service!Confirm(s)
    BY <1>3, <2>5, <2>2, <2>3 DEF Service!Confirm, StatusMap, AttestationMap
  <2> QED BY <2>4
<1>5. CASE db' = db
  BY <1>3, <1>5, Stutters
<1>6. \/ db' = [db EXCEPT ![Current].status = "confirmed"]
      \/ db' = db
  BY <1>3 DEF UpdateStatus, Fresh
<1> QED BY <1>4, <1>5, <1>6

(* The attestation is given once, to a stamp that is covered.              *)
LEMMA UpdateProofRefines ==
  ASSUME IInv, UpdateProof
  PROVE  \/ \E s \in Stamps : Service!Attest(s)
         \/ UNCHANGED Service!serviceVars
<1>1. pc = "proof" /\ chain' = chain
  BY DEF UpdateProof
<1>2. /\ Current \in Stamps /\ batch.i \in DOMAIN batch.stamps
      /\ batch.tx \in DOMAIN chain /\ chain[batch.tx] = batch.stamps
  BY <1>1, CurrentInHand DEF IInv, Shape, LoopShape, Committed, Resting
<1>3. /\ db[Current].status # "absent" /\ ~Attested(Current)
      /\ Current \in Anchored /\ Anchored' = Anchored /\ db \in [Stamps -> Rows]
  <2>1. Current \in Range(chain[batch.tx])
    BY <1>2 DEF Range, Current
  <2> QED BY <1>1, <1>2, <2>1 DEF IInv, Shape, Typed, CurrentRow, Anchored
<1>4. CASE db' = [db EXCEPT ![Current].proof = ProofOfCurrent]
  <2>5. PICK s \in Stamps : s = Current
    BY <1>2
  <2>1. /\ db'[s].proof.kind = "kaspa" /\ db'[s].status = db[s].status
        /\ \A r \in Stamps \ {s} : db'[r] = db[r]
    BY <1>3, <1>4, <2>5 DEF Rows, ProofOfCurrent, KaspaProof
  <2>2. StatusMap[s] # "unknown" /\ StatusMap' = StatusMap
    <3>1. \A r \in Stamps : db'[r].status = db[r].status
      BY <2>1
    <3>2. db[s].status # "unknown"
      BY <1>3, <2>5 DEF Rows
    <3> QED BY <1>3, <2>5, <3>1, <3>2 DEF StatusMap
  <2>3. /\ AttestationMap[s] = NoProof /\ AttestationMap'[s] # NoProof
        /\ AttestationMap' = [AttestationMap EXCEPT ![s] = AttestationMap'[s]]
    <3>1. AttestationMap[s] = NoProof /\ AttestationMap'[s] # NoProof
      BY <1>3, <2>5, <2>1, Maps DEF Attested, NoProof
    <3>2. \A r \in Stamps \ {s} : AttestationMap'[r] = AttestationMap[r]
      BY <2>1, Maps
    <3> QED BY <3>1, <3>2, Maps, OneChanged
  <2>4. Service!Attest(s)
    BY <1>3, <2>5, <2>2, <2>3 DEF Service!Attest, StatusMap, AttestationMap
  <2> QED BY <2>4
<1>5. CASE db' = db
  BY <1>3, <1>5, Stutters
<1>6. \/ db' = [db EXCEPT ![Current].proof = ProofOfCurrent]
      \/ db' = db
  BY <1>3 DEF UpdateProof
<1> QED BY <1>4, <1>5, <1>6

(* A row that is deleted expires.                                          *)
LEMMA DeleteOldStampRefines ==
  ASSUME IInv, NEW s \in Stamps, DeleteOldStamp(s)
  PROVE  Service!Expire(s)
<1>1. /\ db[s].status = "confirmed" /\ db' = [db EXCEPT ![s] = NoRow] /\ Anchored' = Anchored
      /\ db \in [Stamps -> Rows]
  BY DEF DeleteOldStamp, IInv, Shape, Typed, Anchored
<1>2. /\ db'[s] = NoRow /\ \A r \in Stamps \ {s} : db'[r] = db[r]
  BY <1>1
<1>3. StatusMap[s] = "confirmed" /\ StatusMap' = [StatusMap EXCEPT ![s] = "unknown"]
  BY <1>1, <1>2 DEF StatusMap, NoRow
<1>4. AttestationMap' = [AttestationMap EXCEPT ![s] = NoProof]
  <2>1. AttestationMap'[s] = NoProof /\ \A r \in Stamps \ {s} : AttestationMap'[r] = AttestationMap[r]
    BY <1>2, Maps DEF NoRow, NoProof
  <2> QED BY <2>1, Maps, OneChanged
<1> QED BY <1>1, <1>3, <1>4 DEF Service!Expire, StatusMap, AttestationMap

(* What a client has been given stays true: every behaviour of the         *)
(* calendar, with every fault it may meet, is one the service allows.      *)
THEOREM ImplementsServiceHolds == Spec => ImplementsService
<1>1. Init => Service!Init
  <2> SUFFICES ASSUME Init PROVE Service!Init
    OBVIOUS
  <2>1. db = [s \in Stamps |-> NoRow] /\ chain = <<>>
    BY DEF Init
  <2>2. Anchored = {}
    BY <2>1 DEF Anchored
  <2>3. \A s \in Stamps : ~Attested(s) /\ db[s].status = "absent"
    BY <2>1 DEF Attested, NoRow, NoProof
  <2> QED BY <2>2, <2>3 DEF Service!Init
<1>2. IInv /\ [Next]_vars => [Service!Next]_(Service!serviceVars)
  <2> SUFFICES ASSUME IInv, [Next]_vars
               PROVE  Service!Next \/ UNCHANGED Service!serviceVars
    OBVIOUS
  <2>1. ASSUME NEW s \in Stamps, Request(s) \/ DeleteOldStamp(s)
        PROVE  Service!Next \/ UNCHANGED Service!serviceVars
    <3>1. CASE SaveStamp(s)
      BY <3>1, SaveStampRefines DEF Service!Next
    <3>2. CASE Enqueue(s)
      BY <3>2, Stutters DEF Enqueue, Anchored
    <3>3. CASE Refuse(s)
      BY <3>3, RefuseRefines DEF Service!Next
    <3>4. CASE DeleteOldStamp(s)
      BY <3>4, DeleteOldStampRefines DEF Service!Next
    <3> QED BY <2>1, <3>1, <3>2, <3>3, <3>4 DEF Request
  <2>2. CASE SubmitOk \/ SubmitLost
    BY <2>2, CommitRefines DEF Service!Next
  <2>3. CASE UpdateStatus
    BY <2>3, UpdateStatusRefines DEF Service!Next
  <2>4. CASE UpdateProof
    BY <2>4, UpdateProofRefines DEF Service!Next
  <2>5. CASE db' = db /\ chain' = chain
    BY <2>5, Stutters DEF Anchored
  <2>6. CASE \/ \E due \in SUBSET Modes : Poll(due) \/ LoopShutdown(due)
             \/ \E m \in Modes : StartBatch(m)
             \/ SubmitFails \/ Requeue \/ Wake \/ Notify \/ Signal \/ Restart \/ UNCHANGED vars
    <3>1. db' = db /\ chain' = chain
      BY <2>6 DEF Poll, LoopShutdown, StartBatch, SubmitFails, Requeue, Wake, Notify, Signal, Restart, vars
    <3> QED BY <2>5, <3>1
  <2> QED BY <2>1, <2>2, <2>3, <2>4, <2>6 DEF Next, Loop
<1> QED BY <1>1, <1>2, Inductive, PTL DEF Spec, ImplementsService, Service!Spec

=============================================================================
