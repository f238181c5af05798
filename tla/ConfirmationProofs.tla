-------------------------- MODULE ConfirmationProofs -------------------------
(***************************************************************************)
(* Proofs about module Confirmation, for a DAG of any size and shape.      *)
(***************************************************************************)
EXTENDS Confirmation, TLAPS

(* A block is younger than its parents. *)
Ordered ==
  /\ count \in Nat \ {0} /\ count <= MaxBlocks
  /\ parents \in [Blocks -> SUBSET Blocks]
  /\ \A b \in Blocks : parents[b] \subseteq Mined
  /\ holders \subseteq Mined
  /\ todo \subseteq Mined /\ ups \subseteq Mined /\ checked \subseteq Mined /\ offered \subseteq Mined
  /\ tip \in Mined \cup {None}
  /\ pc = "second" => found \in Mined

HasChild(b) == \E c \in Mined : b \in parents[c]

(* The block that the browser is about to fetch again, and what hangs on   *)
(* it                                                                      *)
Pending ==
  IF pc = "second" THEN {found} \cup (IF tip = None THEN parents[found] ELSE {}) ELSE {}

(* Where the search stands between two steps *)
Position ==
  /\ tip = None => ups = {}
  /\ tip # None => ups \subseteq parents[tip]
  /\ pc \in {"head", "dag", "sleep"} => tip = None /\ todo = {}
  /\ \A t, u \in todo : t \notin parents[u]
  /\ todo \cap ups = {}

(* A block that is checked does not hold the transaction, or was passed    *)
(* over.                                                                   *)
CheckedClear == checked \cap holders \subseteq missed \cup Pending

(* What was offered is still to look at, or clear. *)
OfferedAhead ==
  \A b \in offered \cap holders :
    b \in missed \cup Pending \cup todo \cup ups \/ \E t \in todo : b \in parents[t]

(* Of a block checked as a tip the parents are clear but for those still   *)
(* to look at; a block checked as a parent will not be offered as a tip.   *)
CheckedParents ==
  \A t \in checked : HasChild(t) \/
    parents[t] \cap holders \subseteq missed \cup Pending \cup (IF t = tip THEN ups ELSE {})

(* A tip offered again has been dealt with in an earlier poll. *)
KnownTips == \A t \in todo \cap checked : parents[t] \cap holders \subseteq missed

Searching == Position /\ CheckedClear /\ OfferedAhead /\ CheckedParents /\ KnownTips

IInv == Ordered /\ (pc # "done" => Searching)

-----------------------------------------------------------------------------

(* Initially nothing is mined but the first block, and nothing looked at.  *)
LEMMA InitIInv == Init => IInv
<1> SUFFICES ASSUME Init PROVE IInv
  OBVIOUS
<1> USE ConfirmationAssumption DEF Init
<1>1. Ordered
  BY DEF Ordered, Mined, Blocks, None
<1>2. Searching
  BY DEF Searching, Position, CheckedClear, OfferedAhead, CheckedParents, KnownTips, Pending
<1> QED
  BY <1>1, <1>2 DEF IInv

(* A new block is nobody's parent and was not offered.                     *)
LEMMA MineIInv ==
  ASSUME IInv, NEW ps \in SUBSET Mined, NEW brings \in BOOLEAN, NEW future \in BOOLEAN,
         Mine(ps, brings, future)
  PROVE  IInv'
<1> USE ConfirmationAssumption DEF IInv
<1> DEFINE b == count + 1
<1>1. /\ count \in Nat \ {0} /\ count < MaxBlocks /\ count' = b
      /\ parents' = [parents EXCEPT ![b] = ps]
      /\ holders' \subseteq holders \cup {b}
      /\ UNCHANGED <<client, late, scan, verdict>>
  BY DEF Mine, Ordered
<1>2. b \in Blocks /\ b \notin Mined /\ Mined' = Mined \cup {b} /\ Mined \subseteq Blocks
  BY <1>1 DEF Mined, Blocks
<1>3. /\ parents' \in [Blocks -> SUBSET Blocks] /\ parents'[b] = ps
      /\ \A c \in Mined : parents'[c] = parents[c]
  BY <1>1, <1>2 DEF Ordered
<1>4. Ordered'
  <2>1. \A c \in Blocks : parents'[c] \subseteq Mined'
    BY <1>1, <1>2, <1>3 DEF Ordered
  <2>2. holders' \subseteq Mined' /\ count' \in Nat \ {0} /\ count' <= MaxBlocks
    BY <1>1, <1>2 DEF Ordered
  <2>3. /\ todo' \subseteq Mined' /\ ups' \subseteq Mined' /\ checked' \subseteq Mined'
        /\ offered' \subseteq Mined' /\ tip' \in Mined' \cup {None}
        /\ pc' = "second" => found' \in Mined'
    BY <1>1, <1>2 DEF Ordered, scan
  <2> QED
    BY <1>3, <2>1, <2>2, <2>3 DEF Ordered, Blocks
<1>5. ASSUME pc # "done" PROVE Searching'
  <2>0. Searching /\ Ordered
    BY <1>5
  <2>1. /\ todo \subseteq Mined /\ ups \subseteq Mined /\ checked \subseteq Mined
        /\ offered \subseteq Mined /\ tip \in Mined \cup {None}
        /\ pc = "second" => found \in Mined
    BY <2>0 DEF Ordered
  <2>2. UNCHANGED <<pc, todo, tip, ups, found, checked, offered, missed>>
    BY <1>1 DEF scan
  <2>3. Pending' = Pending
    BY <1>3, <2>1, <2>2 DEF Pending
  <2>4. /\ checked \cap holders' = checked \cap holders
        /\ offered \cap holders' = offered \cap holders
    BY <1>1, <1>2, <2>1 DEF Mine
  <2>5. \A t \in Mined : parents'[t] = parents[t] /\ parents[t] \cap holders' = parents[t] \cap holders
    <3>1. \A t \in Mined : parents[t] \subseteq Mined
      BY <2>0, <1>2 DEF Ordered
    <3> QED
      BY <3>1, <1>1, <1>2, <1>3 DEF Mine
  <2>6. \A t \in Mined : HasChild(t) => HasChild(t)'
    BY <1>2, <1>3 DEF HasChild
  <2>7. Position'
    BY <2>0, <2>1, <2>2, <1>3 DEF Searching, Position, None
  <2>8. CheckedClear'
    BY <2>0, <2>2, <2>3, <2>4 DEF Searching, CheckedClear
  <2>9. OfferedAhead'
    <3>1. \A t \in todo : parents'[t] = parents[t]
      BY <1>3, <2>1
    <3> QED
      BY <3>1, <2>0, <2>2, <2>3, <2>4 DEF Searching, OfferedAhead
  <2>10. CheckedParents'
    <3> SUFFICES ASSUME NEW t \in checked, ~HasChild(t)'
                 PROVE  parents'[t] \cap holders' \subseteq
                          missed \cup Pending \cup (IF t = tip THEN ups ELSE {})
      BY <2>2, <2>3 DEF CheckedParents
    <3>1. t \in Mined /\ ~HasChild(t)
      BY <2>1, <2>6
    <3> QED
      BY <3>1, <2>0, <2>5 DEF Searching, CheckedParents
  <2>11. KnownTips'
    BY <2>0, <2>1, <2>2, <2>5 DEF Searching, KnownTips
  <2> QED
    BY <2>7, <2>8, <2>9, <2>10, <2>11 DEF Searching
<1> QED
  BY <1>1, <1>4, <1>5 DEF scan

(* The blocks mined are among those the bound allows.                      *)
LEMMA MinedAreBlocks == Ordered => Mined \subseteq Blocks
BY ConfirmationAssumption DEF Ordered, Mined, Blocks

(* While the DAG stays as it is, its order does, and who has a child.      *)
LEMMA DagStays ==
  ASSUME UNCHANGED dag
  PROVE  /\ UNCHANGED <<count, parents, past, holders, ahead>>
         /\ Mined' = Mined
         /\ \A t \in Mined : HasChild(t)' = HasChild(t)
BY DEF dag, Mined, HasChild

(* A new poll starts with tips, none of which is a parent of another; what *)
(* was offered before is clear.                                            *)
LEMMA ReadTipsIInv ==
  ASSUME IInv, NEW tips \in VirtualParents, ReadTips(tips)
  PROVE  IInv'
<1> USE DEF IInv
<1>1. /\ pc = "dag" /\ pc' = "scan" /\ todo' = tips
      /\ offered' = offered \cup tips \cup UNION {parents[t] : t \in tips}
      /\ UNCHANGED <<dag, tip, ups, found, checked, missed>>
  BY DEF ReadTips
<1>2. Ordered /\ Searching
  BY <1>1
<1>3. tips \subseteq Mined /\ \A t \in tips : ~HasChild(t)
  BY DEF VirtualParents, Tips, HasChild
<1>4. /\ Mined' = Mined /\ parents' = parents /\ holders' = holders
      /\ \A t \in Mined : HasChild(t)' = HasChild(t)
  BY <1>1, DagStays
<1>5. tip = None /\ todo = {} /\ ups = {} /\ Pending = {} /\ Pending' = {}
  BY <1>1, <1>2 DEF Searching, Position, Pending
<1>6. Ordered'
  <2>1. UNION {parents[t] : t \in tips} \subseteq Mined
    BY <1>2, <1>3, MinedAreBlocks DEF Ordered
  <2> QED
    BY <1>1, <1>2, <1>3, <1>4, <2>1, DagStays DEF Ordered
<1>7. Position'
  <2>1. \A t, u \in tips : t \notin parents[u]
    BY <1>3 DEF HasChild
  <2> QED
    BY <1>1, <1>4, <1>5, <2>1 DEF Position
<1>8. CheckedClear'
  BY <1>1, <1>2, <1>4, <1>5 DEF Searching, CheckedClear
<1>9. OfferedAhead'
  BY <1>1, <1>2, <1>4, <1>5 DEF Searching, OfferedAhead
<1>10. CheckedParents'
  <2> SUFFICES ASSUME NEW t \in checked, ~HasChild(t)
               PROVE  parents[t] \cap holders \subseteq missed
    BY <1>1, <1>2, <1>4, <1>5 DEF CheckedParents, Ordered
  <2> QED
    BY <1>2, <1>5 DEF Searching, CheckedParents
<1>11. KnownTips'
  BY <1>1, <1>2, <1>3, <1>4, <1>5 DEF Searching, KnownTips, CheckedParents
<1> QED
  BY <1>6, <1>7, <1>8, <1>9, <1>10, <1>11 DEF Searching

(* A tip in hand: nothing is left of the tip before.                       *)
LEMMA FetchTipIInv ==
  ASSUME IInv, NEW t \in Blocks, FetchTip(t) \/ FetchTipFails(t)
  PROVE  IInv'
<1> USE DEF IInv
<1>1. /\ pc = "scan" /\ ups \ checked = {}
      /\ t \in todo \ checked /\ todo' = todo \ {t}
      /\ checked' \subseteq checked \cup {t} /\ checked \subseteq checked'
      /\ UNCHANGED <<dag, offered>>
  BY DEF FetchTip, Carries, FetchTipFails, Mark
<1>2. Ordered /\ Searching
  BY <1>1
<1>3. /\ Mined' = Mined /\ parents' = parents /\ holders' = holders
      /\ count' = count /\ \A c \in Mined : HasChild(c)' = HasChild(c)
  BY <1>1, DagStays
<1>4. /\ t \in Mined /\ parents[t] \subseteq Mined /\ Mined \subseteq Blocks
      /\ Pending = {} /\ checked \cap holders \subseteq missed /\ ups \cap holders \subseteq missed
  BY <1>1, <1>2, MinedAreBlocks DEF Ordered, Searching, CheckedClear, Pending
<1>5. \A u \in todo' : t \notin parents[u] /\ u \notin parents[t] /\ u # t
  BY <1>1, <1>2 DEF Searching, Position
<1>6. CASE FetchTipFails(t)
  <2>1. missed' = missed \cup {t} \cup parents[t] /\ UNCHANGED <<pc, tip, ups, found, checked>>
    BY <1>6 DEF FetchTipFails
  <2>2. Ordered'
    BY <1>1, <1>2, <1>3, <2>1 DEF Ordered
  <2>3. Pending' = {}
    BY <1>1, <2>1 DEF Pending
  <2>4. Position'
    BY <1>1, <1>2, <1>3, <2>1 DEF Searching, Position
  <2>5. CheckedClear' /\ CheckedParents'
    BY <1>2, <1>3, <1>4, <2>1, <2>3 DEF Searching, CheckedClear, CheckedParents, Ordered
  <2>6. OfferedAhead' /\ KnownTips'
    BY <1>1, <1>2, <1>3, <1>4, <2>1, <2>3 DEF Searching, OfferedAhead, KnownTips
  <2> QED
    BY <2>2, <2>4, <2>5, <2>6 DEF Searching
<1>7. CASE FetchTip(t)
  <2>1. /\ checked' = checked \cup {t}
        /\ \/ /\ t \notin holders /\ ups' = parents[t] /\ tip' = t
              /\ UNCHANGED <<pc, found, missed>>
           \/ /\ ups' = {} /\ tip' = None /\ pc' = "scan" /\ UNCHANGED found
              /\ missed' = missed \cup {t} \cup parents[t]
           \/ /\ ups' = {} /\ tip' = None /\ pc' = "second" /\ found' = t /\ UNCHANGED missed
           \/ /\ ups' = {} /\ tip' = None /\ pc' = "done"
    BY <1>1, <1>7 DEF FetchTip, Carries, Mark, Hit, ResultBlock
  <2>2. Ordered'
    BY <1>1, <1>2, <1>3, <1>4, <2>1 DEF Ordered
  <2>3. ASSUME pc' # "done" PROVE Searching'
    <3>1. /\ missed \subseteq missed'
          /\ t \in holders => t \in missed' \cup Pending'
          /\ parents[t] \subseteq missed' \cup Pending' \cup ups'
          /\ tip' # None => tip' = t /\ ups' = parents[t]
          /\ tip' = None => ups' = {} /\ parents[t] \subseteq missed' \cup Pending'
      BY <1>1, <1>3, <1>4, <2>1, <2>3 DEF Pending, None, Mined
    <3>2. Position'
      <4>1. \A c, u \in todo' : c \notin parents[u]
        BY <1>1, <1>2 DEF Searching, Position
      <4>2. todo' \cap ups' = {}
        BY <1>5, <3>1
      <4>3. pc' \in {"scan", "second"}
        BY <1>1, <2>1, <2>3
      <4> QED
        BY <1>3, <3>1, <4>1, <4>2, <4>3 DEF Position
    <3>3. CheckedClear'
      BY <1>3, <1>4, <2>1, <3>1 DEF CheckedClear
    <3>4. OfferedAhead'
      <4> SUFFICES ASSUME NEW c \in offered \cap holders,
                          c \notin missed' \cup Pending' \cup ups', c \notin todo'
                   PROVE  \E u \in todo' : c \in parents[u]
        BY <1>1, <1>3 DEF OfferedAhead
      <4>1. c \notin missed /\ c \notin ups /\ c # t /\ c \notin parents[t]
        BY <1>4, <3>1
      <4>2. c \in todo \/ \E u \in todo : c \in parents[u]
        BY <1>1, <1>2, <1>4, <4>1 DEF Searching, OfferedAhead
      <4> QED
        BY <1>1, <4>1, <4>2
    <3>5. CheckedParents'
      <4> SUFFICES ASSUME NEW c \in checked', ~HasChild(c)'
                   PROVE  parents[c] \cap holders \subseteq
                            missed' \cup Pending' \cup (IF c = tip' THEN ups' ELSE {})
        BY <1>3 DEF CheckedParents
      <4>1. CASE c = t
        BY <3>1, <4>1 DEF None
      <4>2. CASE c # t
        <5>1. c \in checked /\ ~HasChild(c)
          BY <1>2, <1>3, <2>1, <4>2 DEF Ordered
        <5>2. parents[c] \cap holders \subseteq missed
          BY <1>2, <1>4, <5>1 DEF Searching, CheckedParents
        <5> QED
          BY <3>1, <5>2
      <4> QED
        BY <4>1, <4>2
    <3>6. KnownTips'
      BY <1>1, <1>2, <1>3, <2>1, <3>1 DEF Searching, KnownTips
    <3> QED
      BY <3>2, <3>3, <3>4, <3>5, <3>6 DEF Searching
  <2> QED
    BY <2>2, <2>3
<1> QED
  BY <1>6, <1>7

(* A parent in hand: it has a child, the tip.                              *)
LEMMA FetchParentIInv ==
  ASSUME IInv, NEW p \in Blocks, FetchParent(p) \/ FetchParentFails(p)
  PROVE  IInv'
<1> USE DEF IInv
<1>1. /\ pc = "scan" /\ p \in ups \ checked /\ ups' = ups \ {p}
      /\ UNCHANGED <<dag, todo, tip, offered>>
      /\ checked' \subseteq checked \cup {p}
      /\ \/ checked' = checked /\ missed' = missed \cup {p} /\ pc' = "scan" /\ UNCHANGED found
         \/ /\ p \notin holders /\ missed' = missed /\ pc' = "scan" /\ UNCHANGED found
         \/ /\ missed' = missed /\ pc' = "second" /\ found' = p
         \/ pc' = "done" /\ UNCHANGED found
  BY DEF FetchParent, Carries, FetchParentFails, Mark, Hit, ResultBlock
<1>2. Ordered /\ Searching
  BY <1>1
<1>3. /\ Mined' = Mined /\ parents' = parents /\ holders' = holders
      /\ count' = count /\ \A c \in Mined : HasChild(c)' = HasChild(c)
  BY <1>1, DagStays
<1>4. /\ tip \in Mined /\ tip # None /\ p \in parents[tip] /\ p \in Mined /\ Pending = {}
      /\ HasChild(p) /\ p \notin todo
  BY <1>1, <1>2 DEF Ordered, Searching, Position, Pending, HasChild
<1>5. Ordered'
  BY <1>1, <1>2, <1>3, <1>4 DEF Ordered
<1>6. ASSUME pc' # "done" PROVE Searching'
  <2>1. /\ missed \subseteq missed'
        /\ p \in holders => p \in missed' \cup Pending'
    BY <1>1, <1>4, <1>6 DEF Pending
  <2>2. Position'
    BY <1>1, <1>2, <1>3, <1>4, <1>6 DEF Searching, Position
  <2>3. CheckedClear'
    BY <1>1, <1>2, <1>3, <1>4, <2>1 DEF Searching, CheckedClear
  <2>4. OfferedAhead'
    BY <1>1, <1>2, <1>3, <1>4, <2>1 DEF Searching, OfferedAhead
  <2>5. CheckedParents'
    <3> SUFFICES ASSUME NEW c \in checked', ~HasChild(c)'
                 PROVE  parents[c] \cap holders \subseteq
                          missed' \cup Pending' \cup (IF c = tip THEN ups' ELSE {})
      BY <1>1, <1>3 DEF CheckedParents
    <3>1. c \in checked /\ ~HasChild(c)
      BY <1>1, <1>2, <1>3, <1>4 DEF Ordered
    <3>2. parents[c] \cap holders \subseteq missed \cup (IF c = tip THEN ups ELSE {})
      BY <1>2, <1>4, <3>1 DEF Searching, CheckedParents
    <3> QED
      BY <1>1, <2>1, <3>2
  <2>6. KnownTips'
    BY <1>1, <1>2, <1>3, <1>4, <2>1 DEF Searching, KnownTips
  <2> QED
    BY <2>2, <2>3, <2>4, <2>5, <2>6 DEF Searching
<1> QED
  BY <1>5, <1>6

(* The block that could not be fetched again is passed over.               *)
LEMMA FetchAgainFailsIInv ==
  ASSUME IInv, FetchAgainFails
  PROVE  IInv'
<1> USE DEF IInv
<1>1. /\ pc = "second" /\ pc' = "scan" /\ missed' = missed \cup Pending
      /\ UNCHANGED <<dag, todo, tip, ups, checked, offered>>
  BY DEF FetchAgainFails, Pending
<1>2. Ordered /\ Searching
  BY <1>1
<1>3. /\ Mined' = Mined /\ parents' = parents /\ holders' = holders
      /\ count' = count /\ \A c \in Mined : HasChild(c)' = HasChild(c)
  BY <1>1, DagStays
<1>4. Pending' = {}
  BY <1>1 DEF Pending
<1>5. Ordered'
  BY <1>1, <1>2, <1>3 DEF Ordered
<1>6. Position'
  BY <1>1, <1>2, <1>3 DEF Searching, Position
<1>7. CheckedClear' /\ OfferedAhead' /\ KnownTips'
  BY <1>1, <1>2, <1>3, <1>4 DEF Searching, CheckedClear, OfferedAhead, KnownTips
<1>8. CheckedParents'
  BY <1>1, <1>2, <1>3, <1>4 DEF Searching, CheckedParents, Ordered
<1> QED
  BY <1>5, <1>6, <1>7, <1>8 DEF Searching

(* At the end of a poll all that is left to look at has been checked.      *)
LEMMA SleepIInv ==
  ASSUME IInv, Sleep
  PROVE  IInv'
<1> USE DEF IInv
<1>1. /\ pc = "scan" /\ ups \ checked = {} /\ todo \ checked = {}
      /\ pc' = "sleep" /\ todo' = {} /\ ups' = {} /\ tip' = None
      /\ UNCHANGED <<dag, checked, offered, missed>>
  BY DEF Sleep
<1>2. Ordered /\ Searching
  BY <1>1
<1>3. /\ Mined' = Mined /\ parents' = parents /\ holders' = holders
      /\ count' = count /\ \A c \in Mined : HasChild(c)' = HasChild(c)
  BY <1>1, DagStays
<1>4. /\ Pending = {} /\ Pending' = {} /\ checked \cap holders \subseteq missed
      /\ ups \cap holders \subseteq missed /\ todo \cap holders \subseteq missed
      /\ \A t \in todo : parents[t] \cap holders \subseteq missed
  BY <1>1, <1>2 DEF Searching, CheckedClear, KnownTips, Pending
<1>5. Ordered'
  BY <1>1, <1>2, <1>3 DEF Ordered
<1>6. Position' /\ CheckedClear' /\ KnownTips'
  BY <1>1, <1>3, <1>4 DEF Position, CheckedClear, KnownTips
<1>7. OfferedAhead'
  BY <1>1, <1>2, <1>3, <1>4 DEF Searching, OfferedAhead
<1>8. CheckedParents'
  BY <1>1, <1>2, <1>3, <1>4 DEF Searching, CheckedParents, Ordered
<1> QED
  BY <1>5, <1>6, <1>7, <1>8 DEF Searching

(* The other steps move neither a block nor the search.                    *)
LEMMA OtherIInv ==
  ASSUME IInv, \/ UNCHANGED <<dag, pc, todo, tip, ups, found, checked, offered, missed>>
               \/ Head \/ ReadTipsFails \/ Wake \/ FetchAgain
  PROVE  IInv'
<1> USE DEF IInv
<1>1. /\ UNCHANGED <<dag, todo, tip, ups, found, checked, offered, missed>>
      /\ \/ pc' = pc
         \/ pc \in {"head", "dag", "sleep"} /\ pc' \in {"head", "dag", "sleep", "done"}
         \/ pc' = "done"
  BY DEF Head, ReadTipsFails, Wake, FetchAgain, AfterSleep
<1>2. /\ Mined' = Mined /\ parents' = parents /\ holders' = holders
      /\ count' = count /\ \A c \in Mined : HasChild(c)' = HasChild(c)
  BY <1>1, DagStays
<1>3. Ordered'
  BY <1>1, <1>2 DEF Ordered
<1>4. ASSUME pc' # "done" PROVE Searching'
  <2>1. Searching /\ Ordered /\ Pending' = Pending
    BY <1>1, <1>2, <1>4 DEF Pending
  <2>2. Position'
    BY <1>1, <1>2, <1>4, <2>1 DEF Searching, Position
  <2>3. CheckedClear' /\ OfferedAhead' /\ KnownTips'
    BY <1>1, <1>2, <2>1 DEF Searching, CheckedClear, OfferedAhead, KnownTips
  <2>4. CheckedParents'
    BY <1>1, <1>2, <2>1 DEF Searching, CheckedParents, Ordered
  <2> QED
    BY <2>2, <2>3, <2>4 DEF Searching
<1> QED
  BY <1>3, <1>4

(* Every step keeps the invariant.                                          *)
LEMMA StepIInv == IInv /\ [Next]_vars => IInv'
<1> SUFFICES ASSUME IInv, [Next]_vars PROVE IInv'
  OBVIOUS
<1>1. ASSUME NEW ps \in SUBSET Mined, NEW brings \in BOOLEAN, NEW future \in BOOLEAN,
             Mine(ps, brings, future)
      PROVE  IInv'
  BY <1>1, MineIInv
<1>2. ASSUME Tick \/ UNCHANGED vars \/ \E known \in BOOLEAN : Verify(known) \/ VerifyFails(known)
      PROVE  IInv'
  BY <1>2, OtherIInv DEF Tick, Verify, VerifyFails, vars, dag, scan
<1>3. ASSUME Poll PROVE IInv'
  <2>1. ASSUME NEW tips \in VirtualParents, ReadTips(tips) PROVE IInv'
    BY <2>1, ReadTipsIInv
  <2>2. ASSUME NEW b \in Blocks, FetchTip(b) \/ FetchTipFails(b) PROVE IInv'
    BY <2>2, FetchTipIInv
  <2>3. ASSUME NEW b \in Blocks, FetchParent(b) \/ FetchParentFails(b) PROVE IInv'
    BY <2>3, FetchParentIInv
  <2> QED
    BY <1>3, <2>1, <2>2, <2>3, FetchAgainFailsIInv, SleepIInv, OtherIInv DEF Poll
<1> QED
  BY <1>1, <1>2, <1>3 DEF Next

-----------------------------------------------------------------------------

(* Whatever the DAG and whichever calls fail, a block with the transaction *)
(* that the node has offered is found, or the search passed over it for    *)
(* one of the reasons that are known.                                      *)
THEOREM OfferedFound == Spec => []OfferedIsFound
<1>1. IInv => OfferedIsFound
  <2> SUFFICES ASSUME IInv, pc = "sleep" PROVE offered \cap holders \subseteq missed
    BY DEF OfferedIsFound
  <2> QED
    BY DEF IInv, Searching, Position, OfferedAhead, Pending
<1> QED
  BY <1>1, InitIInv, StepIInv, PTL DEF Spec


-----------------------------------------------------------------------------
(* The attestation *)

(* A block that was found carries the transaction, and goes on doing so.   *)
Founded ==
  /\ pc = "second" => found \in holders
  /\ result # None => result \in holders
  /\ AttestationStands

(* The DAG only grows, and what is found is a block of it.                 *)
LEMMA FoundedStep == Founded /\ [Next]_vars => Founded'
<1> SUFFICES ASSUME Founded, [Next]_vars PROVE Founded'
  OBVIOUS
<1>1. ASSUME NEW ps \in SUBSET Mined, NEW brings \in BOOLEAN, NEW future \in BOOLEAN,
             Mine(ps, brings, future)
      PROVE  Founded'
  <2>1. holders \subseteq holders' /\ UNCHANGED <<pc, found, result, verdict>>
    BY <1>1 DEF Mine, scan
  <2> QED
    BY <2>1 DEF Founded, AttestationStands
<1>2. ASSUME NEW b \in Blocks, FetchTip(b) \/ FetchParent(b) PROVE Founded'
  <2>1. /\ holders' = holders /\ verdict' = verdict /\ pc = "scan"
        /\ \/ UNCHANGED <<pc, found, result>>
           \/ pc' = "done" /\ result' = b /\ b \in holders
           \/ pc' = "second" /\ found' = b /\ b \in holders /\ result' = result
    BY <1>2 DEF FetchTip, FetchParent, Hit, ResultBlock, Carries, dag
  <2> QED
    BY <2>1 DEF Founded, AttestationStands
<1>3. CASE FetchAgain
  BY <1>3 DEF FetchAgain, dag, Founded, AttestationStands
<1>4. CASE \/ Tick \/ Head \/ ReadTipsFails \/ Sleep \/ Wake \/ FetchAgainFails \/ UNCHANGED vars
           \/ \E tips \in VirtualParents : ReadTips(tips)
           \/ \E b \in Blocks : FetchTipFails(b) \/ FetchParentFails(b)
  <2>1. /\ holders' = holders /\ result' = result /\ verdict' = verdict
        /\ pc' = "second" => pc = "second" /\ found' = found
    BY <1>4 DEF Tick, Head, ReadTipsFails, Sleep, Wake, AfterSleep, FetchAgainFails, ReadTips,
                FetchTipFails, FetchParentFails, vars, dag, scan
  <2> QED
    BY <2>1 DEF Founded, AttestationStands
<1>5. ASSUME NEW known \in BOOLEAN, Verify(known) PROVE Founded'
  <2>1. /\ UNCHANGED <<holders, pc, found, result>>
        /\ \/ verdict' = VerdictOf(result, Daa(result))
           \/ verdict' = BrowserVerdictOf(result, known)
        /\ result \in holders
    BY <1>5 DEF Verify, dag, scan, Founded
  <2>2. verdict'.block /\ verdict'.tx /\ verdict'.commitment
    <3>1. /\ BlockWithTransactions(result).daa = Daa(result)
          /\ BlockWithTransactions(result).tx = TRUE
          /\ BlockWithTransactions(result).commitment = TRUE
      <4>1. (result \in holders) = TRUE
        BY <2>1
      <4> QED
        BY <4>1, Zenon DEF BlockWithTransactions
    <3>2. CASE verdict' = VerdictOf(result, Daa(result))
      <4>1. /\ verdict'.block = (BlockWithTransactions(result).daa = Daa(result))
            /\ verdict'.tx = BlockWithTransactions(result).tx
            /\ verdict'.commitment =
                 (BlockWithTransactions(result).tx /\ BlockWithTransactions(result).commitment)
        BY <3>2, Zenon DEF VerdictOf
      <4> QED
        BY <3>1, <4>1, Zenon
    <3>3. CASE verdict' = BrowserVerdictOf(result, known)
      <4>1. /\ verdict'.block = TRUE
            /\ verdict'.tx = BlockWithTransactions(result).tx
            /\ verdict'.commitment =
                 (BlockWithTransactions(result).tx /\ BlockWithTransactions(result).commitment)
        BY <3>3, Zenon DEF BrowserVerdictOf
      <4> QED
        BY <3>1, <4>1, Zenon
    <3> QED
      BY <2>1, <3>2, <3>3
  <2> QED
    BY <2>1, <2>2 DEF Founded, AttestationStands
<1>6. ASSUME NEW known \in BOOLEAN, VerifyFails(known) PROVE Founded'
  BY <1>6 DEF VerifyFails, dag, scan, Founded, AttestationStands
<1> QED
  BY <1>1, <1>2, <1>3, <1>4, <1>5, <1>6 DEF Next, Poll

(* The attestation that is made of what was found stands: verified at any  *)
(* later moment, its block has the score, the transaction and the          *)
(* commitment, unless the node cannot be asked.                            *)
THEOREM AttestationHolds == Spec => []AttestationStands
<1>1. Init => Founded
  BY DEF Init, Founded, AttestationStands, NotVerified
<1>2. Founded => AttestationStands
  BY DEF Founded
<1> QED
  BY <1>1, <1>2, FoundedStep, PTL DEF Spec

=============================================================================
