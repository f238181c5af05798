---------------------------- MODULE WsStateProofs -----------------------------
(***************************************************************************)
(* Proofs about module WsState, for any finite number of sessions and      *)
(* proofs and any limits.                                                  *)
(***************************************************************************)
EXTENDS WsState, FiniteSetTheorems, TLAPS

Stages == {"new", "upgrading", "refused", "failed", "open", "closing", "releasing", "closed"}
Calls == [op : Ops \cup {"none"}, proof : Proofs \cup {"none"},
          at : {"none", "first", "second", "both"}]

Typed ==
  /\ socket \in [Sessions -> Stages] /\ ipCount \in Nat
  /\ subs \in [Proofs -> SUBSET Sessions] /\ counts \in [Sessions -> Nat]
  /\ call \in [Sessions -> Calls]
  /\ countsLock \in Sessions \cup {Free} /\ subsLock \in Sessions \cup {Free}

(* Only a running session calls, and unsubscribe_all is its last call. *)
CallsInTime == \A s \in Sessions : call[s].at # "none" =>
  /\ call[s].op \in Ops /\ call[s].proof \in Proofs
  /\ socket[s] = IF call[s].op = "unsubscribe_all" THEN "closing" ELSE "open"

(* The locks are held by the calls that have taken them. *)
Locked == \A s \in Sessions :
  /\ call[s].at \in {"second", "both"} <=> countsLock = s
  /\ call[s].at = "both" <=> subsLock = s

(* What subscribe has found stays true while it waits for the second lock. *)
RoomKept == \A s \in Sessions :
  call[s].at = "both" /\ call[s].op = "subscribe" => counts[s] < MaxSubscriptions

Charged == {s \in Sessions : socket[s] \in Live \cup {"upgrading", "failed"}}

Synchronised == Typed /\ CallsInTime /\ Locked /\ RoomKept
IInv == Synchronised /\ LimitHolds /\ AccountsExact

-----------------------------------------------------------------------------

(* The subscriptions of a session are finite in number. *)
LEMMA SubsFinite ==
  \A s \in Sessions : IsFiniteSet(SubsOf(s)) /\ Cardinality(SubsOf(s)) \in Nat
  BY WsAssumption, FS_Subset, FS_CardinalityType DEF SubsOf

(* Initially nobody is connected. *)
LEMMA InitIInv == Init => IInv
<1> SUFFICES ASSUME Init PROVE IInv
  OBVIOUS
<1>1. Synchronised
  BY WsAssumption DEF Init, Synchronised, Typed, Stages, Calls, Idle, Ops, CallsInTime, Locked, RoomKept
<1>2. \A s \in Sessions : SubsOf(s) = {}
  BY DEF Init, SubsOf
<1>3. LimitHolds
  BY <1>2, FS_EmptySet, WsAssumption DEF LimitHolds, Init
<1>4. Charged = {}
  BY DEF Charged, Init, Live
<1>5. AccountsExact
  BY <1>2, <1>4, FS_EmptySet DEF AccountsExact, Init, Charged
<1> QED BY <1>1, <1>3, <1>5 DEF IInv

-----------------------------------------------------------------------------
(* Synchronisation *)

(* Connections come and go around the calls. *)
LEMMA ConnectionSynchronised ==
  ASSUME IInv, NEW s \in Sessions, TrackConnection(s) \/ Upgrade(s) \/ ReleaseConnection(s)
  PROVE  Synchronised'
<1>1. Typed'
  BY DEF IInv, Synchronised, Typed, Stages, TrackConnection, Upgrade, ReleaseConnection, Released,
         registryVars, lockVars
<1>2. call[s].at = "none"
  BY DEF IInv, Synchronised, CallsInTime, Typed, TrackConnection, Upgrade, ReleaseConnection
<1>3. CallsInTime'
  BY <1>2 DEF IInv, Synchronised, CallsInTime, Typed, TrackConnection, Upgrade, ReleaseConnection
<1>4. Locked' /\ RoomKept'
  BY DEF IInv, Synchronised, Locked, RoomKept, TrackConnection, Upgrade, ReleaseConnection,
         registryVars, lockVars
<1> QED BY <1>1, <1>3, <1>4 DEF Synchronised

(* A call begins without a lock. *)
LEMMA BeginSynchronised ==
  ASSUME IInv, NEW s \in Sessions, NEW op \in Ops, NEW p \in Proofs, Begin(s, op, p)
  PROVE  Synchronised'
<1>1. Typed'
  BY DEF IInv, Synchronised, Typed, Stages, Calls, Begin, registryVars, lockVars
<1>2. CallsInTime'
  BY DEF IInv, Synchronised, CallsInTime, Typed, Begin
<1>3. call[s].at = "none"
  BY DEF Begin, Idle
<1>4. Locked' /\ RoomKept'
  BY <1>3 DEF IInv, Synchronised, Typed, Locked, RoomKept, Begin, registryVars, lockVars
<1> QED BY <1>1, <1>2, <1>4 DEF Synchronised

(* A lock is taken by the session that asks for it, and while a session    *)
(* waits for its second lock nobody else can change what it is charged.    *)
LEMMA TakeSynchronised ==
  ASSUME IInv, NEW s \in Sessions, TakeFirst(s) \/ TakeSecond(s) \/ RefuseSubscribe(s)
  PROVE  Synchronised'
<1> USE DEF FirstLock, IInv, Synchronised
<1>1. UNCHANGED <<socket, ipCount, subs, counts>>
  BY DEF TakeFirst, TakeSecond, RefuseSubscribe, connVars, registryVars
<1>2. call[s] \in Calls
  BY DEF Typed
<1>3. CASE TakeFirst(s)
  <2>1. /\ call[s].at = "first" /\ countsLock = Free /\ countsLock' = s /\ subsLock' = subsLock
        /\ call' = [call EXCEPT ![s].at = "second"]
    BY <1>3 DEF TakeFirst, Take
  <2>2. /\ call'[s].op = call[s].op /\ call'[s].proof = call[s].proof /\ call'[s].at = "second"
        /\ call'[s] \in Calls
        /\ \A t \in Sessions \ {s} : call'[t] = call[t]
        /\ call' \in [Sessions -> Calls]
    BY <1>2, <2>1 DEF Typed, Calls
  <2>3. Typed' /\ CallsInTime'
    BY <1>1, <2>1, <2>2 DEF Typed, CallsInTime
  <2>4. Locked'
    BY <2>1, <2>2, WsAssumption DEF Typed, Locked
  <2>5. RoomKept'
    BY <1>1, <2>2 DEF RoomKept
  <2> QED BY <2>3, <2>4, <2>5
<1>4. CASE TakeSecond(s)
  <2>1. /\ call[s].at = "second" /\ subsLock = Free /\ subsLock' = s /\ countsLock' = countsLock
        /\ call' = [call EXCEPT ![s].at = "both"] /\ ~AtLimit(s)
    BY <1>4 DEF TakeSecond, Take
  <2>2. /\ call'[s].op = call[s].op /\ call'[s].proof = call[s].proof /\ call'[s].at = "both"
        /\ call'[s] \in Calls
        /\ \A t \in Sessions \ {s} : call'[t] = call[t]
        /\ call' \in [Sessions -> Calls]
    BY <1>2, <2>1 DEF Typed, Calls
  <2>3. Typed' /\ CallsInTime'
    BY <1>1, <2>1, <2>2 DEF Typed, CallsInTime
  <2>4. Locked'
    BY <2>1, <2>2, WsAssumption DEF Typed, Locked
  <2>5. call[s].op = "subscribe" => counts[s] < MaxSubscriptions
    BY <2>1, WsAssumption DEF Typed, AtLimit
  <2>6. RoomKept'
    BY <1>1, <2>2, <2>5 DEF RoomKept
  <2> QED BY <2>3, <2>4, <2>6
<1>5. CASE RefuseSubscribe(s)
  <2>1. /\ call[s].at = "second" /\ countsLock' = Free /\ subsLock' = subsLock
        /\ call' = [call EXCEPT ![s] = Idle]
    BY <1>5 DEF RefuseSubscribe
  <2>2. /\ call'[s].at = "none" /\ call'[s] \in Calls
        /\ \A t \in Sessions \ {s} : call'[t] = call[t]
        /\ call' \in [Sessions -> Calls]
    BY <2>1 DEF Typed, Calls, Idle
  <2>3. Typed' /\ CallsInTime'
    BY <1>1, <2>1, <2>2 DEF Typed, CallsInTime
  <2>4. Locked'
    BY <2>1, <2>2, WsAssumption DEF Typed, Locked
  <2>5. RoomKept'
    BY <1>1, <2>2 DEF RoomKept
  <2> QED BY <2>3, <2>4, <2>5
<1> QED BY <1>3, <1>4, <1>5

(* The end of a call releases its locks. *)
LEMMA ApplySynchronised ==
  ASSUME IInv, NEW s \in Sessions, Apply(s)
  PROVE  Synchronised'
<1>1. call[s].op \in Ops /\ call[s].proof \in Proofs
  BY DEF IInv, Synchronised, CallsInTime, Apply
<1> DEFINE OnlyOwn ==
      /\ subs' \in [Proofs -> SUBSET Sessions] /\ counts' \in [Sessions -> Nat]
      /\ socket' \in [Sessions -> Stages]
      /\ \A t \in Sessions \ {s} : counts'[t] = counts[t] /\ socket'[t] = socket[t]
<1> USE DEF IInv, Synchronised, Typed
<1>2. OnlyOwn
  <2>1. CASE call[s].op = "subscribe"
    <3>1. /\ subs' = [subs EXCEPT ![call[s].proof] = @ \cup {s}]
          /\ counts' = [counts EXCEPT ![s] = @ + 1] /\ socket' = socket
      BY <2>1 DEF Apply
    <3> QED BY <1>1, <3>1
  <2>2. CASE call[s].op = "unsubscribe"
    <3>1. /\ subs' = [subs EXCEPT ![call[s].proof] = @ \ {s}]
          /\ counts' = [counts EXCEPT ![s] = ChargeAfterUnsubscribe(s, call[s].proof)]
          /\ socket' = socket
      BY <2>2 DEF Apply
    <3>2. ChargeAfterUnsubscribe(s, call[s].proof) \in Nat
      BY DEF ChargeAfterUnsubscribe
    <3> QED BY <1>1, <3>1, <3>2
  <2>3. CASE call[s].op = "unsubscribe_all"
    <3>1. /\ subs' = [p \in Proofs |-> subs[p] \ {s}]
          /\ counts' = [counts EXCEPT ![s] = 0] /\ socket' = [socket EXCEPT ![s] = "releasing"]
      BY <2>3 DEF Apply, SubsWithout
    <3> QED BY <3>1 DEF Stages
  <2> QED BY <1>1, <2>1, <2>2, <2>3 DEF Ops
<1>3. call' = [call EXCEPT ![s] = Idle] /\ countsLock' = Free /\ subsLock' = Free /\ ipCount' = ipCount
  BY DEF Apply
<1>4. Typed'
  BY <1>2, <1>3 DEF IInv, Synchronised, Typed, Calls, Idle
<1>5. CallsInTime'
  BY <1>2, <1>3 DEF IInv, Synchronised, Typed, CallsInTime, Idle
<1>6. Locked'
  BY <1>3, WsAssumption DEF IInv, Synchronised, Typed, Locked, Idle, Apply
<1>7. RoomKept'
  BY <1>2, <1>3 DEF IInv, Synchronised, Typed, RoomKept, Idle
<1> QED BY <1>4, <1>5, <1>6, <1>7 DEF Synchronised

-----------------------------------------------------------------------------
(* Limits and accounts *)

(* The limits and the accounts of sessions depend on nothing but the       *)
(* registry.                                                               *)
LEMMA SameRegistry ==
  ASSUME IInv, UNCHANGED registryVars
  PROVE  LimitHolds' /\ \A s \in Sessions : SubsOf(s)' = SubsOf(s) /\ counts'[s] = counts[s]
  BY DEF IInv, LimitHolds, SubsOf, registryVars

(* What apply makes of the subscriptions and the charge of the session. *)
LEMMA ApplyLimit ==
  ASSUME IInv, NEW s \in Sessions, Apply(s)
  PROVE  /\ LimitHolds'
         /\ \A t \in Sessions \ {s} : SubsOf(t)' = SubsOf(t) /\ counts'[t] = counts[t]
         /\ call[s].op = "unsubscribe_all" => SubsOf(s)' = {} /\ counts'[s] = 0
<1> DEFINE p == call[s].proof
<1>1. call[s].op \in Ops /\ p \in Proofs
  BY DEF IInv, Synchronised, CallsInTime, Apply
<1>2. \A t \in Sessions \ {s} : SubsOf(t)' = SubsOf(t) /\ counts'[t] = counts[t]
  <2>1. \A q \in Proofs, t \in Sessions \ {s} : t \in subs'[q] <=> t \in subs[q]
    <3>1. CASE call[s].op = "subscribe"
      BY <1>1, <3>1 DEF IInv, Synchronised, Typed, Apply
    <3>2. CASE call[s].op = "unsubscribe"
      BY <1>1, <3>2 DEF IInv, Synchronised, Typed, Apply
    <3>3. CASE call[s].op = "unsubscribe_all"
      BY <1>1, <3>3 DEF IInv, Synchronised, Typed, Apply, SubsWithout
    <3> QED BY <1>1, <3>1, <3>2, <3>3 DEF Ops
  <2>2. \A t \in Sessions \ {s} : counts'[t] = counts[t]
    BY <1>1 DEF IInv, Synchronised, Typed, Apply, Ops
  <2> QED BY <2>1, <2>2 DEF SubsOf
<1>3. \A t \in Sessions \ {s} : Cardinality(SubsOf(t)') <= counts'[t] /\ counts'[t] <= MaxSubscriptions
  BY <1>2 DEF IInv, LimitHolds
<1>4. /\ counts[s] \in Nat /\ counts[s] <= MaxSubscriptions
      /\ Cardinality(SubsOf(s)) <= counts[s]
      /\ IsFiniteSet(SubsOf(s)) /\ Cardinality(SubsOf(s)) \in Nat
  BY SubsFinite DEF IInv, Synchronised, Typed, LimitHolds
<1>5. CASE call[s].op = "subscribe"
  <2>1. SubsOf(s)' = SubsOf(s) \cup {p} /\ counts'[s] = counts[s] + 1
    BY <1>1, <1>5 DEF IInv, Synchronised, Typed, Apply, SubsOf
  <2>2. counts[s] < MaxSubscriptions
    BY <1>5 DEF IInv, Synchronised, RoomKept, Apply
  <2>3. /\ IsFiniteSet(SubsOf(s) \cup {p})
        /\ \/ Cardinality(SubsOf(s) \cup {p}) = Cardinality(SubsOf(s))
           \/ Cardinality(SubsOf(s) \cup {p}) = Cardinality(SubsOf(s)) + 1
    BY <1>4, FS_AddElement
  <2>4. Cardinality(SubsOf(s) \cup {p}) \in Nat
    BY <2>3, FS_CardinalityType
  <2>5. Cardinality(SubsOf(s)') <= counts'[s] /\ counts'[s] <= MaxSubscriptions
    BY <1>4, <2>1, <2>2, <2>3, <2>4, WsAssumption
  <2> QED BY <1>2, <1>3, <1>5, <2>5 DEF LimitHolds
<1>6. CASE call[s].op = "unsubscribe"
  <2>1. /\ SubsOf(s)' = SubsOf(s) \ {p}
        /\ counts'[s] = ChargeAfterUnsubscribe(s, p)
    BY <1>1, <1>6 DEF IInv, Synchronised, Typed, Apply, SubsOf
  <2>2. Cardinality(SubsOf(s) \ {p}) =
          IF p \in SubsOf(s) THEN Cardinality(SubsOf(s)) - 1 ELSE Cardinality(SubsOf(s))
    BY <1>4, FS_RemoveElement
  <2>3. p \in SubsOf(s) <=> s \in subs[p]
    BY <1>1 DEF SubsOf
  <2>4. Cardinality(SubsOf(s)') <= counts'[s] /\ counts'[s] <= MaxSubscriptions
    BY <1>4, <2>1, <2>2, <2>3, WsAssumption DEF ChargeAfterUnsubscribe
  <2> QED BY <1>2, <1>3, <1>6, <2>4 DEF LimitHolds
<1>7. CASE call[s].op = "unsubscribe_all"
  <2>1. SubsOf(s)' = {} /\ counts'[s] = 0
    BY <1>1, <1>7 DEF IInv, Synchronised, Typed, Apply, SubsOf, SubsWithout
  <2>2. Cardinality(SubsOf(s)') <= counts'[s] /\ counts'[s] <= MaxSubscriptions
    BY <2>1, FS_EmptySet, WsAssumption
  <2> QED BY <1>2, <1>3, <2>1, <2>2 DEF LimitHolds
<1> QED BY <1>1, <1>5, <1>6, <1>7 DEF Ops

(* A session is charged for its address from track_connection to           *)
(* release_connection, and else by nothing.                                *)
LEMMA ChargedFinite == IsFiniteSet(Charged) /\ Cardinality(Charged) \in Nat
  BY WsAssumption, FS_Subset, FS_CardinalityType DEF Charged

(* Connections keep limits and accounts. *)
LEMMA ConnectionAccounts ==
  ASSUME IInv, NEW s \in Sessions, TrackConnection(s) \/ Upgrade(s) \/ ReleaseConnection(s)
  PROVE  LimitHolds' /\ AccountsExact'
<1>1. UNCHANGED registryVars
  BY DEF TrackConnection, Upgrade, ReleaseConnection
<1>2. \A t \in Sessions : socket'[t] \in {"releasing", "closed"} => socket[t] \in {"releasing", "closed"}
  BY DEF IInv, Synchronised, Typed, TrackConnection, Upgrade, ReleaseConnection
<1>3. ipCount = Cardinality(Charged) /\ ipCount \in Nat
  BY DEF IInv, Synchronised, Typed, AccountsExact, Charged
<1>4. CASE TrackConnection(s)
  <2>1. socket[s] = "new" /\ s \notin Charged
    BY <1>4 DEF TrackConnection, Charged, Live
  <2>2. CASE ipCount < MaxConnections
    <3>1. ipCount' = ipCount + 1 /\ socket' = [socket EXCEPT ![s] = "upgrading"]
      BY <1>3, <1>4, <2>2, WsAssumption DEF TrackConnection
    <3>2. Charged' = Charged \cup {s}
      <4>1. \A t \in Sessions : t \in Charged' <=> (t \in Charged \/ t = s)
        BY <3>1 DEF IInv, Synchronised, Typed, Charged, Live
      <4> QED BY <4>1 DEF Charged
    <3>3. ipCount' = Cardinality(Charged')
      BY <1>3, <2>1, <3>1, <3>2, ChargedFinite, FS_AddElement
    <3> QED BY <1>1, <1>2, <3>3, SameRegistry DEF IInv, AccountsExact, Charged
  <2>3. CASE ~(ipCount < MaxConnections)
    <3>1. ipCount' = ipCount /\ socket' = [socket EXCEPT ![s] = "refused"]
      BY <1>4, <2>3 DEF TrackConnection
    <3>2. Charged' = Charged
      BY <2>1, <3>1 DEF IInv, Synchronised, Typed, Charged, Live
    <3> QED BY <1>1, <1>2, <1>3, <3>1, <3>2, SameRegistry DEF IInv, AccountsExact, Charged
  <2> QED BY <2>2, <2>3
<1>5. CASE Upgrade(s)
  <2>1. Charged' = Charged /\ ipCount' = ipCount
    BY <1>5 DEF IInv, Synchronised, Typed, Charged, Live, Upgrade
  <2> QED BY <1>1, <1>2, <1>3, <2>1, SameRegistry DEF IInv, AccountsExact, Charged
<1>6. CASE ReleaseConnection(s)
  <2>1. s \in Charged /\ ipCount' = Released /\ socket' = [socket EXCEPT ![s] = "closed"]
    BY <1>6 DEF Charged, Live, ReleaseConnection
  <2>2. Charged' = Charged \ {s}
    <3>1. \A t \in Sessions : t \in Charged' <=> (t \in Charged /\ t # s)
      BY <2>1 DEF IInv, Synchronised, Typed, Charged, Live
    <3> QED BY <3>1 DEF Charged
  <2>3. Cardinality(Charged \ {s}) = Cardinality(Charged) - 1
    BY <2>1, ChargedFinite, FS_RemoveElement
  <2>4. Cardinality(Charged) # 0
    BY <2>1, ChargedFinite, FS_EmptySet
  <2>5. ipCount' = Cardinality(Charged')
    BY <1>3, <2>1, <2>2, <2>3, <2>4 DEF Released
  <2> QED BY <1>1, <1>2, <2>5, SameRegistry DEF IInv, AccountsExact, Charged
<1> QED BY <1>4, <1>5, <1>6

(* Calls keep the account of the address; the last one leaves nothing of   *)
(* its session.                                                            *)
LEMMA CallAccounts ==
  ASSUME IInv, NEW s \in Sessions, 
         Step(s) \/ \E op \in Ops, p \in Proofs : Begin(s, op, p)
  PROVE  LimitHolds' /\ AccountsExact'
<1>1. Charged' = Charged /\ ipCount' = ipCount
  <2>1. CASE Apply(s)
    <3>1. call[s].op \in Ops /\ socket[s] \in {"open", "closing"}
      BY <2>1 DEF IInv, Synchronised, CallsInTime, Apply
    <3> QED BY <2>1, <3>1 DEF IInv, Synchronised, Typed, Charged, Live, Apply, Ops
  <2>2. CASE ~Apply(s)
    BY <2>2 DEF IInv, Synchronised, Typed, Charged, Live, Step, TakeFirst, TakeSecond,
                RefuseSubscribe, Begin, connVars
  <2> QED BY <2>1, <2>2
<1>2. ipCount' = Cardinality(Charged')
  BY <1>1 DEF IInv, AccountsExact, Charged
<1>3. CASE Apply(s)
  <2>1. \A t \in Sessions \ {s} : socket'[t] = socket[t]
    BY <1>3 DEF IInv, Synchronised, Typed, CallsInTime, Apply, Ops
  <2>2. socket'[s] \in {"releasing", "closed"} => call[s].op = "unsubscribe_all"
    BY <1>3 DEF IInv, Synchronised, Typed, CallsInTime, Apply, Ops
  <2> QED BY <1>2, <1>3, <2>1, <2>2, ApplyLimit DEF IInv, AccountsExact, Charged
<1>4. CASE ~Apply(s)
  <2>1. UNCHANGED registryVars
    BY <1>4 DEF Step, TakeFirst, TakeSecond, RefuseSubscribe, Begin
  <2>2. \A t \in Sessions : socket'[t] \in {"releasing", "closed"} => socket[t] \in {"releasing", "closed"}
    BY <1>4 DEF IInv, Synchronised, Typed, Step, TakeFirst, TakeSecond, RefuseSubscribe, Begin, connVars
  <2> QED BY <1>2, <2>1, <2>2, SameRegistry DEF IInv, AccountsExact, Charged
<1> QED BY <1>3, <1>4

-----------------------------------------------------------------------------

(* Every step preserves the invariant. *)
LEMMA NextIInv == IInv /\ [Next]_vars => IInv'
<1> SUFFICES ASSUME IInv, [Next]_vars PROVE IInv'
  OBVIOUS
<1>1. ASSUME NEW s \in Sessions, TrackConnection(s) \/ Upgrade(s) \/ ReleaseConnection(s)
      PROVE  IInv'
  BY <1>1, ConnectionSynchronised, ConnectionAccounts DEF IInv
<1>2. ASSUME NEW s \in Sessions, NEW op \in Ops, NEW p \in Proofs, Begin(s, op, p)
      PROVE  IInv'
  BY <1>2, BeginSynchronised, CallAccounts DEF IInv
<1>3. ASSUME NEW s \in Sessions, Step(s)
      PROVE  IInv'
  BY <1>3, TakeSynchronised, ApplySynchronised, CallAccounts DEF IInv, Step
<1>4. CASE UNCHANGED vars
  BY <1>4 DEF vars, IInv, Synchronised, Typed, CallsInTime, Locked, RoomKept, LimitHolds,
              AccountsExact, SubsOf
<1> QED BY <1>1, <1>2, <1>3, <1>4 DEF Next

(* IInv is an invariant of the registry. *)
LEMMA Inductive == Spec => []IInv
  BY InitIInv, NextIInv, PTL DEF Spec

(* No number of sessions, however their calls interleave, takes a session  *)
(* past its limit or its charge below what it holds.                       *)
THEOREM LimitAlwaysHolds == Spec => []LimitHolds
<1>1. IInv => LimitHolds
  BY DEF IInv
<1> QED BY <1>1, Inductive, PTL

(* A session that is gone leaves nothing behind, and the address is        *)
(* charged for what it has.                                                *)
THEOREM AccountsAlwaysExact == Spec => []AccountsExact
<1>1. IInv => AccountsExact
  BY DEF IInv
<1> QED BY <1>1, Inductive, PTL

(* Whoever holds a lock that a session waits for is not itself waiting:    *)
(* locks are taken in one order.                                           *)
THEOREM NeverALockCycle == Spec => []NoLockCycle
<1>1. IInv => NoLockCycle
  <2> SUFFICES ASSUME IInv, NEW s \in Sessions, Blocker(s) # Free
               PROVE  Blocker(Blocker(s)) = Free
    BY DEF NoLockCycle
  <2>1. \A t \in Sessions : NextLock(t) = "subs" => call[t].at = "second"
    BY DEF NextLock, FirstLock
  <2>2. \A t \in Sessions : call[t].at = "second" => subsLock = Free
    BY WsAssumption DEF IInv, Synchronised, Typed, Locked
  <2>3. NextLock(s) = "counts" /\ Blocker(s) = countsLock
    BY <2>1, <2>2 DEF Blocker
  <2>4. countsLock \in Sessions /\ call[countsLock].at \in {"second", "both"}
    BY <2>3 DEF IInv, Synchronised, Typed, Locked
  <2>5. NextLock(countsLock) # "counts"
    BY <2>4 DEF NextLock, FirstLock
  <2> QED BY <2>1, <2>2, <2>3, <2>4, <2>5 DEF Blocker
<1> QED BY <1>1, Inductive, PTL

=============================================================================
