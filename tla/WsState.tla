------------------------------ MODULE WsState -------------------------------
(***************************************************************************)
(* The registry all WebSocket sessions share: who is subscribed to what,   *)
(* how many subscriptions each session is charged with, how many           *)
(* connections the client's address has.  Each operation takes the count   *)
(* lock, then the subscription lock, as separate steps, so sessions wait   *)
(* for each other; a session's own calls come one at a time.  All sessions *)
(* come from one address; other addresses have counts of their own.        *)
(***************************************************************************)
EXTENDS Naturals, FiniteSets

CONSTANTS
  Sessions,           \* connection attempts; an accepted one gets a fresh id
  Proofs,             \* proof ids a client may name
  Malformed,          \* those that are empty or too long
  MaxSubscriptions,   \* MAX_SUBSCRIPTIONS_PER_SESSION
  MaxConnections      \* MAX_CONNECTIONS_PER_IP

Free == "free"   \* of a lock

ASSUME WsAssumption ==
  /\ IsFiniteSet(Sessions) /\ Free \notin Sessions
  /\ IsFiniteSet(Proofs) /\ Malformed \subseteq Proofs
  /\ MaxSubscriptions \in Nat /\ MaxConnections \in Nat \ {0}

VARIABLES
  socket,       \* stage of each connection
  ipCount,      \* per_ip_connections of the address
  subs,         \* subscriptions: proof -> sessions
  counts,       \* session_subscription_counts, 0 for an absent entry
  call,         \* each session's registry call: operation, proof, step
  countsLock, subsLock   \* holders of the two locks

vars == <<socket, ipCount, subs, counts, call, countsLock, subsLock>>
connVars == <<socket, ipCount>>
registryVars == <<subs, counts>>
lockVars == <<countsLock, subsLock>>

Idle == [op |-> "none", proof |-> "none", at |-> "none"]
Ops == {"subscribe", "unsubscribe", "unsubscribe_all"}
Live == {"open", "closing", "releasing"}

SubsOf(s) == {p \in Proofs : s \in subs[p]}

Init ==
  /\ socket = [s \in Sessions |-> "new"]
  /\ ipCount = 0
  /\ subs = [p \in Proofs |-> {}]
  /\ counts = [s \in Sessions |-> 0]
  /\ call = [s \in Sessions |-> Idle]
  /\ countsLock = Free /\ subsLock = Free

-----------------------------------------------------------------------------
(* Connections *)

(* ws_handler: track_connection, then answer the upgrade or 429. *)
TrackConnection(s) ==
  /\ socket[s] = "new"
  /\ \/ /\ ipCount < MaxConnections
        /\ ipCount' = ipCount + 1
        /\ socket' = [socket EXCEPT ![s] = "upgrading"]
     \/ /\ ipCount >= MaxConnections
        /\ socket' = [socket EXCEPT ![s] = "refused"]
        /\ UNCHANGED ipCount
  /\ UNCHANGED <<registryVars, call, lockVars>>

(* The upgrade completes and handle_socket runs; or it fails, and the      *)
(* closure passed to on_upgrade is dropped without having run.             *)
Upgrade(s) ==
  /\ socket[s] = "upgrading"
  /\ \/ socket' = [socket EXCEPT ![s] = "open"]
     \/ socket' = [socket EXCEPT ![s] = "failed"]
  /\ UNCHANGED <<ipCount, registryVars, call, lockVars>>

(* release_connection, with its saturating subtraction.  The slip is an    *)
(* early return that skips it.                                             *)
ReleasedSkipped == ipCount
Released == IF ipCount = 0 THEN 0 ELSE ipCount - 1

ReleaseConnection(s) ==
  /\ socket[s] = "releasing"
  /\ ipCount' = Released
  /\ socket' = [socket EXCEPT ![s] = "closed"]
  /\ UNCHANGED <<registryVars, call, lockVars>>

-----------------------------------------------------------------------------
(* Registry operations *)

(* The session's receive loop calls subscribe or unsubscribe for a client  *)
(* message, or unsubscribe_all when the socket is done.                    *)
Begin(s, op, p) ==
  /\ socket[s] = "open" /\ call[s] = Idle
  /\ op = "subscribe" => p \notin Malformed
  /\ call' = [call EXCEPT ![s] = [op |-> op, proof |-> p, at |-> "first"]]
  /\ socket' = IF op = "unsubscribe_all" THEN [socket EXCEPT ![s] = "closing"] ELSE socket
  /\ UNCHANGED <<ipCount, registryVars, lockVars>>

(* Every operation takes the counts lock first; the slip has unsubscribe   *)
(* take the two the other way round.                                       *)
FirstLockMixed(op) == IF op = "unsubscribe" THEN "subs" ELSE "counts"
FirstLock(op) == "counts"

Take(lock, s) ==
  \/ lock = "counts" /\ countsLock = Free /\ countsLock' = s /\ UNCHANGED subsLock
  \/ lock = "subs" /\ subsLock = Free /\ subsLock' = s /\ UNCHANGED countsLock

TakeFirst(s) ==
  /\ call[s].at = "first"
  /\ Take(FirstLock(call[s].op), s)
  /\ call' = [call EXCEPT ![s].at = "second"]
  /\ UNCHANGED <<connVars, registryVars>>

(* The limit, looked at under the counts lock. *)
AtLimit(s) == call[s].op = "subscribe" /\ counts[s] >= MaxSubscriptions

(* subscribe over the limit: false, with only the counts lock taken. *)
RefuseSubscribe(s) ==
  /\ call[s].at = "second" /\ AtLimit(s)
  /\ countsLock' = Free
  /\ call' = [call EXCEPT ![s] = Idle]
  /\ UNCHANGED <<connVars, registryVars, subsLock>>

TakeSecond(s) ==
  /\ call[s].at = "second" /\ ~AtLimit(s)
  /\ Take(IF FirstLock(call[s].op) = "counts" THEN "subs" ELSE "counts", s)
  /\ call' = [call EXCEPT ![s].at = "both"]
  /\ UNCHANGED <<connVars, registryVars>>

(* The session's charge after an unsubscribe: less one if it had been      *)
(* subscribed.  The slip takes one off whether it had or not.              *)
ChargeAfterUnsubscribeAlways(s, p) == IF counts[s] = 0 THEN 0 ELSE counts[s] - 1
ChargeAfterUnsubscribe(s, p) ==
  IF s \in subs[p] /\ counts[s] > 0 THEN counts[s] - 1 ELSE counts[s]

(* What unsubscribe_all leaves of the subscriptions. *)
SubsWithout(s) == [p \in Proofs |-> subs[p] \ {s}]

(* The update, made with both locks held, and their release. *)
Apply(s) ==
  /\ call[s].at = "both"
  /\ LET p == call[s].proof IN
     CASE call[s].op = "subscribe" ->
            /\ subs' = [subs EXCEPT ![p] = @ \cup {s}]
            /\ counts' = [counts EXCEPT ![s] = @ + 1]
            /\ UNCHANGED socket
       [] call[s].op = "unsubscribe" ->
            /\ subs' = [subs EXCEPT ![p] = @ \ {s}]
            /\ counts' = [counts EXCEPT ![s] = ChargeAfterUnsubscribe(s, p)]
            /\ UNCHANGED socket
       [] call[s].op = "unsubscribe_all" ->
            /\ subs' = SubsWithout(s)
            /\ counts' = [counts EXCEPT ![s] = 0]
            /\ socket' = [socket EXCEPT ![s] = "releasing"]
  /\ countsLock' = Free /\ subsLock' = Free
  /\ call' = [call EXCEPT ![s] = Idle]
  /\ UNCHANGED ipCount

-----------------------------------------------------------------------------

Step(s) == TakeFirst(s) \/ RefuseSubscribe(s) \/ TakeSecond(s) \/ Apply(s)

Next == \E s \in Sessions :
  \/ TrackConnection(s) \/ Upgrade(s) \/ ReleaseConnection(s)
  \/ \E op \in Ops, p \in Proofs : Begin(s, op, p)
  \/ Step(s)

Spec == Init /\ [][Next]_vars

-----------------------------------------------------------------------------

(* No session holds more subscriptions than the limit, whatever it         *)
(* subscribes to twice or unsubscribes from without having subscribed: the *)
(* charge never falls below the number it stands for.                      *)
LimitHolds == \A s \in Sessions :
  /\ Cardinality(SubsOf(s)) <= counts[s]
  /\ counts[s] <= MaxSubscriptions

(* What is charged is what is there: a session that is gone is in no       *)
(* subscription and charged nothing, and the address is charged for        *)
(* exactly the connections it has, and for the upgrades that failed after  *)
(* track_connection, which nothing releases: ws_handler charges before     *)
(* on_upgrade, and only handle_socket, which a failed upgrade never runs,  *)
(* calls release_connection.                                               *)
AccountsExact ==
  /\ \A s \in Sessions :
       socket[s] \in {"releasing", "closed"} => SubsOf(s) = {} /\ counts[s] = 0
  /\ ipCount = Cardinality({s \in Sessions :
                              socket[s] \in Live \cup {"upgrading", "failed"}})

(* The lock a session's call is about to take, and who has it.             *)
NextLock(s) ==
  CASE call[s].at = "first" -> FirstLock(call[s].op)
    [] call[s].at = "second" /\ ~AtLimit(s) ->
         IF FirstLock(call[s].op) = "counts" THEN "subs" ELSE "counts"
    [] OTHER -> "none"
Blocker(s) ==
  CASE NextLock(s) = "counts" -> countsLock
    [] NextLock(s) = "subs" -> subsLock
    [] OTHER -> Free

(* Sessions never wait for each other in a circle, nor one for itself:     *)
(* whoever holds a lock a session needs can go on.  With two locks this is *)
(* all that could stop a call of subscribe, unsubscribe or unsubscribe_all *)
(* from returning.                                                         *)
NoLockCycle ==
  \A s \in Sessions : Blocker(s) # Free => Blocker(Blocker(s)) = Free

=============================================================================
