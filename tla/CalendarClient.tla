--------------------------- MODULE CalendarClient ----------------------------
(***************************************************************************)
(* The browser's CalendarClient: subscribeToConfirmation, the unsubscribe  *)
(* function it returns, the socket's handlers and the reconnect timer, one *)
(* callback at a time as the event loop runs them, against a server that   *)
(* tells a confirmation once to the sockets subscribed at that moment.     *)
(* Module ProofPage has the page that calls it.                            *)
(* Every socket not yet closed keeps its handlers, and the handlers use    *)
(* this.ws, which may be another socket by then.  Nothing comes back       *)
(* through a closing socket, so that what it still carries is forgotten.   *)
(* The backoff is abstracted: a timer fires at any time after it is set.   *)
(***************************************************************************)
EXTENDS Integers, FiniteSets, Sequences, SequencesExt

CONSTANTS
  Proofs,       \* proofs the page is asked for
  MaxSockets,   \* bound on sockets not yet closed
  MaxDrops      \* bound on connections the network or the server drops

ASSUME ClientAssumption == {MaxSockets, MaxDrops} \subseteq Nat

VARIABLES
  subscriptions,   \* this.subscriptions
  ws,              \* this.ws, 0 for null
  sockets,         \* sockets[k]: state, messages each way, the server's side
  pendingMessages, \* this.pendingMessages: proofs to subscribe to
  timer,           \* the timer this.reconnectTimeout refers to is running
  strays,          \* running timers nothing refers to any more
  confirmed,       \* proofs the server has announced
  drops

handlerVars == <<subscriptions, ws, pendingMessages, timer, strays>>
clientVars == <<handlerVars, sockets>>

SocketIds == 1..MaxSockets
Unused == [at |-> "unused", toServer |-> <<>>, serverSubs |-> {}, toClient |-> <<>>]
Closing == [Unused EXCEPT !.at = "closing"]
Live == {"connecting", "open"}
WsAt == IF ws = 0 THEN "null" ELSE sockets[ws].at
NoSocket == WsAt \notin Live
IsOpen == WsAt = "open"

Subscribe(p) == [type |-> "subscribe", proof |-> p]
Unsubscribe(p) == [type |-> "unsubscribe", proof |-> p]

ClientInit ==
  /\ subscriptions = {} /\ ws = 0 /\ pendingMessages = {}
  /\ sockets = [k \in SocketIds |-> Unused]
  /\ timer = FALSE /\ strays = 0
  /\ drops = 0

-----------------------------------------------------------------------------
(* ensureWebSocket: a live socket is kept; otherwise the timer is cleared  *)
(* and a new socket replaces this.ws.                                      *)
EnsureWebSocket ==
  IF ~NoSocket THEN UNCHANGED <<ws, sockets, timer>>
  ELSE \E k \in SocketIds :
         /\ sockets[k].at = "unused" /\ \A j \in 1..(k - 1) : sockets[j].at # "unused"
         /\ ws' = k
         /\ sockets' = [sockets EXCEPT ![k].at = "connecting"]
         /\ timer' = FALSE

SubscribeToConfirmation(p) ==
  /\ subscriptions' = subscriptions \cup {p}
  /\ \/ /\ IsOpen
        /\ sockets' = [sockets EXCEPT ![ws].toServer = Append(@, Subscribe(p))]
        /\ UNCHANGED <<ws, timer, pendingMessages>>
     \/ /\ ~IsOpen
        /\ EnsureWebSocket
        /\ pendingMessages' = pendingMessages \cup {p}
  /\ UNCHANGED <<strays, confirmed, drops>>

(* The returned function; with no subscription left it closes the socket.  *)
CallUnsubscribe(p) ==
  /\ subscriptions' = subscriptions \ {p}
  /\ LET said == IF IsOpen
                 THEN [sockets EXCEPT ![ws].toServer = Append(@, Unsubscribe(p))]
                 ELSE sockets
     IN  IF subscriptions' # {} THEN sockets' = said /\ UNCHANGED <<ws, timer>>
         ELSE /\ sockets' = IF ws = 0 THEN said ELSE [said EXCEPT ![ws] = Closing]
              /\ ws' = 0 /\ timer' = FALSE
  /\ UNCHANGED <<pendingMessages, strays, confirmed, drops>>

-----------------------------------------------------------------------------
(* onopen of socket k: the queued messages and then every subscription are *)
(* sent through this.ws.  Null sends nowhere, a connecting socket throws   *)
(* before anything is cleared, a closing one discards.  The slip trusts    *)
(* the queue alone.                                                        *)
GreetingQueued == pendingMessages
Greeting == pendingMessages \cup subscriptions

OnOpen(k) ==
  LET opened == [sockets EXCEPT ![k].at = "open"]
      target == IF ws = k THEN "open" ELSE WsAt
      throws == target = "connecting" /\ Greeting # {}
  IN
  /\ sockets[k].at = "connecting"
  /\ pendingMessages' = IF throws THEN pendingMessages ELSE {}
  /\ sockets' = IF target # "open" THEN opened
                 ELSE [opened EXCEPT ![ws].toServer =
                         @ \o SetToSeq({Subscribe(p) : p \in Greeting})]
  /\ UNCHANGED <<subscriptions, ws, timer, strays, confirmed, drops>>

OnMessage(k) ==
  /\ sockets[k].at = "open" /\ sockets[k].toClient # <<>>
  /\ LET p == Head(sockets[k].toClient)
     IN  subscriptions' = subscriptions \ {p}
  /\ sockets' = [sockets EXCEPT ![k].toClient = Tail(@)]
  /\ UNCHANGED <<ws, pendingMessages, timer, strays, confirmed, drops>>

(* onclose of socket k clears this.ws, whichever socket that is, and sets  *)
(* the timer if anything is subscribed, over one that may be running.  The *)
(* slip misses the last subscription.                                      *)
NeedsReconnectLate == Cardinality(subscriptions) > 1
NeedsReconnect == subscriptions # {}

OnClose(k) ==
  /\ sockets[k].at = "closing"
  /\ sockets' = [sockets EXCEPT ![k] = Unused]
  /\ ws' = 0
  /\ timer' = (timer \/ NeedsReconnect)
  /\ strays' = IF NeedsReconnect /\ timer THEN strays + 1 ELSE strays
  /\ UNCHANGED <<subscriptions, pendingMessages, confirmed, drops>>

TimerFires ==
  /\ timer /\ timer' = FALSE
  /\ \/ subscriptions # {} /\ NoSocket /\ EnsureWebSocket
     \/ ~(subscriptions # {} /\ NoSocket) /\ UNCHANGED <<ws, sockets>>
  /\ UNCHANGED <<subscriptions, pendingMessages, strays, confirmed, drops>>

StrayFires ==
  /\ strays > 0 /\ strays' = strays - 1
  /\ IF subscriptions # {} THEN EnsureWebSocket ELSE UNCHANGED <<ws, sockets, timer>>
  /\ UNCHANGED <<subscriptions, pendingMessages, confirmed, drops>>

-----------------------------------------------------------------------------
(* The server, and what can go wrong on the way to it *)

ServerReceives(k) ==
  /\ sockets[k].at = "open" /\ sockets[k].toServer # <<>>
  /\ LET m == Head(sockets[k].toServer)
     IN  sockets' = [sockets EXCEPT
           ![k].toServer = Tail(@),
           ![k].serverSubs = IF m.type = "subscribe" THEN @ \cup {m.proof} ELSE @ \ {m.proof}]
  /\ UNCHANGED <<handlerVars, confirmed, drops>>

Confirm(p) ==
  /\ p \notin confirmed
  /\ confirmed' = confirmed \cup {p}
  /\ sockets' = [k \in SocketIds |->
                   IF p \in sockets[k].serverSubs
                   THEN [sockets[k] EXCEPT !.toClient = Append(@, p)] ELSE sockets[k]]
  /\ UNCHANGED <<handlerVars, drops>>

Drop(k) ==
  /\ sockets[k].at \in Live /\ drops < MaxDrops
  /\ drops' = drops + 1
  /\ sockets' = [sockets EXCEPT ![k] = Closing]
  /\ UNCHANGED <<handlerVars, confirmed>>

-----------------------------------------------------------------------------
ClientStep ==
  \/ \E k \in SocketIds : OnOpen(k) \/ OnClose(k) \/ ServerReceives(k) \/ Drop(k)
  \/ \E p \in Proofs : Confirm(p)
  \/ TimerFires \/ StrayFires

-----------------------------------------------------------------------------
(* On the open socket this.ws refers to, the last word on every subscribed *)
(* proof is a subscribe, received or on its way, after any number of       *)
(* reconnects.                                                             *)
LastWordSubscribes(words, p) ==
  \E i \in DOMAIN words : /\ words[i] = Subscribe(p)
                          /\ \A j \in DOMAIN words : j > i => words[j].proof # p
Unmentioned(words, p) == \A i \in DOMAIN words : words[i].proof # p
Knows(socket, p) ==
  \/ LastWordSubscribes(socket.toServer, p)
  \/ Unmentioned(socket.toServer, p) /\ p \in socket.serverSubs

OpenSocketKnows == IsOpen => \A p \in subscriptions : Knows(sockets[ws], p)

(* A subscription lost with its connection is made again, as long as the   *)
(* page wants it and the connections do not drop for ever.                 *)
SubscriptionRegained ==
  \A p \in Proofs :
    p \in subscriptions ~> \/ p \notin subscriptions
                           \/ \E k \in SocketIds : p \in sockets[k].serverSubs

=============================================================================
