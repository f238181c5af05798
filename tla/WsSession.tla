----------------------------- MODULE WsSession ------------------------------
(***************************************************************************)
(* One WebSocket connection of the calendar: the receive loop, the send    *)
(* task, and the two tasks that forward "confirmed" and "batched" events,  *)
(* joined by a bounded channel of messages to the client and by the lock   *)
(* on the session's own set of subscriptions.  A forwarding task keeps its *)
(* read guard while it waits for room in the channel, the receive loop     *)
(* needs the write guard.  The two event streams are broadcast channels    *)
(* that drop their oldest event when the session lags too far behind.      *)
(* Registry calls are single steps here; module WsState has their locks.   *)
(***************************************************************************)
EXTENDS Naturals, Sequences, FiniteSets, SequencesExt

CONSTANTS
  Proofs,             \* proof ids
  Named,              \* those this session's client asks about
  MaxSubscriptions,   \* MAX_SUBSCRIPTIONS_PER_SESSION
  ChannelSize,        \* capacity of the channel to the send task (32)
  MaxLag,             \* capacity of the broadcast channels (1024)
  MaxInbox,           \* bound on client messages in the socket
  MaxRequests,        \* bound on client messages altogether
  MaxBatched          \* bound on "batched" events per proof (requeued batches)

ASSUME SessionAssumption ==
  /\ Named \subseteq Proofs
  /\ MaxSubscriptions \in Nat
  /\ ChannelSize \in Nat \ {0} /\ MaxLag \in Nat \ {0}
  /\ MaxInbox \in Nat /\ MaxRequests \in Nat /\ MaxBatched \in Nat

Streams == {"confirmed", "batched"}

VARIABLES
  inbox,        \* client messages the receive loop has not read
  hungUp,       \* the client is gone
  main,         \* the receive loop: step, proof, message to send
  registered,   \* proofs this session is registered for in WsState
  count,        \* its session_subscription_counts entry
  localSubs,    \* session_subscriptions
  events,       \* events[e]: the session's broadcast receivers
  forward,      \* forward[e]: the forwarding tasks: step and proof
  channel,      \* the mpsc channel to the send task
  sending,      \* the send task is running
  cancelled,    \* cancel_token
  happened,     \* happened[p]: events the calendar has broadcast (environment)
  requests,     \* client messages so far
  got,          \* proofs whose confirmation reached the client (history)
  missed,       \* proofs whose confirmation was dropped for lag (history)
  listening,    \* proofs the client knows it is subscribed to (history)
  quiet,        \* proofs the client knows it is unsubscribed from (history)
  owed          \* confirmations broadcast while listening (history)

clientVars == <<inbox, hungUp, requests, got, listening, quiet>>
mainVars == <<main, registered, count, localSubs>>
taskVars == <<forward, sending, cancelled>>
eventVars == <<happened, missed, owed, events>>
vars == <<clientVars, mainVars, taskVars, eventVars, channel>>

Msg(type, p) == [type |-> type, proof |-> p]
Error == Msg("error", "none")
Waiting == [at |-> "wait", proof |-> "none", reply |-> Error]
Receiving == [at |-> "recv", proof |-> "none"]

Init ==
  /\ inbox = <<>> /\ hungUp = FALSE /\ requests = 0
  /\ main = Waiting /\ registered = {} /\ count = 0 /\ localSubs = {}
  /\ events = [e \in Streams |-> <<>>] /\ forward = [e \in Streams |-> Receiving]
  /\ channel = <<>> /\ sending = TRUE /\ cancelled = FALSE
  /\ happened = [p \in Proofs |-> [batched |-> 0, confirmed |-> FALSE]]
  /\ got = {} /\ missed = {} /\ listening = {} /\ quiet = {} /\ owed = {}

-----------------------------------------------------------------------------
(* The client, and the calendar's broadcasts *)

ClientMessages ==
  [type : {"subscribe", "unsubscribe"}, proof : Named] \cup {Msg("ping", "none")}

ClientSend(m) ==
  /\ ~hungUp /\ requests < MaxRequests /\ Len(inbox) < MaxInbox
  /\ requests' = requests + 1
  /\ inbox' = Append(inbox, m)
  /\ IF m.type = "unsubscribe"
       THEN listening' = listening \ {m.proof} /\ owed' = owed \ {m.proof}
       ELSE UNCHANGED <<listening, owed>>
  /\ quiet' = IF m.type = "subscribe" THEN quiet \ {m.proof} ELSE quiet
  /\ UNCHANGED <<hungUp, got, mainVars, taskVars, happened, missed, events, channel>>

HangUp ==
  /\ ~hungUp /\ hungUp' = TRUE
  /\ UNCHANGED <<inbox, requests, got, listening, quiet, mainVars, taskVars,
                 eventVars, channel>>

(* broadcast_confirmation and broadcast_batched reach the session's        *)
(* receivers until the tasks that own them end.                            *)
Broadcast(e, p) ==
  /\ ~happened[p].confirmed
  /\ \/ /\ e = "confirmed"
        /\ happened' = [happened EXCEPT ![p].confirmed = TRUE]
     \/ /\ e = "batched" /\ happened[p].batched < MaxBatched
        /\ happened' = [happened EXCEPT ![p].batched = @ + 1]
  /\ LET full == Len(events[e]) = MaxLag
         kept == IF full THEN Tail(events[e]) ELSE events[e]
     IN  IF forward[e].at = "done" THEN UNCHANGED <<events, missed>>
         ELSE /\ events' = [events EXCEPT ![e] = Append(kept, p)]
              /\ missed' = IF full /\ e = "confirmed"
                           THEN missed \cup {Head(events[e])} ELSE missed
  /\ owed' = IF e = "confirmed" /\ p \in listening THEN owed \cup {p} ELSE owed
  /\ UNCHANGED <<clientVars, mainVars, taskVars, channel>>

-----------------------------------------------------------------------------
(* The receive loop *)

(* Where a successful subscribe leads; the slip acknowledges first and     *)
(* never adds the proof to the session's set.                              *)
AfterSubscribeAckOnly == "reply"
AfterSubscribe == "insert"

(* The session's charge after a message.                                   *)
ChargeAfter(type, p) ==
  CASE type = "subscribe" -> count + 1
    [] type = "unsubscribe" /\ p \in registered /\ count > 0 -> count - 1
    [] OTHER -> count

(* The next client message: a registry call, or an answer at once.  A      *)
(* message that is no ClientMessage is answered with an error too.         *)
Receive ==
  /\ main.at = "wait" /\ inbox # <<>>
  /\ inbox' = Tail(inbox)
  /\ LET m == Head(inbox) IN
     \/ /\ m.type = "subscribe" /\ count < MaxSubscriptions
        /\ registered' = registered \cup {m.proof}
        /\ count' = ChargeAfter(m.type, m.proof)
        /\ main' = [at |-> AfterSubscribe, proof |-> m.proof,
                    reply |-> Msg("subscribed", m.proof)]
     \/ /\ m.type = "subscribe" /\ count >= MaxSubscriptions
        /\ main' = [at |-> "reply", proof |-> m.proof, reply |-> Error]
        /\ UNCHANGED <<registered, count>>
     \/ /\ m.type = "unsubscribe"
        /\ registered' = registered \ {m.proof}
        /\ count' = ChargeAfter(m.type, m.proof)
        /\ main' = [at |-> "remove", proof |-> m.proof,
                    reply |-> Msg("unsubscribed", m.proof)]
     \/ /\ m.type = "ping"
        /\ main' = [at |-> "reply", proof |-> m.proof, reply |-> Msg("pong", m.proof)]
        /\ UNCHANGED <<registered, count>>
  /\ UNCHANGED <<hungUp, requests, got, listening, quiet, localSubs, taskVars,
                 eventVars, channel>>

(* More than MAX_MESSAGES_PER_SECOND: one last message, then the loop ends. *)
RateLimit ==
  /\ main.at = "wait" /\ inbox # <<>>
  /\ inbox' = Tail(inbox)
  /\ main' = [at |-> "last", proof |-> "none", reply |-> Error]
  /\ UNCHANGED <<hungUp, requests, got, listening, quiet, registered, count,
                 localSubs, taskVars, eventVars, channel>>

(* A forwarding task that found its event's proof in the set keeps the     *)
(* read guard until the event is in the channel.  One slip drops the guard *)
(* after the look-up, the other takes it once, outside the task's loop.    *)
HoldsGuardNever(e) == FALSE
HoldsGuardAlways(e) == forward[e].at # "done"
HoldsGuard(e) == forward[e].at = "send"

(* session_subscriptions.write().await, then insert or remove. *)
UpdateLocal ==
  /\ main.at \in {"insert", "remove"}
  /\ \A e \in Streams : ~HoldsGuard(e)
  /\ localSubs' = IF main.at = "insert" THEN localSubs \cup {main.proof}
                                        ELSE localSubs \ {main.proof}
  /\ main' = [main EXCEPT !.at = "reply"]
  /\ UNCHANGED <<clientVars, registered, count, taskVars, eventVars, channel>>

(* tx.send of the answer: it waits for room, and its failure is ignored. *)
Reply ==
  /\ main.at \in {"reply", "last"}
  /\ IF sending THEN /\ Len(channel) < ChannelSize
                     /\ channel' = Append(channel, main.reply)
                ELSE UNCHANGED channel
  /\ main' = IF main.at = "reply" THEN Waiting ELSE [Waiting EXCEPT !.at = "cleanup"]
  /\ UNCHANGED <<clientVars, registered, count, localSubs, taskVars, eventVars>>

(* The stream ends, in a close frame or an error. *)
StreamEnds ==
  /\ main.at = "wait" /\ hungUp
  /\ inbox' = <<>>
  /\ main' = [Waiting EXCEPT !.at = "cleanup"]
  /\ UNCHANGED <<hungUp, requests, got, listening, quiet, registered, count,
                 localSubs, taskVars, eventVars, channel>>

(* unsubscribe_all and release_connection, then the cancel token; the slip *)
(* forgets the token.                                                      *)
Cleanup ==
  /\ main.at = "cleanup"
  /\ registered' = {} /\ count' = 0
  /\ main' = [Waiting EXCEPT !.at = "cancel"]
  /\ UNCHANGED <<clientVars, localSubs, taskVars, eventVars, channel>>

CancelSkipped ==
  /\ main.at = "cancel"
  /\ main' = [Waiting EXCEPT !.at = "done"]
  /\ UNCHANGED <<clientVars, registered, count, localSubs, taskVars, eventVars, channel>>
Cancel ==
  /\ main.at = "cancel"
  /\ cancelled' = TRUE
  /\ main' = [Waiting EXCEPT !.at = "done"]
  /\ UNCHANGED <<clientVars, registered, count, localSubs, forward, sending,
                 eventVars, channel>>

-----------------------------------------------------------------------------
(* The forwarding tasks *)

TakeEvent(e) ==
  /\ forward[e].at = "recv" /\ events[e] # <<>>
  /\ events' = [events EXCEPT ![e] = Tail(@)]
  /\ forward' = [forward EXCEPT ![e] = [at |-> "check", proof |-> Head(events[e])]]
  /\ UNCHANGED <<clientVars, mainVars, sending, cancelled, happened, missed, owed,
                 channel>>

(* session_subscriptions.read().await, then contains. *)
Check(e) ==
  /\ forward[e].at = "check"
  /\ forward' = [forward EXCEPT ![e] = IF forward[e].proof \in localSubs
                                         THEN [@ EXCEPT !.at = "send"] ELSE Receiving]
  /\ UNCHANGED <<clientVars, mainVars, sending, cancelled, eventVars, channel>>

(* tx.send of the event: it waits for room; without a receiver the task    *)
(* ends.                                                                   *)
Forward(e) ==
  /\ forward[e].at = "send"
  /\ IF sending
       THEN /\ Len(channel) < ChannelSize
            /\ channel' = Append(channel, Msg(e, forward[e].proof))
            /\ forward' = [forward EXCEPT ![e] = Receiving]
       ELSE /\ forward' = [forward EXCEPT ![e] = [Receiving EXCEPT !.at = "done"]]
            /\ UNCHANGED channel
  /\ UNCHANGED <<clientVars, mainVars, sending, cancelled, eventVars>>

StopForwarding(e) ==
  /\ cancelled /\ forward[e].at = "recv"
  /\ forward' = [forward EXCEPT ![e].at = "done"]
  /\ UNCHANGED <<clientVars, mainVars, sending, cancelled, eventVars, channel>>

-----------------------------------------------------------------------------
(* The send task *)

(* No other request about p is on its way to the loop or answer about p on *)
(* its way back, so what the client is told of p is still so.              *)
Settled(p) ==
  /\ p \notin {inbox[i].proof : i \in DOMAIN inbox}
  /\ main.proof # p
  /\ \A i \in 2..Len(channel) :
       channel[i].type \in {"subscribed", "unsubscribed"} => channel[i].proof # p

(* One message to the client's socket. *)
SendToClient ==
  /\ sending /\ channel # <<>> /\ ~hungUp
  /\ channel' = Tail(channel)
  /\ LET m == Head(channel) IN
     /\ got' = IF m.type = "confirmed" THEN got \cup {m.proof} ELSE got
     /\ listening' = IF m.type = "subscribed" /\ Settled(m.proof)
                       THEN listening \cup {m.proof} ELSE listening
     /\ quiet' = IF m.type = "unsubscribed" /\ Settled(m.proof)
                   THEN quiet \cup {m.proof} ELSE quiet
  /\ UNCHANGED <<inbox, hungUp, requests, mainVars, taskVars, eventVars>>

(* The task ends on a failed send or on the token; the channel goes with it. *)
StopSending ==
  /\ sending
  /\ cancelled \/ (hungUp /\ channel # <<>>)
  /\ sending' = FALSE
  /\ channel' = <<>>
  /\ UNCHANGED <<clientVars, mainVars, forward, cancelled, eventVars>>

-----------------------------------------------------------------------------

Loop == Receive \/ RateLimit \/ UpdateLocal \/ Reply \/ StreamEnds \/ Cleanup \/ Cancel
Task(e) == TakeEvent(e) \/ Check(e) \/ Forward(e) \/ StopForwarding(e)

Next ==
  \/ \E m \in ClientMessages : ClientSend(m)
  \/ HangUp
  \/ \E e \in Streams, p \in Proofs : Broadcast(e, p)
  \/ Loop
  \/ \E e \in Streams : Task(e)
  \/ SendToClient \/ StopSending

Spec == Init /\ [][Next]_vars

(* The four tasks run and the client reads what it is sent or hangs up.    *)
(* Waiters for the lock and for room in the channel are served in arrival  *)
(* order, hence strong fairness there.                                     *)
Fairness ==
  /\ WF_vars(Receive \/ RateLimit \/ StreamEnds) /\ WF_vars(Cleanup) /\ WF_vars(Cancel)
  /\ SF_vars(UpdateLocal) /\ SF_vars(Reply)
  /\ \A e \in Streams : /\ WF_vars(TakeEvent(e) \/ StopForwarding(e))
                        /\ WF_vars(Check(e)) /\ SF_vars(Forward(e))
  /\ WF_vars(SendToClient \/ StopSending)

FairSpec == Spec /\ Fairness

-----------------------------------------------------------------------------

(* Between two client messages the session's own set, which decides what   *)
(* is forwarded, is what the registry says the session is subscribed to;   *)
(* and the session is never charged for fewer.                             *)
RegistryAgrees ==
  main.at = "wait" => localSubs = registered /\ Cardinality(registered) <= count

Ended == hungUp \/ main.at \in {"last", "cleanup", "cancel", "done"}

(* A confirmation broadcast after the client was told "subscribed" reaches *)
(* it or is on its way, unless the session lagged, the client unsubscribed *)
(* since, or the connection is over.                                       *)
NoConfirmationLost == \A p \in owed :
  \/ Ended
  \/ p \in got \cup missed \cup ToSet(events["confirmed"])
  \/ Msg("confirmed", p) \in ToSet(channel)
  \/ forward["confirmed"].at \in {"check", "send"} /\ forward["confirmed"].proof = p

(* Once the client has been told "unsubscribed", no event about the proof  *)
(* follows until it subscribes again: the guard a forwarding task keeps    *)
(* across its send orders the event before the acknowledgement.            *)
QuietAfterUnsubscribed ==
  [][SendToClient =>
       ~(Head(channel).type \in Streams /\ Head(channel).proof \in quiet)]_vars

(* Every client message is dealt with: the loop, the forwarding tasks and  *)
(* the send task never wait for each other in a circle, however full the   *)
(* channel.                                                                *)
LoopAlwaysReturns == (main.at # "wait") ~> (main.at \in {"wait", "done"})

(* A session that ends ends all its tasks. *)
TasksEnd ==
  (main.at = "done") ~> (~sending /\ \A e \in Streams : forward[e].at = "done")

=============================================================================
