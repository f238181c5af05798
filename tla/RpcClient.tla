------------------------------ MODULE RpcClient ------------------------------
(***************************************************************************)
(* The calendar's one connection to a Kaspa node: KaspaService::connect    *)
(* with its retries, KaspaClient::connect with the write and the read task *)
(* it spawns, and send_request as several tasks call it at once, with the  *)
(* table of waiting requests the read task answers from.  The socket may   *)
(* close at any moment, the peer may stop reading from it, an answer may   *)
(* come late, and a call may time out.                                     *)
(***************************************************************************)
EXTENDS Integers, Sequences, Functions

CONSTANTS
  Callers,       \* tasks that call the client
  ChannelSize,   \* requests on their way to the socket: 32 in the channel,
                 \* and the one the write task has in hand
  MaxDials,      \* attempts of KaspaService::connect (6)
  MaxId          \* bound on request ids, for TLC

ASSUME RpcAssumption ==
  /\ {ChannelSize, MaxDials} \subseteq Nat \ {0}
  /\ MaxId \in Nat

VARIABLES
  connector,   \* KaspaService::connect: where it is, attempts so far
  connected,   \* KaspaService.connected
  state,       \* KaspaClient.state
  hasSender,   \* KaspaClient.ws_sender is Some
  socket,      \* the transport: none, open, stalled (open, but the peer
               \* does not read) or closed
  writing,     \* the write task runs
  reading,     \* the read task runs
  outbox,      \* the channel to the write task
  nodeHas,     \* requests the node has and has not answered
  answers,     \* answers on their way to the read task
  pending,     \* KaspaClient.pending_requests, as <<id, caller>>
  requestId,   \* KaspaClient.request_id
  caller       \* caller[c]: where send_request is, its id, the answer it got

connVars == <<connector, connected, state, hasSender>>
wireVars == <<socket, writing, reading, outbox, nodeHas, answers>>
callVars == <<pending, requestId, caller>>
vars == <<connVars, wireVars, callVars>>

NoAnswer == <<0, "none">>
Idle == [at |-> "idle", id |-> 0, got |-> NoAnswer]
Ids == 1..MaxId

Init ==
  /\ connector = [at |-> "dial", dials |-> 0] /\ connected = FALSE
  /\ state = "disconnected" /\ hasSender = FALSE
  /\ socket = "none" /\ writing = FALSE /\ reading = FALSE
  /\ outbox = <<>> /\ nodeHas = {} /\ answers = {}
  /\ pending = {} /\ requestId = 1
  /\ caller = [c \in Callers |-> Idle]

-----------------------------------------------------------------------------
(* connect *)

(* retry_with_backoff has made its last attempt.                           *)
Exhausted(n) == n = MaxDials

DialFails ==
  /\ connector.at = "dial"
  /\ connector' = [at |-> IF Exhausted(connector.dials + 1) THEN "gaveUp" ELSE "dial",
                   dials |-> connector.dials + 1]
  /\ state' = "connecting"
  /\ UNCHANGED <<connected, hasSender, wireVars, callVars>>

(* The stream is open: the channel is stored and the two tasks spawned.    *)
DialSucceeds ==
  /\ connector.at = "dial"
  /\ connector' = [connector EXCEPT !.at = "spawned"]
  /\ state' = "connecting"
  /\ hasSender' = TRUE /\ socket' = "open" /\ writing' = TRUE /\ reading' = TRUE
  /\ UNCHANGED <<connected, outbox, nodeHas, answers, callVars>>

(* The last write of KaspaClient::connect: Connected, whatever the read    *)
(* task has written since it was spawned.                                  *)
MarkConnected ==
  /\ connector.at = "spawned"
  /\ connector' = [connector EXCEPT !.at = "returned"]
  /\ state' = "connected"
  /\ UNCHANGED <<connected, hasSender, wireVars, callVars>>

(* KaspaService notes the connection; nothing clears the note later.       *)
NoteConnected ==
  /\ connector.at = "returned"
  /\ connector' = [connector EXCEPT !.at = "done"]
  /\ connected' = TRUE
  /\ UNCHANGED <<state, hasSender, wireVars, callVars>>

-----------------------------------------------------------------------------
(* send_request *)

(* The order of the two halves; the slip sends before it registers.        *)
FirstHalfSend == "send"
FirstHalf == "register"
OtherHalf == CHOOSE h \in {"register", "send"} : h # FirstHalf
After(half) == IF half = FirstHalf THEN OtherHalf ELSE "wait"

(* fetch_add on the id counter; the slip reads it and adds elsewhere.      *)
IdAfterReused == requestId
IdAfter == requestId + 1

Call(c) ==
  /\ caller[c].at = "idle" /\ connected /\ hasSender
  /\ requestId <= MaxId
  /\ caller' = [caller EXCEPT ![c] = [at |-> FirstHalf, id |-> requestId, got |-> NoAnswer]]
  /\ requestId' = IdAfter
  /\ UNCHANGED <<connVars, wireVars, pending>>

(* insert replaces the entry of the same id, if there is one. *)
Register(c) ==
  /\ caller[c].at = "register"
  /\ pending' = {r \in pending : r[1] # caller[c].id} \cup {<<caller[c].id, c>>}
  /\ caller' = [caller EXCEPT ![c].at = After("register")]
  /\ UNCHANGED <<connVars, wireVars, requestId>>

Send(c) ==
  /\ caller[c].at = "send" /\ writing
  /\ Len(outbox) < ChannelSize
  /\ outbox' = Append(outbox, <<caller[c].id, c>>)
  /\ caller' = [caller EXCEPT ![c].at = After("send")]
  /\ UNCHANGED <<connVars, socket, writing, reading, nodeHas, answers, pending, requestId>>

(* The write task is gone and the channel with it: an error, and the entry *)
(* stays registered.                                                       *)
SendFails(c) ==
  /\ caller[c].at = "send" /\ ~writing
  /\ caller' = [caller EXCEPT ![c] = Idle]
  /\ UNCHANGED <<connVars, wireVars, pending, requestId>>

(* The timeout around the wait; the slip waits for as long as it takes.    *)
MayExpireNever(c) == FALSE
MayExpire(c) == caller[c].at = "wait"

Timeout(c) ==
  /\ MayExpire(c)
  /\ caller' = [caller EXCEPT ![c] = Idle]
  /\ UNCHANGED <<connVars, wireVars, pending, requestId>>

Return(c) ==
  /\ caller[c].at = "wait" /\ caller[c].got # NoAnswer
  /\ caller' = [caller EXCEPT ![c] = Idle]
  /\ UNCHANGED <<connVars, wireVars, pending, requestId>>

-----------------------------------------------------------------------------
(* The write and the read task *)

(* ws_write.send returns when the peer takes the message or the socket is  *)
(* closed; while it is stalled the task is held up with it.                *)
WriteTask ==
  /\ writing /\ outbox # <<>>
  /\ \/ /\ socket = "open"
        /\ nodeHas' = nodeHas \cup {Head(outbox)}
        /\ outbox' = Tail(outbox)
        /\ UNCHANGED writing
     \/ /\ socket = "closed"
        /\ writing' = FALSE /\ outbox' = <<>>
        /\ UNCHANGED nodeHas
  /\ UNCHANGED <<connVars, socket, reading, answers, callVars>>

(* The task a registered id belongs to gets the answer, if it is still     *)
(* waiting for that id; an answer nobody is registered for is dropped.     *)
Waiter(r) == {c \in Callers : <<r[1], c>> \in pending /\ caller[c].id = r[1]}

Unregistered(r) == {q \in pending : q[1] # r[1]}

ReadTask ==
  /\ reading
  /\ \E r \in answers :
       /\ answers' = answers \ {r}
       /\ pending' = Unregistered(r)
       /\ caller' = [c \in Callers |->
                       IF c \in Waiter(r) THEN [caller[c] EXCEPT !.got = r] ELSE caller[c]]
  /\ UNCHANGED <<connVars, socket, writing, reading, outbox, nodeHas, requestId>>

(* A Close frame or an error ends the read task, and only the read task:   *)
(* the requests it would have answered are left to time out.               *)
ReadEnds ==
  /\ reading /\ socket = "closed"
  /\ reading' = FALSE /\ state' = "disconnected"
  /\ UNCHANGED <<connector, connected, hasSender, socket, writing, outbox, nodeHas, answers, callVars>>

-----------------------------------------------------------------------------
(* The node and the network *)

OpenStates == {"open", "stalled"}

NodeAnswers ==
  /\ socket \in OpenStates
  /\ \E r \in nodeHas : nodeHas' = nodeHas \ {r} /\ answers' = answers \cup {r}
  /\ UNCHANGED <<connVars, socket, writing, reading, outbox, callVars>>

Closes ==
  /\ socket \in OpenStates
  /\ socket' = "closed"
  /\ UNCHANGED <<connVars, writing, reading, outbox, nodeHas, answers, callVars>>

(* The peer stops reading, or reads again.                                 *)
Stalls ==
  /\ socket \in OpenStates
  /\ socket' = IF socket = "open" THEN "stalled" ELSE "open"
  /\ UNCHANGED <<connVars, writing, reading, outbox, nodeHas, answers, callVars>>

-----------------------------------------------------------------------------
Connect == DialFails \/ DialSucceeds \/ MarkConnected \/ NoteConnected
Reply(c) == Register(c) \/ Send(c) \/ SendFails(c) \/ Timeout(c) \/ Return(c)

Next ==
  \/ Connect
  \/ \E c \in Callers : Call(c) \/ Reply(c)
  \/ WriteTask \/ ReadTask \/ ReadEnds \/ NodeAnswers \/ Closes \/ Stalls

Spec == Init /\ [][Next]_vars

(* The tasks are scheduled and timers fire.  A message that the peer is    *)
(* ready for again and again is written in the end; nothing is assumed of  *)
(* the peer's reading or answers, and the socket need not close.           *)
FairSpec ==
  /\ Spec
  /\ WF_vars(Connect) /\ SF_vars(WriteTask) /\ WF_vars(ReadTask) /\ WF_vars(ReadEnds)
  /\ \A c \in Callers : WF_vars(Reply(c))

-----------------------------------------------------------------------------
(* An answer never reaches a call it was not meant for, however late it    *)
(* comes and whatever the caller asked since (send_request, read task).    *)
OwnAnswer == \A c \in Callers : caller[c].got # NoAnswer => caller[c].got = <<caller[c].id, c>>

(* While a call waits without its answer its id is registered, and as long *)
(* as the socket is open its request or the answer is still on the way: no *)
(* answer, however fast, finds the table without it and is dropped (the    *)
(* insert precedes the send).                                              *)
WaiterIsServed ==
  \A c \in Callers :
    LET request == <<caller[c].id, c>>
    IN  caller[c].at = "wait" /\ caller[c].got = NoAnswer =>
          /\ request \in pending
          /\ socket \in OpenStates => request \in Range(outbox) \cup nodeHas \cup answers

(* A call that has handed its request over returns, with an answer or a    *)
(* timeout, whatever becomes of the socket, the node and the two tasks.  A *)
(* call that has not may be waiting for room in the channel, outside the   *)
(* timeout: it returns too, unless the peer has stopped reading for good   *)
(* with the socket open.                                                   *)
CallsReturn ==
  /\ \A c \in Callers : caller[c].at = "wait" ~> caller[c].at = "idle"
  /\ \/ \A c \in Callers : caller[c].at # "idle" ~> caller[c].at = "idle"
     \/ <>[](socket = "stalled")

=============================================================================
