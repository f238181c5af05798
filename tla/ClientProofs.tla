---------------------------- MODULE ClientProofs -----------------------------
(***************************************************************************)
(* Proofs about the two programs at the end of a socket, whose answers     *)
(* come late and whose connections go: the core's client of the node,      *)
(* module RpcClient, for any number of callers, any capacity of the        *)
(* channel and any number of requests; and the browser's client of the     *)
(* calendar under the page of a stamp, modules CalendarClient and          *)
(* ProofPage, for any proofs and any number of sockets, drops and runs of  *)
(* the effect.  The two share no variable.                                 *)
(***************************************************************************)
EXTENDS RpcClient, ProofPage, FiniteSetTheorems, TLAPS

-----------------------------------------------------------------------------
(* The client of the node *)

Requests == Nat \X Callers

(* The requests that are somewhere between their caller and their answer   *)
OnTheWay == Range(outbox) \cup nodeHas \cup answers
Known == OnTheWay \cup pending

Active(c) == caller[c].at # "idle"
Request(c) == <<caller[c].id, c>>

Typed ==
  /\ requestId \in Nat \ {0}
  /\ outbox \in Seq(Requests) /\ Known \subseteq Requests
  /\ caller \in [Callers -> [at : {"idle", "register", "send", "wait"}, id : Nat,
                             got : Requests \cup {NoAnswer}]]

(* Every id that was given out belongs to one request, and the counter is  *)
(* beyond all of them, those of calls long timed out included.             *)
OneOwner ==
  /\ \A r \in Known : r[1] \in 1..(requestId - 1)
  /\ \A r, q \in Known : r[1] = q[1] => r = q
  /\ \A c \in Callers : Active(c) =>
       /\ caller[c].id \in 1..(requestId - 1)
       /\ \A r \in Known : r[1] = caller[c].id => r = Request(c)
       /\ \A d \in Callers : Active(d) /\ caller[c].id = caller[d].id => c = d
  /\ \A c \in Callers : ~Active(c) => caller[c] = Idle

(* A call is registered before it is sent, and stays so until it has its   *)
(* answer.                                                                 *)
Registered ==
  \A c \in Callers : caller[c].at \in {"send", "wait"} /\ caller[c].got = NoAnswer =>
    Request(c) \in pending

(* A call that waits for its answer has its request on the way while the   *)
(* socket is open.                                                         *)
Travelling ==
  \A c \in Callers : caller[c].at = "wait" /\ caller[c].got = NoAnswer /\ socket \in OpenStates =>
    Request(c) \in OnTheWay

(* Nobody calls before there is a connection, and there is only one.       *)
Dialling ==
  /\ connector \in [at : {"dial", "spawned", "returned", "done", "gaveUp"}, dials : Nat]
  /\ connector.at = "dial" => ~hasSender /\ \A c \in Callers : ~Active(c)

IInv == Typed /\ OneOwner /\ OwnAnswer /\ Registered /\ Travelling /\ Dialling

-----------------------------------------------------------------------------

(* insert comes before send, and the wait after both.                      *)
LEMMA Halves == FirstHalf = "register" /\ After("register") = "send" /\ After("send") = "wait"
<1>1. OtherHalf = "send"
  BY DEF OtherHalf, FirstHalf
<1> QED
  BY <1>1 DEF After, FirstHalf

(* What is in a queue after an element is put in, and after the first is   *)
(* taken out.                                                              *)
LEMMA QueueRange ==
  ASSUME NEW S, NEW q \in Seq(S)
  PROVE  /\ \A r \in S : Append(q, r) \in Seq(S) /\ Range(Append(q, r)) = Range(q) \cup {r}
         /\ q # <<>> => /\ Head(q) \in S /\ Tail(q) \in Seq(S)
                        /\ Range(q) = {Head(q)} \cup Range(Tail(q))
<1>1. Len(q) \in Nat /\ DOMAIN q = 1..Len(q)
  OBVIOUS
<1>2. ASSUME NEW r \in S
      PROVE  Append(q, r) \in Seq(S) /\ Range(Append(q, r)) = Range(q) \cup {r}
  <2> DEFINE p == Append(q, r)
  <2>1. /\ p \in Seq(S) /\ DOMAIN p = 1..(Len(q) + 1) /\ p[Len(q) + 1] = r
        /\ \A i \in 1..Len(q) : p[i] = q[i]
    BY <1>1
  <2> HIDE DEF p
  <2>2. \A x : x \in Range(p) <=> \E i \in 1..(Len(q) + 1) : p[i] = x
    BY <2>1 DEF Range
  <2>3. \A x : x \in Range(q) <=> \E i \in 1..Len(q) : q[i] = x
    BY <1>1 DEF Range
  <2>4. \A x : x \in Range(p) <=> x \in Range(q) \/ x = r
    BY <1>1, <2>1, <2>2, <2>3
  <2>5. Range(p) = Range(q) \cup {r}
    BY <2>4
  <2> QED
    BY <2>1, <2>5 DEF p
<1>3. ASSUME q # <<>>
      PROVE  Head(q) \in S /\ Tail(q) \in Seq(S) /\ Range(q) = {Head(q)} \cup Range(Tail(q))
  <2> DEFINE t == Tail(q)
  <2>1. /\ Len(q) > 0 /\ Head(q) = q[1] /\ Head(q) \in S
        /\ t \in Seq(S) /\ DOMAIN t = 1..(Len(q) - 1)
        /\ \A i \in 1..(Len(q) - 1) : t[i] = q[i + 1]
    BY <1>1, <1>3
  <2> HIDE DEF t
  <2>2. \A x : x \in Range(t) <=> \E i \in 1..(Len(q) - 1) : t[i] = x
    BY <2>1 DEF Range
  <2>3. \A x : x \in Range(q) <=> \E i \in 1..Len(q) : q[i] = x
    BY <1>1 DEF Range
  <2>4. ASSUME NEW x, x \in Range(q) PROVE x = q[1] \/ x \in Range(t)
    <3>1. PICK i \in 1..Len(q) : q[i] = x
      BY <2>3, <2>4
    <3>2. CASE i # 1
      <4>1. i - 1 \in 1..(Len(q) - 1) /\ t[i - 1] = x
        BY <1>1, <2>1, <3>1, <3>2
      <4> QED
        BY <2>2, <4>1
    <3> QED
      BY <3>1, <3>2
  <2>5. ASSUME NEW x, x \in Range(t) PROVE x \in Range(q)
    <3>1. PICK i \in 1..(Len(q) - 1) : t[i] = x
      BY <2>2, <2>5
    <3>2. i + 1 \in 1..Len(q) /\ q[i + 1] = x
      BY <1>1, <2>1, <3>1
    <3> QED
      BY <2>3, <3>2
  <2>6. q[1] \in Range(q)
    BY <1>1, <2>1, <2>3
  <2>7. Range(q) = {Head(q)} \cup Range(t)
    BY <2>1, <2>4, <2>5, <2>6
  <2> QED
    BY <2>1, <2>7 DEF t
<1> QED
  BY <1>2, <1>3

-----------------------------------------------------------------------------
(* Requests on their way *)

(* A step that only moves requests on, or loses them once the socket is    *)
(* closed, keeps the invariant.                                            *)
LEMMA MoveOn ==
  ASSUME IInv, UNCHANGED <<callVars, connector, hasSender>>, outbox' \in Seq(Requests),
         OnTheWay' \subseteq OnTheWay,
         socket' \in OpenStates => socket \in OpenStates /\ OnTheWay' = OnTheWay
  PROVE  IInv'
<1> USE DEF IInv
<1>1. /\ pending' = pending /\ requestId' = requestId /\ caller' = caller
      /\ \A c \in Callers : Active(c)' = Active(c) /\ Request(c)' = Request(c)
      /\ Known' \subseteq Known
  BY DEF callVars, Active, Request, Known
<1>2. Typed'
  BY <1>1 DEF Typed
<1>3. OneOwner'
  BY <1>1 DEF OneOwner
<1>4. OwnAnswer' /\ Registered' /\ Travelling' /\ Dialling'
  BY <1>1 DEF OwnAnswer, Registered, Travelling, Dialling
<1> QED
  BY <1>2, <1>3, <1>4

(* The write task hands the oldest request to the node, or ends.           *)
LEMMA WriteTaskIInv ==
  ASSUME IInv, WriteTask
  PROVE  IInv'
<1>1. /\ UNCHANGED <<callVars, connector, hasSender, socket, answers>> /\ outbox # <<>>
      /\ outbox \in Seq(Requests)
      /\ \/ nodeHas' = nodeHas \cup {Head(outbox)} /\ outbox' = Tail(outbox)
         \/ socket = "closed" /\ outbox' = <<>> /\ nodeHas' = nodeHas
  BY DEF WriteTask, connVars, IInv, Typed
<1>2. CASE nodeHas' = nodeHas \cup {Head(outbox)} /\ outbox' = Tail(outbox)
  <2>1. outbox' \in Seq(Requests) /\ Range(outbox) = {Head(outbox)} \cup Range(outbox')
    BY <1>1, <1>2, QueueRange
  <2>2. OnTheWay' = OnTheWay
    BY <1>1, <1>2, <2>1 DEF OnTheWay
  <2> QED
    BY <1>1, <2>1, <2>2, MoveOn
<1>3. CASE socket = "closed" /\ outbox' = <<>> /\ nodeHas' = nodeHas
  <2>1. outbox' \in Seq(Requests) /\ Range(outbox') = {}
    BY <1>3 DEF Range
  <2>2. OnTheWay' \subseteq OnTheWay
    BY <1>1, <1>3, <2>1 DEF OnTheWay
  <2> QED
    BY <1>1, <1>3, <2>1, <2>2, MoveOn DEF OpenStates
<1> QED
  BY <1>1, <1>2, <1>3

(* The node's answer, the peer that stalls, and the end of the connection  *)
(* and of the read task                                                    *)
LEMMA WireIInv ==
  ASSUME IInv, NodeAnswers \/ Closes \/ Stalls \/ ReadEnds
  PROVE  IInv'
<1>1. /\ UNCHANGED <<callVars, connector, hasSender, outbox>> /\ outbox \in Seq(Requests)
      /\ \/ socket' = socket /\ nodeHas' \cup answers' = nodeHas \cup answers
         \/ socket' = "closed" /\ nodeHas' = nodeHas /\ answers' = answers
         \/ socket \in OpenStates /\ nodeHas' = nodeHas /\ answers' = answers
  BY DEF NodeAnswers, Closes, Stalls, ReadEnds, connVars, IInv, Typed
<1>2. OnTheWay' = OnTheWay
  BY <1>1 DEF OnTheWay
<1>3. socket' \in OpenStates => socket \in OpenStates
  BY <1>1 DEF OpenStates
<1> QED
  BY <1>1, <1>2, <1>3, MoveOn

-----------------------------------------------------------------------------
(* Calls *)

(* The new id is beyond all that are known.                                *)
LEMMA CallIInv ==
  ASSUME IInv, NEW c \in Callers, Call(c)
  PROVE  IInv'
<1> USE DEF IInv
<1> DEFINE entry == [at |-> "register", id |-> requestId, got |-> NoAnswer]
<1>1. /\ UNCHANGED <<connVars, wireVars, pending>> /\ hasSender
      /\ caller' = [caller EXCEPT ![c] = entry] /\ requestId' = requestId + 1
  BY Halves DEF Call, IdAfter
<1>2. /\ requestId \in Nat \ {0} /\ caller \in [Callers -> [at : {"idle", "register", "send", "wait"},
                                     id : Nat, got : Requests \cup {NoAnswer}]]
      /\ entry \in [at : {"idle", "register", "send", "wait"}, id : Nat, got : Requests \cup {NoAnswer}]
  BY DEF Typed
<1>3. /\ caller'[c] = entry /\ \A d \in Callers \ {c} : caller'[d] = caller[d]
      /\ caller' \in [Callers -> [at : {"idle", "register", "send", "wait"},
                                  id : Nat, got : Requests \cup {NoAnswer}]]
  BY <1>1, <1>2
<1>4. Known' = Known /\ OnTheWay' = OnTheWay /\ pending' = pending /\ outbox' = outbox
      /\ socket' = socket /\ connector' = connector /\ hasSender' = hasSender
  BY <1>1 DEF Known, OnTheWay, wireVars, connVars
<1>5. /\ \A d \in Callers \ {c} : Active(d)' = Active(d) /\ Request(d)' = Request(d)
      /\ Active(c)' /\ caller'[c].id = requestId /\ caller'[c].at = "register"
      /\ caller'[c].got = NoAnswer
  BY <1>3 DEF Active, Request
<1> HIDE DEF entry
<1>6. Typed'
  BY <1>1, <1>2, <1>3, <1>4 DEF Typed
<1>7. OneOwner'
  <2>1. \A r \in Known : r[1] \in 1..(requestId' - 1) /\ r[1] # requestId
    BY <1>1, <1>2 DEF OneOwner
  <2>2. \A d \in Callers \ {c} : Active(d) => caller[d].id \in 1..(requestId' - 1) /\ caller[d].id # requestId
    BY <1>1, <1>2 DEF OneOwner
  <2>3. requestId \in 1..(requestId' - 1)
    BY <1>1, <1>2
  <2> QED
    BY <1>3, <1>4, <1>5, <2>1, <2>2, <2>3 DEF OneOwner
<1>8. OwnAnswer' /\ Registered' /\ Travelling'
  BY <1>3, <1>4, <1>5 DEF OwnAnswer, Registered, Travelling
<1>9. Dialling'
  BY <1>1, <1>4 DEF Dialling
<1> QED
  BY <1>6, <1>7, <1>8, <1>9

(* insert: the id is the caller's, so that nothing else is replaced.       *)
LEMMA RegisterIInv ==
  ASSUME IInv, NEW c \in Callers, Register(c)
  PROVE  IInv'
<1> USE DEF IInv
<1>1. /\ UNCHANGED <<connVars, wireVars, requestId>> /\ caller[c].at = "register"
      /\ pending' = {r \in pending : r[1] # caller[c].id} \cup {Request(c)}
      /\ caller' = [caller EXCEPT ![c].at = "send"]
  BY Halves DEF Register, Request
<1>2. /\ caller \in [Callers -> [at : {"idle", "register", "send", "wait"},
                                 id : Nat, got : Requests \cup {NoAnswer}]]
      /\ Known \subseteq Requests /\ Active(c) /\ Request(c) \in Requests
  BY <1>1 DEF Typed, Active, Request, Requests
<1>3. /\ caller'[c].at = "send" /\ caller'[c].id = caller[c].id /\ caller'[c].got = caller[c].got
      /\ \A d \in Callers \ {c} : caller'[d] = caller[d]
      /\ caller' \in [Callers -> [at : {"idle", "register", "send", "wait"},
                                  id : Nat, got : Requests \cup {NoAnswer}]]
  BY <1>1, <1>2
<1>4. /\ OnTheWay' = OnTheWay /\ outbox' = outbox /\ socket' = socket
      /\ connector' = connector /\ hasSender' = hasSender
  BY <1>1 DEF OnTheWay, wireVars, connVars
<1>5. \A d \in Callers : Active(d)' = Active(d) /\ Request(d)' = Request(d)
  BY <1>1, <1>3 DEF Active, Request
<1>6. /\ pending \subseteq pending' /\ Request(c) \in pending'
      /\ Known' \subseteq Known \cup {Request(c)}
  <2>1. \A r \in pending : r[1] = caller[c].id => r = Request(c)
    BY <1>2 DEF OneOwner, Known
  <2> QED
    BY <1>1, <1>4, <2>1 DEF Known
<1>7. Typed'
  BY <1>1, <1>2, <1>3, <1>4, <1>6 DEF Typed
<1>8. OneOwner'
  <2>1. Request(c)[1] = caller[c].id
    BY DEF Request
  <2>2. \A d \in Callers : Active(d) /\ caller[d].id = Request(c)[1] => d = c
    BY <1>2, <2>1 DEF OneOwner
  <2>3. \A d \in Callers : caller'[d].id = caller[d].id
    BY <1>3
  <2>4. \A d \in Callers : ~Active(d)' => caller'[d] = Idle
    BY <1>2, <1>3, <1>5 DEF OneOwner
  <2> QED
    BY <1>1, <1>2, <1>5, <1>6, <2>1, <2>2, <2>3, <2>4 DEF OneOwner
<1>9. OwnAnswer' /\ Registered' /\ Travelling'
  BY <1>3, <1>4, <1>5, <1>6 DEF OwnAnswer, Registered, Travelling, Request
<1>10. Dialling'
  BY <1>4, <1>5 DEF Dialling
<1> QED
  BY <1>7, <1>8, <1>9, <1>10

(* send: the request sets out with its entry in place.                     *)
LEMMA SendIInv ==
  ASSUME IInv, NEW c \in Callers, Send(c)
  PROVE  IInv'
<1> USE DEF IInv
<1>1. /\ UNCHANGED <<connVars, socket, nodeHas, answers, pending, requestId>> /\ caller[c].at = "send"
      /\ outbox' = Append(outbox, Request(c))
      /\ caller' = [caller EXCEPT ![c].at = "wait"]
  BY Halves DEF Send, Request
<1>2. /\ caller \in [Callers -> [at : {"idle", "register", "send", "wait"},
                                 id : Nat, got : Requests \cup {NoAnswer}]]
      /\ Known \subseteq Requests /\ Active(c) /\ Request(c) \in Requests /\ outbox \in Seq(Requests)
  BY <1>1 DEF Typed, Active, Request, Requests
<1>3. /\ caller'[c].at = "wait" /\ caller'[c].id = caller[c].id /\ caller'[c].got = caller[c].got
      /\ \A d \in Callers \ {c} : caller'[d] = caller[d]
      /\ caller' \in [Callers -> [at : {"idle", "register", "send", "wait"},
                                  id : Nat, got : Requests \cup {NoAnswer}]]
  BY <1>1, <1>2
<1>4. outbox' \in Seq(Requests) /\ Range(outbox') = Range(outbox) \cup {Request(c)}
  BY <1>1, <1>2, QueueRange
<1>5. \A d \in Callers : Active(d)' = Active(d) /\ Request(d)' = Request(d)
  BY <1>1, <1>3 DEF Active, Request
<1>6. /\ OnTheWay' = OnTheWay \cup {Request(c)} /\ Known' = Known \cup {Request(c)}
      /\ pending' = pending /\ socket' = socket /\ connector' = connector /\ hasSender' = hasSender
  BY <1>1, <1>4 DEF Known, OnTheWay, connVars
<1>7. Typed'
  BY <1>1, <1>2, <1>3, <1>4, <1>6 DEF Typed
<1>8. OneOwner'
  <2>1. Request(c)[1] = caller[c].id
    BY DEF Request
  <2>2. \A d \in Callers : Active(d) /\ caller[d].id = Request(c)[1] => d = c
    BY <1>2, <2>1 DEF OneOwner
  <2>3. \A d \in Callers : caller'[d].id = caller[d].id
    BY <1>3
  <2>4. \A d \in Callers : ~Active(d)' => caller'[d] = Idle
    BY <1>2, <1>3, <1>5 DEF OneOwner
  <2> QED
    BY <1>1, <1>2, <1>5, <1>6, <2>1, <2>2, <2>3, <2>4 DEF OneOwner
<1>9. OwnAnswer' /\ Registered' /\ Travelling'
  BY <1>1, <1>3, <1>5, <1>6 DEF OwnAnswer, Registered, Travelling, Request
<1>10. Dialling'
  BY <1>5, <1>6 DEF Dialling
<1> QED
  BY <1>7, <1>8, <1>9, <1>10

(* A call that ends leaves its entry and its request behind.               *)
LEMMA EndOfCallIInv ==
  ASSUME IInv, NEW c \in Callers, SendFails(c) \/ Timeout(c) \/ Return(c)
  PROVE  IInv'
<1> USE DEF IInv
<1>1. /\ UNCHANGED <<connVars, wireVars, pending, requestId>>
      /\ caller' = [caller EXCEPT ![c] = Idle]
  BY DEF SendFails, Timeout, Return
<1>2. /\ caller \in [Callers -> [at : {"idle", "register", "send", "wait"},
                                 id : Nat, got : Requests \cup {NoAnswer}]]
      /\ Idle \in [at : {"idle", "register", "send", "wait"}, id : Nat, got : Requests \cup {NoAnswer}]
      /\ Idle.at = "idle" /\ Idle.got = NoAnswer
  BY DEF Typed, Idle
<1>3. /\ caller'[c] = Idle /\ \A d \in Callers \ {c} : caller'[d] = caller[d]
      /\ caller' \in [Callers -> [at : {"idle", "register", "send", "wait"},
                                  id : Nat, got : Requests \cup {NoAnswer}]]
  BY <1>1, <1>2
<1>4. /\ \A d \in Callers \ {c} : Active(d)' = Active(d) /\ Request(d)' = Request(d)
      /\ ~Active(c)'
  BY <1>2, <1>3 DEF Active, Request
<1>5. /\ Known' = Known /\ OnTheWay' = OnTheWay /\ pending' = pending /\ outbox' = outbox
      /\ socket' = socket /\ connector' = connector /\ hasSender' = hasSender
      /\ requestId' = requestId
  BY <1>1 DEF Known, OnTheWay, wireVars, connVars
<1>6. Typed'
  BY <1>3, <1>5 DEF Typed
<1>7. OneOwner'
  BY <1>3, <1>4, <1>5 DEF OneOwner
<1>8. OwnAnswer' /\ Registered' /\ Travelling' /\ Dialling'
  BY <1>2, <1>3, <1>4, <1>5 DEF OwnAnswer, Registered, Travelling, Dialling
<1> QED
  BY <1>6, <1>7, <1>8

(* An answer goes to the call it was meant for, or to nobody; the entries  *)
(* and the requests of the others stay.                                    *)
LEMMA ReadTaskIInv ==
  ASSUME IInv, ReadTask
  PROVE  IInv'
<1> USE DEF IInv
<1>1. PICK r \in answers :
        /\ answers' = answers \ {r} /\ pending' = Unregistered(r)
        /\ caller' = [c \in Callers |->
                        IF c \in Waiter(r) THEN [caller[c] EXCEPT !.got = r] ELSE caller[c]]
  BY DEF ReadTask
<1>2. UNCHANGED <<connVars, socket, outbox, nodeHas, requestId>>
  BY DEF ReadTask
<1>3. /\ r \in Known /\ r \in Requests /\ r[1] \in Nat \ {0}
      /\ pending' = {q \in pending : q[1] # r[1]}
      /\ OnTheWay \subseteq OnTheWay' \cup {r}
      /\ OnTheWay' \subseteq OnTheWay /\ Known' \subseteq Known
  <2>1. r \in Known
    BY <1>1 DEF Known, OnTheWay
  <2>2. r \in Requests /\ r[1] \in Nat \ {0}
    BY <2>1 DEF Typed, OneOwner
  <2>3. pending' = {q \in pending : q[1] # r[1]}
    BY <1>1 DEF Unregistered
  <2> QED
    BY <1>1, <1>2, <2>1, <2>2, <2>3 DEF OnTheWay, Known
<1>4. \A c \in Callers : c \in Waiter(r) => Active(c) /\ r = Request(c) /\ caller[c].id = r[1]
  <2>1. ASSUME NEW c \in Callers, c \in Waiter(r) PROVE Active(c) /\ r = Request(c) /\ caller[c].id = r[1]
    <3>1. <<r[1], c>> \in pending /\ caller[c].id = r[1]
      BY <2>1 DEF Waiter
    <3>2. <<r[1], c>> \in Known /\ <<r[1], c>>[1] = r[1]
      BY <3>1 DEF Known
    <3>3. r = <<r[1], c>>
      BY <1>3, <3>2 DEF OneOwner
    <3>4. Active(c)
      BY <1>3, <3>1 DEF OneOwner, Idle
    <3> QED
      BY <3>1, <3>3, <3>4 DEF Request
  <2> QED
    BY <2>1
<1>5. caller \in [Callers -> [at : {"idle", "register", "send", "wait"},
                              id : Nat, got : Requests \cup {NoAnswer}]]
  BY DEF Typed
<1>6. \A c \in Callers :
        /\ caller'[c] \in [at : {"idle", "register", "send", "wait"},
                           id : Nat, got : Requests \cup {NoAnswer}]
        /\ caller'[c].at = caller[c].at /\ caller'[c].id = caller[c].id
        /\ c \in Waiter(r) => caller'[c].got = r
        /\ c \notin Waiter(r) => caller'[c] = caller[c]
  BY <1>1, <1>3, <1>5
<1>7. \A c \in Callers : Active(c)' = Active(c) /\ Request(c)' = Request(c)
  BY <1>6 DEF Active, Request
<1>8. Typed'
  <2>1. caller' \in [Callers -> [at : {"idle", "register", "send", "wait"},
                                 id : Nat, got : Requests \cup {NoAnswer}]]
    BY <1>1, <1>6
  <2> QED
    BY <1>2, <1>3, <2>1 DEF Typed
<1>9. OneOwner'
  BY <1>2, <1>3, <1>4, <1>6, <1>7 DEF OneOwner
<1>10. OwnAnswer'
  BY <1>4, <1>6 DEF OwnAnswer, Request
<1>11. \A c \in Callers : caller[c].at \in {"send", "wait"} /\ caller'[c].got = NoAnswer =>
         /\ caller[c].got = NoAnswer /\ Active(c) /\ caller[c].id # r[1]
  <2>1. ASSUME NEW c \in Callers, caller[c].at \in {"send", "wait"}, caller'[c].got = NoAnswer
        PROVE  caller[c].got = NoAnswer /\ Active(c) /\ caller[c].id # r[1]
    <3>1. r # NoAnswer
      BY <1>3 DEF NoAnswer
    <3>2. c \notin Waiter(r) /\ caller[c].got = NoAnswer /\ Active(c)
      BY <1>6, <2>1, <3>1 DEF Active
    <3>3. Request(c) \in pending
      BY <2>1, <3>2 DEF Registered
    <3>4. caller[c].id # r[1]
      BY <3>2, <3>3 DEF Waiter, Request
    <3> QED
      BY <3>2, <3>4
  <2> QED
    BY <2>1
<1>12. Registered'
  BY <1>3, <1>6, <1>7, <1>11 DEF Registered, Request
<1>13. Travelling'
  BY <1>2, <1>3, <1>6, <1>7, <1>11 DEF Travelling, Request
<1>14. Dialling'
  BY <1>2, <1>7 DEF Dialling, connVars
<1> QED
  BY <1>8, <1>9, <1>10, <1>12, <1>13, <1>14

(* connect opens the socket once, before anybody may call.                 *)
LEMMA ConnectIInv ==
  ASSUME IInv, Connect
  PROVE  IInv'
<1> USE DEF IInv
<1>1. /\ UNCHANGED <<callVars, outbox, nodeHas, answers>>
      /\ connector' \in [at : {"dial", "spawned", "returned", "done", "gaveUp"}, dials : Nat]
      /\ \/ connector.at = "dial" /\ socket' = socket /\ hasSender' = hasSender
         \/ connector.at = "dial" /\ connector'.at # "dial"
         \/ connector'.at # "dial" /\ socket' = socket
  BY DEF Connect, DialFails, DialSucceeds, MarkConnected, NoteConnected, wireVars, Dialling
<1>2. /\ pending' = pending /\ requestId' = requestId /\ caller' = caller /\ outbox' = outbox
      /\ \A c \in Callers : Active(c)' = Active(c) /\ Request(c)' = Request(c)
      /\ Known' = Known /\ OnTheWay' = OnTheWay
  BY <1>1 DEF callVars, Active, Request, Known, OnTheWay
<1>3. Typed' /\ OneOwner' /\ OwnAnswer' /\ Registered'
  BY <1>2 DEF Typed, OneOwner, OwnAnswer, Registered
<1>4. Travelling'
  BY <1>1, <1>2 DEF Travelling, Dialling, Active
<1>5. Dialling'
  BY <1>1, <1>2 DEF Dialling
<1> QED
  BY <1>3, <1>4, <1>5

-----------------------------------------------------------------------------
(* The invariant holds *)

(* Every behaviour starts with nothing on the way.                         *)
LEMMA InitIInv == Init => IInv
<1> SUFFICES ASSUME Init PROVE IInv
  OBVIOUS
<1> USE DEF Init
<1>1. Range(outbox) = {} /\ Known = {} /\ OnTheWay = {}
  BY DEF Range, Known, OnTheWay
<1>2. \A c \in Callers : ~Active(c) /\ caller[c] = Idle /\ caller[c].got = NoAnswer
  BY DEF Active, Idle
<1>3. Typed
  <2>1. Idle \in [at : {"idle", "register", "send", "wait"}, id : Nat, got : Requests \cup {NoAnswer}]
    BY DEF Idle
  <2> QED
    BY <1>1, <2>1 DEF Typed
<1>4. OneOwner /\ OwnAnswer /\ Dialling
  BY <1>1, <1>2 DEF OneOwner, OwnAnswer, Dialling
<1>5. Registered /\ Travelling
  BY <1>2 DEF Registered, Travelling, Active
<1> QED
  BY <1>3, <1>4, <1>5 DEF IInv

(* Every step keeps the invariant.                                         *)
LEMMA NextIInv == IInv /\ [Next]_vars => IInv'
<1> SUFFICES ASSUME IInv, [Next]_vars PROVE IInv'
  OBVIOUS
<1>1. CASE Connect
  BY <1>1, ConnectIInv
<1>2. ASSUME NEW c \in Callers, Call(c) \/ Reply(c) PROVE IInv'
  BY <1>2, CallIInv, RegisterIInv, SendIInv, EndOfCallIInv DEF Reply
<1>3. CASE WriteTask
  BY <1>3, WriteTaskIInv
<1>4. CASE ReadTask
  BY <1>4, ReadTaskIInv
<1>5. CASE ReadEnds \/ NodeAnswers \/ Closes \/ Stalls
  BY <1>5, WireIInv
<1>6. CASE UNCHANGED vars
  <2>1. /\ UNCHANGED <<callVars, connector, hasSender, socket>> /\ outbox' \in Seq(Requests)
        /\ OnTheWay' = OnTheWay
    BY <1>6 DEF vars, connVars, wireVars, OnTheWay, IInv, Typed
  <2> QED
    BY <2>1, MoveOn
<1> QED
  BY <1>1, <1>2, <1>3, <1>4, <1>5, <1>6 DEF Next

(* The inductive invariant holds in every state of every behaviour.        *)
THEOREM Inductive == Spec => []IInv
  BY InitIInv, NextIInv, PTL DEF Spec

(* An answer never reaches a call it was not meant for, however late it    *)
(* comes: ids are never used again, and entries outlive their calls.       *)
THEOREM OwnAnswerHolds == Spec => []OwnAnswer
<1>1. IInv => OwnAnswer
  BY DEF IInv
<1> QED
  BY <1>1, Inductive, PTL

(* A call that waits without its answer is registered, and while the       *)
(* socket is open its request or the answer is on the way.                 *)
THEOREM WaiterIsServedHolds == Spec => []WaiterIsServed
<1>1. IInv => WaiterIsServed
  BY DEF IInv, Registered, Travelling, Request, OnTheWay, WaiterIsServed
<1> QED
  BY <1>1, Inductive, PTL

-----------------------------------------------------------------------------
(* The client of the calendar *)

(* Messages to the server, and what a socket of the browser is             *)
Messages == [type : {"subscribe", "unsubscribe"}, proof : Proofs]
SocketTypes ==
  [at : {"unused", "connecting", "open", "closing"}, toServer : Seq(Messages),
   serverSubs : SUBSET Proofs, toClient : Seq(Proofs)]

ClientTyped ==
  /\ ws \in {0} \cup SocketIds
  /\ sockets \in [SocketIds -> SocketTypes]
  /\ subscriptions \subseteq Proofs /\ IsFiniteSet(subscriptions)
  /\ pendingMessages \subseteq Proofs /\ IsFiniteSet(pendingMessages)

ClientInv == ClientTyped /\ OpenSocketKnows

(* Calls of getStamp *)
Calls == [effect : Nat, proof : Proofs, answer : {None, "pending", "confirmed"}]

(* A run of the effect has its requests, and only the present one is       *)
(* listened to.  Whatever the page is subscribed to it can unsubscribe.    *)
PageShape ==
  /\ effect \in Nat /\ page \in Proofs \cup {None} /\ (page # None => effect # 0)
  /\ pollTimeout \in BOOLEAN /\ (page = None => unsubscribe = None /\ ~pollTimeout)
  /\ unsubscribe \in {None, page} /\ (unsubscribe = None => subscriptions = {})
  /\ requests \subseteq Calls
  /\ \A r \in requests : /\ r.effect \in 1..effect
                         /\ r.effect = effect => page \in {r.proof, None}

PageInv == ClientInv /\ PageShape /\ PageKeepsToItsProof

-----------------------------------------------------------------------------
(* Words to the server *)

(* A set is written down as a sequence of all its elements, each once.     *)
LEMMA WrittenDown ==
  ASSUME NEW S, IsFiniteSet(S)
  PROVE  /\ SetToSeq(S) \in Seq(S)
         /\ \A x \in S : \E i \in DOMAIN SetToSeq(S) : SetToSeq(S)[i] = x
         /\ \A i, j \in DOMAIN SetToSeq(S) : SetToSeq(S)[i] = SetToSeq(S)[j] => i = j
<1> DEFINE n == Cardinality(S)
<1>1. n \in Nat /\ ExistsBijection(1..n, S)
  BY FS_CardinalityType
<1>2. PICK f \in [1..n -> S] : IsInjective(f)
  BY <1>1 DEF ExistsBijection, Bijection, Injection, IsInjective
<1>3. SetToSeq(S) \in [1..n -> S] /\ IsInjective(SetToSeq(S))
  BY <1>2 DEF SetToSeq
<1> DEFINE q == SetToSeq(S)
<1> HIDE DEF q
<1>4. q \in Injection(1..n, S)
  BY <1>3 DEF Injection, IsInjective, q
<1>5. IsFiniteSet(1..n) /\ Cardinality(1..n) = n
  BY <1>1, FS_Interval
<1>6. q \in Surjection(1..n, S)
  BY <1>4, <1>5, FS_Injection
<1>7. q \in Seq(S) /\ DOMAIN q = 1..n
  BY <1>1, <1>3 DEF q
<1> QED
  BY <1>3, <1>6, <1>7 DEF Surjection, IsInjective, q

(* A subscribe said last is the last word, and other proofs' words change  *)
(* nothing.                                                                *)
LEMMA Said ==
  ASSUME NEW words \in Seq(Messages), NEW m \in Messages, NEW p
  PROVE  /\ Append(words, m) \in Seq(Messages)
         /\ m = Subscribe(p) => LastWordSubscribes(Append(words, m), p)
         /\ m.proof # p /\ LastWordSubscribes(words, p) => LastWordSubscribes(Append(words, m), p)
         /\ m.proof # p /\ Unmentioned(words, p) => Unmentioned(Append(words, m), p)
<1> DEFINE said == Append(words, m)
<1>1. /\ said \in Seq(Messages) /\ Len(words) \in Nat
      /\ DOMAIN words = 1..Len(words) /\ DOMAIN said = 1..(Len(words) + 1)
      /\ said[Len(words) + 1] = m /\ \A i \in 1..Len(words) : said[i] = words[i]
  OBVIOUS
<1> HIDE DEF said
<1>2. ASSUME m = Subscribe(p) PROVE LastWordSubscribes(said, p)
  <2>1. Len(words) + 1 \in DOMAIN said /\ \A j \in DOMAIN said : ~(j > Len(words) + 1)
    BY <1>1
  <2> QED
    BY <1>1, <1>2, <2>1 DEF LastWordSubscribes
<1>3. ASSUME m.proof # p, LastWordSubscribes(words, p) PROVE LastWordSubscribes(said, p)
  BY <1>1, <1>3 DEF LastWordSubscribes
<1>4. ASSUME m.proof # p, Unmentioned(words, p) PROVE Unmentioned(said, p)
  BY <1>1, <1>4 DEF Unmentioned
<1> QED
  BY <1>1, <1>2, <1>3, <1>4 DEF said

(* The server takes the first word: a last one that was a subscribe is     *)
(* still to come, or was this one.                                         *)
LEMMA Heard ==
  ASSUME NEW words \in Seq(Messages), words # <<>>, NEW p
  PROVE  /\ Head(words) \in Messages /\ Tail(words) \in Seq(Messages)
         /\ LastWordSubscribes(words, p) =>
              \/ LastWordSubscribes(Tail(words), p)
              \/ Unmentioned(Tail(words), p) /\ Head(words) = Subscribe(p)
         /\ Unmentioned(words, p) => Unmentioned(Tail(words), p) /\ Head(words).proof # p
<1> DEFINE rest == Tail(words)
<1>1. /\ Len(words) \in Nat /\ Len(words) > 0 /\ DOMAIN words = 1..Len(words)
      /\ Head(words) = words[1] /\ words[1] \in Messages
      /\ rest \in Seq(Messages) /\ DOMAIN rest = 1..(Len(words) - 1)
      /\ \A i \in 1..(Len(words) - 1) : rest[i] = words[i + 1]
  OBVIOUS
<1> HIDE DEF rest
<1>2. ASSUME LastWordSubscribes(words, p)
      PROVE  LastWordSubscribes(rest, p) \/ (Unmentioned(rest, p) /\ words[1] = Subscribe(p))
  <2>1. PICK i \in 1..Len(words) : /\ words[i] = Subscribe(p)
                                   /\ \A j \in 1..Len(words) : j > i => words[j].proof # p
    BY <1>1, <1>2 DEF LastWordSubscribes
  <2>2. CASE i = 1
    <3>1. \A j \in DOMAIN rest : rest[j].proof # p
      BY <1>1, <2>1, <2>2
    <3> QED
      BY <2>1, <2>2, <3>1 DEF Unmentioned
  <2>3. CASE i # 1
    <3>1. i - 1 \in DOMAIN rest /\ rest[i - 1] = Subscribe(p)
      BY <1>1, <2>1, <2>3
    <3>2. \A j \in DOMAIN rest : j > i - 1 => rest[j].proof # p
      BY <1>1, <2>1, <2>3
    <3> QED
      BY <3>1, <3>2 DEF LastWordSubscribes
  <2> QED
    BY <2>2, <2>3
<1>3. ASSUME Unmentioned(words, p) PROVE Unmentioned(rest, p) /\ words[1].proof # p
  <2>1. \A i \in 1..Len(words) : words[i].proof # p
    BY <1>1, <1>3 DEF Unmentioned
  <2>2. 1 \in 1..Len(words)
    BY <1>1
  <2>3. ASSUME NEW i \in 1..(Len(words) - 1) PROVE rest[i].proof # p
    <3>1. i + 1 \in 1..Len(words) /\ rest[i] = words[i + 1]
      BY <1>1
    <3> QED
      BY <2>1, <3>1
  <2> QED
    BY <1>1, <2>1, <2>2, <2>3 DEF Unmentioned
<1> QED
  BY <1>1, <1>2, <1>3 DEF rest

(* onopen says subscribe for every proof it greets with.                   *)
LEMMA Greeted ==
  ASSUME NEW words \in Seq(Messages), NEW G \in SUBSET Proofs, IsFiniteSet(G)
  PROVE  /\ words \o SetToSeq({Subscribe(p) : p \in G}) \in Seq(Messages)
         /\ \A p \in G : LastWordSubscribes(words \o SetToSeq({Subscribe(q) : q \in G}), p)
<1> DEFINE S == {Subscribe(p) : p \in G}
           greeting == SetToSeq(S)
           all == words \o greeting
<1>1. IsFiniteSet(S)
  <2>1. [p \in G |-> Subscribe(p)] \in Surjection(G, S)
    BY DEF Surjection
  <2> QED
    BY <2>1, FS_Surjection
<1>2. /\ greeting \in Seq(S)
      /\ \A x \in S : \E i \in DOMAIN greeting : greeting[i] = x
      /\ \A i, j \in DOMAIN greeting : greeting[i] = greeting[j] => i = j
  BY <1>1, WrittenDown
<1>3. \A x \in S : x \in Messages /\ x = Subscribe(x.proof)
  BY DEF Subscribe, Messages
<1> HIDE DEF S, greeting
<1>4. greeting \in Seq(Messages) /\ Len(greeting) \in Nat /\ DOMAIN greeting = 1..Len(greeting)
      /\ \A i \in DOMAIN greeting : greeting[i] \in S
  BY <1>2, <1>3
<1>5. /\ all \in Seq(Messages) /\ Len(words) \in Nat
      /\ DOMAIN all = 1..(Len(words) + Len(greeting))
      /\ \A i \in 1..Len(greeting) : all[Len(words) + i] = greeting[i]
  BY <1>4
<1> HIDE DEF all
<1>6. ASSUME NEW p \in G PROVE LastWordSubscribes(all, p)
  <2>1. Subscribe(p) \in S
    BY DEF S
  <2>2. PICK i \in 1..Len(greeting) : greeting[i] = Subscribe(p)
    BY <1>2, <1>4, <2>1
  <2>3. Len(words) + i \in DOMAIN all /\ all[Len(words) + i] = Subscribe(p)
    BY <1>4, <1>5, <2>2
  <2>4. ASSUME NEW j \in DOMAIN all, j > Len(words) + i PROVE all[j].proof # p
    <3>1. j - Len(words) \in 1..Len(greeting) /\ j - Len(words) # i
          /\ Len(words) + (j - Len(words)) = j
      BY <1>4, <1>5, <2>2, <2>4
    <3>2. all[j] = greeting[j - Len(words)]
      BY <1>5, <3>1
    <3>3. greeting[j - Len(words)] # Subscribe(p) /\ greeting[j - Len(words)] \in S
      BY <1>2, <1>4, <2>2, <3>1
    <3> QED
      BY <1>3, <3>2, <3>3
  <2> QED
    BY <2>3, <2>4 DEF LastWordSubscribes
<1> QED
  BY <1>5, <1>6 DEF all, greeting, S

-----------------------------------------------------------------------------
(* The client's own steps *)

(* Zero is null, and no socket.                                            *)
LEMMA Bounds == SocketIds \subseteq Nat /\ 0 \notin SocketIds
  BY ClientAssumption DEF SocketIds

(* The sockets that are not there, or no longer                            *)
LEMMA Ends == Unused \in SocketTypes /\ Closing \in SocketTypes /\ Closing.at = "closing"
<1>1. <<>> \in Seq(Messages) /\ <<>> \in Seq(Proofs)
  OBVIOUS
<1>2. Unused \in SocketTypes
  BY <1>1 DEF Unused, SocketTypes
<1> QED
  BY <1>2 DEF Closing, SocketTypes

(* Where this.ws does not become another open socket, what is known about  *)
(* the proofs still subscribed to has to be kept on the one it is.         *)
LEMMA KnownStill ==
  ASSUME ClientInv, ClientTyped', ws' = ws,
         ws # 0 /\ sockets'[ws].at = "open" =>
           /\ sockets[ws].at = "open"
           /\ \A p \in subscriptions' :
                \/ Knows(sockets'[ws], p)
                \/ p \in subscriptions /\ (Knows(sockets[ws], p) => Knows(sockets'[ws], p))
  PROVE  ClientInv'
<1>1. ASSUME IsOpen', NEW p \in subscriptions' PROVE Knows(sockets[ws], p)'
  <2>1. ws # 0 /\ sockets'[ws].at = "open" /\ sockets[ws].at = "open"
    BY <1>1 DEF IsOpen, WsAt
  <2>2. IsOpen
    BY <2>1 DEF IsOpen, WsAt
  <2>3. Knows(sockets'[ws], p)
    BY <1>1, <2>1, <2>2 DEF ClientInv, OpenSocketKnows
  <2> QED
    BY <2>3
<1> QED
  BY <1>1 DEF ClientInv, OpenSocketKnows

(* A new socket is not open yet.                                           *)
LEMMA EnsureWebSocketInv ==
  ASSUME ClientInv, EnsureWebSocket, subscriptions' \subseteq Proofs, IsFiniteSet(subscriptions'),
         pendingMessages' \subseteq Proofs, IsFiniteSet(pendingMessages'),
         ~IsOpen \/ subscriptions' \subseteq subscriptions
  PROVE  ClientInv'
<1>1. CASE ~NoSocket
  <2>1. ws' = ws /\ sockets' = sockets
    BY <1>1 DEF EnsureWebSocket
  <2>2. ClientTyped'
    BY <2>1 DEF ClientInv, ClientTyped
  <2> QED
    BY <2>1, <2>2, KnownStill DEF IsOpen, WsAt
<1>2. CASE NoSocket
  <2>1. PICK k \in SocketIds : ws' = k /\ sockets' = [sockets EXCEPT ![k].at = "connecting"]
    BY <1>2 DEF EnsureWebSocket
  <2>2. ClientTyped' /\ sockets'[k].at = "connecting"
    BY <2>1 DEF ClientInv, ClientTyped, SocketTypes
  <2>3. ~IsOpen'
    BY <2>1, <2>2, Bounds DEF IsOpen, WsAt
  <2> QED
    BY <2>2, <2>3 DEF ClientInv, OpenSocketKnows
<1> QED
  BY <1>1, <1>2

(* subscribeToConfirmation                                                 *)
LEMMA SubscribeInv ==
  ASSUME ClientInv, NEW p \in Proofs, SubscribeToConfirmation(p)
  PROVE  ClientInv'
<1>1. /\ subscriptions' = subscriptions \cup {p}
      /\ subscriptions' \subseteq Proofs /\ IsFiniteSet(subscriptions')
  BY FS_AddElement DEF SubscribeToConfirmation, ClientInv, ClientTyped
<1>2. CASE /\ IsOpen
           /\ sockets' = [sockets EXCEPT ![ws].toServer = Append(@, Subscribe(p))]
           /\ UNCHANGED <<ws, timer, pendingMessages>>
  <2>1. ws \in SocketIds /\ sockets[ws] \in SocketTypes /\ Subscribe(p) \in Messages
        /\ sockets[ws].at = "open"
    BY <1>2 DEF IsOpen, WsAt, ClientInv, ClientTyped, Subscribe, Messages
  <2> DEFINE words == sockets[ws].toServer
  <2>2. words \in Seq(Messages)
    BY <2>1 DEF SocketTypes
  <2>3. /\ Append(words, Subscribe(p)) \in Seq(Messages)
        /\ LastWordSubscribes(Append(words, Subscribe(p)), p)
    BY <2>1, <2>2, Said DEF Subscribe
  <2>4. sockets' = [sockets EXCEPT ![ws] = [sockets[ws] EXCEPT !.toServer = Append(words, Subscribe(p))]]
    BY <1>2
  <2>5. /\ sockets'[ws].toServer = Append(words, Subscribe(p))
        /\ sockets'[ws].serverSubs = sockets[ws].serverSubs
        /\ sockets' \in [SocketIds -> SocketTypes]
    BY <2>1, <2>3, <2>4 DEF ClientInv, ClientTyped, SocketTypes
  <2>6. ClientTyped'
    BY <1>1, <1>2, <2>5 DEF ClientInv, ClientTyped
  <2>7. \A q \in subscriptions' :
          \/ Knows(sockets'[ws], q)
          \/ q \in subscriptions /\ (Knows(sockets[ws], q) => Knows(sockets'[ws], q))
    <3> TAKE q \in subscriptions'
    <3>1. CASE q = p
      BY <2>3, <2>5, <3>1 DEF Knows
    <3>2. CASE q # p
      <4>1. /\ LastWordSubscribes(words, q) => LastWordSubscribes(sockets'[ws].toServer, q)
            /\ Unmentioned(words, q) => Unmentioned(sockets'[ws].toServer, q)
        <5>1. /\ LastWordSubscribes(words, q) => LastWordSubscribes(Append(words, Subscribe(p)), q)
              /\ Unmentioned(words, q) => Unmentioned(Append(words, Subscribe(p)), q)
          BY <2>1, <2>2, <3>2, Said DEF Subscribe
        <5>2. sockets'[ws].toServer = Append(words, Subscribe(p))
          BY <2>5
        <5> QED
          BY ONLY <5>1, <5>2
      <4>2. Knows(sockets[ws], q) => Knows(sockets'[ws], q)
        BY <2>5, <4>1 DEF Knows
      <4> QED
        BY <1>1, <3>2, <4>2
    <3> QED
      BY <3>1, <3>2
  <2> QED
    BY <1>2, <2>1, <2>6, <2>7, KnownStill
<1>3. CASE ~IsOpen /\ EnsureWebSocket /\ pendingMessages' = pendingMessages \cup {p}
  <2>1. pendingMessages' \subseteq Proofs /\ IsFiniteSet(pendingMessages')
    BY <1>3, FS_AddElement DEF ClientInv, ClientTyped
  <2> QED
    BY <1>1, <1>3, <2>1, EnsureWebSocketInv
<1> QED
  BY <1>2, <1>3 DEF SubscribeToConfirmation

(* What unsubscribe says is about a proof no longer subscribed to, and     *)
(* with no proof left there is no socket.                                  *)
LEMMA UnsubscribeInv ==
  ASSUME ClientInv, NEW p \in Proofs, CallUnsubscribe(p)
  PROVE  ClientInv'
<1>1. /\ subscriptions' = subscriptions \ {p} /\ pendingMessages' = pendingMessages
      /\ subscriptions' \subseteq Proofs /\ IsFiniteSet(subscriptions')
  BY FS_RemoveElement DEF CallUnsubscribe, ClientInv, ClientTyped
<1> DEFINE said == IF IsOpen THEN [sockets EXCEPT ![ws].toServer = Append(@, Unsubscribe(p))] ELSE sockets
<1>2. /\ said \in [SocketIds -> SocketTypes]
      /\ IsOpen => /\ ws \in SocketIds /\ sockets[ws].at = "open"
                   /\ \A q : q # p /\ Knows(sockets[ws], q) => Knows(said[ws], q)
  <2>1. CASE ~IsOpen
    BY <2>1 DEF ClientInv, ClientTyped
  <2>2. CASE IsOpen
    <3>1. ws \in SocketIds /\ sockets[ws] \in SocketTypes /\ Unsubscribe(p) \in Messages
          /\ sockets[ws].at = "open"
      BY <2>2 DEF IsOpen, WsAt, ClientInv, ClientTyped, Unsubscribe, Messages
    <3> DEFINE words == sockets[ws].toServer
    <3>2. words \in Seq(Messages)
      BY <3>1 DEF SocketTypes
    <3>3. Append(words, Unsubscribe(p)) \in Seq(Messages)
      BY <3>1, <3>2, Said
    <3>4. said = [sockets EXCEPT ![ws] = [sockets[ws] EXCEPT !.toServer = Append(words, Unsubscribe(p))]]
      BY <2>2
    <3> HIDE DEF said
    <3>5. /\ said[ws].toServer = Append(words, Unsubscribe(p))
          /\ said[ws].serverSubs = sockets[ws].serverSubs
          /\ said \in [SocketIds -> SocketTypes]
      BY <3>1, <3>3, <3>4 DEF ClientInv, ClientTyped, SocketTypes
    <3>6. ASSUME NEW q, q # p, Knows(sockets[ws], q) PROVE Knows(said[ws], q)
      <4>1. /\ LastWordSubscribes(words, q) => LastWordSubscribes(said[ws].toServer, q)
            /\ Unmentioned(words, q) => Unmentioned(said[ws].toServer, q)
        <5>1. /\ LastWordSubscribes(words, q) => LastWordSubscribes(Append(words, Unsubscribe(p)), q)
              /\ Unmentioned(words, q) => Unmentioned(Append(words, Unsubscribe(p)), q)
          BY <3>1, <3>2, <3>6, Said DEF Unsubscribe
        <5>2. said[ws].toServer = Append(words, Unsubscribe(p))
          BY <3>5
        <5> QED
          BY ONLY <5>1, <5>2
      <4> QED
        BY <3>5, <3>6, <4>1 DEF Knows
    <3> QED
      BY <3>1, <3>5, <3>6
  <2> QED
    BY <2>1, <2>2
<1>3. CASE subscriptions' # {}
  <2>1. sockets' = said /\ ws' = ws
    BY <1>3 DEF CallUnsubscribe
  <2> HIDE DEF said
  <2>2. ClientTyped'
    BY <1>1, <1>2, <2>1 DEF ClientInv, ClientTyped
  <2>3. ~IsOpen => sockets' = sockets
    BY <2>1 DEF said
  <2> QED
    BY <1>1, <1>2, <2>1, <2>2, <2>3, KnownStill DEF IsOpen, WsAt
<1>4. CASE subscriptions' = {}
  <2>1. sockets' = (IF ws = 0 THEN said ELSE [said EXCEPT ![ws] = Closing]) /\ ws' = 0
    BY <1>4 DEF CallUnsubscribe
  <2> HIDE DEF said
  <2>3. sockets' \in [SocketIds -> SocketTypes]
    BY <1>2, <2>1, Ends
  <2> QED
    BY <1>1, <1>4, <2>1, <2>3 DEF ClientInv, ClientTyped, OpenSocketKnows
<1> QED
  BY <1>3, <1>4

(* onopen: whatever was said on this.ws before, the greeting is the last   *)
(* word, and it names every subscription.                                  *)
LEMMA OnOpenInv ==
  ASSUME ClientInv, NEW k \in SocketIds, OnOpen(k)
  PROVE  ClientInv'
<1> DEFINE opened == [sockets EXCEPT ![k].at = "open"]
           target == IF ws = k THEN "open" ELSE WsAt
           greeting == SetToSeq({Subscribe(p) : p \in Greeting})
<1>1. /\ opened \in [SocketIds -> SocketTypes]
      /\ \A j \in SocketIds : opened[j].toServer = sockets[j].toServer
      /\ \A j \in SocketIds : opened[j].at = IF j = k THEN "open" ELSE sockets[j].at
  BY DEF ClientInv, ClientTyped, SocketTypes
<1>2. /\ subscriptions' = subscriptions /\ ws' = ws
      /\ pendingMessages' \in {pendingMessages, {}}
      /\ sockets' = IF target # "open" THEN opened
                    ELSE [opened EXCEPT ![ws].toServer = @ \o greeting]
  BY DEF OnOpen
<1>3. pendingMessages' \subseteq Proofs /\ IsFiniteSet(pendingMessages')
  BY <1>2, FS_EmptySet DEF ClientInv, ClientTyped
<1>4. Greeting \in SUBSET Proofs /\ IsFiniteSet(Greeting)
  BY FS_Union DEF Greeting, ClientInv, ClientTyped
<1>5. CASE target = "open"
  <2>1. ws \in SocketIds /\ opened[ws] \in SocketTypes
    BY <1>1, <1>5 DEF ClientInv, ClientTyped, WsAt
  <2> DEFINE words == sockets[ws].toServer
  <2>2. words \in Seq(Messages) /\ opened[ws].toServer = words
    BY <1>1, <2>1 DEF SocketTypes
  <2> HIDE DEF opened, target, greeting
  <2>3. words \o greeting \in Seq(Messages)
    BY <1>4, <2>2, Greeted DEF greeting
  <2>4. sockets' = [opened EXCEPT ![ws] = [opened[ws] EXCEPT !.toServer = words \o greeting]]
    BY <1>2, <1>5, <2>2
  <2>5. /\ sockets' \in [SocketIds -> SocketTypes]
        /\ sockets'[ws].toServer = words \o greeting
    BY <1>1, <2>1, <2>3, <2>4 DEF SocketTypes
  <2>6. ClientTyped'
    BY <1>2, <1>3, <2>5 DEF ClientInv, ClientTyped
  <2>7. ASSUME NEW p \in subscriptions' PROVE Knows(sockets[ws], p)'
    <3>1. p \in Greeting
      BY <1>2, <2>7 DEF Greeting
    <3>2. LastWordSubscribes(words \o greeting, p)
      BY <1>4, <2>2, <3>1, Greeted DEF greeting
    <3>3. LastWordSubscribes(sockets'[ws].toServer, p)
      BY ONLY <2>5, <3>2
    <3> QED
      BY <1>2, <3>3 DEF Knows
  <2> QED
    BY <2>6, <2>7 DEF ClientInv, OpenSocketKnows
<1>6. CASE target # "open"
  <2>1. sockets' = opened
    BY <1>2, <1>6
  <2> HIDE DEF opened
  <2>2. ~IsOpen'
    BY <1>1, <1>2, <1>6, <2>1 DEF IsOpen, WsAt, ClientInv, ClientTyped
  <2> QED
    BY <1>1, <1>2, <1>3, <2>1, <2>2 DEF ClientInv, ClientTyped, OpenSocketKnows
<1> QED
  BY <1>5, <1>6

(* A message ends a subscription at most.                                  *)
LEMMA OnMessageInv ==
  ASSUME ClientInv, NEW k \in SocketIds, OnMessage(k)
  PROVE  ClientInv' /\ subscriptions' = subscriptions \ {Head(sockets[k].toClient)}
<1>1. /\ subscriptions' = subscriptions \ {Head(sockets[k].toClient)}
      /\ ws' = ws /\ pendingMessages' = pendingMessages
      /\ sockets' = [sockets EXCEPT ![k].toClient = Tail(@)]
      /\ sockets[k].toClient # <<>>
  BY DEF OnMessage
<1>2. IsFiniteSet(subscriptions')
  BY <1>1, FS_RemoveElement DEF ClientInv, ClientTyped
<1>3. sockets[k] \in SocketTypes /\ Tail(sockets[k].toClient) \in Seq(Proofs)
  BY <1>1 DEF ClientInv, ClientTyped, SocketTypes
<1>4. sockets' = [sockets EXCEPT ![k] = [sockets[k] EXCEPT !.toClient = Tail(sockets[k].toClient)]]
  BY <1>1
<1>5. /\ sockets' \in [SocketIds -> SocketTypes]
      /\ \A j \in SocketIds : /\ sockets'[j].at = sockets[j].at
                              /\ sockets'[j].toServer = sockets[j].toServer
                              /\ sockets'[j].serverSubs = sockets[j].serverSubs
  BY <1>3, <1>4 DEF ClientInv, ClientTyped, SocketTypes
<1>6. ClientTyped'
  BY <1>1, <1>2, <1>5 DEF ClientInv, ClientTyped
<1> QED
  BY <1>1, <1>5, <1>6, KnownStill DEF Knows, ClientInv, ClientTyped

(* onclose leaves no socket.                                               *)
LEMMA OnCloseInv ==
  ASSUME ClientInv, NEW k \in SocketIds, OnClose(k)
  PROVE  ClientInv' /\ UNCHANGED subscriptions
<1>2. /\ sockets' = [sockets EXCEPT ![k] = Unused] /\ ws' = 0
      /\ UNCHANGED <<subscriptions, pendingMessages>>
  BY DEF OnClose
<1>3. ClientTyped'
  BY <1>2, Ends DEF ClientInv, ClientTyped
<1> QED
  BY <1>2, <1>3 DEF ClientInv, OpenSocketKnows, IsOpen, WsAt

(* Nor does a timer do anything to a socket that is open.                  *)
LEMMA TimerInv ==
  ASSUME ClientInv, TimerFires \/ StrayFires
  PROVE  ClientInv' /\ UNCHANGED subscriptions
<1>1. UNCHANGED <<subscriptions, pendingMessages>>
  BY DEF TimerFires, StrayFires
<1>2. CASE EnsureWebSocket
  BY <1>1, <1>2, EnsureWebSocketInv DEF ClientInv, ClientTyped
<1>3. CASE UNCHANGED <<ws, sockets>>
  <2>1. ClientTyped'
    BY <1>1, <1>3 DEF ClientInv, ClientTyped
  <2> QED
    BY <1>1, <1>3, <2>1, KnownStill
<1> QED
  BY <1>1, <1>2, <1>3 DEF TimerFires, StrayFires

(* What the server has heard it knows.                                     *)
LEMMA ServerReceivesInv ==
  ASSUME ClientInv, NEW k \in SocketIds, ServerReceives(k)
  PROVE  ClientInv' /\ UNCHANGED subscriptions
<1> DEFINE words == sockets[k].toServer
           m == Head(words)
           subs == IF m.type = "subscribe" THEN sockets[k].serverSubs \cup {m.proof}
                   ELSE sockets[k].serverSubs \ {m.proof}
<1>1. /\ UNCHANGED <<subscriptions, ws, pendingMessages>> /\ words # <<>>
      /\ sockets' = [sockets EXCEPT ![k] = [sockets[k] EXCEPT !.toServer = Tail(words),
                                                            !.serverSubs = subs]]
  BY DEF ServerReceives, handlerVars
<1>2. sockets[k] \in SocketTypes /\ words \in Seq(Messages)
  BY DEF ClientInv, ClientTyped, SocketTypes
<1>3. m \in Messages /\ Tail(words) \in Seq(Messages)
  BY <1>1, <1>2, Heard
<1>4. subs \in SUBSET Proofs
  BY <1>2, <1>3 DEF SocketTypes, Messages
<1> HIDE DEF m, words
<1>5. /\ sockets' \in [SocketIds -> SocketTypes]
      /\ sockets'[k].toServer = Tail(words) /\ sockets'[k].serverSubs = subs
      /\ \A j \in SocketIds : /\ sockets'[j].at = sockets[j].at
                              /\ j # k => sockets'[j] = sockets[j]
  BY <1>1, <1>2, <1>3, <1>4 DEF ClientInv, ClientTyped, SocketTypes
<1>6. ClientTyped'
  BY <1>1, <1>5 DEF ClientInv, ClientTyped
<1>7. ASSUME NEW p, Knows(sockets[k], p) PROVE Knows(sockets'[k], p)
  <2>1. CASE LastWordSubscribes(words, p)
    <3>1. \/ LastWordSubscribes(Tail(words), p)
          \/ Unmentioned(Tail(words), p) /\ m = Subscribe(p)
      BY <1>1, <1>2, <2>1, Heard DEF m
    <3>2. m = Subscribe(p) => p \in subs
      BY DEF Subscribe
    <3>3. LastWordSubscribes(Tail(words), p) \/ (Unmentioned(Tail(words), p) /\ p \in subs)
      BY ONLY <3>1, <3>2
    <3> QED
      BY <1>5, <3>3 DEF Knows
  <2>2. CASE Unmentioned(words, p) /\ p \in sockets[k].serverSubs
    <3>1. Unmentioned(Tail(words), p) /\ m.proof # p
      BY <1>1, <1>2, <2>2, Heard DEF m
    <3> QED
      BY <1>5, <2>2, <3>1 DEF Knows
  <2> QED
    BY <1>7, <2>1, <2>2 DEF Knows, words
<1>8. ASSUME ws # 0, NEW p, Knows(sockets[ws], p) PROVE Knows(sockets'[ws], p)
  BY <1>5, <1>7, <1>8 DEF ClientInv, ClientTyped
<1> QED
  BY <1>1, <1>5, <1>6, <1>8, KnownStill DEF ClientInv, ClientTyped

(* The server's announcements change nothing of what it knows.             *)
LEMMA ConfirmInv ==
  ASSUME ClientInv, NEW p \in Proofs, Confirm(p)
  PROVE  ClientInv' /\ UNCHANGED subscriptions
<1>1. /\ UNCHANGED <<subscriptions, ws, pendingMessages>>
      /\ sockets' = [k \in SocketIds |-> IF p \in sockets[k].serverSubs
                      THEN [sockets[k] EXCEPT !.toClient = Append(@, p)] ELSE sockets[k]]
  BY DEF Confirm, handlerVars
<1>2. ASSUME NEW k \in SocketIds
      PROVE  /\ sockets'[k] \in SocketTypes
             /\ sockets'[k].at = sockets[k].at
             /\ sockets'[k].toServer = sockets[k].toServer
             /\ sockets'[k].serverSubs = sockets[k].serverSubs
  <2>1. sockets[k] \in SocketTypes /\ Append(sockets[k].toClient, p) \in Seq(Proofs)
    BY DEF ClientInv, ClientTyped, SocketTypes
  <2> QED
    BY <1>1, <2>1 DEF SocketTypes
<1>3. ClientTyped'
  BY <1>1, <1>2 DEF ClientInv, ClientTyped
<1> QED
  BY <1>1, <1>2, <1>3, KnownStill DEF Knows, ClientInv, ClientTyped

(* A lost connection is not open.                                          *)
LEMMA DropInv ==
  ASSUME ClientInv, NEW k \in SocketIds, Drop(k)
  PROVE  ClientInv' /\ UNCHANGED subscriptions
<1>2. sockets' = [sockets EXCEPT ![k] = Closing] /\ UNCHANGED <<subscriptions, ws, pendingMessages>>
  BY DEF Drop, handlerVars
<1>3. ClientTyped' /\ \A j \in SocketIds : sockets'[j] = IF j = k THEN Closing ELSE sockets[j]
  BY <1>2, Ends DEF ClientInv, ClientTyped
<1> QED
  BY <1>2, <1>3, Ends, KnownStill DEF ClientInv, ClientTyped

(* Every step of the client by itself                                      *)
LEMMA ClientStepInv ==
  ASSUME ClientInv, ClientStep
  PROVE  ClientInv' /\ UNCHANGED subscriptions
<1>1. ASSUME NEW k \in SocketIds, OnOpen(k) PROVE UNCHANGED subscriptions
  BY <1>1 DEF OnOpen
<1> QED
  BY <1>1, OnOpenInv, OnCloseInv, ServerReceivesInv, DropInv, ConfirmInv, TimerInv DEF ClientStep

-----------------------------------------------------------------------------
(* The page *)

(* A run of the effect for p, with nothing subscribed to, shows p or has   *)
(* not heard of it.                                                        *)
LEMMA RunEffectShape ==
  ASSUME PageInv, NEW p \in Proofs, RunEffect(p),
         subscriptions' = {}, unsubscribe' = None, pollTimeout' \in BOOLEAN
  PROVE  PageShape' /\ PageKeepsToItsProof'
<1>1. /\ page' = p /\ effect' = effect + 1 /\ effect \in Nat
      /\ requests' \subseteq requests \cup {Ask(p, effect + 1)}
      /\ answered' => response'.id = p
  <2>1. CASE stampResponse = Stamp(p, "confirmed")
    BY <2>1 DEF RunEffect, PageInv, PageShape, Stamp
  <2>2. CASE stampResponse # Stamp(p, "confirmed")
    BY <2>2 DEF RunEffect, PageInv, PageShape
  <2> QED
    BY <2>1, <2>2
<1>2. ASSUME NEW r \in requests'
      PROVE  /\ r \in Calls
             /\ r.effect \in 1..effect'
             /\ r.effect = effect' => page' \in {r.proof, None}
  <2>1. CASE r \in requests
    BY <1>1, <2>1 DEF PageInv, PageShape
  <2>2. CASE r = Ask(p, effect + 1)
    BY <1>1, <2>2 DEF Ask, Calls
  <2> QED
    BY <1>1, <2>1, <2>2
<1>3. page' # None
  BY <1>1, PageAssumption
<1> QED
  BY <1>1, <1>2, <1>3 DEF PageShape, PageKeepsToItsProof

(* After the cleanup the page is subscribed to nothing.                    *)
LEMMA CleanUpInv ==
  ASSUME PageInv, CleanUp
  PROVE  /\ ClientInv' /\ subscriptions' = {}
         /\ pollTimeout' = FALSE /\ unsubscribe' = None
<1>1. CASE unsubscribe = None
  BY <1>1 DEF CleanUp, clientVars, handlerVars, PageInv, PageShape, ClientInv, ClientTyped,
              OpenSocketKnows, IsOpen, WsAt, Knows
<1>2. CASE unsubscribe # None
  <2>1. /\ unsubscribe = page /\ page \in Proofs /\ CallUnsubscribe(page)
        /\ subscriptions \subseteq {page}
    BY <1>2 DEF CleanUp, PageInv, PageShape, PageKeepsToItsProof
  <2> QED
    BY <2>1, UnsubscribeInv DEF CleanUp, CallUnsubscribe, PageInv
<1> QED
  BY <1>1, <1>2

(* The effect runs for the first time, and again for a new address.        *)
LEMMA MountInv ==
  ASSUME PageInv, NEW p \in Proofs, Mount(p) \/ Navigate(p)
  PROVE  PageInv'
<1>1. RunEffect(p)
  BY DEF Mount, Navigate
<1>2. CASE Mount(p)
  <2>1. UNCHANGED <<clientVars, pollTimeout, unsubscribe>> /\ page = None
    BY <1>2 DEF Mount
  <2>2. ClientInv'
    BY <2>1 DEF PageInv, clientVars, handlerVars, ClientInv, ClientTyped, OpenSocketKnows,
                IsOpen, WsAt, Knows
  <2>3. subscriptions' = {} /\ unsubscribe' = None /\ pollTimeout' \in BOOLEAN
    BY <2>1 DEF PageInv, PageShape, clientVars, handlerVars
  <2> QED
    BY <1>1, <2>2, <2>3, RunEffectShape DEF PageInv
<1>3. CASE Navigate(p)
  BY <1>1, <1>3, CleanUpInv, RunEffectShape DEF Navigate, PageInv
<1> QED
  BY <1>2, <1>3

(* A page that is gone hears nothing.                                      *)
LEMMA UnmountInv ==
  ASSUME PageInv, Unmount
  PROVE  PageInv'
<1>1. ClientInv' /\ subscriptions' = {} /\ pollTimeout' = FALSE /\ unsubscribe' = None
  BY CleanUpInv DEF Unmount
<1>2. page' = None /\ UNCHANGED <<effect, requests>>
  BY DEF Unmount
<1> QED
  BY <1>1, <1>2 DEF PageInv, PageShape, PageKeepsToItsProof

(* Requests come and go; what is asked is asked for the present address.   *)
LEMMA RequestInv ==
  ASSUME PageInv, PollFires \/ \E r \in requests : Answer(r) \/ FetchFails(r)
  PROVE  PageInv'
<1>1. ASSUME UNCHANGED <<clientVars, page, effect, unsubscribe, response, answered>>,
             pollTimeout' \in BOOLEAN, page = None => ~pollTimeout',
             requests' \subseteq Calls,
             \A r \in requests' : \/ r = Ask(page, effect) /\ page # None
                                  \/ \E q \in requests : r.effect = q.effect /\ r.proof = q.proof
      PROVE  PageInv'
  <2>1. ClientInv'
    BY <1>1 DEF PageInv, clientVars, handlerVars, ClientInv, ClientTyped, OpenSocketKnows,
                IsOpen, WsAt, Knows
  <2>2. \A r \in requests' : r.effect \in 1..effect /\ (r.effect = effect => page \in {r.proof, None})
    <3> TAKE r \in requests'
    <3>1. CASE r = Ask(page, effect) /\ page # None
      BY <3>1 DEF Ask, PageInv, PageShape
    <3>2. CASE \E q \in requests : r.effect = q.effect /\ r.proof = q.proof
      BY <3>2 DEF PageInv, PageShape
    <3> QED
      BY <1>1, <3>1, <3>2
  <2> QED
    BY <1>1, <2>1, <2>2 DEF PageInv, PageShape, PageKeepsToItsProof, clientVars, handlerVars
<1>2. CASE PollFires
  <2>1. /\ page # None /\ pollTimeout' = FALSE /\ requests' = requests \cup {Ask(page, effect)}
        /\ UNCHANGED <<clientVars, page, effect, unsubscribe, response, answered>>
    BY <1>2 DEF PollFires, PageInv, PageShape
  <2>2. Ask(page, effect) \in Calls
    BY <2>1 DEF Ask, Calls, PageInv, PageShape
  <2> QED
    BY <1>1, <2>1, <2>2 DEF PageInv, PageShape
<1>3. ASSUME NEW r \in requests, FetchFails(r) PROVE PageInv'
  <2>1. /\ requests' = requests \ {r} /\ pollTimeout' = (pollTimeout \/ IsMounted(r.effect))
        /\ UNCHANGED <<clientVars, page, effect, unsubscribe, response, answered>>
    BY <1>3 DEF FetchFails
  <2>2. pollTimeout' \in BOOLEAN /\ (page = None => ~pollTimeout')
    BY <2>1 DEF IsMounted, PageInv, PageShape
  <2> QED
    BY <1>1, <2>1, <2>2 DEF PageInv, PageShape
<1>4. ASSUME NEW r \in requests, Answer(r) PROVE PageInv'
  <2>1. PICK a \in {"pending", "confirmed"} : requests' = (requests \ {r}) \cup {[r EXCEPT !.answer = a]}
    BY <1>4 DEF Answer
  <2>2. /\ [r EXCEPT !.answer = a] \in Calls
        /\ [r EXCEPT !.answer = a].effect = r.effect /\ [r EXCEPT !.answer = a].proof = r.proof
    BY DEF Calls, PageInv, PageShape
  <2>3. UNCHANGED <<clientVars, page, effect, unsubscribe, response, answered, pollTimeout>>
    BY <1>4 DEF Answer
  <2> QED
    BY <1>1, <2>1, <2>2, <2>3 DEF PageInv, PageShape
<1> QED
  BY <1>2, <1>3, <1>4

(* An answer is heard by the effect that asked, if it is the present one;  *)
(* then it is about the proof in the address.                              *)
LEMMA ReceiveInv ==
  ASSUME PageInv, NEW r \in requests, Receive(r)
  PROVE  PageInv'
<1>1. /\ requests' = requests \ {r} /\ UNCHANGED <<page, effect>>
  BY DEF Receive
<1>2. CASE UNCHANGED <<clientVars, pollTimeout, unsubscribe, response, answered>>
  BY <1>1, <1>2 DEF PageInv, PageShape, PageKeepsToItsProof, clientVars, handlerVars, ClientInv,
                    ClientTyped, OpenSocketKnows, IsOpen, WsAt, Knows
<1>3. CASE IsMounted(r.effect)
  <2>1. r.proof = page /\ page \in Proofs /\ page # None
    BY <1>3 DEF IsMounted, PageInv, PageShape
  <2>2. response'.id = page
    BY <1>3, <2>1 DEF Receive, Stamp
  <2>3. /\ pollTimeout' \in BOOLEAN
        /\ \/ UNCHANGED <<clientVars, unsubscribe>>
           \/ SubscribeToConfirmation(page) /\ unsubscribe' = page
    BY <1>3, <2>1 DEF Receive, PollAgain, PageInv, PageShape
  <2>4. CASE UNCHANGED <<clientVars, unsubscribe>>
    BY <1>1, <2>1, <2>2, <2>3, <2>4 DEF PageInv, PageShape, PageKeepsToItsProof, clientVars,
       handlerVars, ClientInv, ClientTyped, OpenSocketKnows, IsOpen, WsAt, Knows
  <2>5. CASE SubscribeToConfirmation(page) /\ unsubscribe' = page
    <3>1. ClientInv' /\ subscriptions' = subscriptions \cup {page}
      BY <2>1, <2>5, SubscribeInv DEF PageInv, SubscribeToConfirmation
    <3> QED
      BY <1>1, <2>1, <2>2, <2>3, <2>5, <3>1 DEF PageInv, PageShape, PageKeepsToItsProof
  <2> QED
    BY <2>3, <2>4, <2>5
<1> QED
  BY <1>2, <1>3 DEF Receive

(* An event is about the proof in the address if it is about one that is   *)
(* subscribed to.                                                          *)
LEMMA MessageInv ==
  ASSUME PageInv, NEW k \in SocketIds, Message(k)
  PROVE  PageInv'
<1> DEFINE p == Head(sockets[k].toClient)
<1>1. ClientInv' /\ subscriptions' = subscriptions \ {p}
  BY OnMessageInv DEF Message, PageInv
<1>2. /\ UNCHANGED <<page, effect, requests, pollTimeout, unsubscribe>>
      /\ \/ p \in subscriptions /\ response'.id = p
         \/ UNCHANGED <<response, answered>>
  BY DEF Message, Stamp
<1> QED
  BY <1>1, <1>2 DEF PageInv, PageShape, PageKeepsToItsProof

-----------------------------------------------------------------------------

(* At the start nothing is subscribed to and nothing asked.               *)
LEMMA PageInitInv == PageInit => PageInv
<1> SUFFICES ASSUME PageInit PROVE PageInv
  OBVIOUS
<1>1. ClientInv
  BY Ends, FS_EmptySet DEF PageInit, ClientInit, ClientInv, ClientTyped, OpenSocketKnows, IsOpen, WsAt
<1>2. PageShape /\ PageKeepsToItsProof
  BY DEF PageInit, ClientInit, PageShape, PageKeepsToItsProof
<1> QED
  BY <1>1, <1>2 DEF PageInv

(* Every step of the page, of its client and of the server keeps it.      *)
LEMMA PageNextInv == PageInv /\ [PageNext]_allVars => PageInv'
<1> SUFFICES ASSUME PageInv, [PageNext]_allVars PROVE PageInv'
  OBVIOUS
<1>1. CASE ClientStep /\ UNCHANGED pageVars
  <2>1. ClientInv' /\ UNCHANGED <<subscriptions, pageVars>>
    BY <1>1, ClientStepInv DEF PageInv
  <2> QED
    BY <2>1 DEF PageInv, PageShape, PageKeepsToItsProof, pageVars
<1>2. CASE UNCHANGED allVars
  BY <1>2 DEF PageInv, PageShape, PageKeepsToItsProof, allVars, pageVars, clientVars, handlerVars,
              ClientInv, ClientTyped, OpenSocketKnows, IsOpen, WsAt, Knows
<1> QED
  BY <1>1, <1>2, MountInv, UnmountInv, RequestInv, ReceiveInv, MessageInv DEF PageNext

(* The page's invariant holds in every state of every behaviour.           *)
THEOREM PageInductive == PageSpec => []PageInv
  BY PageInitInv, PageNextInv, PTL DEF PageSpec

(* On the open socket this.ws refers to, the last word on every subscribed *)
(* proof is a subscribe, whichever old handlers have run on it.            *)
THEOREM OpenSocketKnowsHolds == PageSpec => []OpenSocketKnows
<1>1. PageInv => OpenSocketKnows
  BY DEF PageInv, ClientInv
<1> QED
  BY <1>1, PageInductive, PTL

(* Whatever answers come late, the page shows the proof in its address     *)
(* once it has heard of it, and is subscribed to no other.                 *)
THEOREM PageKeepsToItsProofHolds == PageSpec => []PageKeepsToItsProof
<1>1. PageInv => PageKeepsToItsProof
  BY DEF PageInv
<1> QED
  BY <1>1, PageInductive, PTL

=============================================================================
